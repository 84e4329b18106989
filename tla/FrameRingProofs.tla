--------------------------- MODULE FrameRingProofs ---------------------------
(***************************************************************************)
(* Theorems about module FrameRing: the types, and that every data packet  *)
(* the kernel puts in the ring is seen once and in order.                  *)
(***************************************************************************)
EXTENDS FrameRing, Arithmetic, TLAPS

\* How far frame f is ahead of frame i, around the ring.
Ahead(i, f) == RingAhead(NFRAMES, i, f)

NextSerial(s) == (s + 1) % SerialMod

\* The frames with data the thread has still to see when the kernel is n
\* frames ahead of it, and their places in the order of arrival: the frame in
\* hand comes before those in the ring.
Pending(n) ==
  {f \in Frames : /\ f = p_frame \/ Ahead(next_idx, f) < n
                  /\ frame[f].kind = "data"}

Place ==
  [f \in Frames |-> IF f = p_frame THEN 0 ELSE Ahead(next_idx, f) + 1]

Serial == [f \in Frames |-> frame[f].serial]

\* The frames of F, in the order of place, hold the serials after first up to
\* and including last.
Consecutive(F, place, serial, first, last) ==
  /\ F = {} => last = first
  /\ \A f \in F :
       (\A g \in F : place[f] <= place[g]) => serial[f] = NextSerial(first)
  /\ \A f, g \in F :
       /\ place[f] < place[g]
       /\ \A h \in F : place[h] <= place[f] \/ place[g] <= place[h]
       => serial[g] = NextSerial(serial[f])
  /\ \A f \in F :
       (\A g \in F : place[g] <= place[f]) => serial[f] = last

\* Who owns which frame when the kernel is n frames ahead: the user those in
\* between and the one in hand, which is the last the kernel comes to; of the
\* others the thread keeps the rejected ones.
Owned(n) ==
  /\ Ahead(next_idx, head) = IF n = NFRAMES THEN 0 ELSE n
  /\ \A f \in Frames : Ahead(next_idx, f) < n => tp_status[f] = "user"
  /\ \A f \in Frames :
       (f # p_frame /\ Ahead(next_idx, f) >= n /\ tp_status[f] = "user")
         => pc # "drop" /\ frame[f].kind = "bad_size"
  /\ p_frame # NULL =>
       /\ n < NFRAMES
       /\ Ahead(next_idx, p_frame) = NFRAMES - 1
       /\ tp_status[p_frame] = "user"
       /\ frame[p_frame].kind # "other"
  /\ pc = "process" => frame[p_frame].kind = "data"

InHand == p_frame # NULL <=> pc \in {"check", "process"}

TypeInv == TypeOK /\ InHand

Window(n) ==
  Owned(n) /\ Consecutive(Pending(n), Place, Serial, seen, sent)

\* Once the thread has gone around the ring to a frame it rejected, the kernel
\* waits for that frame for ever.
Stuck ==
  /\ tp_status[head] = "user"
  /\ \A f \in Frames : tp_status[f] = "user" => frame[f].kind = "bad_size"
  /\ pc \notin {"drop", "process"}
  /\ p_frame # NULL => frame[p_frame].kind = "bad_size"

RingInv == TypeInv /\ (Stuck \/ \E n \in 0 .. NFRAMES : Window(n))

-----------------------------------------------------------------------------
(* The ring's arithmetic and consecutive serials.                          *)

LEMMA NextFrame ==
  ASSUME NEW i \in Frames
  PROVE  (i + 1) % NFRAMES \in Frames
  BY RingNext, FramesAssumption DEF Frames

LEMMA AheadType ==
  ASSUME NEW i \in Frames, NEW f \in Frames
  PROVE  /\ Ahead(i, f) \in Frames
         /\ Ahead(i, f) = 0 <=> f = i
         /\ \A g \in Frames : Ahead(i, f) = Ahead(i, g) => f = g
  BY RingAheadType, FramesAssumption DEF Frames, Ahead

LEMMA AheadStep ==
  ASSUME NEW i \in Frames, NEW f \in Frames
  PROVE  Ahead((i + 1) % NFRAMES, f) =
           IF f = i THEN NFRAMES - 1 ELSE Ahead(i, f) - 1
  BY RingAheadStep, FramesAssumption DEF Frames, Ahead

LEMMA AheadNext ==
  ASSUME NEW i \in Frames, NEW f \in Frames
  PROVE  Ahead(i, (f + 1) % NFRAMES) =
           IF Ahead(i, f) = NFRAMES - 1 THEN 0 ELSE Ahead(i, f) + 1
  BY RingAheadNext, FramesAssumption DEF Frames, Ahead

LEMMA NextSerialType ==
  ASSUME NEW s \in Serials
  PROVE  NextSerial(s) \in Serials
  BY DivMod, SerialAssumption, FramesAssumption DEF NextSerial, Serials

\* Only the order of the places matters.
LEMMA ConsecutiveMoved ==
  ASSUME NEW F \in SUBSET Frames,
         NEW place \in [Frames -> Int], NEW place2 \in [Frames -> Int],
         NEW serial, NEW serial2, NEW first, NEW last,
         Consecutive(F, place, serial, first, last),
         \A f \in F : serial2[f] = serial[f],
         \A f, g \in F : place2[f] <= place2[g] <=> place[f] <= place[g]
  PROVE  Consecutive(F, place2, serial2, first, last)
  BY DEF Consecutive

\* A frame with the next serial comes behind the others.
LEMMA ConsecutiveAppended ==
  ASSUME NEW F \in SUBSET Frames, NEW x \in Frames, x \notin F,
         NEW place \in [Frames -> Int],
         NEW serial, NEW serial2, NEW first, NEW last,
         Consecutive(F, place, serial, first, last),
         \A f \in F : serial2[f] = serial[f] /\ place[f] < place[x],
         serial2[x] = NextSerial(last)
  PROVE  Consecutive(F \cup {x}, place, serial2, first, serial2[x])
  <1> DEFINE G == F \cup {x}
  <1>1. ASSUME NEW f \in G, \A g \in G : place[f] <= place[g]
        PROVE  serial2[f] = NextSerial(first)
    BY <1>1 DEF Consecutive
  <1>2. ASSUME NEW f \in G, NEW g \in G, place[f] < place[g],
               \A h \in G : place[h] <= place[f] \/ place[g] <= place[h]
        PROVE  serial2[g] = NextSerial(serial2[f])
    <2>1. f \in F
      BY <1>2
    <2>2. CASE g = x
      <3>1. \A h \in F : place[h] <= place[f]
        BY <1>2, <2>2
      <3> QED
        BY <2>1, <2>2, <3>1 DEF Consecutive
    <2>3. CASE g # x
      BY <1>2, <2>1, <2>3 DEF Consecutive
    <2> QED
      BY <2>2, <2>3
  <1>3. ASSUME NEW f \in G, \A g \in G : place[g] <= place[f]
        PROVE  serial2[f] = serial2[x]
    BY <1>3
  <1> QED
    BY <1>1, <1>2, <1>3 DEF Consecutive

\* The first frame is taken away.
LEMMA ConsecutiveTaken ==
  ASSUME NEW F \in SUBSET Frames, NEW x \in F,
         NEW place \in [Frames -> Int],
         NEW serial, NEW first, NEW last,
         Consecutive(F, place, serial, first, last),
         \A f \in F : f # x => place[x] < place[f]
  PROVE  /\ serial[x] = NextSerial(first)
         /\ Consecutive(F \ {x}, place, serial, serial[x], last)
  <1> DEFINE G == F \ {x}
  <1>1. serial[x] = NextSerial(first)
    BY DEF Consecutive
  <1>2. ASSUME G = {} PROVE last = serial[x]
    BY <1>2 DEF Consecutive
  <1>3. ASSUME NEW f \in G, \A g \in G : place[f] <= place[g]
        PROVE  serial[f] = NextSerial(serial[x])
    <2>1. \A h \in F : place[h] <= place[x] \/ place[f] <= place[h]
      BY <1>3
    <2> QED
      BY <2>1 DEF Consecutive
  <1>4. ASSUME NEW f \in G, NEW g \in G, place[f] < place[g],
               \A h \in G : place[h] <= place[f] \/ place[g] <= place[h]
        PROVE  serial[g] = NextSerial(serial[f])
    <2>1. \A h \in F : place[h] <= place[f] \/ place[g] <= place[h]
      BY <1>4
    <2> QED
      BY <1>4, <2>1 DEF Consecutive
  <1>5. ASSUME NEW f \in G, \A g \in G : place[g] <= place[f]
        PROVE  serial[f] = last
    BY <1>5 DEF Consecutive
  <1> QED
    BY <1>1, <1>2, <1>3, <1>4, <1>5 DEF Consecutive

-----------------------------------------------------------------------------
(* The types.                                                              *)

LEMMA TypeInit == Init => TypeInv
  BY FramesAssumption, SerialAssumption, BadSizeAssumption
  DEF Init, TypeInv, InHand, TypeOK, Frames, Packets, NoPacket, NULL, Serials

LEMMA TypeStep ==
  ASSUME TypeInv, [Next]_vars
  PROVE  TypeInv'
  <1> USE DEF TypeInv, TypeOK, InHand
  <1>0. NULL \notin Frames
    BY FramesAssumption DEF NULL, Frames
  <1>1. ASSUME NEW kind \in Kinds, Kernel(kind)
        PROVE  TypeInv'
    <2> DEFINE serial == IF kind = "data" THEN NextSerial(sent) ELSE 0
    <2>1. serial \in Serials /\ (kind = "data" => serial = NextSerial(sent))
      BY NextSerialType, SerialAssumption DEF Serials
    <2>2. /\ frame' = [frame EXCEPT ![head] = [kind |-> kind, serial |-> serial]]
          /\ sent' = IF kind = "data" THEN serial ELSE sent
      BY <1>1 DEF Kernel, NextSerial
    <2> HIDE DEF serial
    <2>3. frame' \in [Frames -> Packets \cup {NoPacket}] /\ sent' \in Serials
      BY <2>1, <2>2 DEF Packets
    <2>4. head' \in Frames
      BY <1>1, NextFrame DEF Kernel
    <2>5. bad_sizes' \in 0 .. MaxBadSize
      BY <1>1, BadSizeAssumption DEF Kernel
    <2> QED
      BY <1>1, <2>3, <2>4, <2>5 DEF Kernel
  <1>2. CASE DropFrame
    <2>1. next_idx' \in Frames
      BY <1>2, NextFrame DEF DropFrame, recv_frame
    <2>2. Seen(next_idx) \in Serials
      BY SerialAssumption DEF Seen, Packets, NoPacket, Serials
    <2> QED
      BY <1>2, <2>1, <2>2 DEF DropFrame, release_frame
  <1>3. CASE DropDone
    BY <1>3 DEF DropDone
  <1>4. CASE SkipFrame
    BY <1>4, NextFrame DEF SkipFrame, recv_frame, release_frame
  <1>5. CASE RecvFrame
    BY <1>0, <1>5, NextFrame DEF RecvFrame, recv_frame
  <1>6. CASE IgnoreFrame
    BY <1>6 DEF IgnoreFrame
  <1>7. CASE AcceptFrame
    BY <1>7 DEF AcceptFrame
  <1>8. CASE ProcessFrame
    <2>1. Seen(p_frame) \in Serials
      <3>1. p_frame \in Frames
        BY <1>8 DEF ProcessFrame
      <3> QED
        BY <3>1, SerialAssumption DEF Seen, Packets, NoPacket, Serials
    <2> QED
      BY <1>8, <2>1 DEF ProcessFrame, release_frame
  <1>9. CASE UNCHANGED vars
    BY <1>9 DEF vars
  <1> QED
    BY <1>1, <1>2, <1>3, <1>4, <1>5, <1>6, <1>7, <1>8, <1>9 DEF Next, Thread

-----------------------------------------------------------------------------
(* The order.                                                              *)

LEMMA PlaceType ==
  ASSUME TypeOK
  PROVE  /\ Place \in [Frames -> Int]
         /\ \A f \in Frames :
              Place[f] = IF f = p_frame THEN 0 ELSE Ahead(next_idx, f) + 1
         /\ \A f \in Frames : Serial[f] = frame[f].serial
  BY AheadType DEF Place, Serial, TypeOK, Frames

LEMMA NullIsNoFrame == NULL \notin Frames
  BY FramesAssumption DEF NULL, Frames

\* The kernel comes upon a frame of its own, which is not the one in hand.
LEMMA KernelKeepsOwned ==
  ASSUME TypeInv, NEW kind \in Kinds, Kernel(kind),
         NEW n \in 0 .. NFRAMES, Owned(n)
  PROVE  /\ n < NFRAMES /\ head # p_frame /\ Ahead(next_idx, head) = n
         /\ Owned(n + 1)'
  <1> DEFINE A(f) == Ahead(next_idx, f)
  <1>1. /\ head \in Frames /\ next_idx \in Frames
        /\ tp_status \in [Frames -> {"kernel", "user"}]
        /\ frame \in [Frames -> Packets \cup {NoPacket}]
        /\ p_frame \in Frames \cup {NULL}
    BY DEF TypeInv, TypeOK
  <1>2. /\ tp_status[head] = "kernel"
        /\ frame' = [frame EXCEPT ![head] =
                       [kind |-> kind,
                        serial |-> IF kind = "data" THEN NextSerial(sent) ELSE 0]]
        /\ tp_status' = [tp_status EXCEPT ![head] = "user"]
        /\ head' = (head + 1) % NFRAMES
        /\ UNCHANGED <<next_idx, p_frame, pc>>
    BY DEF Kernel, NextSerial
  <1>3. n < NFRAMES /\ A(head) = n
    BY <1>1, <1>2, FramesAssumption DEF Owned
  <1>4. p_frame # NULL => p_frame # head /\ A(p_frame) = NFRAMES - 1
    BY <1>1, <1>2 DEF Owned
  <1>5. head # p_frame
    BY <1>1, <1>4, NullIsNoFrame
  <1>6. p_frame # NULL => n + 1 < NFRAMES
    BY <1>1, <1>3, <1>4, AheadType, FramesAssumption
  <1>7. A(head') = IF n + 1 = NFRAMES THEN 0 ELSE n + 1
    BY <1>1, <1>2, <1>3, AheadNext, FramesAssumption
  <1>8. \A f \in Frames : f # head => A(f) # n /\ A(f) \in 0 .. NFRAMES - 1
    BY <1>1, <1>3, AheadType DEF Frames
  <1>9. \A f \in Frames : A(f) < n + 1 => tp_status'[f] = "user"
    BY <1>1, <1>2, <1>3, <1>8 DEF Owned
  <1>10. \A f \in Frames :
           (f # p_frame' /\ A(f) >= n + 1 /\ tp_status'[f] = "user")
             => pc' # "drop" /\ frame'[f].kind = "bad_size"
    BY <1>1, <1>2, <1>3, <1>8 DEF Owned
  <1>11. p_frame # NULL => tp_status'[p_frame] = "user" /\ frame'[p_frame] = frame[p_frame]
    BY <1>1, <1>2, <1>5 DEF Owned
  <1>12. p_frame' # NULL =>
           /\ n + 1 < NFRAMES
           /\ Ahead(next_idx', p_frame') = NFRAMES - 1
           /\ tp_status'[p_frame'] = "user"
           /\ frame'[p_frame'].kind # "other"
    BY <1>2, <1>4, <1>6, <1>11 DEF Owned
  <1>13. pc' = "process" => frame'[p_frame'].kind = "data"
    BY <1>2, <1>11 DEF Owned, TypeInv, InHand
  <1>14. Owned(n + 1)'
    BY <1>2, <1>7, <1>9, <1>10, <1>12, <1>13 DEF Owned
  <1> QED
    BY <1>3, <1>5, <1>14

LEMMA KernelKeeps ==
  ASSUME TypeInv, NEW kind \in Kinds, Kernel(kind),
         NEW n \in 0 .. NFRAMES, Window(n)
  PROVE  n < NFRAMES /\ Window(n + 1)'
  <1>1. /\ head \in Frames /\ next_idx \in Frames
        /\ frame \in [Frames -> Packets \cup {NoPacket}]
    BY DEF TypeInv, TypeOK
  <1>2. /\ n < NFRAMES /\ head # p_frame /\ Ahead(next_idx, head) = n
        /\ Owned(n + 1)'
    BY KernelKeepsOwned DEF Window
  <1> DEFINE new == [kind |-> kind,
                     serial |-> IF kind = "data" THEN NextSerial(sent) ELSE 0]
  <1>3. /\ frame' = [frame EXCEPT ![head] = new]
        /\ sent' = IF kind = "data" THEN NextSerial(sent) ELSE sent
        /\ UNCHANGED <<next_idx, p_frame, seen>>
    BY DEF Kernel, NextSerial
  <1>4. Place' = Place
    BY <1>3 DEF Place
  <1>5. /\ \A f \in Frames : f # head => frame'[f] = frame[f]
        /\ frame'[head].kind = kind
        /\ kind = "data" => frame'[head].serial = NextSerial(sent)
    BY <1>1, <1>3
  <1>6. \A f \in Frames : Serial[f] = frame[f].serial /\ Serial'[f] = frame'[f].serial
    BY DEF Serial
  <1>7. \A f \in Frames : f # head =>
          (Ahead(next_idx, f) < n + 1 <=> Ahead(next_idx, f) < n)
    <2>1. \A f \in Frames : f # head =>
            Ahead(next_idx, f) # n /\ Ahead(next_idx, f) \in 0 .. NFRAMES - 1
      BY <1>1, <1>2, AheadType DEF Frames
    <2> QED
      BY <2>1, FramesAssumption
  <1>8. /\ head \notin Pending(n) /\ Pending(n) \in SUBSET Frames
        /\ \A f \in Pending(n) : Place[f] < Place[head]
    <2>1. head \notin Pending(n) /\ Pending(n) \in SUBSET Frames
      BY <1>2 DEF Pending
    <2>2. ASSUME NEW f \in Pending(n)
          PROVE  Place[f] < Place[head]
      <3>1. f \in Frames /\ (f = p_frame \/ Ahead(next_idx, f) < n)
        BY DEF Pending
      <3> QED
        <4>1. /\ Place[head] = n + 1
              /\ Place[f] = IF f = p_frame THEN 0 ELSE Ahead(next_idx, f) + 1
          BY <1>1, <1>2, <3>1, PlaceType DEF TypeInv
        <4>2. Ahead(next_idx, f) \in 0 .. NFRAMES - 1
          BY <1>1, <3>1, AheadType DEF Frames
        <4> QED
          BY <3>1, <4>1, <4>2, FramesAssumption
    <2> QED
      BY <2>1, <2>2
  <1>9. Place \in [Frames -> Int]
    BY PlaceType DEF TypeInv
  <1>10. Consecutive(Pending(n), Place, Serial, seen, sent)
    BY DEF Window
  <1>11. CASE kind = "data"
    <2>1. Pending(n + 1)' = Pending(n) \cup {head}
      BY <1>1, <1>2, <1>3, <1>5, <1>7, <1>11 DEF Pending
    <2>2. Serial'[head] = NextSerial(sent)
      BY <1>1, <1>5, <1>6, <1>11
    <2>3. \A f \in Pending(n) : Serial'[f] = Serial[f]
      BY <1>5, <1>6, <1>8
    <2>4. Consecutive(Pending(n) \cup {head}, Place, Serial', seen, Serial'[head])
      BY <1>1, <1>8, <1>9, <1>10, <2>2, <2>3, ConsecutiveAppended
    <2> QED
      BY <1>2, <1>3, <1>4, <1>11, <2>1, <2>2, <2>4 DEF Window
  <1>12. CASE kind # "data"
    <2>1. Pending(n + 1)' = Pending(n)
      BY <1>1, <1>2, <1>3, <1>5, <1>7, <1>12 DEF Pending
    <2>2. \A f \in Pending(n) : Serial'[f] = Serial[f]
      BY <1>5, <1>6, <1>8
    <2>3. Consecutive(Pending(n), Place, Serial', seen, sent)
      BY <1>8, <1>9, <1>10, <2>2, ConsecutiveMoved
    <2> QED
      BY <1>2, <1>3, <1>4, <1>12, <2>1, <2>3 DEF Window
  <1> QED
    BY <1>2, <1>11, <1>12

\* How the distances change when the thread steps to the next frame.
LEMMA StepOver ==
  ASSUME TypeOK, recv_frame
  PROVE  /\ next_idx \in Frames /\ Ahead(next_idx, next_idx) = 0
         /\ \A f \in Frames :
              Ahead(next_idx', f) =
                IF f = next_idx THEN NFRAMES - 1 ELSE Ahead(next_idx, f) - 1
         /\ \A f \in Frames : f # next_idx =>
              Ahead(next_idx, f) \in 1 .. NFRAMES - 1
         /\ \A f \in Frames : Place'[f] =
              IF f = p_frame' THEN 0 ELSE Ahead(next_idx', f) + 1
         /\ Place' \in [Frames -> Int]
  <1>1. next_idx \in Frames /\ next_idx' = (next_idx + 1) % NFRAMES
    BY DEF TypeOK, recv_frame
  <1>2. next_idx' \in Frames
    BY <1>1, NextFrame
  <1>3. \A f \in Frames : Place'[f] =
          IF f = p_frame' THEN 0 ELSE Ahead(next_idx', f) + 1
    BY DEF Place
  <1>4. Place' \in [Frames -> Int]
    BY <1>2, AheadType DEF Place, Frames
  <1>5. \A f \in Frames : f # next_idx =>
          Ahead(next_idx, f) \in 1 .. NFRAMES - 1
    BY <1>1, AheadType, FramesAssumption DEF Frames
  <1>6. Ahead(next_idx, next_idx) = 0
    BY <1>1, AheadType
  <1>7. \A f \in Frames :
          Ahead(next_idx', f) =
            IF f = next_idx THEN NFRAMES - 1 ELSE Ahead(next_idx, f) - 1
    BY <1>1, AheadStep
  <1> QED
    BY <1>1, <1>3, <1>4, <1>5, <1>6, <1>7

\* The thread takes the next frame and gives it back at once: one that it
\* drops, or one for another port.
LEMMA ReleaseKeeps ==
  ASSUME TypeInv, recv_frame, release_frame(next_idx), p_frame = NULL,
         NEW n \in 0 .. NFRAMES, Window(n),
         pc = "drop" \/ frame[next_idx].kind # "bad_size",
         UNCHANGED <<frame, head, p_frame, pc, sent>>,
         seen' = Seen(next_idx)
  PROVE  /\ n > 0 /\ Window(n - 1)'
         /\ seen' # seen => seen' = NextSerial(seen)
  <1> DEFINE i == next_idx
             A(f) == Ahead(next_idx, f)
             B(f) == Ahead(next_idx', f)
  <1>1. /\ i \in Frames /\ A(i) = 0 /\ head \in Frames
        /\ tp_status \in [Frames -> {"kernel", "user"}] /\ tp_status[i] = "user"
        /\ n \in Int /\ n <= NFRAMES /\ NFRAMES \in Int
    BY StepOver, FramesAssumption DEF TypeInv, TypeOK, recv_frame
  <1>2. \A f \in Frames : /\ B(f) = IF f = i THEN NFRAMES - 1 ELSE A(f) - 1
                          /\ f # i => A(f) \in 1 .. NFRAMES - 1
    BY StepOver DEF TypeInv
  <1>3. i # p_frame /\ \A f \in Frames : f # p_frame /\ f # p_frame'
    BY <1>1, NullIsNoFrame
  <1>4. n > 0
    BY <1>1, <1>3 DEF Window, Owned
  <1>5. tp_status' = [tp_status EXCEPT ![i] = "kernel"]
    BY DEF release_frame
  <1>6. Owned(n - 1)'
    <2>1. B(head) = IF n - 1 = NFRAMES THEN 0 ELSE n - 1
      BY <1>1, <1>2, <1>4 DEF Window, Owned
    <2>2. \A f \in Frames : B(f) < n - 1 => tp_status'[f] = "user"
      BY <1>1, <1>2, <1>4, <1>5 DEF Window, Owned
    <2>3. \A f \in Frames :
            (f # p_frame' /\ B(f) >= n - 1 /\ tp_status'[f] = "user")
              => pc' # "drop" /\ frame'[f].kind = "bad_size"
      <3>1. ASSUME NEW f \in Frames, B(f) >= n - 1, tp_status'[f] = "user"
            PROVE  pc # "drop" /\ frame[f].kind = "bad_size"
        <4>1. f # i /\ tp_status[f] = "user"
          BY <1>1, <1>5, <3>1
        <4>2. A(f) >= n
          BY <1>1, <1>2, <3>1, <4>1
        <4> QED
          BY <1>3, <4>1, <4>2 DEF Window, Owned
      <3> QED
        BY <3>1
    <2>4. pc' # "process"
      BY DEF TypeInv, InHand
    <2> QED
      BY <2>1, <2>2, <2>3, <2>4 DEF Owned
  <1>7. Pending(n - 1)' = Pending(n) \ {i}
    <2>1. \A f \in Frames : B(f) < n - 1 <=> (f # i /\ A(f) < n)
      BY <1>1, <1>2, <1>4
    <2> QED
      BY <1>3, <2>1 DEF Pending
  <1>8. /\ Place \in [Frames -> Int] /\ Place' \in [Frames -> Int]
        /\ Pending(n) \in SUBSET Frames
    BY PlaceType, StepOver DEF TypeInv, Pending
  <1>9. \A f \in Frames : /\ Place[f] = A(f) + 1
                          /\ Place'[f] = B(f) + 1
                          /\ Serial[f] = frame[f].serial
    BY <1>3, PlaceType, StepOver DEF TypeInv
  <1>10. Serial' = Serial
    BY DEF Serial
  <1>11. \A f, g \in Pending(n) \ {i} :
           Place'[f] <= Place'[g] <=> Place[f] <= Place[g]
    BY <1>2, <1>8, <1>9
  <1>12. Consecutive(Pending(n), Place, Serial, seen, sent)
    BY DEF Window
  <1>13. CASE frame[i].kind = "data"
    <2>1. i \in Pending(n) /\ seen' = Serial[i]
      BY <1>1, <1>4, <1>9, <1>13 DEF Pending, Seen
    <2>2. \A f \in Pending(n) : f # i => Place[i] < Place[f]
      BY <1>1, <1>2, <1>8, <1>9
    <2>3. /\ Serial[i] = NextSerial(seen)
          /\ Consecutive(Pending(n) \ {i}, Place, Serial, Serial[i], sent)
      BY <1>8, <1>12, <2>1, <2>2, ConsecutiveTaken
    <2>4. Consecutive(Pending(n) \ {i}, Place', Serial, Serial[i], sent)
      BY <1>8, <1>11, <2>3, ConsecutiveMoved
    <2> QED
      BY <1>4, <1>6, <1>7, <1>10, <2>1, <2>3, <2>4 DEF Window
  <1>14. CASE frame[i].kind # "data"
    <2>1. Pending(n) \ {i} = Pending(n) /\ seen' = seen
      BY <1>14 DEF Pending, Seen
    <2>2. Consecutive(Pending(n), Place', Serial, seen, sent)
      BY <1>8, <1>11, <1>12, <2>1, ConsecutiveMoved
    <2> QED
      BY <1>4, <1>6, <1>7, <1>10, <2>1, <2>2 DEF Window
  <1> QED
    BY <1>13, <1>14

\* The thread takes a frame in hand.  When the kernel is not ahead, that is a
\* frame it rejected on its last time around.
LEMMA RecvKeeps ==
  ASSUME TypeInv, RecvFrame, NEW n \in 0 .. NFRAMES, Window(n)
  PROVE  IF n = 0 THEN Stuck' ELSE Window(n - 1)'
  <1> DEFINE i == next_idx
             A(f) == Ahead(next_idx, f)
             B(f) == Ahead(next_idx', f)
  <1>1. /\ pc = "recv" /\ pc' = "check" /\ p_frame' = i
        /\ recv_frame /\ tp_status[i] = "user" /\ frame[i].kind # "other"
        /\ UNCHANGED <<tp_status, frame, head, sent, seen>>
    BY DEF RecvFrame, recv_frame
  <1>2. /\ i \in Frames /\ A(i) = 0 /\ head \in Frames
        /\ n \in Int /\ n <= NFRAMES /\ NFRAMES \in Int /\ NFRAMES > 0
    BY <1>1, StepOver, FramesAssumption DEF TypeInv, TypeOK
  <1>3. \A f \in Frames : /\ B(f) = IF f = i THEN NFRAMES - 1 ELSE A(f) - 1
                          /\ f # i => A(f) \in 1 .. NFRAMES - 1
    BY <1>1, StepOver DEF TypeInv
  <1>4. p_frame = NULL /\ \A f \in Frames : f # p_frame
    BY <1>1, NullIsNoFrame DEF TypeInv, InHand
  <1>5. CASE n = 0
    <2>1. head = i
      BY <1>2, <1>3, <1>5 DEF Window, Owned
    <2>2. \A f \in Frames : A(f) >= 0
      BY <1>2, <1>3
    <2>3. \A f \in Frames : tp_status[f] = "user" => frame[f].kind = "bad_size"
      BY <1>4, <1>5, <2>2 DEF Window, Owned
    <2> QED
      BY <1>1, <1>2, <1>5, <2>1, <2>3 DEF Stuck
  <1>6. CASE n # 0
    <2>1. B(head) = IF n - 1 = NFRAMES THEN 0 ELSE n - 1
      BY <1>2, <1>3, <1>6 DEF Window, Owned
    <2>2. \A f \in Frames : B(f) < n - 1 <=> (f # i /\ A(f) < n)
      BY <1>2, <1>3, <1>6
    <2>3. \A f \in Frames : B(f) < n - 1 => tp_status'[f] = "user"
      BY <1>1, <2>2 DEF Window, Owned
    <2>4. \A f \in Frames :
            (f # p_frame' /\ B(f) >= n - 1 /\ tp_status'[f] = "user")
              => pc' # "drop" /\ frame'[f].kind = "bad_size"
      <3>1. \A f \in Frames : f # i /\ B(f) >= n - 1 => A(f) >= n
        BY <1>2, <1>3, <1>6
      <3> QED
        BY <1>1, <1>4, <3>1 DEF Window, Owned
    <2>5. Owned(n - 1)'
      BY <1>1, <1>2, <1>3, <1>6, <2>1, <2>3, <2>4 DEF Owned
    <2>6. Pending(n - 1)' = Pending(n)
      <3>1. \A f \in Frames :
              (f = i \/ B(f) < n - 1) <=> (f = p_frame \/ A(f) < n)
        BY <1>2, <1>4, <1>6, <2>2
      <3> QED
        BY <1>1, <3>1 DEF Pending
    <2>7. /\ Place \in [Frames -> Int] /\ Place' \in [Frames -> Int]
          /\ Pending(n) \in SUBSET Frames
      BY <1>1, PlaceType, StepOver DEF TypeInv, Pending
    <2>8. \A f \in Frames : /\ Place[f] = A(f) + 1
                            /\ Place'[f] = IF f = i THEN 0 ELSE B(f) + 1
      BY <1>1, <1>4, PlaceType, StepOver DEF TypeInv
    <2>9. \A f \in Frames : Place'[f] = Place[f] - 1
      BY <1>2, <1>3, <2>8
    <2>10. \A f, g \in Pending(n) :
             Place'[f] <= Place'[g] <=> Place[f] <= Place[g]
      BY <2>7, <2>9
    <2>11. Serial' = Serial
      BY <1>1 DEF Serial
    <2>12. Consecutive(Pending(n), Place', Serial, seen, sent)
      BY <2>7, <2>10, ConsecutiveMoved DEF Window
    <2> QED
      BY <1>1, <1>6, <2>5, <2>6, <2>11, <2>12 DEF Window
  <1> QED
    BY <1>5, <1>6

\* The thread is done with the frame in hand: it keeps one it rejects and gives
\* back one it has processed.
LEMMA DoneKeeps ==
  ASSUME TypeInv, NEW n \in 0 .. NFRAMES, Window(n), p_frame # NULL,
         \/ frame[p_frame].kind = "bad_size" /\ UNCHANGED tp_status
         \/ frame[p_frame].kind = "data" /\ release_frame(p_frame),
         p_frame' = NULL, pc' = "recv",
         UNCHANGED <<frame, head, next_idx, sent>>,
         seen' = Seen(p_frame)
  PROVE  /\ Window(n)'
         /\ seen' # seen => seen' = NextSerial(seen)
  <1> DEFINE p == p_frame
             A(f) == Ahead(next_idx, f)
  <1>1. /\ p \in Frames /\ next_idx \in Frames
        /\ tp_status \in [Frames -> {"kernel", "user"}]
        /\ n \in Int /\ n < NFRAMES /\ NFRAMES \in Int
        /\ A(p) = NFRAMES - 1 /\ tp_status[p] = "user"
    BY FramesAssumption DEF TypeInv, TypeOK, Window, Owned
  <1>2. \A f \in Frames : f # p_frame'
    BY NullIsNoFrame
  <1>3. A(p) >= n
    BY <1>1
  <1>4. \A f \in Frames : f # p => tp_status'[f] = tp_status[f]
    BY <1>1 DEF release_frame
  <1>5. tp_status'[p] = "user" => frame[p].kind = "bad_size"
    BY <1>1 DEF release_frame
  <1>6. Owned(n)'
    <2>1. \A f \in Frames : A(f) < n => tp_status'[f] = "user"
      BY <1>1, <1>4 DEF Window, Owned
    <2>2. \A f \in Frames : A(f) >= n /\ tp_status'[f] = "user"
                              => frame[f].kind = "bad_size"
      BY <1>4, <1>5 DEF Window, Owned
    <2>3. Ahead(next_idx', head') = IF n = NFRAMES THEN 0 ELSE n
      BY DEF Window, Owned
    <2> QED
      BY <2>1, <2>2, <2>3 DEF Owned
  <1>7. Pending(n)' = Pending(n) \ {p}
    BY <1>1, <1>2, <1>3 DEF Pending
  <1>8. /\ Place \in [Frames -> Int] /\ Pending(n) \in SUBSET Frames
        /\ \A f \in Frames : Place[f] = IF f = p THEN 0 ELSE A(f) + 1
        /\ \A f \in Frames : A(f) \in 0 .. NFRAMES - 1
    BY <1>1, PlaceType, AheadType DEF TypeInv, Pending, Frames
  <1>9. Place' = [f \in Frames |-> A(f) + 1]
    BY <1>2 DEF Place
  <1>10. Place' \in [Frames -> Int] /\ \A f \in Frames \ {p} : Place'[f] = Place[f]
    BY <1>1, <1>8, <1>9
  <1>11. Serial' = Serial /\ Serial[p] = frame[p].serial
    BY <1>1 DEF Serial
  <1>12. Consecutive(Pending(n), Place, Serial, seen, sent)
    BY DEF Window
  <1>13. \A f, g \in Pending(n) \ {p} :
           Place'[f] <= Place'[g] <=> Place[f] <= Place[g]
    BY <1>8, <1>10
  <1>14. CASE frame[p].kind = "data"
    <2>1. p \in Pending(n) /\ seen' = Serial[p]
      BY <1>1, <1>11, <1>14 DEF Pending, Seen
    <2>2. \A f \in Pending(n) : f # p => Place[p] < Place[f]
      BY <1>1, <1>8
    <2>3. /\ Serial[p] = NextSerial(seen)
          /\ Consecutive(Pending(n) \ {p}, Place, Serial, Serial[p], sent)
      BY <1>8, <1>12, <2>1, <2>2, ConsecutiveTaken
    <2>4. Consecutive(Pending(n) \ {p}, Place', Serial, Serial[p], sent)
      BY <1>8, <1>10, <1>13, <2>3, ConsecutiveMoved
    <2> QED
      BY <1>6, <1>7, <1>11, <2>1, <2>3, <2>4 DEF Window
  <1>15. CASE frame[p].kind # "data"
    <2>1. Pending(n) \ {p} = Pending(n) /\ seen' = seen
      BY <1>15 DEF Pending, Seen
    <2>2. Consecutive(Pending(n), Place', Serial, seen, sent)
      BY <1>8, <1>10, <1>12, <1>13, <2>1, ConsecutiveMoved
    <2> QED
      BY <1>6, <1>7, <1>11, <2>1, <2>2 DEF Window
  <1> QED
    BY <1>14, <1>15

\* Once stuck, the thread only meets frames it rejected.
LEMMA StuckKeeps ==
  ASSUME TypeInv, Stuck, [Next]_vars
  PROVE  Stuck' /\ seen' = seen
  <1>1. /\ \A f \in Frames : tp_status[f] = "user" => frame[f].kind = "bad_size"
        /\ tp_status[head] = "user" /\ pc \notin {"drop", "process"}
        /\ p_frame # NULL => frame[p_frame].kind = "bad_size"
        /\ next_idx \in Frames
    BY DEF Stuck, TypeInv, TypeOK
  <1>2. ASSUME NEW kind \in Kinds, Kernel(kind)
        PROVE  FALSE
    BY <1>1, <1>2 DEF Kernel
  <1>3. CASE DropFrame \/ DropDone \/ SkipFrame \/ AcceptFrame \/ ProcessFrame
    BY <1>1, <1>3 DEF DropFrame, DropDone, SkipFrame, AcceptFrame, ProcessFrame,
                      recv_frame, TypeInv, InHand
  <1>4. CASE RecvFrame
    BY <1>1, <1>4 DEF RecvFrame, recv_frame, Stuck
  <1>5. CASE IgnoreFrame
    BY <1>1, <1>5 DEF IgnoreFrame, Stuck
  <1>6. CASE UNCHANGED vars
    BY <1>1, <1>6 DEF vars, Stuck
  <1> QED
    BY <1>2, <1>3, <1>4, <1>5, <1>6 DEF Next, Thread

\* A step that touches neither the ring nor the frame in hand.
LEMMA QuietKeeps ==
  ASSUME TypeInv, NEW n \in 0 .. NFRAMES, Window(n),
         UNCHANGED <<tp_status, frame, head, next_idx, p_frame, sent, seen>>,
         pc' # "drop" \/ pc = "drop",
         pc' = "process" => pc = "process" \/ frame[p_frame].kind = "data"
  PROVE  Window(n)'
  <1>1. Place' = Place /\ Serial' = Serial /\ Pending(n)' = Pending(n)
    BY DEF Place, Serial, Pending
  <1>2. Owned(n)'
    BY DEF Window, Owned
  <1> QED
    BY <1>1, <1>2 DEF Window

LEMMA WindowKeeps ==
  ASSUME TypeInv, [Next]_vars, NEW n \in 0 .. NFRAMES, Window(n)
  PROVE  /\ Stuck' \/ \E m \in 0 .. NFRAMES : Window(m)'
         /\ seen' # seen => seen' = NextSerial(seen)
  <1>0. n > 0 => n - 1 \in 0 .. NFRAMES
    BY FramesAssumption
  <1>1. ASSUME NEW kind \in Kinds, Kernel(kind)
        PROVE  (\E m \in 0 .. NFRAMES : Window(m)') /\ seen' = seen
    <2>1. n < NFRAMES /\ Window(n + 1)'
      BY <1>1, KernelKeeps
    <2>2. n + 1 \in 0 .. NFRAMES /\ seen' = seen
      BY <1>1, <2>1, FramesAssumption DEF Kernel
    <2> QED
      BY <2>1, <2>2
  <1>2. CASE DropFrame \/ SkipFrame
    <2>1. /\ recv_frame /\ release_frame(next_idx) /\ p_frame = NULL
          /\ pc = "drop" \/ frame[next_idx].kind # "bad_size"
          /\ UNCHANGED <<frame, head, p_frame, pc, sent>>
          /\ seen' = Seen(next_idx)
      BY <1>2 DEF DropFrame, SkipFrame, Seen, TypeInv, InHand
    <2>2. n > 0 /\ Window(n - 1)' /\ (seen' # seen => seen' = NextSerial(seen))
      BY <2>1, ReleaseKeeps
    <2> QED
      BY <1>0, <2>2
  <1>3. CASE DropDone \/ AcceptFrame \/ UNCHANGED vars
    <2>1. /\ UNCHANGED <<tp_status, frame, head, next_idx, p_frame, sent, seen>>
          /\ pc' # "drop" \/ pc = "drop"
          /\ pc' = "process" => pc = "process" \/ frame[p_frame].kind = "data"
      BY <1>3 DEF DropDone, AcceptFrame, vars
    <2> QED
      BY <2>1, QuietKeeps
  <1>4. CASE RecvFrame
    <2>1. IF n = 0 THEN Stuck' ELSE Window(n - 1)'
      BY <1>4, RecvKeeps
    <2>2. seen' = seen /\ n \in Nat
      BY <1>4, FramesAssumption DEF RecvFrame
    <2> QED
      BY <1>0, <2>1, <2>2
  <1>5. CASE IgnoreFrame \/ ProcessFrame
    <2>1. /\ p_frame # NULL
          /\ \/ frame[p_frame].kind = "bad_size" /\ UNCHANGED tp_status
             \/ frame[p_frame].kind = "data" /\ release_frame(p_frame)
          /\ p_frame' = NULL /\ pc' = "recv"
          /\ UNCHANGED <<frame, head, next_idx, sent>>
          /\ seen' = Seen(p_frame)
      BY <1>5 DEF IgnoreFrame, ProcessFrame, Seen, TypeInv, InHand, Window, Owned
    <2> QED
      BY <2>1, DoneKeeps
  <1> QED
    BY <1>1, <1>2, <1>3, <1>4, <1>5 DEF Next, Thread

LEMMA RingInit == Init => RingInv
  <1> SUFFICES ASSUME Init
               PROVE  Window(0)
    BY TypeInit, FramesAssumption DEF RingInv
  <1>1. /\ next_idx = 0 /\ head = 0 /\ p_frame = NULL /\ pc = "drop"
        /\ sent = seen
        /\ \A f \in Frames : tp_status[f] = "kernel" /\ frame[f].kind = "other"
    BY DEF Init, NoPacket
  <1>2. Ahead(next_idx, head) = 0
    BY <1>1 DEF Ahead, RingAhead
  <1>3. \A f \in Frames : ~(Ahead(next_idx, f) < 0)
    BY <1>1 DEF Ahead, RingAhead, Frames
  <1>4. Pending(0) = {}
    BY <1>1 DEF Pending
  <1>5. Consecutive({}, Place, Serial, seen, sent)
    BY <1>1 DEF Consecutive
  <1>6. Owned(0)
    BY <1>1, <1>2, <1>3, FramesAssumption DEF Owned
  <1> QED
    BY <1>4, <1>5, <1>6 DEF Window

LEMMA RingStep ==
  ASSUME RingInv, [Next]_vars
  PROVE  /\ RingInv'
         /\ seen' # seen => seen' = NextSerial(seen)
  <1>1. TypeInv /\ TypeInv'
    BY TypeStep DEF RingInv
  <1>2. CASE Stuck
    BY <1>1, <1>2, StuckKeeps DEF RingInv
  <1>3. CASE \E n \in 0 .. NFRAMES : Window(n)
    BY <1>1, <1>3, WindowKeeps DEF RingInv
  <1> QED
    BY <1>2, <1>3 DEF RingInv

\* The variables of the receive loop keep to their types, for every size of the
\* ring of frames.
THEOREM ReceiveTypeCorrect == Spec => []TypeOK
  <1>1. Init => TypeInv
    BY TypeInit
  <1>2. TypeInv /\ [Next]_vars => TypeInv'
    BY TypeStep
  <1>3. TypeInv => TypeOK
    BY DEF TypeInv
  <1> QED
    BY <1>1, <1>2, <1>3, PTL DEF Spec

\* Every data packet the kernel put in the ring is seen once and in order, for
\* every size of the ring, any number of packets and also after the ring has
\* leaked the frames of wrongly sized packets.
THEOREM FramesSeenInOrder == Spec => SeenInOrder
  <1>1. Init => RingInv
    BY RingInit
  <1>2. RingInv /\ [Next]_vars => RingInv'
    BY RingStep
  <1>3. RingInv /\ [Next]_vars
          => [seen' # seen => seen' = (seen + 1) % SerialMod]_vars
    BY RingStep DEF NextSerial
  <1> QED
    BY <1>1, <1>2, <1>3, PTL DEF Spec, SeenInOrder
=============================================================================
