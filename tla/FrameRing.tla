----------------------------- MODULE FrameRing -----------------------------
(***************************************************************************)
(* The receive loop of the network thread (run() of s6_pktsock_thread.cpp) *)
(* and the ring of frames it shares with the kernel.  The kernel and       *)
(* hashpipe's pktsock functions are external: the kernel puts each packet  *)
(* of the interface in the frame at its head, unless that frame still      *)
(* belongs to the user, and then drops the packet; the receive function    *)
(* hands out the frame at next_idx and steps next_idx; a released frame    *)
(* belongs to the kernel again.  Module PktSock has what becomes of a      *)
(* packet in process_packet.                                               *)
(***************************************************************************)
EXTENDS Integers

CONSTANTS
  NFRAMES,      \* PKTSOCK_NFRAMES
  Kinds,        \* kinds of packets on the interface, see below
  MaxBadSize,   \* bound: packets of a wrong size
  SerialMod     \* bound: the data packets' serial numbers wrap around

ASSUME FramesAssumption == NFRAMES \in Nat \ {0}
ASSUME SerialAssumption == SerialMod \in Nat /\ SerialMod > NFRAMES + 1

\* "data": for bindport and of a right size; "bad_size": for bindport but of
\* a size the loop rejects; "other": not for bindport.
ASSUME KindsAssumption ==
  "data" \in Kinds /\ Kinds \subseteq {"data", "bad_size", "other"}
ASSUME BadSizeAssumption == MaxBadSize \in Nat

VARIABLES
  tp_status,   \* whose each frame is
  frame,       \* the packet in each frame
  head,        \* the kernel's next frame
  next_idx,    \* the thread's next frame
  p_frame,     \* the frame in hand, NFRAMES for NULL
  pc,          \* where the thread is
  sent,        \* serial of the last data packet put in the ring
  seen,        \* serial of the last data packet dropped at the start or processed
  bad_sizes    \* packets of a wrong size put in the ring so far

vars == <<tp_status, frame, head, next_idx, p_frame, pc, sent, seen, bad_sizes>>

Frames == 0 .. NFRAMES-1
NULL == NFRAMES
Serials == 0 .. SerialMod-1
Packets == [kind : Kinds, serial : Serials]
NoPacket == [kind |-> "other", serial |-> 0]

Init ==
  /\ tp_status = [f \in Frames |-> "kernel"]
  /\ frame = [f \in Frames |-> NoPacket]
  /\ head = 0 /\ next_idx = 0
  /\ p_frame = NULL
  /\ pc = "drop"
  /\ sent = 0 /\ seen = 0
  /\ bad_sizes = 0

Kernel(kind) ==
  LET serial == IF kind = "data" THEN (sent + 1) % SerialMod ELSE 0
  IN  /\ tp_status[head] = "kernel"
      /\ kind = "bad_size" => bad_sizes < MaxBadSize
      /\ frame' = [frame EXCEPT ![head] = [kind |-> kind, serial |-> serial]]
      /\ tp_status' = [tp_status EXCEPT ![head] = "user"]
      /\ head' = (head + 1) % NFRAMES
      /\ sent' = IF kind = "data" THEN serial ELSE sent
      /\ bad_sizes' = IF kind = "bad_size" THEN bad_sizes + 1 ELSE bad_sizes
      /\ UNCHANGED <<next_idx, p_frame, pc, seen>>

\* hashpipe_pktsock_recv_frame_nonblock when a frame is ready.
recv_frame ==
  /\ tp_status[next_idx] = "user"
  /\ next_idx' = (next_idx + 1) % NFRAMES

release_frame(f) == tp_status' = [tp_status EXCEPT ![f] = "kernel"]

\* What the thread has seen once it is done with a frame.
Seen(f) == IF frame[f].kind = "data" THEN frame[f].serial ELSE seen

\* "Drop all packets to date".
DropFrame ==
  /\ pc = "drop"
  /\ recv_frame
  /\ release_frame(next_idx)
  /\ seen' = Seen(next_idx)
  /\ UNCHANGED <<frame, head, p_frame, pc, sent, bad_sizes>>

DropDone ==
  /\ pc = "drop"
  /\ tp_status[next_idx] # "user"
  /\ pc' = "recv"
  /\ UNCHANGED <<tp_status, frame, head, next_idx, p_frame, sent, seen, bad_sizes>>

\* hashpipe_pktsock_recv_udp_frame_nonblock releases a frame that is not for
\* bindport and returns NULL: the loop tries again.
SkipFrame ==
  /\ pc = "recv"
  /\ recv_frame
  /\ frame[next_idx].kind = "other"
  /\ release_frame(next_idx)
  /\ UNCHANGED <<frame, head, p_frame, pc, sent, seen, bad_sizes>>

RecvFrame ==
  /\ pc = "recv"
  /\ recv_frame
  /\ frame[next_idx].kind # "other"
  /\ p_frame' = next_idx
  /\ pc' = "check"
  /\ UNCHANGED <<tp_status, frame, head, sent, seen, bad_sizes>>

\* A wrongly sized packet is ignored: on to the next one.
IgnoreFrame ==
  /\ pc = "check"
  /\ frame[p_frame].kind = "bad_size"
  /\ p_frame' = NULL
  /\ pc' = "recv"
  /\ UNCHANGED <<tp_status, frame, head, next_idx, sent, seen, bad_sizes>>

\* Mutant: the frame is released before the packet is processed.
AcceptFrame_ReleasesFirst ==
  /\ pc = "check"
  /\ frame[p_frame].kind = "data"
  /\ pc' = "process"
  /\ release_frame(p_frame)
  /\ UNCHANGED <<frame, head, next_idx, p_frame, sent, seen, bad_sizes>>

AcceptFrame ==
  /\ pc = "check"
  /\ frame[p_frame].kind = "data"
  /\ pc' = "process"
  /\ UNCHANGED <<tp_status, frame, head, next_idx, p_frame, sent, seen, bad_sizes>>

\* Mutant: the frame is not released.
ProcessFrame_Leak ==
  /\ pc = "process"
  /\ seen' = Seen(p_frame)
  /\ p_frame' = NULL
  /\ pc' = "recv"
  /\ UNCHANGED <<tp_status, frame, head, next_idx, sent, bad_sizes>>

\* process_packet reads the frame (it may have waited for a block), then the
\* frame is released.
ProcessFrame ==
  /\ pc = "process"
  /\ seen' = Seen(p_frame)
  /\ release_frame(p_frame)
  /\ p_frame' = NULL
  /\ pc' = "recv"
  /\ UNCHANGED <<frame, head, next_idx, sent, bad_sizes>>

Thread == DropFrame \/ DropDone \/ SkipFrame \/ RecvFrame \/ IgnoreFrame
            \/ AcceptFrame \/ ProcessFrame

Next == Thread \/ \E kind \in Kinds : Kernel(kind)

Spec == Init /\ [][Next]_vars

\* The thread runs, and data packets keep coming: when there is room for one
\* again and again, one is put in the ring in the end.
Fairness == WF_vars(Thread) /\ SF_vars(Kernel("data"))

FairSpec == Spec /\ Fairness

-----------------------------------------------------------------------------
(* Properties.                                                             *)

TypeOK ==
  /\ tp_status \in [Frames -> {"kernel", "user"}]
  /\ frame \in [Frames -> Packets \cup {NoPacket}]
  /\ head \in Frames /\ next_idx \in Frames
  /\ p_frame \in Frames \cup {NULL}
  /\ pc \in {"drop", "recv", "check", "process"}
  /\ sent \in Serials /\ seen \in Serials
  /\ bad_sizes \in 0 .. MaxBadSize

\* Every data packet the kernel put in the ring is seen once and in order,
\* while the kernel refills the ring under the thread's feet.
SeenInOrder == [][seen' # seen => seen' = (seen + 1) % SerialMod]_vars

\* Comment of the loop: a wrongly sized packet is ignored, so as long as data
\* packets keep coming the thread keeps processing new ones (unless it never
\* gets to the end of the packets it drops at the start).
KeepsReceiving ==
  <>[](pc = "drop") \/ []<><<pc = "process" /\ seen' # seen>>_vars

\* While no packet has a wrong size, the thread keeps processing: dropping what
\* came before it was ready, skipping other ports' packets and the kernel's
\* refusal of a full ring never leave a frame with the wrong owner.
KeepsReceivingWellSized == <>(bad_sizes # 0) \/ KeepsReceiving
=============================================================================
