----------------------------- MODULE PktStream -----------------------------
(***************************************************************************)
(* The network thread fed by one digitizer: the sender numbers its packets *)
(* 0, 1, 2, ... modulo McntMod and may be restarted, which takes it back   *)
(* to 0; the network loses and reorders packets but does not duplicate     *)
(* them.  The sender and the network are external to the repository; what  *)
(* is known of them is what get_header and the comments of process_packet  *)
(* rely on (a 56-bit serial number, gateware restarts, mcnt rollover).     *)
(*                                                                         *)
(* Where PktSock lets any packet arrive, here it is possible to say what   *)
(* the thread achieves: its loss accounting is exact and no disruption     *)
(* stops the flow of blocks for good.                                      *)
(***************************************************************************)
EXTENDS PktSock, FiniteSets

CONSTANTS
  MaxFlight,    \* bound: how many later packets may overtake a packet
  MaxLosses,    \* bound: packets lost
  MaxRestarts   \* bound: restarts of the sender

ASSUME FlightAssumption == MaxFlight \in Nat \ {0}
ASSUME FaultAssumption  == MaxLosses \in Nat /\ MaxRestarts \in Nat

\* After a rollover enough packets are too far back to count as merely late,
\* even if some of them are lost (2^56 is far beyond that).
ASSUME RolloverAssumption ==
  McntMod >= LATE_PKT_MCNT_THRESHOLD + 2 * Nm
               + MAX_OUT_OF_SEQ + 1 + MaxLosses + 2 * MaxFlight

\* The sender's sids are all good.
ASSUME SenderAssumption == SidVerdicts = {TRUE}

VARIABLES
  tx,         \* the mcnt of the sender's next packet
  flight,     \* the mcnts of the packets in flight
  losses,     \* packets lost so far
  restarts    \* restarts so far

net == <<tx, flight, losses, restarts>>

Packet(m) == [mcnt |-> m, sid_ok |-> TRUE]

StreamInit ==
  /\ Init
  /\ tx = 0
  /\ flight = {}
  /\ losses = 0
  /\ restarts = 0

\* A packet in flight is overtaken by at most MaxFlight later ones.
Send ==
  /\ \A m \in flight : (tx - m) % McntMod \in 1 .. MaxFlight
  /\ flight' = flight \cup {tx}
  /\ tx' = (tx + 1) % McntMod
  /\ UNCHANGED <<vars, losses, restarts>>

Deliver(m) ==
  /\ m \in flight
  /\ ProcessPacket(Packet(m))
  /\ flight' = flight \ {m}
  /\ UNCHANGED <<tx, losses, restarts>>

Lose(m) ==
  /\ m \in flight
  /\ losses < MaxLosses
  /\ losses' = losses + 1
  /\ flight' = flight \ {m}
  /\ UNCHANGED <<vars, tx, restarts>>

Restart ==
  /\ restarts < MaxRestarts
  /\ tx # 0
  /\ restarts' = restarts + 1
  /\ tx' = 0
  /\ UNCHANGED <<vars, flight, losses>>

\* The steps of the thread that wait for a block, and the thread downstream.
RingStep ==
  /\ \/ AcquireFirst
     \/ AcquireSecond
     \/ AcquireNext
     \/ \E b \in Blocks : FreeBlock(b)
  /\ UNCHANGED net

StreamNext ==
  \/ Send
  \/ \E m \in Mcnts : Deliver(m) \/ Lose(m)
  \/ Restart
  \/ RingStep

StreamSpec == StreamInit /\ [][StreamNext]_<<vars, net>>

\* The sender keeps sending, the network delivers what it does not lose, the
\* thread spins on a block until it gets it, and the thread downstream
\* frees what it was given.  Nothing makes losses or restarts happen.
Fairness ==
  /\ WF_<<vars, net>>(Send)
  /\ \A m \in Mcnts : WF_<<vars, net>>(Deliver(m))
  /\ WF_<<vars, net>>((AcquireFirst \/ AcquireSecond \/ AcquireNext) /\ UNCHANGED net)
  /\ \A b \in Blocks : WF_<<vars, net>>(FreeBlock(b) /\ UNCHANGED net)

FairStreamSpec == StreamSpec /\ Fairness

-----------------------------------------------------------------------------
\* The losses a block's header reports are the gaps in its data: for a block
\* held or handed on, missed_pkts[0] is the number of offsets that hold no
\* packet of the block, through reordering, loss, and the resets after a
\* rollover (only for a sender that is not restarted within the window, which
\* would send the same mcnts twice).
MissedIsGaps ==
  (pc = "recv" /\ restarts = 0) =>
    \A b \in Blocks :
      (sem[b] = 1 \/ b \in {block_i, NextBlock(block_i)}) =>
        block[b].missed = Nm - Cardinality(block[b].slots)

\* Losses, restarts of the sender and rollovers of the counter stop the
\* acquisition only for a while: blocks keep being marked filled, in every
\* position of the ring.
BlocksKeepComing == \A b \in Blocks : []<>(sem[b] = 1)
=============================================================================
