------------------------------ MODULE DumpVolt ------------------------------
(***************************************************************************)
(* The request to dump the raw voltages, a status key that three parties   *)
(* write: an operator sets it, the network thread                          *)
(* (s6_pktsock_thread.cpp) looks at it after each filled block and resets  *)
(* it in another section of the status lock, and the output thread         *)
(* (s6_output_thread.cpp) overwrites it, without the lock, with a field of *)
(* its faststatus that nothing assigns: the query for it in                *)
(* s6_obs_data_fast.cpp is compiled out.                                   *)
(***************************************************************************)
EXTENDS Naturals

CONSTANTS
  MaxRequests,  \* bound: requests of the operator
  MaxDumps      \* bound: dumps

VARIABLES
  DUMPVOLT,     \* the status key
  faststatus_DUMPVOLT,  \* the field of the output thread's faststatus
  pc,           \* where the network thread is
  requests,     \* requests made so far
  dumps         \* dumps made so far

vars == <<DUMPVOLT, faststatus_DUMPVOLT, pc, requests, dumps>>

\* The field holds whatever the stack held.
Init ==
  /\ DUMPVOLT = 0
  /\ faststatus_DUMPVOLT \in {0, 1}
  /\ pc = "block"
  /\ requests = 0 /\ dumps = 0

Request ==
  /\ requests < MaxRequests
  /\ DUMPVOLT' = 1
  /\ requests' = requests + 1
  /\ UNCHANGED <<faststatus_DUMPVOLT, pc, dumps>>

\* A block was marked filled: has a voltage dump been requested?
NetRead ==
  /\ pc = "block"
  /\ pc' = IF DUMPVOLT # 0 THEN "reset" ELSE "block"
  /\ UNCHANGED <<DUMPVOLT, faststatus_DUMPVOLT, requests, dumps>>

NetReset ==
  /\ pc = "reset"
  /\ DUMPVOLT' = 0
  /\ pc' = "dump"
  /\ UNCHANGED <<faststatus_DUMPVOLT, requests, dumps>>

NetDump ==
  /\ pc = "dump"
  /\ dumps < MaxDumps
  /\ dumps' = dumps + 1
  /\ pc' = "block"
  /\ UNCHANGED <<DUMPVOLT, faststatus_DUMPVOLT, requests>>

\* The output thread processes a block, outside test mode or in it.
OutBlock ==
  /\ \/ DUMPVOLT' = faststatus_DUMPVOLT /\ UNCHANGED faststatus_DUMPVOLT
     \/ faststatus_DUMPVOLT' = 0 /\ UNCHANGED DUMPVOLT
  /\ UNCHANGED <<pc, requests, dumps>>

Next == Request \/ NetRead \/ NetReset \/ NetDump \/ OutBlock

Spec == Init /\ [][Next]_vars

-----------------------------------------------------------------------------
\* "reset so we only do it once": the network thread dumps the voltages at
\* most once for each request.
OncePerRequest == dumps <= requests
=============================================================================
