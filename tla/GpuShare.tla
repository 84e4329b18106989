------------------------------ MODULE GpuShare ------------------------------
(***************************************************************************)
(* Several instances of the program share a GPU.  Their GPU threads        *)
(* (s6_gpu_thread.cpp) serialize spectroscopy() (s6GPU.cu) with a named    *)
(* semaphore, which lives on when the processes that opened it are gone:   *)
(* an instance creates it or opens the one there is, unlinks its name when *)
(* it ends in good order, and leaves it as it is when it is killed.        *)
(* s6_init_fast.sh removes the name and starts all instances, and          *)
(* s6_stop.sh kills them all.                                              *)
(***************************************************************************)
EXTENDS Naturals, FiniteSets

CONSTANT Instances    \* the instances that s6_init_fast.sh starts

ASSUME InstancesAssumption == IsFiniteSet(Instances) /\ Instances # {}

\* "Setup parameters for two instances."
ASSUME TwoInstances == \A i, j, k \in Instances : i = j \/ j = k \/ i = k

VARIABLES
  name,         \* the semaphore the name in /dev/shm refers to, or NoSem
  value,        \* the semaphores' values
  gpu_sem,      \* the semaphore each instance has open, or NoSem
  running,      \* each instance's run_threads, hashpipe's flag
  pc,           \* where each instance's GPU thread is
  died_holding  \* has one died in spectroscopy() since all were started?

share_vars == <<name, value, gpu_sem, running, pc, died_holding>>

\* Semaphores, as many as there can be at a time.
Sems == 1 .. Cardinality(Instances) + 1
NoSem == 0
Unused == {s \in Sems : s # name /\ \A i \in Instances : gpu_sem[i] # s}

\* The process of an instance is gone, and the semaphore closed.
Ends(i) ==
  /\ pc' = [pc EXCEPT ![i] = "off"]
  /\ gpu_sem' = [gpu_sem EXCEPT ![i] = NoSem]

Goes(i, from, to) == pc[i] = from /\ pc' = [pc EXCEPT ![i] = to]

ShareInit ==
  /\ name = NoSem
  /\ value = [s \in Sems |-> 0]
  /\ gpu_sem = [i \in Instances |-> NoSem]
  /\ running = [i \in Instances |-> FALSE]
  /\ pc = [i \in Instances |-> "off"]
  /\ died_holding = FALSE

-----------------------------------------------------------------------------
(* The scripts.                                                            *)

\* Mutant: the old semaphore is not removed.
InitScript_KeepsSemaphore ==
  /\ \A i \in Instances : pc[i] = "off"
  /\ pc' = [i \in Instances |-> "open"]
  /\ running' = [i \in Instances |-> TRUE]
  /\ died_holding' = FALSE
  /\ UNCHANGED <<name, value, gpu_sem>>

\* "removing old semaphore, if any", then all instances are started, once none
\* is running any more.
InitScript ==
  /\ \A i \in Instances : pc[i] = "off"
  /\ name' = NoSem
  /\ pc' = [i \in Instances |-> "open"]
  /\ running' = [i \in Instances |-> TRUE]
  /\ died_holding' = FALSE
  /\ UNCHANGED <<value, gpu_sem>>

\* pkill -9: whatever each instance is doing.
StopScript ==
  /\ \E i \in Instances : pc[i] # "off"
  /\ pc' = [i \in Instances |-> "off"]
  /\ gpu_sem' = [i \in Instances |-> NoSem]
  /\ UNCHANGED <<name, value, running, died_holding>>

\* An instance is told to end in good order.
StopInstance(i) ==
  /\ pc[i] # "off"
  /\ running[i]
  /\ running' = [running EXCEPT ![i] = FALSE]
  /\ UNCHANGED <<name, value, gpu_sem, pc, died_holding>>

-----------------------------------------------------------------------------
(* The GPU thread.                                                         *)

\* Mutant: every instance creates a semaphore.
SemOpen_Creates(i) ==
  /\ Goes(i, "open", "loop")
  /\ \E s \in Unused :
       /\ name' = s
       /\ value' = [value EXCEPT ![s] = 1]
       /\ gpu_sem' = [gpu_sem EXCEPT ![i] = s]
  /\ UNCHANGED <<running, died_holding>>

\* sem_open with O_CREAT and the initial value 1.
SemOpen(i) ==
  /\ Goes(i, "open", "loop")
  /\ IF name # NoSem
       THEN /\ gpu_sem' = [gpu_sem EXCEPT ![i] = name]
            /\ UNCHANGED <<name, value>>
       ELSE \E s \in Unused :
              /\ name' = s
              /\ value' = [value EXCEPT ![s] = 1]
              /\ gpu_sem' = [gpu_sem EXCEPT ![i] = s]
  /\ UNCHANGED <<running, died_holding>>

Loop(i) ==
  /\ Goes(i, "loop", IF running[i] THEN "block" ELSE "fini")
  /\ UNCHANGED <<name, value, gpu_sem, running, died_holding>>

\* It has an input and an output block and, in spectroscopy(), copies the
\* samples to the GPU before it asks for the semaphore.
TakeBlock(i) ==
  /\ Goes(i, "block", "wait")
  /\ UNCHANGED <<name, value, gpu_sem, running, died_holding>>

SemWait(i) ==
  /\ Goes(i, "wait", "gpu")
  /\ value[gpu_sem[i]] > 0
  /\ value' = [value EXCEPT ![gpu_sem[i]] = @ - 1]
  /\ UNCHANGED <<name, gpu_sem, running, died_holding>>

\* The hits are in the output block: sem_post, then both blocks go on.
SemPost(i) ==
  /\ Goes(i, "gpu", "loop")
  /\ value' = [value EXCEPT ![gpu_sem[i]] = @ + 1]
  /\ UNCHANGED <<name, gpu_sem, running, died_holding>>

\* The end of the thread: the name is unlinked, whatever it refers to.
Fini(i) ==
  /\ pc[i] = "fini"
  /\ Ends(i)
  /\ name' = NoSem
  /\ UNCHANGED <<value, running, died_holding>>

\* Mutant: a cancelled thread posts the semaphore, whether it has it or not.
CancelInstance_Posts(i) ==
  /\ ~running[i]
  /\ pc[i] \in {"block", "wait"}
  /\ Ends(i)
  /\ value' = [value EXCEPT ![gpu_sem[i]] = @ + 1]
  /\ UNCHANGED <<name, running, died_holding>>

\* hashpipe cancels a thread that waits, and sem_unlink is not reached.
CancelInstance(i) ==
  /\ ~running[i]
  /\ pc[i] \in {"block", "wait"}
  /\ Ends(i)
  /\ UNCHANGED <<name, value, running, died_holding>>

\* "Errors are handled via c++ exceptions", which nothing catches.
Crash(i) ==
  /\ pc[i] = "gpu"
  /\ Ends(i)
  /\ died_holding' = TRUE
  /\ UNCHANGED <<name, value, running>>

Thread(i) == SemOpen(i) \/ Loop(i) \/ SemWait(i) \/ SemPost(i) \/ Fini(i)

ShareNext ==
  \/ InitScript \/ StopScript
  \/ \E i \in Instances :
       Thread(i) \/ TakeBlock(i) \/ StopInstance(i) \/ CancelInstance(i) \/ Crash(i)

ShareSpec == ShareInit /\ [][ShareNext]_share_vars

\* A thread goes on when it can, and one that asks for the semaphore is not
\* passed over for ever: another that has just posted it needs a new block
\* and copies its samples to the GPU before it asks again.  Nothing makes
\* blocks come, and the scripts need never run.
ShareFairness ==
  \A i \in Instances : WF_share_vars(Thread(i)) /\ SF_share_vars(SemWait(i))

FairShareSpec == ShareSpec /\ ShareFairness

-----------------------------------------------------------------------------
(* Properties.                                                             *)

\* The variables keep to their types.
ShareTypeOK ==
  /\ name \in Sems \cup {NoSem}
  /\ value \in [Sems -> {0, 1}]
  /\ gpu_sem \in [Instances -> Sems \cup {NoSem}]
  /\ running \in [Instances -> BOOLEAN]
  /\ pc \in [Instances -> {"off", "open", "loop", "block", "wait", "gpu", "fini"}]
  /\ died_holding \in BOOLEAN

\* "semaphore to serialize GPU access": no two instances use the GPU at a
\* time, although one that ends takes the name away from the others and the
\* next to open it creates a second semaphore.
Serialized ==
  \A i, j \in Instances : pc[i] = "gpu" /\ pc[j] = "gpu" => i = j

\* A semaphore that an instance waits for is posted again: unless an instance
\* died in spectroscopy() since all were started, an instance that waits gets
\* the GPU or ends.  In particular no kill of all instances, at whatever
\* moment, leaves a semaphore behind that the next ones wait for in vain.
NobodyWaitsForTheDead ==
  \A i \in Instances : pc[i] = "wait" ~> (pc[i] # "wait" \/ died_holding)
=============================================================================
