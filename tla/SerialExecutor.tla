--------------------------- MODULE SerialExecutor ---------------------------
(***************************************************************************)
(* What the reactor needs of its thread pool: the tasks submitted for an   *)
(* actor (a connection handler) run one at a time and in the order they    *)
(* were submitted, those of different actors run concurrently, and a       *)
(* shutdown drops what has not started.                                    *)
(*                                                                         *)
(* The tasks of an actor are numbered 1, 2, ... as they are submitted, so  *)
(* the backlog of actor a is done[a] + 1 .. submitted[a], less the one     *)
(* that is running.                                                        *)
(***************************************************************************)
EXTENDS Naturals

CONSTANT Act

VARIABLES submitted,  \* how many tasks were submitted for each actor
          running,    \* the number of its task that runs now, or 0
          done,       \* the number of its last task that ended
          down        \* the executor is shut down

Init == /\ submitted = [a \in Act |-> 0]
        /\ running = [a \in Act |-> 0]
        /\ done = [a \in Act |-> 0]
        /\ down = FALSE

Submit(a) == /\ ~down
             /\ submitted' = [submitted EXCEPT ![a] = @ + 1]
             /\ UNCHANGED <<running, done, down>>

Start(a) == /\ ~down
            /\ running[a] = 0
            /\ done[a] < submitted[a]
            /\ running' = [running EXCEPT ![a] = done[a] + 1]
            /\ UNCHANGED <<submitted, done, down>>

(* A task ends when it returns and when it throws.                         *)
Finish(a) == /\ running[a] # 0
             /\ done' = [done EXCEPT ![a] = running[a]]
             /\ running' = [running EXCEPT ![a] = 0]
             /\ UNCHANGED <<submitted, down>>

Shutdown == /\ ~down
            /\ down' = TRUE
            /\ UNCHANGED <<submitted, running, done>>

Next == \/ \E a \in Act : Submit(a) \/ Start(a) \/ Finish(a)
        \/ Shutdown

Spec == Init /\ [][Next]_<<submitted, running, done, down>>

=============================================================================
