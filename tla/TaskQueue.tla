------------------------------ MODULE TaskQueue ------------------------------
(***************************************************************************)
(* What VkBotService promises about the tasks it accepts (the events of    *)
(* VK and the scheduled messages that execute_in_worker puts in _queue).   *)
(* An accepted task waits, runs, and either is finished for good or, if    *)
(* the run failed and it was among the first MaxRetries runs, waits again. *)
(* Nothing is said of which worker runs it or of when the service stops.   *)
(***************************************************************************)
EXTENDS Naturals

CONSTANTS TaskIds,      \* the tasks a behaviour may accept
          MaxRetries    \* runs after which a failed task is still put back

VARIABLES state,        \* state[t]: where task t stands
          tries         \* tries[t]: how many times t was run

vars == <<state, tries>>

\* A finished task is saved as a row, abandoned by a save that failed, dropped
\* after "Access denied", or lost with the worker that was running it.
Finished == {"saved", "unsaved", "denied", "lost"}

States == {"new", "queued", "held"} \cup Finished

TypeOK == /\ state \in [TaskIds -> States]
          /\ tries \in [TaskIds -> 0..MaxRetries + 1]

Init == /\ state = [t \in TaskIds |-> "new"]
        /\ tries = [t \in TaskIds |-> 0]

\* execute_in_worker puts a task in the queue.
Accept(t) == /\ state[t] = "new"
             /\ state' = [state EXCEPT ![t] = "queued"]
             /\ UNCHANGED tries

\* A worker takes it and runs it once.
Run(t) == /\ state[t] = "queued"
          /\ state' = [state EXCEPT ![t] = "held"]
          /\ tries' = [tries EXCEPT ![t] = @ + 1]

\* The run failed and the task is put back.
PutBack(t) == /\ state[t] = "held"
              /\ tries[t] <= MaxRetries
              /\ state' = [state EXCEPT ![t] = "queued"]
              /\ UNCHANGED tries

\* The task leaves the service.
Finish(t) == /\ state[t] = "held"
             /\ \E s \in Finished : state' = [state EXCEPT ![t] = s]
             /\ UNCHANGED tries

Next == \E t \in TaskIds : Accept(t) \/ Run(t) \/ PutBack(t) \/ Finish(t)

Spec == Init /\ [][Next]_vars
=============================================================================
