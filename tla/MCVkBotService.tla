--------------------------- MODULE MCVkBotService ---------------------------
(* Instances of VkBotService for TLC, and what the loop's scheduling gives. *)
EXTENDS VkBotService, TLC

Symmetry == Permutations(Mains) \cup Permutations(Gangs) \cup Permutations(TaskIds)

\* asyncio runs every ready callback, timers fire, and each await of the network
\* ends; nothing makes an event, a command or a failure come.
FairLoop ==
  /\ WF_vars(BootStart) /\ WF_vars(EndPause)
  /\ \A c \in Controllers :
       WF_vars(CreateRowSchedules(c)) /\ WF_vars(CreateDailySchedule(c))
  /\ \A m \in Mains : WF_vars(MainSteps(m))
  /\ \A g \in Gangs :
       /\ WF_vars(ListenerBegins(g) \/ GeneratorStops(g) \/ ListenerCancelled(g))
       /\ WF_vars(WorkerSteps(g))

\* VK answers the greeting again and again, and a worker that keeps coming back
\* to a queue that is not empty takes a task before the listener beside it fails.
FairVk ==
  /\ \A m \in Mains : SF_vars(\E g \in Gangs : AllocDone(m, g))
  /\ \A g \in Gangs : SF_vars(GetTask(g))

LiveSpec == Spec /\ FairLoop /\ FairVk

\* The worker of a pair has ended and its listener goes on: the gather waits for both,
\* so nobody takes tasks until the listener ends as well.
Workerless == \E m \in Mains : mpc[m] = "gather" /\ wrk[gang[m]] = "ended"

\* While the service stays started every accepted task is finished, whatever its
\* handler or the listener does: a retry is bounded, and a failed pair is replaced by a
\* new one.  Not so if a worker that returned on a cancelled RPC (service.py 149-150,
\* asynctask/client.py 233-242) is missing for ever: the tasks behind it then wait.
QueuedTaskFinishes ==
  []<>~Workerless =>
    \A t \in TaskIds : fate[t] = "queued" ~> fate[t] \in Finished \/ stopping

\* A service that stays started comes back to a listener and a worker both at work,
\* with the same exception: only the failure of its listener replaces a pair whose
\* worker has returned.
KeepsServing ==
  <>[]~stopping /\ []<>~Workerless =>
    []<>(\E g \in Gangs : lst[g] = "poll" /\ wrk[g] = "getting")

\* After a last stop every main, listener and worker comes to its end.
StopIsFinal ==
  <>[]stopping =>
    <>[](/\ \A m \in Mains : ~MainLive(m)
         /\ \A g \in Gangs : ~PairLive(g))
=============================================================================
