---------------------------- MODULE VkBotService ----------------------------
(***************************************************************************)
(* The life cycle of src/app/services/vk_bot/service.py: the main task that *)
(* allocates the VK client and runs a listener and a worker side by side,  *)
(* the queue of tasks between them, the schedule tasks, and the redis      *)
(* commands that start, stop and restart all of it.                        *)
(*                                                                         *)
(* Everything runs on one asyncio loop, so one action is the code between  *)
(* two awaits.  The order in which ready coroutines run is left open.      *)
(* Task.cancel() only marks its target: the CancelledError is raised by    *)
(* the target's next step, and that step is the only one it can take.      *)
(***************************************************************************)
EXTENDS Naturals, Sequences, FiniteSets

CONSTANTS Mains,        \* slots for _main_task coroutines
          Gangs,        \* slots for a listener/worker pair of one gather
          TaskIds,      \* the tasks a behaviour may accept
          MaxRetries,   \* the 3 of `task.tries <= 3`
          Kinds,        \* the schedule tasks: one per row, and the daily statistic
          NoGang, NoTask,
          RpcCancels,   \* may a handler's RPC future be cancelled under it?
          Calm          \* are commands sent only when the last has settled?

ASSUME RetriesAssumption == MaxRetries \in Nat
ASSUME ToggleAssumption == RpcCancels \in BOOLEAN /\ Calm \in BOOLEAN
ASSUME KindsAssumption == Kinds \subseteq {"row", "daily"}
ASSUME SlotAssumption == NoGang \notin Gangs /\ NoTask \notin TaskIds

VARIABLES
  stopping,     \* self.stopping
  client,       \* self.client_vk: "none" or "open"
  ctl,          \* where the coroutine of each controller stands
  registered,   \* self._background_tasks.tasks
  mpc,          \* mpc[m]: where _main_task m stands ("none": no such task)
  cancel,       \* cancel[m]: a cancel() of m not yet raised in m
  gang,         \* gang[m]: the pair m created last
  lst, lcan,    \* each pair's _listen_vk, and whether it is marked cancelled
  wrk, wcan,    \* each pair's _worker, and whether it is marked cancelled
  held,         \* held[g]: the task the worker of g is at
  queue,        \* self._queue
  fate,         \* fate[t]: what has become of task t
  tries,        \* task.tries
  rows,         \* rows of the vk_tasks table written for t
  schedNew,     \* schedule tasks created whose first step has not run
  schedLive     \* schedule tasks in their loop

svcVars   == <<stopping, client, registered>>
mainVars  == <<mpc, cancel, gang>>
pairVars  == <<lst, lcan, wrk, wcan>>
taskVars  == <<held, queue, fate, tries, rows>>
schedVars == <<schedNew, schedLive>>
vars == <<svcVars, ctl, mainVars, pairVars, taskVars, schedVars>>

\* init() of main.py awaits start_service once; _listen_redis then handles the
\* commands one after the other.
Controllers == {"boot", "redis"}

Finished == {"saved", "unsaved", "denied", "lost"}

\* A gather is over and the main not yet resumed with what it returned or raised.
Woken == {"returned", "raised", "cancelled"}

ListenerLive == {"new", "poll", "pollClosed"}
WorkerLive   == {"new", "getting", "executing", "saving", "savingFailed"}

TypeOK ==
  /\ stopping \in BOOLEAN
  /\ client \in {"none", "open"}
  /\ ctl \in [Controllers -> {"begin", "idle", "reading", "closing", "pausing"}]
  /\ registered \subseteq Mains
  /\ mpc \in [Mains -> {"none", "new", "alloc", "gather", "sleep"} \cup Woken]
  /\ cancel \in [Mains -> {"none", "gather", "must"}]
  /\ gang \in [Mains -> Gangs \cup {NoGang}]
  /\ lst \in [Gangs -> ListenerLive \cup {"none", "failed", "ended", "cancelled"}]
  /\ wrk \in [Gangs -> WorkerLive \cup {"none", "failed", "ended", "cancelled"}]
  /\ lcan \in [Gangs -> BOOLEAN]
  /\ wcan \in [Gangs -> BOOLEAN]
  /\ held \in [Gangs -> TaskIds \cup {NoTask}]
  /\ queue \in Seq(TaskIds)
  /\ fate \in [TaskIds -> {"new", "queued", "held"} \cup Finished]
  /\ tries \in [TaskIds -> Nat]
  /\ rows \in [TaskIds -> Nat]
  /\ schedNew \in [Kinds -> Nat]
  /\ schedLive \in [Kinds -> Nat]

Init ==
  /\ stopping = TRUE
  /\ client = "none"
  /\ ctl = [c \in Controllers |-> IF c = "boot" THEN "begin" ELSE "idle"]
  /\ registered = {}
  /\ mpc = [m \in Mains |-> "none"]
  /\ cancel = [m \in Mains |-> "none"]
  /\ gang = [m \in Mains |-> NoGang]
  /\ lst = [g \in Gangs |-> "none"]
  /\ wrk = [g \in Gangs |-> "none"]
  /\ lcan = [g \in Gangs |-> FALSE]
  /\ wcan = [g \in Gangs |-> FALSE]
  /\ held = [g \in Gangs |-> NoTask]
  /\ queue = <<>>
  /\ fate = [t \in TaskIds |-> "new"]
  /\ tries = [t \in TaskIds |-> 0]
  /\ rows = [t \in TaskIds |-> 0]
  /\ schedNew = [k \in Kinds |-> 0]
  /\ schedLive = [k \in Kinds |-> 0]

-----------------------------------------------------------------------------
(* The pieces handlers share *)

MainLive(m) == mpc[m] # "none"
PairLive(g) == lst[g] \in ListenerLive \/ wrk[g] \in WorkerLive

BothEnded(g) == lst[g] = "ended" /\ wrk[g] = "ended"

\* asyncio.gather is done as soon as a child raised, or when both returned.
GatherOver(g) == \/ lst[g] \in {"failed", "cancelled"}
                 \/ wrk[g] \in {"failed", "cancelled"}
                 \/ BothEnded(g)

\* Mutants: gather does not hand the cancellation on; only to the listener.
MarksNobody(S) == UNCHANGED <<lcan, wcan>>
MarksListeners(S) ==
  /\ lcan' = [g \in Gangs |-> lcan[g] \/ (g \in S /\ lst[g] \in ListenerLive)]
  /\ UNCHANGED wcan

\* cancel() of the children in S marks the ones that have not finished.
MarkPairs(S) ==
  /\ lcan' = [g \in Gangs |-> lcan[g] \/ (g \in S /\ lst[g] \in ListenerLive)]
  /\ wcan' = [g \in Gangs |-> wcan[g] \/ (g \in S /\ wrk[g] \in WorkerLive)]

\* Mutant: client_vk is forgotten, not closed.
ReleasedUnclosed == client' = "none" /\ UNCHANGED lst

\* _release_vk: close() flags the client, which ends every events_generator
\* over it once the poll in flight has returned.
ReleaseVk ==
  /\ client' = "none"
  /\ lst' = [g \in Gangs |-> IF lst[g] = "poll" THEN "pollClosed" ELSE lst[g]]

\* Mutant: the tasks are forgotten, not cancelled.
SchedulesForgotten == UNCHANGED schedVars

\* stop_schedule_tasks: a cancelled schedule task never runs again, whether it
\* has made its first step or not.
StopScheduleTasks ==
  /\ schedNew'  = [k \in Kinds |-> 0]
  /\ schedLive' = [k \in Kinds |-> 0]

\* start_schedule_task
CreateSchedule(kind) ==
  schedNew' = [k \in Kinds |-> IF k = kind THEN schedNew[k] + 1 ELSE schedNew[k]]

\* Mutant: the put is repeated.
PutTwice(t) ==
  /\ fate[t] = "new"
  /\ fate' = [fate EXCEPT ![t] = "queued"]
  /\ queue' = queue \o <<t, t>>
  /\ UNCHANGED <<held, tries, rows>>

\* execute_in_worker(t); the queue is unbounded, so the put does not wait.
ExecuteInWorker(t) ==
  /\ fate[t] = "new"
  /\ fate' = [fate EXCEPT ![t] = "queued"]
  /\ queue' = Append(queue, t)
  /\ UNCHANGED <<held, tries, rows>>

\* Every cancellation and every end of a gather has reached its target.  A sleep
\* of seconds outlasts the few iterations of the loop that takes.
CancelsRaised ==
  /\ \A g \in Gangs : ~lcan[g] /\ ~wcan[g]
  /\ \A m \in Mains : /\ cancel[m] # "must"
                      /\ mpc[m] \notin Woken
                      /\ mpc[m] = "gather" => ~GatherOver(gang[m])

\* Nothing the last command started is still half done.
Settled ==
  /\ CancelsRaised
  /\ \A c \in Controllers : ctl[c] = "idle"
  /\ \A k \in Kinds : schedNew[k] = 0

\* A command _listen_redis takes up: it is not inside an earlier one, and the
\* loop has run the first step of main.py's start_service.
CommandTaken ==
  /\ ctl["redis"] = "idle"
  /\ ctl["boot"] # "begin"
  /\ Calm => Settled

-----------------------------------------------------------------------------
(* Commands *)

\* start_service up to the await in start_schedule_tasks: the main task is
\* created and registered before the schedules are read.
BeginStart(c) ==
  IF stopping
  THEN /\ stopping' = FALSE
       /\ \E m \in Mains \ registered :
            /\ ~MainLive(m)
            /\ mpc' = [mpc EXCEPT ![m] = "new"]
            /\ registered' = registered \cup {m}
       /\ ctl' = [ctl EXCEPT ![c] = "reading"]
       /\ UNCHANGED <<client, cancel, gang>>
  ELSE /\ ctl' = [ctl EXCEPT ![c] = "idle"]
       /\ UNCHANGED <<svcVars, mainVars>>

BootStart == /\ ctl["boot"] = "begin"
             /\ BeginStart("boot")
             /\ UNCHANGED <<pairVars, taskVars, schedVars>>

StartService == /\ CommandTaken
                /\ BeginStart("redis")
                /\ UNCHANGED <<pairVars, taskVars, schedVars>>

\* stop_service, which has no await that waits: cancel the schedules, cancel
\* the registered mains, forget them, release the client.  Cancelling a main
\* that awaits its gather cancels the children; if both are over already, or
\* the main is elsewhere, the main itself is marked.
StopBody ==
  IF stopping
  THEN UNCHANGED <<svcVars, mainVars, pairVars, schedVars>>
  ELSE LET through == {m \in registered : /\ mpc[m] = "gather"
                                          /\ PairLive(gang[m])}
       IN /\ stopping' = TRUE
          /\ registered' = {}
          /\ cancel' = [m \in Mains |->
                          IF m \in through THEN "gather"
                          ELSE IF m \in registered /\ MainLive(m) THEN "must"
                          ELSE cancel[m]]
          /\ MarkPairs({gang[m] : m \in through})
          /\ ReleaseVk
          /\ StopScheduleTasks
          /\ UNCHANGED <<mpc, gang, wrk>>

StopService == /\ CommandTaken
               /\ StopBody
               /\ UNCHANGED <<ctl, taskVars>>

\* restart_service: stop, sleep, start.
Restart == /\ CommandTaken
           /\ StopBody
           /\ ctl' = [ctl EXCEPT !["redis"] = "pausing"]
           /\ UNCHANGED taskVars

EndPause == /\ ctl["redis"] = "pausing"
            /\ CancelsRaised
            /\ BeginStart("redis")
            /\ UNCHANGED <<pairVars, taskVars, schedVars>>

\* SEND_ON_SCHEDULE_RESTART, up to the read of the schedules.
ScheduleRestart == /\ CommandTaken
                   /\ StopScheduleTasks
                   /\ ctl' = [ctl EXCEPT !["redis"] = "reading"]
                   /\ UNCHANGED <<svcVars, mainVars, pairVars, taskVars>>

\* start_schedule_tasks after get_list: the tasks of the rows are created, and
\* the session is closed.
CreateRowSchedules(c) ==
  /\ ctl[c] = "reading"
  /\ CreateSchedule("row")
  /\ ctl' = [ctl EXCEPT ![c] = "closing"]
  /\ UNCHANGED <<svcVars, mainVars, pairVars, taskVars, schedLive>>

\* ... and after the session is closed, the daily statistic.
CreateDailySchedule(c) ==
  /\ ctl[c] = "closing"
  /\ CreateSchedule("daily")
  /\ ctl' = [ctl EXCEPT ![c] = "idle"]
  /\ UNCHANGED <<svcVars, mainVars, pairVars, taskVars, schedLive>>

\* The read fails: _listen_redis logs the exception and takes the next command.
\* (At boot it would end the process.)
ScheduleReadFails ==
  /\ ctl["redis"] = "reading"
  /\ ctl' = [ctl EXCEPT !["redis"] = "idle"]
  /\ UNCHANGED <<svcVars, mainVars, pairVars, taskVars, schedVars>>

Commands == \/ StartService
            \/ StopService
            \/ Restart
            \/ ScheduleRestart

ControllerSteps ==
  \/ BootStart
  \/ EndPause
  \/ ScheduleReadFails
  \/ \E c \in Controllers : CreateRowSchedules(c) \/ CreateDailySchedule(c)

-----------------------------------------------------------------------------
(* _main_task *)

\* Mutant: a loop that does not look at stopping.
HeadUnasked(m) ==
  /\ gang' = [gang EXCEPT ![m] = NoGang]
  /\ mpc' = [mpc EXCEPT ![m] = "alloc"]
  /\ client' = "open"
  /\ UNCHANGED registered

\* Its loop head and the first half of _allocate_vk, which keeps a client that
\* is already there.
MainHead(m) ==
  /\ gang' = [gang EXCEPT ![m] = NoGang]
  /\ IF stopping
     THEN /\ mpc' = [mpc EXCEPT ![m] = "none"]
          /\ registered' = registered \ {m}
          /\ UNCHANGED client
     ELSE /\ mpc' = [mpc EXCEPT ![m] = "alloc"]
          /\ client' = "open"
          /\ UNCHANGED registered

\* A main that has returned is still in the list, where cancel() ignores it.
MainReturns(m) ==
  /\ mpc' = [mpc EXCEPT ![m] = "none"]
  /\ gang' = [gang EXCEPT ![m] = NoGang]
  /\ registered' = registered \ {m}

\* Mutant: the exception leaves the coroutine.
FailsForGood(m) ==
  /\ mpc' = [mpc EXCEPT ![m] = "none"]
  /\ gang' = [gang EXCEPT ![m] = NoGang]
  /\ MarkPairs({gang[m]})
  /\ ReleaseVk

\* The except branch: cancel the children, release the client, sleep.
MainFails(m) ==
  /\ mpc' = [mpc EXCEPT ![m] = "sleep"]
  /\ gang' = [gang EXCEPT ![m] = NoGang]
  /\ MarkPairs({gang[m]})
  /\ ReleaseVk

MainBegins(m) ==
  /\ mpc[m] = "new"
  /\ cancel[m] = "none"
  /\ MainHead(m)
  /\ UNCHANGED <<stopping, ctl, cancel, pairVars, taskVars, schedVars>>

\* The greeting of _allocate_vk is sent: the two coroutines are created.
AllocDone(m, g) ==
  /\ mpc[m] = "alloc"
  /\ cancel[m] = "none"
  /\ ~PairLive(g) /\ \A n \in Mains : gang[n] # g
  /\ mpc' = [mpc EXCEPT ![m] = "gather"]
  /\ gang' = [gang EXCEPT ![m] = g]
  /\ lst' = [lst EXCEPT ![g] = "new"]
  /\ wrk' = [wrk EXCEPT ![g] = "new"]
  /\ UNCHANGED <<svcVars, ctl, cancel, lcan, wcan, taskVars, schedVars>>

AllocFails(m) ==
  /\ mpc[m] = "alloc"
  /\ cancel[m] = "none"
  /\ MainFails(m)
  /\ UNCHANGED <<stopping, registered, ctl, cancel, wrk, taskVars, schedVars>>

\* The callback of a finished child ends the gather; the main is woken by a
\* later iteration of the loop.
GatherEnds(m) ==
  LET g == gang[m] IN
  /\ mpc[m] = "gather"
  /\ GatherOver(g)
  /\ \E o \in Woken :
       /\ o = "raised" => lst[g] = "failed" \/ wrk[g] = "failed"
       /\ o = "cancelled" => \/ lst[g] = "cancelled" \/ wrk[g] = "cancelled"
                             \/ BothEnded(g) /\ cancel[m] = "gather"
       /\ o = "returned" => BothEnded(g) /\ cancel[m] # "gather"
       /\ mpc' = [mpc EXCEPT ![m] = o]
  /\ cancel' = [cancel EXCEPT ![m] = IF @ = "gather" THEN "none" ELSE @]
  /\ UNCHANGED <<svcVars, ctl, gang, pairVars, taskVars, schedVars>>

MainLoops(m) ==
  /\ mpc[m] = "returned"
  /\ cancel[m] = "none"
  /\ MainHead(m)
  /\ UNCHANGED <<stopping, ctl, cancel, pairVars, taskVars, schedVars>>

GatherFailed(m) ==
  /\ mpc[m] = "raised"
  /\ cancel[m] = "none"
  /\ MainFails(m)
  /\ UNCHANGED <<stopping, registered, ctl, cancel, wrk, taskVars, schedVars>>

\* CancelledError in the main: break, or out of the sleep in the except branch.
\* The children are left as they are.
MainCancelled(m) ==
  /\ MainLive(m) /\ mpc[m] # "gather"
  /\ cancel[m] = "must" \/ mpc[m] = "cancelled"
  /\ MainReturns(m)
  /\ cancel' = [cancel EXCEPT ![m] = "none"]
  /\ UNCHANGED <<stopping, client, ctl, pairVars, taskVars, schedVars>>

\* The sleep of config.vk.timeout seconds is over.
MainWakes(m) ==
  /\ mpc[m] = "sleep"
  /\ cancel[m] = "none"
  /\ CancelsRaised
  /\ MainHead(m)
  /\ UNCHANGED <<stopping, ctl, cancel, pairVars, taskVars, schedVars>>

MainSteps(m) ==
  \/ MainBegins(m) \/ AllocFails(m) \/ (\E g \in Gangs : AllocDone(m, g))
  \/ GatherEnds(m) \/ MainLoops(m) \/ GatherFailed(m) \/ MainCancelled(m)
  \/ MainWakes(m)

-----------------------------------------------------------------------------
(* _listen_vk and VkClient.events_generator *)

\* The loop head: self.client_vk is read anew, and may be None.
ListenerHead(g) ==
  lst' = [lst EXCEPT ![g] = IF stopping THEN "ended"
                            ELSE IF client = "none" THEN "failed"
                            ELSE "poll"]

ListenerBegins(g) ==
  /\ lst[g] = "new"
  /\ ~lcan[g]
  /\ ListenerHead(g)
  /\ UNCHANGED <<svcVars, ctl, mainVars, lcan, wrk, wcan, taskVars, schedVars>>

\* The thread of a poll has answered.  The worker was created in the iteration of
\* the listener, so its first step runs before that.
PollReturns(g) ==
  lst[g] \in {"poll", "pollClosed"} /\ ~lcan[g] /\ wrk[g] # "new"

\* A poll returns an event that has a handler.
EventArrives(g, t) ==
  /\ PollReturns(g)
  /\ ExecuteInWorker(t)
  /\ UNCHANGED <<svcVars, ctl, mainVars, pairVars, schedVars>>

\* A poll raises: VkApiError, or an error of the connection.
PollFails(g) ==
  /\ PollReturns(g)
  /\ lst' = [lst EXCEPT ![g] = "failed"]
  /\ UNCHANGED <<svcVars, ctl, mainVars, lcan, wrk, wcan, taskVars, schedVars>>

\* The last poll over a closed client has returned: the generator stops.
GeneratorStops(g) ==
  /\ lst[g] = "pollClosed"
  /\ PollReturns(g)
  /\ ListenerHead(g)
  /\ UNCHANGED <<svcVars, ctl, mainVars, lcan, wrk, wcan, taskVars, schedVars>>

\* CancelledError before the first step ends the coroutine; later it is raised
\* inside events_generator, which swallows it, so that the loop goes on.
ListenerCancelled(g) ==
  /\ lcan[g]
  /\ lcan' = [lcan EXCEPT ![g] = FALSE]
  /\ IF lst[g] = "new"
     THEN lst' = [lst EXCEPT ![g] = "cancelled"]
     ELSE ListenerHead(g)
  /\ UNCHANGED <<svcVars, ctl, mainVars, wrk, wcan, taskVars, schedVars>>

ListenerSteps(g) ==
  \/ ListenerBegins(g) \/ (\E t \in TaskIds : EventArrives(g, t))
  \/ PollFails(g) \/ GeneratorStops(g) \/ ListenerCancelled(g)

-----------------------------------------------------------------------------
(* _worker *)

WorkerHead(g) == wrk' = [wrk EXCEPT ![g] = IF stopping THEN "ended" ELSE "getting"]

\* The worker lets go of its task, which is finished with the fate f.
LetGo(g, f) ==
  /\ fate' = [fate EXCEPT ![held[g]] = f]
  /\ held' = [held EXCEPT ![g] = NoTask]

\* Mutant: the bound is off by one.
MayPutBackOnceMore(t) == tries[t] <= MaxRetries + 1

\* `if task.tries <= 3`
MayPutBack(t) == tries[t] <= MaxRetries

WorkerBegins(g) ==
  /\ wrk[g] = "new"
  /\ ~wcan[g]
  /\ WorkerHead(g)
  /\ UNCHANGED <<svcVars, ctl, mainVars, lst, lcan, wcan, taskVars, schedVars>>

\* get() returns and execute_task runs up to the first await of the handler.
GetTask(g) ==
  /\ wrk[g] = "getting"
  /\ ~wcan[g]
  /\ queue # <<>>
  /\ LET t == Head(queue) IN
     /\ held' = [held EXCEPT ![g] = t]
     /\ fate' = [fate EXCEPT ![t] = "held"]
     /\ tries' = [tries EXCEPT ![t] = @ + 1]
  /\ queue' = Tail(queue)
  /\ wrk' = [wrk EXCEPT ![g] = "executing"]
  /\ UNCHANGED <<svcVars, ctl, mainVars, lst, lcan, wcan, rows, schedVars>>

Executing(g) == wrk[g] = "executing" /\ ~wcan[g]

HandlerReturns(g) ==
  /\ Executing(g)
  /\ wrk' = [wrk EXCEPT ![g] = "saving"]
  /\ UNCHANGED <<svcVars, ctl, mainVars, lst, lcan, wcan, taskVars, schedVars>>

\* An exception that says "Access denied": the task is dropped unsaved.
AccessDenied(g) ==
  /\ Executing(g)
  /\ LetGo(g, "denied")
  /\ WorkerHead(g)
  /\ UNCHANGED <<svcVars, ctl, mainVars, lst, lcan, wcan, queue, tries, rows, schedVars>>

\* execute_task raises, or the session around save_task does.
Failing(g) == wrk[g] \in {"executing", "saving"} /\ ~wcan[g]

\* Mutants: a failed task is saved at every try; dropped; not put back.
FailureSaved(g) ==
  /\ Failing(g)
  /\ MayPutBack(held[g])
  /\ queue' = Append(queue, held[g])
  /\ rows' = [rows EXCEPT ![held[g]] = @ + 1]
  /\ LetGo(g, "queued")
  /\ wrk' = [wrk EXCEPT ![g] = "failed"]
  /\ UNCHANGED <<svcVars, ctl, mainVars, lst, lcan, wcan, tries, schedVars>>

FailureLeft(g, f) ==
  /\ Failing(g)
  /\ LetGo(g, f)
  /\ wrk' = [wrk EXCEPT ![g] = "failed"]
  /\ UNCHANGED <<svcVars, ctl, mainVars, lst, lcan, wcan, queue, tries, rows, schedVars>>

FailureDropped(g)   == FailureLeft(g, "lost")
FailureForgotten(g) == FailureLeft(g, "queued")

\* Any other exception is raised again once the task is back in the queue ...
HandlerFails(g) ==
  /\ Failing(g)
  /\ MayPutBack(held[g])
  /\ queue' = Append(queue, held[g])
  /\ LetGo(g, "queued")
  /\ wrk' = [wrk EXCEPT ![g] = "failed"]
  /\ UNCHANGED <<svcVars, ctl, mainVars, lst, lcan, wcan, tries, rows, schedVars>>

\* ... or, after the last try, saved.
HandlerFailsLast(g) ==
  /\ Failing(g)
  /\ ~MayPutBack(held[g])
  /\ wrk' = [wrk EXCEPT ![g] = "savingFailed"]
  /\ UNCHANGED <<svcVars, ctl, mainVars, lst, lcan, wcan, taskVars, schedVars>>

\* The RPC the handler waits on is cancelled by Client.on_close: to _worker it
\* looks like its own cancellation, and it returns.
HandlerRpcCancelled(g) ==
  /\ RpcCancels
  /\ Executing(g)
  /\ LetGo(g, "lost")
  /\ wrk' = [wrk EXCEPT ![g] = "ended"]
  /\ UNCHANGED <<svcVars, ctl, mainVars, lst, lcan, wcan, queue, tries, rows, schedVars>>

\* save_task: the row is committed, or the error is swallowed; after the last try
\* the session around it may raise as well, which comes to the same.
TaskSaved(g) ==
  /\ wrk[g] \in {"saving", "savingFailed"}
  /\ ~wcan[g]
  /\ \E ok \in BOOLEAN :
       /\ rows' = IF ok THEN [rows EXCEPT ![held[g]] = @ + 1] ELSE rows
       /\ LetGo(g, IF ok THEN "saved" ELSE "unsaved")
  /\ IF wrk[g] = "saving"
     THEN WorkerHead(g)
     ELSE wrk' = [wrk EXCEPT ![g] = "failed"]
  /\ UNCHANGED <<svcVars, ctl, mainVars, lst, lcan, wcan, queue, tries, schedVars>>

\* CancelledError: out of the coroutine before its first step, in the get and in
\* the save of a failed task; caught by the break elsewhere.  A commit under way
\* may or may not reach the database.
WorkerCancelled(g) ==
  /\ wcan[g]
  /\ wcan' = [wcan EXCEPT ![g] = FALSE]
  /\ wrk' = [wrk EXCEPT ![g] = IF @ \in {"new", "getting", "savingFailed"}
                               THEN "cancelled" ELSE "ended"]
  /\ IF held[g] = NoTask
     THEN UNCHANGED taskVars
     ELSE /\ LetGo(g, "lost")
          /\ \E written \in {0, 1} :
               /\ written = 1 => wrk[g] # "executing"
               /\ rows' = [rows EXCEPT ![held[g]] = @ + written]
          /\ UNCHANGED <<queue, tries>>
  /\ UNCHANGED <<svcVars, ctl, mainVars, lst, lcan, schedVars>>

WorkerSteps(g) ==
  \/ WorkerBegins(g) \/ GetTask(g) \/ HandlerReturns(g) \/ AccessDenied(g)
  \/ HandlerFails(g) \/ HandlerFailsLast(g) \/ HandlerRpcCancelled(g)
  \/ TaskSaved(g) \/ WorkerCancelled(g)

-----------------------------------------------------------------------------
(* send_on_schedule *)

\* Mutant: `while True`.
BeginsUnasked(k) ==
  /\ schedNew[k] > 0
  /\ schedNew' = [schedNew EXCEPT ![k] = @ - 1]
  /\ schedLive' = [schedLive EXCEPT ![k] = @ + 1]
  /\ UNCHANGED <<svcVars, ctl, mainVars, pairVars, taskVars>>

\* The first step of a schedule task reads service.stopping.
ScheduleBegins(k) ==
  /\ schedNew[k] > 0
  /\ schedNew' = [schedNew EXCEPT ![k] = @ - 1]
  /\ schedLive' = [schedLive EXCEPT ![k] = IF stopping THEN @ ELSE @ + 1]
  /\ UNCHANGED <<svcVars, ctl, mainVars, pairVars, taskVars>>

\* Its time has come.  With no client the message of that time is not sent: the
\* AttributeError is noted and the loop goes on after 300 seconds.
ScheduleFires(k, t) ==
  /\ schedLive[k] > 0
  /\ client = "open"
  /\ ExecuteInWorker(t)
  /\ UNCHANGED <<svcVars, ctl, mainVars, pairVars, schedVars>>

ScheduleSteps(k) == ScheduleBegins(k) \/ \E t \in TaskIds : ScheduleFires(k, t)

-----------------------------------------------------------------------------
Next ==
  \/ Commands
  \/ ControllerSteps
  \/ \E m \in Mains : MainSteps(m)
  \/ \E g \in Gangs : ListenerSteps(g) \/ WorkerSteps(g)
  \/ \E k \in Kinds : ScheduleSteps(k)

Spec == Init /\ [][Next]_vars

-----------------------------------------------------------------------------
(* What must hold whatever is sent, and when *)

\* stop_service leaves no client behind, and none appears while the service is
\* stopped, though _main_task may be at any await when stop_service runs.
ClientReleasedWhenStopped == stopping => client = "none"

\* A listener polls the client that is installed: a released client is never
\* polled again, and a new one is never installed under an old poll.
PollsInstalledClient ==
  \A g \in Gangs : lst[g] = "poll" => client = "open"

\* A task the service has accepted is in the queue, once, or in the hands of one
\* worker, or finished: put, get, retry, cancellation and restart neither lose
\* nor copy it.
TaskInOnePlace ==
  /\ \A t \in TaskIds : fate[t] = "queued" <=> \E i \in DOMAIN queue : queue[i] = t
  /\ \A i, j \in DOMAIN queue : queue[i] = queue[j] => i = j
  /\ \A t \in TaskIds : fate[t] = "held" <=> \E g \in Gangs : held[g] = t
  /\ \A g, h \in Gangs : held[g] = held[h] /\ held[g] # NoTask => g = h

\* The row of vk_tasks is written at most once, never for a task that is still
\* to run, and always for one counted as saved.
SavedOnce ==
  \A t \in TaskIds :
    /\ rows[t] <= 1
    /\ rows[t] = 1 => fate[t] \in {"saved", "lost"}
    /\ fate[t] = "saved" => rows[t] = 1

\* A task is neither lost, copied nor saved twice, and it is saved only once it is
\* out of the service.
TasksAreKept == TaskInOnePlace /\ SavedOnce

\* No schedule task outlives stop_service, also when it was created by a
\* start_schedule_tasks that was reading the schedules as the stop came.
NoScheduleWhenStopped == stopping => \A k \in Kinds : schedLive[k] = 0

\* What stop_service promises of the client, of the polls and of the schedules, at
\* whichever await it finds _main_task, a listener or start_schedule_tasks.
StopIsClean ==
  ClientReleasedWhenStopped /\ PollsInstalledClient /\ NoScheduleWhenStopped

\* The service implements the promise of TaskQueue.
TQ == INSTANCE TaskQueue WITH state <- fate
ImplementsTaskQueue == TQ!Spec

-----------------------------------------------------------------------------
(* What holds if each command waits for the last one to settle *)

\* There is one main, and only it has children that are not being cancelled.
OneMain ==
  /\ \A m, n \in Mains : MainLive(m) /\ MainLive(n) => m = n
  /\ \A g \in Gangs :
       \/ lst[g] \in ListenerLive /\ ~lcan[g]
       \/ wrk[g] \in WorkerLive /\ ~wcan[g]
       => \E m \in Mains : gang[m] = g

\* A schedule is followed by one task, so its message is sent once.
OneTaskPerSchedule == \A k \in Kinds : schedNew[k] + schedLive[k] <= 1

\* However many restarts there were, the service runs once.
OneOfEach == Calm => OneMain /\ OneTaskPerSchedule

\* Between a stop and the next start nothing is accepted and nothing runs.
NothingRuns ==
  /\ tries' = tries
  /\ \A t \in TaskIds : fate[t] = "new" => fate'[t] = "new"

\* A task is lost in mid-run only with its worker: cancelled because the service is
\* being stopped or the listener beside it failed, or ended by an RPC whose client
\* was closed.
LostWithItsWorker(g) ==
  held[g] # NoTask /\ held'[g] = NoTask /\ fate'[held[g]] = "lost" =>
    IF wcan[g] THEN stopping \/ \A m \in Mains : gang[m] # g
               ELSE RpcCancels /\ wrk'[g] = "ended"

\* A task is interrupted by a stop, a failed listener or a closed RPC, never by its
\* own failure; and while the service is stopped none is begun or accepted.
OnlyStopsInterrupt ==
  [][Calm => /\ stopping => NothingRuns
             /\ \A g \in Gangs : LostWithItsWorker(g)]_vars
=============================================================================
