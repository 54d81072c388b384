------------------------ MODULE VkBotService_proofs ------------------------
(***************************************************************************)
(* Proofs about VkBotService, for any number of tasks, mains and pairs and *)
(* for any bound of retries, with commands at any time. The last part is   *)
(* about commands that wait for the last one to settle (CalmSpec).         *)
(***************************************************************************)
EXTENDS VkBotService, TLAPS

(***************************************************************************)
(* The type invariant, one step per action.                                *)
(***************************************************************************)
LEMMA InitTypeOK == Init => TypeOK
  BY ToggleAssumption, SlotAssumption, KindsAssumption
     DEF Init, TypeOK, Controllers, ListenerLive, WorkerLive, Finished, Woken

LEMMA MarkPairsType ==
  ASSUME TypeOK, NEW S, MarkPairs(S)
  PROVE  lcan' \in [Gangs -> BOOLEAN] /\ wcan' \in [Gangs -> BOOLEAN]
  BY DEF MarkPairs, TypeOK

LEMMA ReleaseVkType ==
  ASSUME TypeOK, ReleaseVk
  PROVE  /\ client' \in {"none", "open"}
         /\ lst' \in [Gangs -> ListenerLive \cup {"none", "failed", "ended", "cancelled"}]
  BY DEF ReleaseVk, TypeOK, ListenerLive

\* Commands, and what the controllers do after them.
LEMMA ControllerTypeOK ==
  ASSUME TypeOK, Commands \/ ControllerSteps
  PROVE  TypeOK'
<1>1. ASSUME NEW c \in Controllers, BeginStart(c),
             UNCHANGED <<pairVars, taskVars, schedVars>>
      PROVE  TypeOK'
  <2>1. CASE stopping
    <3>1. PICK m \in Mains : /\ mpc' = [mpc EXCEPT ![m] = "new"]
                             /\ registered' = registered \cup {m}
      BY <1>1, <2>1 DEF BeginStart
    <3>2. QED
      BY <1>1, <2>1, <3>1 DEF BeginStart, TypeOK, pairVars, taskVars, schedVars
  <2>2. CASE ~stopping
    BY <1>1, <2>2 DEF BeginStart, TypeOK, svcVars, mainVars, pairVars, taskVars,
                      schedVars
  <2>3. QED
    BY <2>1, <2>2
<1>2. ASSUME StopBody, UNCHANGED taskVars,
             UNCHANGED ctl \/ ctl' = [ctl EXCEPT !["redis"] = "pausing"]
      PROVE  TypeOK'
  <2>1. ctl' \in [Controllers -> {"begin", "idle", "reading", "closing", "pausing"}]
    BY <1>2 DEF TypeOK, Controllers
  <2>2. CASE stopping
    BY <1>2, <2>1, <2>2 DEF StopBody, TypeOK, svcVars, mainVars, pairVars,
                            taskVars, schedVars
  <2>3. CASE ~stopping
    <3>1. /\ \E S : MarkPairs(S)
          /\ ReleaseVk
          /\ StopScheduleTasks
          /\ stopping' = TRUE /\ registered' = {}
          /\ cancel' \in [Mains -> {"none", "gather", "must"}]
          /\ UNCHANGED <<mpc, gang, wrk>>
      BY <1>2, <2>3 DEF StopBody, TypeOK
    <3>2. QED
      BY <1>2, <2>1, <3>1, MarkPairsType, ReleaseVkType
         DEF TypeOK, StopScheduleTasks, taskVars
  <2>4. QED
    BY <2>2, <2>3
<1>3. CASE StartService
  BY <1>1, <1>3 DEF StartService, Controllers
<1>4. CASE EndPause
  BY <1>1, <1>4 DEF EndPause, Controllers
<1>5. CASE BootStart
  BY <1>1, <1>5 DEF BootStart, Controllers
<1>6. CASE StopService
  BY <1>2, <1>6 DEF StopService
<1>7. CASE Restart
  BY <1>2, <1>7 DEF Restart
<1>8. CASE ScheduleRestart
  BY <1>8 DEF ScheduleRestart, StopScheduleTasks, TypeOK, Controllers,
              svcVars, mainVars, pairVars, taskVars
<1>9. CASE ScheduleReadFails
  BY <1>9 DEF ScheduleReadFails, TypeOK, Controllers,
              svcVars, mainVars, pairVars, taskVars, schedVars
<1>10. ASSUME NEW c \in Controllers, CreateRowSchedules(c) \/ CreateDailySchedule(c)
       PROVE  TypeOK'
  <2>1. ASSUME NEW kind, CreateSchedule(kind), TypeOK
        PROVE  schedNew' \in [Kinds -> Nat]
    BY <2>1 DEF CreateSchedule, TypeOK
  <2>2. schedNew' \in [Kinds -> Nat]
    BY <1>10, <2>1 DEF CreateRowSchedules, CreateDailySchedule
  <2>3. QED
    BY <1>10, <2>2 DEF CreateRowSchedules, CreateDailySchedule, TypeOK, Controllers,
                       svcVars, mainVars, pairVars, taskVars
<1>11. QED
  BY <1>3, <1>4, <1>5, <1>6, <1>7, <1>8, <1>9, <1>10 DEF Commands, ControllerSteps

\* The steps of a main task.
LEMMA MainTypeOK ==
  ASSUME TypeOK, NEW m \in Mains, MainSteps(m)
  PROVE  TypeOK'
<1>1. ASSUME MainHead(m),
             UNCHANGED <<stopping, ctl, cancel, pairVars, taskVars, schedVars>>
      PROVE  TypeOK'
  BY <1>1 DEF MainHead, TypeOK, Woken, pairVars, taskVars, schedVars
<1>2. ASSUME MainFails(m),
             UNCHANGED <<stopping, registered, ctl, cancel, wrk, taskVars, schedVars>>
      PROVE  TypeOK'
  <2>1. MarkPairs({gang[m]}) /\ ReleaseVk
    BY <1>2 DEF MainFails
  <2>2. /\ mpc' \in [Mains -> {"none", "new", "alloc", "gather", "sleep"} \cup Woken]
        /\ gang' \in [Mains -> Gangs \cup {NoGang}]
    BY <1>2 DEF MainFails, TypeOK
  <2>3. QED
    BY <1>2, <2>1, <2>2, MarkPairsType, ReleaseVkType DEF TypeOK, taskVars, schedVars
<1>3. CASE MainBegins(m)
  BY <1>1, <1>3 DEF MainBegins
<1>4. CASE MainLoops(m)
  BY <1>1, <1>4 DEF MainLoops
<1>5. CASE MainWakes(m)
  BY <1>1, <1>5 DEF MainWakes
<1>6. CASE AllocFails(m)
  BY <1>2, <1>6 DEF AllocFails
<1>7. CASE GatherFailed(m)
  BY <1>2, <1>7 DEF GatherFailed
<1>8. ASSUME NEW g \in Gangs, AllocDone(m, g)
      PROVE  TypeOK'
  BY <1>8 DEF AllocDone, TypeOK, ListenerLive, WorkerLive, svcVars, taskVars, schedVars
<1>9. CASE GatherEnds(m)
  BY <1>9 DEF GatherEnds, TypeOK, svcVars, pairVars, taskVars, schedVars
<1>10. CASE MainCancelled(m)
  BY <1>10 DEF MainCancelled, MainReturns, TypeOK, pairVars, taskVars, schedVars
<1>11. QED
  BY <1>3, <1>4, <1>5, <1>6, <1>7, <1>8, <1>9, <1>10 DEF MainSteps

\* The steps of a listener.
LEMMA ListenerTypeOK ==
  ASSUME TypeOK, NEW g \in Gangs, ListenerSteps(g)
  PROVE  TypeOK'
<1>1. ListenerHead(g) =>
        lst' \in [Gangs -> ListenerLive \cup {"none", "failed", "ended", "cancelled"}]
  BY DEF ListenerHead, TypeOK, ListenerLive
<1>2. CASE ListenerBegins(g)
  BY <1>1, <1>2 DEF ListenerBegins, TypeOK, svcVars, mainVars, taskVars, schedVars
<1>3. CASE GeneratorStops(g)
  BY <1>1, <1>3 DEF GeneratorStops, TypeOK, svcVars, mainVars, taskVars, schedVars
<1>4. CASE ListenerCancelled(g)
  <2>1. lst' \in [Gangs -> ListenerLive \cup {"none", "failed", "ended", "cancelled"}]
    BY <1>1, <1>4 DEF ListenerCancelled, TypeOK
  <2>2. QED
    BY <1>4, <2>1 DEF ListenerCancelled, TypeOK, svcVars, mainVars, taskVars, schedVars
<1>5. CASE PollFails(g)
  BY <1>5 DEF PollFails, TypeOK, svcVars, mainVars, taskVars, schedVars
<1>6. ASSUME NEW t \in TaskIds, EventArrives(g, t)
      PROVE  TypeOK'
  BY <1>6 DEF EventArrives, ExecuteInWorker, TypeOK,
              svcVars, mainVars, pairVars, schedVars
<1>7. QED
  BY <1>2, <1>3, <1>4, <1>5, <1>6 DEF ListenerSteps
\* What the task of a worker may become, by the one step that lets go of it.
(***************************************************************************)
(* What a step may do to the tasks.  Each action of the service makes one  *)
(* of these five moves, so that what is proved of the moves holds of it.   *)
(***************************************************************************)
Busy(g) == wrk[g] \in {"executing", "saving", "savingFailed"}

\* A worker has a task in its hands exactly while it executes or saves one.
HoldersAreBusy == \A g \in Gangs : held[g] # NoTask <=> Busy(g)

TaskInv == TypeOK /\ HoldersAreBusy /\ TaskInOnePlace

SameWorkersBut(S) == \A h \in Gangs \ S : Busy(h)' <=> Busy(h)

Kept == UNCHANGED taskVars /\ SameWorkersBut({})

Entered(t) == ExecuteInWorker(t) /\ SameWorkersBut({})

Taken(g) ==
  /\ queue # <<>> /\ ~Busy(g)
  /\ held' = [held EXCEPT ![g] = Head(queue)]
  /\ fate' = [fate EXCEPT ![Head(queue)] = "held"]
  /\ tries' = [tries EXCEPT ![Head(queue)] = @ + 1]
  /\ queue' = Tail(queue)
  /\ rows' = rows
  /\ Busy(g)' /\ SameWorkersBut({g})

PutBack(g) ==
  /\ Busy(g) /\ MayPutBack(held[g])
  /\ LetGo(g, "queued")
  /\ queue' = Append(queue, held[g])
  /\ tries' = tries /\ rows' = rows
  /\ ~Busy(g)' /\ SameWorkersBut({g})

Dropped(g, f) ==
  /\ Busy(g)
  /\ LetGo(g, f)
  /\ queue' = queue /\ tries' = tries
  /\ \/ rows' = rows /\ f # "saved"
     \/ rows' = [rows EXCEPT ![held[g]] = @ + 1] /\ f \in {"saved", "lost"}
  /\ ~Busy(g)' /\ SameWorkersBut({g})

TaskMove == \/ Kept
            \/ \E t \in TaskIds : Entered(t)
            \/ \E g \in Gangs : Taken(g) \/ PutBack(g)
            \/ \E g \in Gangs, f \in Finished : Dropped(g, f)

\* A busy worker holds one of the tasks.
LEMMA BusyHoldsTask ==
  ASSUME TypeOK, HoldersAreBusy, NEW g \in Gangs, Busy(g)
  PROVE  held[g] \in TaskIds
  BY DEF TypeOK, HoldersAreBusy

\* Steps outside the workers that change nothing but who is at work where.
LEMMA SameWorkers ==
  ASSUME UNCHANGED wrk
  PROVE  SameWorkersBut({})
  BY DEF SameWorkersBut, Busy

LEMMA WorkerMove ==
  ASSUME TypeOK, HoldersAreBusy, NEW g \in Gangs, WorkerSteps(g)
  PROVE  TaskMove
<1>1. CASE WorkerBegins(g)
  BY <1>1 DEF WorkerBegins, WorkerHead, TypeOK, TaskMove, Kept, SameWorkersBut, Busy
<1>2. CASE GetTask(g)
  <2>1. Taken(g)
    BY <1>2 DEF GetTask, TypeOK, Taken, SameWorkersBut, Busy
  <2>2. QED
    BY <2>1 DEF TaskMove
<1>3. CASE HandlerReturns(g)
  BY <1>3 DEF HandlerReturns, Executing, TypeOK, TaskMove, Kept, SameWorkersBut, Busy
<1>4. CASE AccessDenied(g)
  <2>1. Dropped(g, "denied")
    BY <1>4 DEF AccessDenied, Executing, WorkerHead, TypeOK, Dropped, SameWorkersBut, Busy
  <2>2. QED
    BY <2>1 DEF TaskMove, Finished
<1>5. CASE HandlerFails(g)
  <2>1. PutBack(g)
    BY <1>5 DEF HandlerFails, Failing, TypeOK, PutBack, SameWorkersBut, Busy
  <2>2. QED
    BY <2>1 DEF TaskMove
<1>6. CASE HandlerFailsLast(g)
  BY <1>6 DEF HandlerFailsLast, Failing, TypeOK, TaskMove, Kept, SameWorkersBut, Busy
<1>7. CASE HandlerRpcCancelled(g)
  <2>1. Dropped(g, "lost")
    BY <1>7 DEF HandlerRpcCancelled, Executing, TypeOK, Dropped, SameWorkersBut, Busy
  <2>2. QED
    BY <2>1 DEF TaskMove, Finished
<1>8. CASE TaskSaved(g)
  <2>1. Busy(g) /\ ~Busy(g)' /\ SameWorkersBut({g})
    BY <1>8 DEF TaskSaved, WorkerHead, TypeOK, SameWorkersBut, Busy
  <2>2. Dropped(g, "saved") \/ Dropped(g, "unsaved")
    BY <1>8, <2>1 DEF TaskSaved, Dropped
  <2>3. QED
    BY <2>2 DEF TaskMove, Finished
<1>9. CASE WorkerCancelled(g)
  <2>1. ~Busy(g)' /\ SameWorkersBut({g})
    BY <1>9 DEF WorkerCancelled, TypeOK, SameWorkersBut, Busy
  <2>2. CASE held[g] = NoTask
    <3>1. ~Busy(g)
      BY <2>2 DEF HoldersAreBusy
    <3>2. SameWorkersBut({})
      BY <2>1, <3>1 DEF SameWorkersBut, Busy
    <3>3. QED
      BY <1>9, <2>2, <3>2 DEF WorkerCancelled, TaskMove, Kept
  <2>3. CASE held[g] # NoTask
    <3>1. Busy(g) /\ LetGo(g, "lost") /\ UNCHANGED <<queue, tries>>
      BY <1>9, <2>3 DEF WorkerCancelled, HoldersAreBusy
    <3>2. PICK written \in {0, 1} : rows' = [rows EXCEPT ![held[g]] = @ + written]
      BY <1>9, <2>3 DEF WorkerCancelled
    <3>3. rows' = rows \/ rows' = [rows EXCEPT ![held[g]] = @ + 1]
      <4>1. held[g] \in TaskIds /\ rows[held[g]] + 0 = rows[held[g]]
        BY <3>1, BusyHoldsTask DEF TypeOK
      <4>2. rows = [rows EXCEPT ![held[g]] = @ + 0]
        BY <4>1 DEF TypeOK
      <4>3. QED
        BY <3>2, <4>2
    <3>4. Dropped(g, "lost")
      BY <2>1, <3>1, <3>3 DEF Dropped
    <3>5. QED
      BY <3>4 DEF TaskMove, Finished
  <2>4. QED
    BY <2>2, <2>3
<1>10. QED
  BY <1>1, <1>2, <1>3, <1>4, <1>5, <1>6, <1>7, <1>8, <1>9 DEF WorkerSteps

\* Every step of the service is a move.
LEMMA StepIsMove ==
  ASSUME TypeOK, HoldersAreBusy, [Next]_vars
  PROVE  TaskMove
<1>1. CASE Commands \/ ControllerSteps
  <2>1. UNCHANGED <<wrk, taskVars>>
    BY <1>1 DEF Commands, ControllerSteps, StartService, StopService, Restart,
                ScheduleRestart, BootStart, EndPause, ScheduleReadFails,
                CreateRowSchedules, CreateDailySchedule, StopBody, pairVars
  <2>2. QED
    BY <2>1, SameWorkers DEF TaskMove, Kept
<1>2. ASSUME NEW m \in Mains, MainSteps(m)
      PROVE  TaskMove
  <2>1. CASE \E g \in Gangs : AllocDone(m, g)
    BY <2>1 DEF AllocDone, TypeOK, PairLive, WorkerLive, TaskMove, Kept,
                SameWorkersBut, Busy
  <2>2. CASE ~\E g \in Gangs : AllocDone(m, g)
    <3>1. UNCHANGED <<wrk, taskVars>>
      BY <1>2, <2>2 DEF MainSteps, MainBegins, AllocFails, GatherEnds, MainLoops,
                        GatherFailed, MainCancelled, MainWakes, pairVars
    <3>2. QED
      BY <3>1, SameWorkers DEF TaskMove, Kept
  <2>3. QED
    BY <2>1, <2>2
<1>3. ASSUME NEW g \in Gangs, ListenerSteps(g)
      PROVE  TaskMove
  <2>1. UNCHANGED wrk
    BY <1>3 DEF ListenerSteps, ListenerBegins, EventArrives, PollFails,
                GeneratorStops, ListenerCancelled, pairVars
  <2>2. CASE \E t \in TaskIds : EventArrives(g, t)
    BY <2>1, <2>2, SameWorkers DEF EventArrives, TaskMove, Entered
  <2>3. CASE ~\E t \in TaskIds : EventArrives(g, t)
    <3>1. UNCHANGED taskVars
      BY <1>3, <2>3 DEF ListenerSteps, ListenerBegins, PollFails,
                        GeneratorStops, ListenerCancelled
    <3>2. QED
      BY <2>1, <3>1, SameWorkers DEF TaskMove, Kept
  <2>4. QED
    BY <2>2, <2>3
<1>4. ASSUME NEW k \in Kinds, ScheduleSteps(k)
      PROVE  TaskMove
  <2>1. UNCHANGED wrk
    BY <1>4 DEF ScheduleSteps, ScheduleBegins, ScheduleFires, pairVars
  <2>2. CASE ScheduleBegins(k)
    BY <2>1, <2>2, SameWorkers DEF ScheduleBegins, TaskMove, Kept
  <2>3. CASE \E t \in TaskIds : ScheduleFires(k, t)
    BY <2>1, <2>3, SameWorkers DEF ScheduleFires, TaskMove, Entered
  <2>4. QED
    BY <1>4, <2>2, <2>3 DEF ScheduleSteps
<1>5. CASE UNCHANGED vars
  BY <1>5, SameWorkers DEF vars, pairVars, TaskMove, Kept
<1>6. QED
  BY <1>1, <1>2, <1>3, <1>4, <1>5, WorkerMove DEF Next

(***************************************************************************)
(* The moves preserve the types of the tasks, and the place of each.       *)
(***************************************************************************)
LEMMA MoveHolders ==
  ASSUME TypeOK, HoldersAreBusy, TaskMove
  PROVE  HoldersAreBusy'
<1>1. CASE Kept
  BY <1>1 DEF Kept, taskVars, SameWorkersBut, HoldersAreBusy, Busy
<1>2. ASSUME NEW t \in TaskIds, Entered(t)
      PROVE  HoldersAreBusy'
  BY <1>2 DEF Entered, ExecuteInWorker, SameWorkersBut, HoldersAreBusy, Busy
<1>3. ASSUME NEW g \in Gangs, Taken(g)
      PROVE  HoldersAreBusy'
  <2>1. Head(queue) \in TaskIds
    BY <1>3 DEF Taken, TypeOK
  <2>2. QED
    BY <1>3, <2>1, SlotAssumption DEF Taken, TypeOK, SameWorkersBut, HoldersAreBusy, Busy
<1>4. ASSUME NEW g \in Gangs, PutBack(g)
      PROVE  HoldersAreBusy'
  BY <1>4 DEF PutBack, LetGo, TypeOK, SameWorkersBut, HoldersAreBusy, Busy
<1>5. ASSUME NEW g \in Gangs, NEW f \in Finished, Dropped(g, f)
      PROVE  HoldersAreBusy'
  BY <1>5 DEF Dropped, LetGo, TypeOK, SameWorkersBut, HoldersAreBusy, Busy
<1>6. QED
  BY <1>1, <1>2, <1>3, <1>4, <1>5 DEF TaskMove

LEMMA MoveTypes ==
  ASSUME TypeOK, HoldersAreBusy, TaskMove
  PROVE  /\ held' \in [Gangs -> TaskIds \cup {NoTask}]
         /\ queue' \in Seq(TaskIds)
         /\ fate' \in [TaskIds -> {"new", "queued", "held"} \cup Finished]
         /\ tries' \in [TaskIds -> Nat]
         /\ rows' \in [TaskIds -> Nat]
<1>1. CASE Kept
  BY <1>1 DEF Kept, taskVars, TypeOK
<1>2. ASSUME NEW t \in TaskIds, Entered(t)
      PROVE  fate' \in [TaskIds -> {"new", "queued", "held"} \cup Finished]
             /\ queue' \in Seq(TaskIds) /\ UNCHANGED <<held, tries, rows>>
  BY <1>2 DEF Entered, ExecuteInWorker, TypeOK
<1>3. ASSUME NEW g \in Gangs, Taken(g)
      PROVE  /\ held' \in [Gangs -> TaskIds \cup {NoTask}]
             /\ queue' \in Seq(TaskIds)
             /\ fate' \in [TaskIds -> {"new", "queued", "held"} \cup Finished]
             /\ tries' \in [TaskIds -> Nat]
             /\ rows' \in [TaskIds -> Nat]
  <2>1. Head(queue) \in TaskIds /\ Tail(queue) \in Seq(TaskIds)
    BY <1>3 DEF Taken, TypeOK
  <2>2. QED
    BY <1>3, <2>1 DEF Taken, TypeOK
<1>4. ASSUME NEW g \in Gangs, PutBack(g)
      PROVE  /\ held' \in [Gangs -> TaskIds \cup {NoTask}]
             /\ queue' \in Seq(TaskIds)
             /\ fate' \in [TaskIds -> {"new", "queued", "held"} \cup Finished]
             /\ UNCHANGED <<tries, rows>>
  <2>1. held[g] \in TaskIds
    BY <1>4, BusyHoldsTask DEF PutBack
  <2>2. QED
    BY <1>4, <2>1 DEF PutBack, LetGo, TypeOK
<1>5. ASSUME NEW g \in Gangs, NEW f \in Finished, Dropped(g, f)
      PROVE  /\ held' \in [Gangs -> TaskIds \cup {NoTask}]
             /\ fate' \in [TaskIds -> {"new", "queued", "held"} \cup Finished]
             /\ rows' \in [TaskIds -> Nat]
             /\ UNCHANGED <<queue, tries>>
  <2>1. held[g] \in TaskIds
    BY <1>5, BusyHoldsTask DEF Dropped
  <2>2. QED
    BY <1>5, <2>1 DEF Dropped, LetGo, TypeOK
<1>6. QED
  BY <1>1, <1>2, <1>3, <1>4, <1>5 DEF TaskMove, TypeOK

\* The steps of a worker: what is not of the tasks is its own stage.
LEMMA WorkerTypeOK ==
  ASSUME TypeOK, HoldersAreBusy, NEW g \in Gangs, WorkerSteps(g)
  PROVE  TypeOK'
<1>1. /\ UNCHANGED <<svcVars, ctl, mainVars, lst, lcan, schedVars>>
      /\ wcan' \in [Gangs -> BOOLEAN]
  BY DEF WorkerSteps, WorkerBegins, GetTask, HandlerReturns, AccessDenied,
         HandlerFails, HandlerFailsLast, HandlerRpcCancelled, TaskSaved,
         WorkerCancelled, TypeOK
<1>2. wrk' \in [Gangs -> WorkerLive \cup {"none", "failed", "ended", "cancelled"}]
  <2>1. CASE WorkerHead(g)
    BY <2>1 DEF WorkerHead, TypeOK, WorkerLive
  <2>2. CASE ~WorkerHead(g)
    BY <2>2 DEF WorkerSteps, WorkerBegins, GetTask, HandlerReturns, AccessDenied,
                HandlerFails, HandlerFailsLast, HandlerRpcCancelled, TaskSaved,
                WorkerCancelled, TypeOK, WorkerLive
  <2>3. QED
    BY <2>1, <2>2
<1>3. QED
  BY <1>1, <1>2, WorkerMove, MoveTypes DEF TypeOK, svcVars, mainVars, schedVars

LEMMA ScheduleTypeOK ==
  ASSUME TypeOK, NEW k \in Kinds, ScheduleSteps(k)
  PROVE  TypeOK'
<1>1. CASE ScheduleBegins(k)
  BY <1>1 DEF ScheduleBegins, TypeOK, svcVars, mainVars, pairVars, taskVars
<1>2. ASSUME NEW t \in TaskIds, ScheduleFires(k, t)
      PROVE  TypeOK'
  BY <1>2 DEF ScheduleFires, ExecuteInWorker, TypeOK,
              svcVars, mainVars, pairVars, schedVars
<1>3. QED
  BY <1>1, <1>2 DEF ScheduleSteps

LEMMA NextTypeOK ==
  ASSUME TypeOK, HoldersAreBusy, [Next]_vars
  PROVE  TypeOK'
<1>1. CASE UNCHANGED vars
  BY <1>1 DEF vars, svcVars, mainVars, pairVars, taskVars, schedVars, TypeOK
<1>2. QED
  BY <1>1, ControllerTypeOK, MainTypeOK, ListenerTypeOK, WorkerTypeOK,
     ScheduleTypeOK DEF Next

\* Every variable keeps its type, in every behaviour of the service.
THEOREM TypeCorrect == Spec => []TypeOK
<1>1. Init => TypeOK /\ HoldersAreBusy
  BY InitTypeOK DEF Init, HoldersAreBusy, Busy
<1>2. TypeOK /\ HoldersAreBusy /\ [Next]_vars => TypeOK' /\ HoldersAreBusy'
  BY NextTypeOK, StepIsMove, MoveHolders
<1>3. QED
  BY <1>1, <1>2, PTL DEF Spec

(***************************************************************************)
(* The client.  An invariant of its own, of the service and the listeners: *)
(* neither the tasks nor the schedules take part.                          *)
(***************************************************************************)
ClientInv == ClientReleasedWhenStopped /\ PollsInstalledClient

\* A release is safe at any time: it takes the poll of every listener with it.
LEMMA ReleaseKeepsPolls ==
  ASSUME TypeOK, ReleaseVk
  PROVE  ClientReleasedWhenStopped' /\ PollsInstalledClient'
  BY DEF ReleaseVk, TypeOK, ClientReleasedWhenStopped, PollsInstalledClient

LEMMA ClientStep ==
  ASSUME TypeOK, ClientInv, [Next]_vars
  PROVE  ClientInv'
<1> USE DEF ClientInv
<1>0. ASSUME UNCHANGED <<svcVars, lst>>
      PROVE  ClientInv'
  BY <1>0 DEF svcVars, ClientReleasedWhenStopped, PollsInstalledClient
<1>1. ASSUME NEW c \in Controllers, BeginStart(c), UNCHANGED pairVars
      PROVE  ClientInv'
  BY <1>1 DEF BeginStart, svcVars, pairVars, ClientReleasedWhenStopped,
              PollsInstalledClient
<1>2. ASSUME StopBody
      PROVE  ClientInv'
  BY <1>2, <1>0, ReleaseKeepsPolls DEF StopBody, pairVars
<1>3. CASE Commands \/ ControllerSteps
  <2>1. CASE StartService \/ BootStart \/ EndPause
    BY <1>1, <2>1 DEF StartService, BootStart, EndPause, Controllers
  <2>2. CASE StopService \/ Restart
    BY <1>2, <2>2 DEF StopService, Restart
  <2>3. CASE \/ ScheduleRestart \/ ScheduleReadFails
             \/ \E c \in Controllers : CreateRowSchedules(c) \/ CreateDailySchedule(c)
    BY <1>0, <2>3 DEF ScheduleRestart, ScheduleReadFails, CreateRowSchedules,
                      CreateDailySchedule, pairVars
  <2>4. QED
    BY <1>3, <2>1, <2>2, <2>3 DEF Commands, ControllerSteps
<1>4. ASSUME NEW m \in Mains, MainSteps(m)
      PROVE  ClientInv'
  <2>1. ASSUME MainHead(m), UNCHANGED <<stopping, pairVars>>
        PROVE  ClientInv'
    BY <2>1 DEF MainHead, pairVars, ClientReleasedWhenStopped, PollsInstalledClient
  <2>2. CASE MainBegins(m) \/ MainLoops(m) \/ MainWakes(m)
    BY <2>1, <2>2 DEF MainBegins, MainLoops, MainWakes
  <2>3. CASE AllocFails(m) \/ GatherFailed(m)
    BY <2>3, ReleaseKeepsPolls DEF AllocFails, GatherFailed, MainFails
  <2>4. ASSUME NEW g \in Gangs, AllocDone(m, g)
        PROVE  ClientInv'
    BY <2>4 DEF AllocDone, TypeOK, svcVars, ClientReleasedWhenStopped,
                PollsInstalledClient
  <2>5. CASE GatherEnds(m)
    BY <1>0, <2>5 DEF GatherEnds, pairVars
  <2>6. CASE MainCancelled(m)
    BY <2>6 DEF MainCancelled, pairVars, ClientReleasedWhenStopped,
                PollsInstalledClient
  <2>7. QED
    BY <1>4, <2>2, <2>3, <2>4, <2>5, <2>6 DEF MainSteps
<1>5. ASSUME NEW g \in Gangs, ListenerSteps(g)
      PROVE  ClientInv'
  <2>1. UNCHANGED svcVars
    BY <1>5 DEF ListenerSteps, ListenerBegins, EventArrives, PollFails,
                GeneratorStops, ListenerCancelled
  <2>2. CASE ListenerHead(g)
    BY <2>1, <2>2 DEF ListenerHead, TypeOK, svcVars, ClientReleasedWhenStopped,
                      PollsInstalledClient
  <2>3. CASE ~ListenerHead(g)
    BY <1>5, <2>1, <2>3
       DEF ListenerSteps, ListenerBegins, EventArrives, PollFails, GeneratorStops,
           ListenerCancelled, TypeOK, svcVars, pairVars, ClientReleasedWhenStopped,
           PollsInstalledClient
  <2>4. QED
    BY <2>2, <2>3
<1>6. ASSUME NEW g \in Gangs, WorkerSteps(g)
      PROVE  ClientInv'
  BY <1>6, <1>0 DEF WorkerSteps, WorkerBegins, GetTask, HandlerReturns, AccessDenied,
                    HandlerFails, HandlerFailsLast, HandlerRpcCancelled, TaskSaved,
                    WorkerCancelled
<1>7. ASSUME NEW k \in Kinds, ScheduleSteps(k)
      PROVE  ClientInv'
  BY <1>7, <1>0 DEF ScheduleSteps, ScheduleBegins, ScheduleFires, pairVars
<1>8. CASE UNCHANGED vars
  BY <1>8, <1>0 DEF vars, pairVars
<1>9. QED
  BY <1>3, <1>4, <1>5, <1>6, <1>7, <1>8 DEF Next

(***************************************************************************)
(* The schedule tasks.  A stop cancels them all, and one whose first step  *)
(* comes after the stop ends there; the other steps leave them alone.      *)
(***************************************************************************)
LEMMA ScheduleStep ==
  ASSUME TypeOK, NoScheduleWhenStopped, [Next]_vars
  PROVE  NoScheduleWhenStopped'
<1>0. ASSUME schedLive' = schedLive, stopping' = stopping \/ ~stopping'
      PROVE  NoScheduleWhenStopped'
  BY <1>0 DEF NoScheduleWhenStopped
<1>1. ASSUME NEW c \in Controllers, BeginStart(c), schedLive' = schedLive
      PROVE  NoScheduleWhenStopped'
  BY <1>0, <1>1 DEF BeginStart, svcVars
<1>2. ASSUME StopScheduleTasks
      PROVE  NoScheduleWhenStopped'
  BY <1>2 DEF StopScheduleTasks, NoScheduleWhenStopped
<1>3. CASE Commands \/ ControllerSteps
  <2>1. CASE StartService \/ BootStart \/ EndPause
    BY <1>1, <2>1 DEF StartService, BootStart, EndPause, Controllers, schedVars
  <2>2. CASE StopService \/ Restart
    BY <1>0, <1>2, <2>2 DEF StopService, Restart, StopBody, svcVars, schedVars
  <2>3. CASE ScheduleRestart
    BY <1>2, <2>3 DEF ScheduleRestart
  <2>4. CASE \/ ScheduleReadFails
             \/ \E c \in Controllers : CreateRowSchedules(c) \/ CreateDailySchedule(c)
    BY <1>0, <2>4 DEF ScheduleReadFails, CreateRowSchedules, CreateDailySchedule,
                      svcVars, schedVars
  <2>5. QED
    BY <1>3, <2>1, <2>2, <2>3, <2>4 DEF Commands, ControllerSteps
<1>4. ASSUME NEW m \in Mains, MainSteps(m)
      PROVE  NoScheduleWhenStopped'
  BY <1>0, <1>4 DEF MainSteps, MainBegins, MainLoops, MainWakes, AllocFails,
                    GatherFailed, AllocDone, GatherEnds, MainCancelled, svcVars,
                    schedVars
<1>5. ASSUME NEW g \in Gangs, ListenerSteps(g) \/ WorkerSteps(g)
      PROVE  NoScheduleWhenStopped'
  <2>1. UNCHANGED <<svcVars, schedVars>>
    BY <1>5 DEF ListenerSteps, ListenerBegins, EventArrives, PollFails,
                GeneratorStops, ListenerCancelled, WorkerSteps, WorkerBegins, GetTask,
                HandlerReturns, AccessDenied, HandlerFails, HandlerFailsLast,
                HandlerRpcCancelled, TaskSaved, WorkerCancelled
  <2>2. QED
    BY <1>0, <2>1 DEF svcVars, schedVars
<1>6. ASSUME NEW k \in Kinds, ScheduleSteps(k)
      PROVE  NoScheduleWhenStopped'
  <2>1. CASE ScheduleBegins(k)
    BY <2>1 DEF ScheduleBegins, NoScheduleWhenStopped, TypeOK, svcVars
  <2>2. ASSUME NEW t \in TaskIds, ScheduleFires(k, t)
        PROVE  NoScheduleWhenStopped'
    BY <1>0, <2>2 DEF ScheduleFires, svcVars, schedVars
  <2>3. QED
    BY <1>6, <2>1, <2>2 DEF ScheduleSteps
<1>7. CASE UNCHANGED vars
  BY <1>0, <1>7 DEF vars, svcVars, schedVars
<1>8. QED
  BY <1>3, <1>4, <1>5, <1>6, <1>7 DEF Next

\* A stopped service has no client and no schedule task, at whichever await the stop
\* met its main and its controllers; and no listener polls a client that was released.
THEOREM CleanStop == Spec => []StopIsClean
<1>1. Init => ClientInv /\ NoScheduleWhenStopped
  BY DEF Init, ClientInv, ClientReleasedWhenStopped, PollsInstalledClient,
         NoScheduleWhenStopped
<1>2. TypeOK /\ ClientInv /\ NoScheduleWhenStopped /\ [Next]_vars
      => ClientInv' /\ NoScheduleWhenStopped'
  BY ClientStep, ScheduleStep
<1>3. ClientInv /\ NoScheduleWhenStopped => StopIsClean
  BY DEF ClientInv, StopIsClean
<1>4. QED
  BY <1>1, <1>2, <1>3, TypeCorrect, PTL DEF Spec

(***************************************************************************)
(* No task is lost or copied.                                              *)
(***************************************************************************)
\* In the queue, and there at most once.
Occurs(q, t) == \E i \in DOMAIN q : q[i] = t
Distinct(q) == \A i, j \in DOMAIN q : q[i] = q[j] => i = j

\* What put does to the queue ...
LEMMA AppendOccurs ==
  ASSUME NEW q \in Seq(TaskIds), NEW t \in TaskIds
  PROVE  /\ \A u : Occurs(Append(q, t), u) <=> Occurs(q, u) \/ u = t
         /\ Distinct(q) /\ ~Occurs(q, t) => Distinct(Append(q, t))
<1> DEFINE a == Append(q, t)
<1>1. /\ DOMAIN a = 1..Len(q) + 1 /\ DOMAIN q = 1..Len(q) /\ Len(q) \in Nat
      /\ a[Len(q) + 1] = t
      /\ \A i \in DOMAIN q : a[i] = q[i]
  OBVIOUS
<1>2. Len(q) + 1 \in DOMAIN a /\ DOMAIN a = DOMAIN q \cup {Len(q) + 1}
  BY <1>1
<1> HIDE DEF a
<1>3. \A u : Occurs(a, u) <=> Occurs(q, u) \/ u = t
  BY <1>1, <1>2 DEF Occurs
<1>4. Distinct(q) /\ ~Occurs(q, t) => Distinct(a)
  BY <1>1, <1>2 DEF Occurs, Distinct
<1>5. QED
  BY <1>3, <1>4 DEF a

\* ... and get.
LEMMA TailOccurs ==
  ASSUME NEW q \in Seq(TaskIds), q # <<>>
  PROVE  /\ Head(q) \in TaskIds
         /\ Occurs(q, Head(q))
         /\ \A u : Occurs(q, u) <=> Occurs(Tail(q), u) \/ u = Head(q)
         /\ Distinct(q) => Distinct(Tail(q)) /\ ~Occurs(Tail(q), Head(q))
<1> DEFINE r == Tail(q)
           t == Head(q)
<1>1. /\ t \in TaskIds /\ t = q[1]
      /\ DOMAIN q = 1..Len(q) /\ Len(q) \in Nat \ {0}
      /\ DOMAIN r = 1..Len(q) - 1
      /\ \A i \in DOMAIN r : r[i] = q[i + 1]
  OBVIOUS
<1> HIDE DEF r, t
<1>2. /\ 1 \in DOMAIN q
      /\ \A i \in DOMAIN r : i + 1 \in DOMAIN q /\ i + 1 # 1
      /\ \A i \in DOMAIN q : i # 1 => i - 1 \in DOMAIN r /\ r[i - 1] = q[i]
  BY <1>1
<1>3. \A u : Occurs(q, u) <=> Occurs(r, u) \/ u = t
  BY <1>1, <1>2 DEF Occurs
<1>4. ASSUME Distinct(q)
      PROVE  Distinct(r) /\ ~Occurs(r, t)
  <2>1. ~Occurs(r, t)
    BY <1>1, <1>2, <1>4 DEF Occurs, Distinct
  <2>2. ASSUME NEW i \in DOMAIN r, NEW j \in DOMAIN r, r[i] = r[j]
        PROVE  i = j
    <3>1. i + 1 = j + 1
      BY <1>1, <1>2, <1>4, <2>2 DEF Distinct
    <3>2. QED
      BY <1>1, <3>1
  <2>3. QED
    BY <2>1, <2>2 DEF Distinct
<1>5. Occurs(q, t)
  BY <1>1, <1>2 DEF Occurs
<1>6. QED
  BY <1>1, <1>3, <1>4, <1>5 DEF r, t

\* TaskInOnePlace in these terms.
LEMMA Places ==
  /\ TaskInOnePlace <=>
       /\ \A t \in TaskIds : fate[t] = "queued" <=> Occurs(queue, t)
       /\ Distinct(queue)
       /\ \A t \in TaskIds : fate[t] = "held" <=> \E g \in Gangs : held[g] = t
       /\ \A g, h \in Gangs : held[g] = held[h] /\ held[g] # NoTask => g = h
  /\ TaskInOnePlace' <=>
       /\ \A t \in TaskIds : fate'[t] = "queued" <=> Occurs(queue', t)
       /\ Distinct(queue')
       /\ \A t \in TaskIds : fate'[t] = "held" <=> \E g \in Gangs : held'[g] = t
       /\ \A g, h \in Gangs : held'[g] = held'[h] /\ held'[g] # NoTask => g = h
  BY DEF TaskInOnePlace, Occurs, Distinct

LEMMA MovePlaces ==
  ASSUME TypeOK, HoldersAreBusy, TaskInOnePlace, TaskMove
  PROVE  TaskInOnePlace'
<1>0. /\ queue \in Seq(TaskIds)
      /\ DOMAIN fate = TaskIds /\ fate = [u \in TaskIds |-> fate[u]]
      /\ DOMAIN held = Gangs /\ held = [h \in Gangs |-> held[h]]
      /\ NoTask \notin TaskIds
  BY SlotAssumption DEF TypeOK
<1>p. /\ \A t \in TaskIds : fate[t] = "queued" <=> Occurs(queue, t)
      /\ Distinct(queue)
      /\ \A t \in TaskIds : fate[t] = "held" <=> \E g \in Gangs : held[g] = t
      /\ \A g, h \in Gangs : held[g] = held[h] /\ held[g] # NoTask => g = h
  BY Places
<1>1. CASE Kept
  BY <1>1 DEF Kept, taskVars, TaskInOnePlace
<1>2. ASSUME NEW t \in TaskIds, Entered(t)
      PROVE  TaskInOnePlace'
  <2>1. /\ fate' = [fate EXCEPT ![t] = "queued"] /\ fate[t] = "new"
        /\ queue' = Append(queue, t) /\ held' = held
    BY <1>2 DEF Entered, ExecuteInWorker
  <2>2. ~Occurs(queue, t)
    BY <1>p, <2>1
  <2>3. Distinct(queue') /\ \A u : Occurs(queue', u) <=> Occurs(queue, u) \/ u = t
    BY <1>0, <1>p, <2>1, <2>2, AppendOccurs
  <2>4. QED
    BY <1>0, <1>p, <2>1, <2>3, Places
<1>3. ASSUME NEW g \in Gangs, Taken(g)
      PROVE  TaskInOnePlace'
  <2> DEFINE t == Head(queue)
  <2>1. /\ fate' = [fate EXCEPT ![t] = "held"]
        /\ held' = [held EXCEPT ![g] = t]
        /\ queue # <<>> /\ queue' = Tail(queue)
        /\ held[g] = NoTask
    BY <1>3 DEF Taken, HoldersAreBusy
  <2>2. /\ t \in TaskIds /\ Occurs(queue, t)
        /\ Distinct(queue') /\ ~Occurs(queue', t)
        /\ \A u : Occurs(queue, u) <=> Occurs(queue', u) \/ u = t
    BY <1>0, <1>p, <2>1, TailOccurs
  <2> HIDE DEF t
  <2>3. \A h \in Gangs : held[h] # t
    BY <1>p, <2>2
  <2>4. \A u \in TaskIds : fate'[u] = "queued" <=> Occurs(queue', u)
    BY <1>0, <1>p, <2>1, <2>2
  <2>5. \A u \in TaskIds : fate'[u] = "held" <=> \E h \in Gangs : held'[h] = u
    BY <1>0, <1>p, <2>1, <2>2, <2>3
  <2>6. \A h, k \in Gangs : held'[h] = held'[k] /\ held'[h] # NoTask => h = k
    BY <1>0, <1>p, <2>1, <2>3
  <2>7. QED
    BY <2>2, <2>4, <2>5, <2>6, Places
<1>4. ASSUME NEW g \in Gangs, PutBack(g)
      PROVE  TaskInOnePlace'
  <2> DEFINE t == held[g]
  <2>1. /\ t \in TaskIds
        /\ fate' = [fate EXCEPT ![t] = "queued"]
        /\ held' = [held EXCEPT ![g] = NoTask]
        /\ queue' = Append(queue, t)
    BY <1>4, BusyHoldsTask DEF PutBack, LetGo
  <2>2. ~Occurs(queue, t)
    BY <1>p, <2>1
  <2>3. Distinct(queue') /\ \A u : Occurs(queue', u) <=> Occurs(queue, u) \/ u = t
    BY <1>0, <1>p, <2>1, <2>2, AppendOccurs
  <2>4. \A u \in TaskIds : fate'[u] = "queued" <=> Occurs(queue', u)
    BY <1>0, <1>p, <2>1, <2>3
  <2>5. /\ \A u \in TaskIds : fate'[u] = "held" <=> \E h \in Gangs : held'[h] = u
        /\ \A h, k \in Gangs : held'[h] = held'[k] /\ held'[h] # NoTask => h = k
    BY <1>0, <1>p, <2>1
  <2>6. QED
    BY <2>3, <2>4, <2>5, Places
<1>5. ASSUME NEW g \in Gangs, NEW f \in Finished, Dropped(g, f)
      PROVE  TaskInOnePlace'
  <2> DEFINE t == held[g]
  <2>1. /\ t \in TaskIds /\ f \notin {"queued", "held"}
        /\ fate' = [fate EXCEPT ![t] = f]
        /\ held' = [held EXCEPT ![g] = NoTask]
        /\ queue' = queue
    BY <1>5, BusyHoldsTask DEF Dropped, LetGo, Finished
  <2>2. ~Occurs(queue, t)
    BY <1>p, <2>1
  <2>3. \A u \in TaskIds : fate'[u] = "queued" <=> Occurs(queue', u)
    BY <1>0, <1>p, <2>1, <2>2
  <2>4. /\ \A u \in TaskIds : fate'[u] = "held" <=> \E h \in Gangs : held'[h] = u
        /\ \A h, k \in Gangs : held'[h] = held'[k] /\ held'[h] # NoTask => h = k
    BY <1>0, <1>p, <2>1
  <2>5. QED
    BY <1>p, <2>1, <2>3, <2>4, Places
<1>6. QED
  BY <1>1, <1>2, <1>3, <1>4, <1>5 DEF TaskMove

LEMMA TaskInvariant == Spec => []TaskInv
<1>1. Init => TaskInv
  BY InitTypeOK, SlotAssumption DEF Init, TaskInv, HoldersAreBusy, Busy, TaskInOnePlace
<1>2. TaskInv /\ [Next]_vars => TaskInv'
  BY NextTypeOK, StepIsMove, MoveHolders, MovePlaces DEF TaskInv
<1>3. QED
  BY <1>1, <1>2, PTL DEF Spec

(***************************************************************************)
(* The rows of vk_tasks: nothing is written for a task before its last     *)
(* move, and that move writes at most one row.                             *)
(***************************************************************************)
LEMMA MoveRows ==
  ASSUME TaskInv, SavedOnce, TaskMove
  PROVE  SavedOnce'
<1>0. /\ DOMAIN fate = TaskIds /\ fate = [u \in TaskIds |-> fate[u]]
      /\ rows \in [TaskIds -> Nat]
  BY DEF TaskInv, TypeOK
<1>1. ASSUME rows' = rows,
             NEW t \in TaskIds, NEW f, fate' = [fate EXCEPT ![t] = f],
             fate[t] \in {"new", "queued", "held"}, f # "saved"
      PROVE  SavedOnce'
  BY <1>0, <1>1 DEF SavedOnce
<1>2. CASE Kept
  BY <1>2 DEF Kept, taskVars, SavedOnce
<1>3. ASSUME NEW t \in TaskIds, Entered(t)
      PROVE  SavedOnce'
  BY <1>1, <1>3 DEF Entered, ExecuteInWorker
<1>4. ASSUME NEW g \in Gangs, Taken(g)
      PROVE  SavedOnce'
  <2>1. Head(queue) \in TaskIds /\ fate[Head(queue)] = "queued"
    BY <1>4, TailOccurs, Places DEF Taken, TaskInv, TypeOK
  <2>2. QED
    BY <1>1, <1>4, <2>1 DEF Taken
<1>5. ASSUME NEW g \in Gangs, Busy(g)
      PROVE  held[g] \in TaskIds /\ fate[held[g]] = "held"
  BY <1>5, BusyHoldsTask DEF TaskInv, TaskInOnePlace
<1>6. ASSUME NEW g \in Gangs, PutBack(g)
      PROVE  SavedOnce'
  BY <1>1, <1>5, <1>6 DEF PutBack, LetGo
<1>7. ASSUME NEW g \in Gangs, NEW f \in Finished, Dropped(g, f)
      PROVE  SavedOnce'
  <2> DEFINE t == held[g]
  <2>1. /\ t \in TaskIds /\ fate[t] = "held" /\ fate' = [fate EXCEPT ![t] = f]
        /\ \/ rows' = rows /\ f # "saved"
           \/ rows' = [rows EXCEPT ![t] = @ + 1] /\ f \in {"saved", "lost"}
    BY <1>5, <1>7 DEF Dropped, LetGo
  <2>2. rows[t] = 0
    BY <1>0, <2>1 DEF SavedOnce
  <2>3. CASE rows' = [rows EXCEPT ![t] = @ + 1] /\ f \in {"saved", "lost"}
    <3>1. rows' = [rows EXCEPT ![t] = 1]
      BY <2>2, <2>3
    <3>2. QED
      BY <1>0, <2>1, <2>3, <3>1 DEF SavedOnce
  <2>4. QED
    BY <1>1, <2>1, <2>3
<1>8. QED
  BY <1>2, <1>3, <1>4, <1>6, <1>7 DEF TaskMove

\* Whatever is sent, fails or is cancelled, an accepted task is in the queue once,
\* with one worker, or finished; it leaves at most one row, none before it has left
\* the service, and one whenever it left as saved.
THEOREM NoTaskLostOrCopied == Spec => []TasksAreKept
<1>1. Init => SavedOnce
  BY DEF Init, SavedOnce
<1>2. TaskInv /\ SavedOnce /\ [Next]_vars => SavedOnce'
  BY StepIsMove, MoveRows DEF TaskInv
<1>3. TaskInv /\ SavedOnce => TasksAreKept
  BY DEF TaskInv, TasksAreKept
<1>4. QED
  BY <1>1, <1>2, <1>3, TaskInvariant, PTL DEF Spec

(***************************************************************************)
(* The refinement: each move is a step of TaskQueue, or none.              *)
(***************************************************************************)
LEMMA MoveRefines ==
  ASSUME TaskInv, TaskMove
  PROVE  TQ!Next \/ UNCHANGED <<fate, tries>>
<1>1. CASE Kept
  BY <1>1 DEF Kept, taskVars
<1>2. ASSUME NEW t \in TaskIds, Entered(t)
      PROVE  TQ!Accept(t)
  BY <1>2 DEF Entered, ExecuteInWorker, TQ!Accept
<1>3. ASSUME NEW g \in Gangs, Taken(g)
      PROVE  Head(queue) \in TaskIds /\ TQ!Run(Head(queue))
  <2>1. Head(queue) \in TaskIds /\ fate[Head(queue)] = "queued"
    BY <1>3, TailOccurs, Places DEF Taken, TaskInv, TypeOK
  <2>2. QED
    BY <1>3, <2>1 DEF Taken, TQ!Run
<1>4. ASSUME NEW g \in Gangs, Busy(g)
      PROVE  held[g] \in TaskIds /\ fate[held[g]] = "held"
  BY <1>4, BusyHoldsTask DEF TaskInv, TaskInOnePlace
<1>5. ASSUME NEW g \in Gangs, PutBack(g)
      PROVE  held[g] \in TaskIds /\ TQ!PutBack(held[g])
  BY <1>4, <1>5 DEF PutBack, LetGo, MayPutBack, TQ!PutBack
<1>6. ASSUME NEW g \in Gangs, NEW f \in Finished, Dropped(g, f)
      PROVE  held[g] \in TaskIds /\ TQ!Finish(held[g])
  BY <1>4, <1>6 DEF Dropped, LetGo, Finished, TQ!Finish, TQ!Finished
<1>7. QED
  BY <1>1, <1>2, <1>3, <1>5, <1>6 DEF TaskMove, TQ!Next

\* The service keeps the promise of TaskQueue: in particular a task is run at
\* most MaxRetries + 1 times, and a finished one never again.
THEOREM Refinement == Spec => ImplementsTaskQueue
<1>1. Init => TQ!Init
  BY DEF Init, TQ!Init
<1>2. TaskInv /\ [Next]_vars => [TQ!Next]_(TQ!vars)
  BY StepIsMove, MoveRefines DEF TaskInv, TQ!vars
<1>3. QED
  BY <1>1, <1>2, TaskInvariant, PTL DEF Spec, ImplementsTaskQueue, TQ!Spec

(***************************************************************************)
(* One of each, when every command waits for the last one to settle.       *)
(***************************************************************************)

\* One controller is at something at a time; the boot is the first.
OneController ==
  /\ ctl["boot"] # "idle" => ctl["redis"] = "idle"
  /\ ctl["boot"] # "pausing" /\ ctl["redis"] # "begin"
  /\ ctl["boot"] = "begin" \/ ctl["redis"] = "pausing" => stopping
  /\ ctl["boot"] = "begin" => /\ \A m \in Mains : ~MainLive(m)
                              /\ \A g \in Gangs : ~lcan[g] /\ ~wcan[g]

NoSchedule(k) == schedNew[k] = 0 /\ schedLive[k] = 0

\* Schedules are created only where none is.
Schedules ==
  /\ OneTaskPerSchedule
  /\ \A c \in Controllers :
       /\ ctl[c] \in {"begin", "pausing", "reading"} => \A k \in Kinds : NoSchedule(k)
       /\ ctl[c] = "closing" /\ "daily" \in Kinds => NoSchedule("daily")

\* There is one main at most, and while the service is started it is registered.
\* It is cancelled only by a stop, and has a pair from its gather to its next loop.
OneLive ==
  /\ \A m, n \in Mains : MainLive(m) /\ MainLive(n) => m = n
  /\ \A m \in Mains :
       /\ MainLive(m) /\ ~stopping => m \in registered
       /\ cancel[m] # "none" => stopping
       /\ cancel[m] = "must" => mpc[m] \in {"new", "alloc", "sleep"}
       /\ cancel[m] = "gather" => mpc[m] = "gather"
       /\ gang[m] # NoGang <=> mpc[m] \in Woken \cup {"gather"}

\* Only what lives is marked cancelled, and until it has ended the client is closed
\* and a main that is not stopped sleeps.
Marks ==
  \A g \in Gangs :
    /\ lcan[g] => lst[g] \in ListenerLive
    /\ wcan[g] => wrk[g] \in WorkerLive
    /\ lcan[g] \/ wcan[g] =>
         client = "none" /\ (stopping \/ \A m \in Mains : MainLive(m) => mpc[m] = "sleep")

\* What is left of the pair is on its way out.
Leaving(g) ==
  /\ lst[g] \in ListenerLive => lcan[g]
  /\ wrk[g] \in WorkerLive => wcan[g]

\* The cancellation of m has reached its children, and nothing else ended them.
Unwinding(m) ==
  /\ mpc[m] = "gather" /\ cancel[m] = "gather"
  /\ Leaving(gang[m])
  /\ lst[gang[m]] \notin {"none", "failed"} /\ wrk[gang[m]] \notin {"none", "failed"}

\* A main that lives while the service is stopped has its cancellation before it.
StoppedMains ==
  stopping => \A m \in Mains :
    MainLive(m) => cancel[m] = "must" \/ mpc[m] = "cancelled" \/ Unwinding(m)

\* What a gather and its end tell of the pair.
Gathers ==
  \A m \in Mains :
    /\ mpc[m] = "gather" /\ cancel[m] = "none" =>
         lst[gang[m]] \notin {"none", "cancelled"} /\ wrk[gang[m]] \notin {"none", "cancelled"}
    /\ mpc[m] = "returned" => BothEnded(gang[m])
    /\ mpc[m] = "cancelled" => stopping /\ Leaving(gang[m])

\* A pair is some main's, or what is left of it is on its way out.
Owned == \A g \in Gangs : Leaving(g) \/ \E m \in Mains : gang[m] = g

Pairs == OneLive /\ Marks /\ StoppedMains /\ Gathers /\ Owned

CalmInv == OneController /\ Schedules /\ Pairs


\* While the service is stopped everything that lives is on its way out.
LEMMA StoppedLeaves ==
  ASSUME TypeOK, Pairs, stopping, NEW g \in Gangs
  PROVE  Leaving(g)
<1>1. CASE \E m \in Mains : gang[m] = g
  <2>1. PICK m \in Mains : gang[m] = g
    BY <1>1
  <2>2. gang[m] # NoGang
    BY <2>1, SlotAssumption
  <2>3. mpc[m] \in Woken \cup {"gather"}
    BY <2>2 DEF Pairs, OneLive
  <2>4. MainLive(m) /\ cancel[m] # "must"
    BY <2>3 DEF Pairs, OneLive, MainLive, Woken
  <2>5. mpc[m] = "cancelled" \/ Unwinding(m)
    BY <2>4 DEF Pairs, StoppedMains
  <2>6. QED
    BY <2>1, <2>5 DEF Pairs, Gathers, Unwinding
<1>2. CASE ~\E m \in Mains : gang[m] = g
  BY <1>2 DEF Pairs, Owned
<1>3. QED
  BY <1>1, <1>2

\* A main that runs on, and is not cancelled, runs in a started service.
LEMMA RunsStarted ==
  ASSUME Pairs, NEW m \in Mains, MainLive(m), cancel[m] = "none", mpc[m] # "cancelled"
  PROVE  ~stopping
  BY DEF Pairs, StoppedMains, Unwinding

\* Who lives is the one there is.
LEMMA OtherMains ==
  ASSUME TypeOK, Pairs, NEW m \in Mains, MainLive(m), NEW n \in Mains, n # m
  PROVE  mpc[n] = "none" /\ gang[n] = NoGang /\ cancel[n] = "none"
<1>1. mpc[n] = "none"
  BY DEF Pairs, OneLive, MainLive
<1>2. cancel[n] # "must" /\ cancel[n] # "gather" /\ gang[n] = NoGang
  BY <1>1 DEF Pairs, OneLive, Woken
<1>3. QED
  BY <1>1, <1>2 DEF TypeOK

\* Once every cancellation was raised a stopped service has no main.
LEMMA StoppedIsEmpty ==
  ASSUME TypeOK, Pairs, CancelsRaised, stopping, NEW m \in Mains
  PROVE  ~MainLive(m)
<1> SUFFICES ASSUME MainLive(m)
             PROVE  FALSE
  OBVIOUS
<1>1. Unwinding(m)
  BY DEF Pairs, StoppedMains, CancelsRaised, Woken
<1> DEFINE g == gang[m]
<1>2. g \in Gangs
  BY <1>1 DEF Unwinding, Pairs, OneLive, TypeOK
<1>3. lst[g] \in {"ended", "cancelled"} /\ wrk[g] \in {"ended", "cancelled"}
  BY <1>1, <1>2 DEF Unwinding, Leaving, CancelsRaised, TypeOK
<1>4. GatherOver(g)
  BY <1>3 DEF GatherOver, BothEnded
<1>5. QED
  BY <1>1, <1>4 DEF Unwinding, CancelsRaised

\* Of the pairs, a step of the listener of g changes where it stands and its mark: on
\* its own it goes on or ends; cancelled, it ends, and fails only in a started service.
ListenerMoves(g) ==
  /\ UNCHANGED <<svcVars, ctl, mainVars, wrk, wcan, schedVars>>
  /\ \A h \in Gangs \ {g} : lst'[h] = lst[h] /\ lcan'[h] = lcan[h]
  /\ lst[g] \in ListenerLive /\ ~lcan'[g]
  /\ lcan[g] => /\ lst'[g] \in {"cancelled", "ended", "failed"}
                /\ stopping => lst'[g] # "failed"
  /\ ~lcan[g] => lst'[g] \in ListenerLive \cup {"ended", "failed"}

WorkerMoves(g) ==
  /\ UNCHANGED <<svcVars, ctl, mainVars, lst, lcan, schedVars>>
  /\ \A h \in Gangs \ {g} : wrk'[h] = wrk[h] /\ wcan'[h] = wcan[h]
  /\ wrk[g] \in WorkerLive /\ ~wcan'[g]
  /\ wcan[g] => wrk'[g] \in {"cancelled", "ended"}
  /\ ~wcan[g] => wrk'[g] \in WorkerLive \cup {"ended", "failed"}

LEMMA ListenerStepMoves ==
  ASSUME TypeOK, Pairs, NEW g \in Gangs, ListenerSteps(g)
  PROVE  ListenerMoves(g)
<1>1. /\ lst \in [Gangs -> ListenerLive \cup {"none", "failed", "ended", "cancelled"}]
      /\ lcan \in [Gangs -> BOOLEAN]
  BY DEF TypeOK
<1>2. lcan[g] => lst[g] \in ListenerLive /\ client = "none"
  BY DEF Pairs, Marks
<1>3. CASE ListenerBegins(g)
  BY <1>1, <1>3 DEF ListenerBegins, ListenerHead, ListenerMoves, ListenerLive
<1>4. ASSUME NEW t \in TaskIds, EventArrives(g, t)
      PROVE  ListenerMoves(g)
  BY <1>1, <1>4 DEF EventArrives, PollReturns, ListenerMoves, ListenerLive, pairVars
<1>5. CASE PollFails(g)
  BY <1>1, <1>5 DEF PollFails, PollReturns, ListenerMoves, ListenerLive
<1>6. CASE GeneratorStops(g)
  BY <1>1, <1>6 DEF GeneratorStops, PollReturns, ListenerHead, ListenerMoves, ListenerLive
<1>7. CASE ListenerCancelled(g)
  <2>1. lcan[g] /\ lst[g] \in ListenerLive /\ client = "none"
    BY <1>2, <1>7 DEF ListenerCancelled
  <2>2. /\ lcan' = [lcan EXCEPT ![g] = FALSE]
        /\ \/ lst' = [lst EXCEPT ![g] = "cancelled"]
           \/ stopping /\ lst' = [lst EXCEPT ![g] = "ended"]
           \/ ~stopping /\ lst' = [lst EXCEPT ![g] = "failed"]
    BY <1>7, <2>1 DEF ListenerCancelled, ListenerHead
  <2>3. /\ \A h \in Gangs \ {g} : lst'[h] = lst[h] /\ lcan'[h] = lcan[h]
        /\ ~lcan'[g] /\ lst'[g] \in {"cancelled", "ended", "failed"}
        /\ stopping => lst'[g] # "failed"
    BY <1>1, <2>2
  <2>4. QED
    BY <1>7, <2>1, <2>3 DEF ListenerCancelled, ListenerMoves
<1>8. QED
  BY <1>3, <1>4, <1>5, <1>6, <1>7 DEF ListenerSteps

LEMMA WorkerStepMoves ==
  ASSUME TypeOK, Pairs, NEW g \in Gangs, WorkerSteps(g)
  PROVE  WorkerMoves(g)
<1>1. /\ wrk \in [Gangs -> WorkerLive \cup {"none", "failed", "ended", "cancelled"}]
      /\ wcan \in [Gangs -> BOOLEAN]
  BY DEF TypeOK
<1>2. wcan[g] => wrk[g] \in WorkerLive
  BY DEF Pairs, Marks
<1>3. ASSUME NEW to \in WorkerLive \cup {"ended", "failed"},
             wrk[g] \in WorkerLive, ~wcan[g], wrk' = [wrk EXCEPT ![g] = to],
             UNCHANGED <<svcVars, ctl, mainVars, lst, lcan, wcan, schedVars>>
      PROVE  WorkerMoves(g)
  BY <1>1, <1>3 DEF WorkerMoves
<1>4. CASE WorkerBegins(g)
  BY <1>3, <1>4 DEF WorkerBegins, WorkerHead, WorkerLive
<1>5. CASE GetTask(g)
  BY <1>3, <1>5 DEF GetTask, WorkerLive
<1>6. CASE HandlerReturns(g)
  BY <1>3, <1>6 DEF HandlerReturns, Executing, WorkerLive
<1>7. CASE AccessDenied(g)
  BY <1>3, <1>7 DEF AccessDenied, Executing, WorkerHead, WorkerLive
<1>8. CASE HandlerFails(g)
  BY <1>3, <1>8 DEF HandlerFails, Failing, WorkerLive
<1>9. CASE HandlerFailsLast(g)
  BY <1>3, <1>9 DEF HandlerFailsLast, Failing, WorkerLive
<1>10. CASE HandlerRpcCancelled(g)
  BY <1>3, <1>10 DEF HandlerRpcCancelled, Executing, WorkerLive
<1>11. CASE TaskSaved(g)
  BY <1>3, <1>11 DEF TaskSaved, WorkerHead, WorkerLive
<1>12. CASE WorkerCancelled(g)
  <2>1. PICK to \in {"cancelled", "ended"} : wrk' = [wrk EXCEPT ![g] = to]
    BY <1>1, <1>12 DEF WorkerCancelled
  <2>2. QED
    BY <1>1, <1>2, <1>12, <2>1 DEF WorkerCancelled, WorkerMoves
<1>13. QED
  BY <1>4, <1>5, <1>6, <1>7, <1>8, <1>9, <1>10, <1>11, <1>12 DEF WorkerSteps

LEMMA ListenersKeepPairs ==
  ASSUME TypeOK, Pairs, NEW g \in Gangs, ListenerMoves(g)
  PROVE  Pairs'
<1>1. /\ UNCHANGED <<stopping, client, registered, mpc, cancel, gang, wrk, wcan>>
      /\ \A h \in Gangs \ {g} : lst'[h] = lst[h] /\ lcan'[h] = lcan[h]
      /\ lst[g] \in ListenerLive /\ ~lcan'[g]
  BY DEF ListenerMoves, svcVars, mainVars
<1>2. \A h \in Gangs : Leaving(h) => Leaving(h)'
  BY <1>1 DEF ListenerMoves, Leaving, ListenerLive
<1>3. OneLive'
  BY <1>1 DEF Pairs, OneLive, MainLive
<1>4. Marks'
  BY <1>1 DEF Pairs, Marks, MainLive
<1>5. ASSUME NEW m \in Mains, Unwinding(m), stopping
      PROVE  Unwinding(m)'
  <2>1. gang[m] \in Gangs
    BY <1>5 DEF Unwinding, Pairs, OneLive, TypeOK
  <2>2. gang[m] = g => lst'[g] \notin {"none", "failed"}
    BY <1>1, <1>5 DEF Unwinding, Leaving, ListenerMoves
  <2>3. lst'[gang[m]] \notin {"none", "failed"}
    BY <1>1, <1>5, <2>1, <2>2 DEF Unwinding
  <2>4. QED
    BY <1>1, <1>2, <1>5, <2>1, <2>3 DEF Unwinding
<1>6. StoppedMains'
  BY <1>1, <1>5 DEF Pairs, StoppedMains, MainLive
<1>7. ASSUME NEW m \in Mains
      PROVE  /\ mpc'[m] = "gather" /\ cancel'[m] = "none" =>
                  lst'[gang'[m]] \notin {"none", "cancelled"}
                  /\ wrk'[gang'[m]] \notin {"none", "cancelled"}
             /\ mpc'[m] = "returned" => BothEnded(gang[m])'
             /\ mpc'[m] = "cancelled" => stopping' /\ Leaving(gang[m])'
  <2>1. mpc[m] \in Woken \cup {"gather"} => gang[m] \in Gangs
    BY DEF Pairs, OneLive, TypeOK
  <2>2. mpc[m] = "gather" /\ cancel[m] = "none" /\ gang[m] = g => ~lcan[g]
    <3>1. mpc[m] = "gather" /\ cancel[m] = "none" => MainLive(m) /\ ~stopping
      BY RunsStarted DEF MainLive
    <3>2. QED
      BY <3>1 DEF Pairs, Marks
  <2>3. CASE mpc[m] = "gather" /\ cancel[m] = "none"
    <3>1. gang[m] = g => lst'[g] \notin {"none", "cancelled"}
      BY <2>2, <2>3 DEF ListenerMoves, ListenerLive
    <3>2. QED
      BY <1>1, <2>1, <2>3, <3>1 DEF Pairs, Gathers
  <2>4. CASE mpc[m] = "returned"
    <3>1. BothEnded(gang[m]) /\ gang[m] # g
      BY <1>1, <2>4 DEF Pairs, Gathers, BothEnded, ListenerLive
    <3>2. QED
      BY <1>1, <2>1, <2>4, <3>1 DEF BothEnded, Woken
  <2>5. CASE mpc[m] = "cancelled"
    BY <1>1, <1>2, <2>1, <2>5 DEF Pairs, Gathers, Woken
  <2>6. QED
    BY <1>1, <2>3, <2>4, <2>5
<1>8. Gathers'
  BY <1>1, <1>7 DEF Gathers
<1>9. Owned'
  BY <1>1, <1>2 DEF Pairs, Owned
<1>10. QED
  BY <1>3, <1>4, <1>6, <1>8, <1>9 DEF Pairs

LEMMA WorkersKeepPairs ==
  ASSUME TypeOK, Pairs, NEW g \in Gangs, WorkerMoves(g)
  PROVE  Pairs'
<1>1. /\ UNCHANGED <<stopping, client, registered, mpc, cancel, gang, lst, lcan>>
      /\ \A h \in Gangs \ {g} : wrk'[h] = wrk[h] /\ wcan'[h] = wcan[h]
      /\ wrk[g] \in WorkerLive /\ ~wcan'[g]
  BY DEF WorkerMoves, svcVars, mainVars
<1>2. \A h \in Gangs : Leaving(h) => Leaving(h)'
  BY <1>1 DEF WorkerMoves, Leaving, WorkerLive
<1>3. OneLive'
  BY <1>1 DEF Pairs, OneLive, MainLive
<1>4. Marks'
  BY <1>1 DEF Pairs, Marks, MainLive
<1>5. ASSUME NEW m \in Mains, Unwinding(m), stopping
      PROVE  Unwinding(m)'
  <2>1. gang[m] \in Gangs
    BY <1>5 DEF Unwinding, Pairs, OneLive, TypeOK
  <2>2. gang[m] = g => wrk'[g] \notin {"none", "failed"}
    BY <1>1, <1>5 DEF Unwinding, Leaving, WorkerMoves
  <2>3. wrk'[gang[m]] \notin {"none", "failed"}
    BY <1>1, <1>5, <2>1, <2>2 DEF Unwinding
  <2>4. QED
    BY <1>1, <1>2, <1>5, <2>1, <2>3 DEF Unwinding
<1>6. StoppedMains'
  BY <1>1, <1>5 DEF Pairs, StoppedMains, MainLive
<1>7. ASSUME NEW m \in Mains
      PROVE  /\ mpc'[m] = "gather" /\ cancel'[m] = "none" =>
                  lst'[gang'[m]] \notin {"none", "cancelled"}
                  /\ wrk'[gang'[m]] \notin {"none", "cancelled"}
             /\ mpc'[m] = "returned" => BothEnded(gang[m])'
             /\ mpc'[m] = "cancelled" => stopping' /\ Leaving(gang[m])'
  <2>1. mpc[m] \in Woken \cup {"gather"} => gang[m] \in Gangs
    BY DEF Pairs, OneLive, TypeOK
  <2>2. mpc[m] = "gather" /\ cancel[m] = "none" /\ gang[m] = g => ~wcan[g]
    <3>1. mpc[m] = "gather" /\ cancel[m] = "none" => MainLive(m) /\ ~stopping
      BY RunsStarted DEF MainLive
    <3>2. QED
      BY <3>1 DEF Pairs, Marks
  <2>3. CASE mpc[m] = "gather" /\ cancel[m] = "none"
    <3>1. gang[m] = g => wrk'[g] \notin {"none", "cancelled"}
      BY <2>2, <2>3 DEF WorkerMoves, WorkerLive
    <3>2. QED
      BY <1>1, <2>1, <2>3, <3>1 DEF Pairs, Gathers
  <2>4. CASE mpc[m] = "returned"
    <3>1. BothEnded(gang[m]) /\ gang[m] # g
      BY <1>1, <2>4 DEF Pairs, Gathers, BothEnded, WorkerLive
    <3>2. QED
      BY <1>1, <2>1, <2>4, <3>1 DEF BothEnded, Woken
  <2>5. CASE mpc[m] = "cancelled"
    BY <1>1, <1>2, <2>1, <2>5 DEF Pairs, Gathers, Woken
  <2>6. QED
    BY <1>1, <2>3, <2>4, <2>5
<1>8. Gathers'
  BY <1>1, <1>7 DEF Gathers
<1>9. Owned'
  BY <1>1, <1>2 DEF Pairs, Owned
<1>10. QED
  BY <1>3, <1>4, <1>6, <1>8, <1>9 DEF Pairs

\* The head of the loop of a main that runs on finds no cancellation under way.
LEMMA HeadKeepsPairs ==
  ASSUME TypeOK, Pairs, NEW m \in Mains, MainHead(m), cancel[m] = "none",
         mpc[m] \in {"new", "returned"} \/ (mpc[m] = "sleep" /\ CancelsRaised),
         UNCHANGED <<stopping, cancel, pairVars>>
  PROVE  Pairs'
<1>1. MainLive(m) /\ ~stopping
  BY RunsStarted DEF MainLive
<1>2. /\ mpc' = [mpc EXCEPT ![m] = "alloc"] /\ gang' = [gang EXCEPT ![m] = NoGang]
      /\ client' = "open" /\ registered' = registered
      /\ UNCHANGED <<stopping, cancel, lst, lcan, wrk, wcan>>
  BY <1>1 DEF MainHead, pairVars
<1>3. \A n \in Mains \ {m} : /\ mpc[n] = "none" /\ gang[n] = NoGang /\ cancel[n] = "none"
                             /\ mpc'[n] = "none" /\ gang'[n] = NoGang
  BY <1>1, <1>2, OtherMains DEF TypeOK
<1>4. mpc'[m] = "alloc" /\ gang'[m] = NoGang
  BY <1>2 DEF TypeOK
<1>5. \A g \in Gangs : ~lcan[g] /\ ~wcan[g]
  BY <1>1 DEF Pairs, Marks, CancelsRaised
<1>6. OneLive'
  BY <1>1, <1>2, <1>3, <1>4 DEF Pairs, OneLive, MainLive, Woken
<1>7. Marks' /\ StoppedMains'
  BY <1>1, <1>2, <1>5 DEF Marks, StoppedMains
<1>8. Gathers'
  BY <1>3, <1>4 DEF Gathers
<1>9. ASSUME NEW g \in Gangs
      PROVE  Leaving(g)'
  <2>1. CASE gang[m] = g
    <3>1. mpc[m] = "returned"
      BY <2>1, SlotAssumption DEF Pairs, OneLive, Woken
    <3>2. BothEnded(g)
      BY <2>1, <3>1 DEF Pairs, Gathers
    <3>3. QED
      BY <1>2, <3>2 DEF BothEnded, Leaving, ListenerLive, WorkerLive
  <2>2. CASE gang[m] # g
    <3>1. Leaving(g)
      BY <1>3, <2>2, SlotAssumption DEF Pairs, Owned
    <3>2. QED
      BY <1>2, <3>1 DEF Leaving
  <2>3. QED
    BY <2>1, <2>2
<1>10. QED
  BY <1>6, <1>7, <1>8, <1>9 DEF Pairs, Owned

\* What a failed main leaves behind is marked.
LEMMA FailureKeepsPairs ==
  ASSUME TypeOK, Pairs, NEW m \in Mains, MainFails(m), cancel[m] = "none",
         mpc[m] \in {"alloc", "raised"},
         UNCHANGED <<stopping, registered, cancel, wrk>>
  PROVE  Pairs'
<1>1. MainLive(m) /\ ~stopping
  BY RunsStarted DEF MainLive
<1>2. /\ mpc' = [mpc EXCEPT ![m] = "sleep"] /\ gang' = [gang EXCEPT ![m] = NoGang]
      /\ client' = "none"
      /\ UNCHANGED <<stopping, registered, cancel, wrk>>
  BY DEF MainFails, ReleaseVk
<1>3. \A n \in Mains \ {m} : /\ mpc[n] = "none" /\ gang[n] = NoGang /\ cancel[n] = "none"
                             /\ mpc'[n] = "none" /\ gang'[n] = NoGang
  BY <1>1, <1>2, OtherMains DEF TypeOK
<1>4. mpc'[m] = "sleep" /\ gang'[m] = NoGang
  BY <1>2 DEF TypeOK
<1>5. \A g \in Gangs :
        /\ lcan'[g] <=> lcan[g] \/ (g = gang[m] /\ lst[g] \in ListenerLive)
        /\ wcan'[g] <=> wcan[g] \/ (g = gang[m] /\ wrk[g] \in WorkerLive)
        /\ lst'[g] \in ListenerLive <=> lst[g] \in ListenerLive
  BY DEF MainFails, MarkPairs, ReleaseVk, ListenerLive
<1>6. OneLive'
  BY <1>1, <1>2, <1>3, <1>4 DEF Pairs, OneLive, MainLive, Woken
<1>7. Marks'
  BY <1>2, <1>3, <1>4, <1>5 DEF Pairs, Marks, MainLive
<1>8. StoppedMains' /\ Gathers'
  BY <1>1, <1>2, <1>3, <1>4 DEF StoppedMains, Gathers
<1>9. ASSUME NEW g \in Gangs
      PROVE  Leaving(g)'
  <2>1. gang[m] = g \/ Leaving(g)
    BY <1>3, SlotAssumption DEF Pairs, Owned
  <2>2. QED
    BY <1>2, <1>5, <2>1 DEF Leaving
<1>10. QED
  BY <1>6, <1>7, <1>8, <1>9 DEF Pairs, Owned

LEMMA AllocationKeepsPairs ==
  ASSUME TypeOK, Pairs, NEW m \in Mains, NEW g \in Gangs, AllocDone(m, g)
  PROVE  Pairs'
<1>1. MainLive(m) /\ ~stopping /\ mpc[m] = "alloc" /\ cancel[m] = "none"
  BY RunsStarted DEF MainLive, AllocDone
<1>2. /\ mpc' = [mpc EXCEPT ![m] = "gather"] /\ gang' = [gang EXCEPT ![m] = g]
      /\ lst' = [lst EXCEPT ![g] = "new"] /\ wrk' = [wrk EXCEPT ![g] = "new"]
      /\ UNCHANGED <<stopping, client, registered, cancel, lcan, wcan>>
  BY DEF AllocDone, svcVars
<1>3. \A n \in Mains \ {m} : /\ mpc[n] = "none" /\ gang[n] = NoGang /\ cancel[n] = "none"
                             /\ mpc'[n] = "none" /\ gang'[n] = NoGang
  BY <1>1, <1>2, OtherMains DEF TypeOK
<1>4. mpc'[m] = "gather" /\ gang'[m] = g /\ lst'[g] = "new" /\ wrk'[g] = "new"
  BY <1>2 DEF TypeOK
<1>5. \A h \in Gangs : ~lcan[h] /\ ~wcan[h]
  BY <1>1 DEF Pairs, Marks
<1>6. OneLive'
  BY <1>1, <1>2, <1>3, <1>4, SlotAssumption DEF Pairs, OneLive, MainLive, Woken
<1>7. Marks' /\ StoppedMains'
  BY <1>1, <1>2, <1>5 DEF Marks, StoppedMains
<1>8. Gathers'
  BY <1>3, <1>4 DEF Gathers
<1>9. ASSUME NEW h \in Gangs, h # g
      PROVE  Leaving(h)'
  <2>1. gang[m] = NoGang
    BY <1>1 DEF Pairs, OneLive, Woken
  <2>2. Leaving(h)
    BY <1>3, <2>1, SlotAssumption DEF Pairs, Owned
  <2>3. lst'[h] = lst[h] /\ wrk'[h] = wrk[h]
    BY <1>2, <1>9 DEF TypeOK
  <2>4. QED
    BY <1>2, <2>2, <2>3 DEF Leaving
<1>10. Owned'
  BY <1>4, <1>9 DEF Owned
<1>11. QED
  BY <1>6, <1>7, <1>8, <1>10 DEF Pairs

LEMMA GatherKeepsPairs ==
  ASSUME TypeOK, Pairs, NEW m \in Mains, GatherEnds(m)
  PROVE  Pairs'
<1> DEFINE g == gang[m]
<1>1. MainLive(m) /\ mpc[m] = "gather" /\ g \in Gangs
  BY DEF MainLive, GatherEnds, Pairs, OneLive, TypeOK
<1>2. PICK o \in Woken :
        /\ o = "raised" => lst[g] = "failed" \/ wrk[g] = "failed"
        /\ o = "cancelled" => \/ lst[g] = "cancelled" \/ wrk[g] = "cancelled"
                              \/ BothEnded(g) /\ cancel[m] = "gather"
        /\ o = "returned" => BothEnded(g) /\ cancel[m] # "gather"
        /\ mpc' = [mpc EXCEPT ![m] = o]
  BY DEF GatherEnds
<1>3. /\ cancel' = [cancel EXCEPT ![m] = IF @ = "gather" THEN "none" ELSE @]
      /\ UNCHANGED <<stopping, client, registered, gang, lst, lcan, wrk, wcan>>
  BY DEF GatherEnds, svcVars, pairVars
<1>4. \A n \in Mains \ {m} : /\ mpc[n] = "none" /\ gang[n] = NoGang /\ cancel[n] = "none"
                             /\ mpc'[n] = "none" /\ cancel'[n] = "none"
  BY <1>1, <1>2, <1>3, OtherMains DEF TypeOK
<1>5. mpc'[m] = o /\ cancel'[m] = "none"
  <2>1. cancel[m] # "must"
    BY <1>1 DEF Pairs, OneLive
  <2>2. QED
    BY <1>2, <1>3, <2>1 DEF TypeOK
<1>6. stopping => o = "cancelled" /\ Leaving(g)
  <2>1. ASSUME stopping
        PROVE  Unwinding(m)
    BY <1>1, <2>1 DEF Pairs, StoppedMains, OneLive
  <2>2. QED
    BY <1>2, <2>1 DEF Unwinding, Woken
<1>7. ~stopping => o # "cancelled"
  <2>1. ~stopping => cancel[m] = "none"
    BY DEF Pairs, OneLive
  <2>2. QED
    BY <1>1, <1>2, <2>1 DEF Pairs, Gathers
<1>8. OneLive'
  BY <1>1, <1>2, <1>3, <1>4, <1>5, SlotAssumption DEF Pairs, OneLive, MainLive, Woken
<1>9. Marks'
  BY <1>1, <1>3 DEF Pairs, Marks
<1>10. StoppedMains'
  BY <1>3, <1>4, <1>5, <1>6 DEF StoppedMains, MainLive
<1>11. Gathers'
  <2>1. o = "returned" => BothEnded(g)
    BY <1>2
  <2>2. QED
    BY <1>3, <1>4, <1>5, <1>6, <1>7, <2>1 DEF Gathers, BothEnded, Leaving, Woken
<1>12. Owned'
  BY <1>3 DEF Pairs, Owned, Leaving
<1>13. QED
  BY <1>8, <1>9, <1>10, <1>11, <1>12 DEF Pairs

\* A main ends by its cancellation only in a stopped service.
LEMMA CancelledKeepsPairs ==
  ASSUME TypeOK, Pairs, NEW m \in Mains, MainCancelled(m)
  PROVE  Pairs'
<1>1. MainLive(m) /\ stopping
  BY DEF MainCancelled, Pairs, OneLive, Gathers
<1>2. /\ mpc' = [mpc EXCEPT ![m] = "none"] /\ gang' = [gang EXCEPT ![m] = NoGang]
      /\ cancel' = [cancel EXCEPT ![m] = "none"] /\ registered' = registered \ {m}
      /\ UNCHANGED <<stopping, client, lst, lcan, wrk, wcan>>
  BY DEF MainCancelled, MainReturns, pairVars
<1>3. \A n \in Mains : mpc'[n] = "none" /\ gang'[n] = NoGang /\ cancel'[n] = "none"
  BY <1>1, <1>2, OtherMains DEF TypeOK
<1>4. OneLive' /\ StoppedMains' /\ Gathers'
  BY <1>3 DEF OneLive, StoppedMains, Gathers, MainLive, Woken
<1>5. Marks'
  BY <1>1, <1>2 DEF Pairs, Marks
<1>6. \A g \in Gangs : Leaving(g)'
  BY <1>1, <1>2, StoppedLeaves DEF Leaving
<1>7. QED
  BY <1>4, <1>5, <1>6 DEF Pairs, Owned

LEMMA MainsKeepPairs ==
  ASSUME TypeOK, Pairs, NEW m \in Mains, MainSteps(m)
  PROVE  Pairs'
<1>1. CASE MainBegins(m) \/ MainLoops(m) \/ MainWakes(m)
  BY <1>1, HeadKeepsPairs DEF MainBegins, MainLoops, MainWakes
<1>2. CASE AllocFails(m) \/ GatherFailed(m)
  BY <1>2, FailureKeepsPairs DEF AllocFails, GatherFailed
<1>3. QED
  BY <1>1, <1>2, AllocationKeepsPairs, GatherKeepsPairs, CancelledKeepsPairs DEF MainSteps

\* A start makes a main where none lives and nothing is being cancelled.
LEMMA StartKeepsPairs ==
  ASSUME TypeOK, Pairs, NEW c \in Controllers, BeginStart(c), UNCHANGED pairVars,
         stopping => /\ \A m \in Mains : ~MainLive(m)
                     /\ \A g \in Gangs : ~lcan[g] /\ ~wcan[g]
  PROVE  Pairs'
<1>1. CASE stopping
  <2>1. PICK m \in Mains : /\ mpc' = [mpc EXCEPT ![m] = "new"]
                           /\ registered' = registered \cup {m}
    BY <1>1 DEF BeginStart
  <2>2. stopping' = FALSE /\ UNCHANGED <<client, cancel, gang, lst, lcan, wrk, wcan>>
    BY <1>1 DEF BeginStart, pairVars
  <2>3. \A n \in Mains : mpc[n] = "none" /\ gang[n] = NoGang /\ cancel[n] = "none"
    <3>1. \A n \in Mains : mpc[n] = "none"
      BY <1>1 DEF MainLive
    <3>2. \A n \in Mains : gang[n] = NoGang /\ cancel[n] \notin {"must", "gather"}
      BY <3>1 DEF Pairs, OneLive, Woken
    <3>3. QED
      BY <3>1, <3>2 DEF TypeOK
  <2>4. mpc'[m] = "new" /\ \A n \in Mains \ {m} : mpc'[n] = "none"
    BY <2>1, <2>3 DEF TypeOK
  <2>5. OneLive'
    BY <2>1, <2>2, <2>3, <2>4 DEF OneLive, MainLive, Woken
  <2>6. Marks' /\ StoppedMains' /\ Gathers'
    BY <1>1, <2>2, <2>4 DEF Marks, StoppedMains, Gathers
  <2>7. Owned'
    BY <2>2 DEF Pairs, Owned, Leaving
  <2>8. QED
    BY <2>5, <2>6, <2>7 DEF Pairs
<1>2. CASE ~stopping
  <2>1. UNCHANGED <<stopping, client, registered, mpc, cancel, gang, lst, lcan, wrk, wcan>>
    BY <1>2 DEF BeginStart, svcVars, mainVars, pairVars
  <2>2. QED
    BY <2>1 DEF Pairs, OneLive, Marks, StoppedMains, Gathers, Owned, Unwinding, Leaving,
                MainLive, BothEnded
<1>3. QED
  BY <1>1, <1>2

\* A stop that finds everything settled reaches the main, and through it its pair.
LEMMA StopKeepsPairs ==
  ASSUME TypeOK, Pairs, StopBody, CancelsRaised
  PROVE  Pairs'
<1>1. CASE stopping
  <2>1. UNCHANGED <<stopping, client, registered, mpc, cancel, gang, lst, lcan, wrk, wcan>>
    BY <1>1 DEF StopBody, svcVars, mainVars, pairVars
  <2>2. QED
    BY <2>1 DEF Pairs, OneLive, Marks, StoppedMains, Gathers, Owned, Unwinding, Leaving,
                MainLive, BothEnded
<1>2. CASE ~stopping
  <2> DEFINE through == {m \in registered : mpc[m] = "gather" /\ PairLive(gang[m])}
  <2>1. /\ stopping' = TRUE /\ registered' = {} /\ client' = "none"
        /\ cancel' = [m \in Mains |->
                        IF m \in through THEN "gather"
                        ELSE IF m \in registered /\ MainLive(m) THEN "must"
                        ELSE cancel[m]]
        /\ MarkPairs({gang[m] : m \in through}) /\ ReleaseVk
        /\ UNCHANGED <<mpc, gang, wrk>>
    BY <1>2 DEF StopBody, ReleaseVk
  <2>2. \A m \in Mains : cancel[m] = "none" /\ (MainLive(m) => m \in registered)
    <3>1. \A m \in Mains : cancel[m] = "none"
      BY <1>2 DEF Pairs, OneLive
    <3>2. QED
      BY <1>2, <3>1 DEF Pairs, OneLive
  <2>3. \A m \in Mains : mpc[m] \notin Woken
    BY DEF CancelsRaised
  <2>4. ASSUME NEW m \in Mains, mpc[m] = "gather"
        PROVE  /\ m \in through /\ gang[m] \in Gangs
               /\ lst[gang[m]] \in ListenerLive \cup {"ended"}
               /\ wrk[gang[m]] \in WorkerLive \cup {"ended"}
    <3>1. gang[m] \in Gangs
      BY <2>4 DEF Pairs, OneLive, TypeOK
    <3>2. ~GatherOver(gang[m])
      BY <2>4 DEF CancelsRaised
    <3>3. lst[gang[m]] \notin {"none", "cancelled"} /\ wrk[gang[m]] \notin {"none", "cancelled"}
      BY <2>2, <2>4 DEF Pairs, Gathers
    <3>4. /\ lst[gang[m]] \in ListenerLive \cup {"ended"}
          /\ wrk[gang[m]] \in WorkerLive \cup {"ended"}
      BY <3>1, <3>2, <3>3 DEF TypeOK, GatherOver
    <3>5. PairLive(gang[m])
      BY <3>2, <3>4 DEF PairLive, GatherOver, BothEnded
    <3>6. m \in registered
      BY <2>2, <2>4 DEF MainLive
    <3>7. QED
      BY <2>4, <3>1, <3>4, <3>5, <3>6
  <2>5. \A m \in through : m \in Mains /\ mpc[m] = "gather"
    BY DEF TypeOK
  <2>6. \A g \in Gangs :
          /\ lcan'[g] <=> lcan[g] \/ (g \in {gang[m] : m \in through} /\ lst[g] \in ListenerLive)
          /\ wcan'[g] <=> wcan[g] \/ (g \in {gang[m] : m \in through} /\ wrk[g] \in WorkerLive)
          /\ lst'[g] \in ListenerLive <=> lst[g] \in ListenerLive
          /\ lst'[g] = lst[g] \/ lst[g] \in ListenerLive
    BY <2>1 DEF MarkPairs, ReleaseVk, ListenerLive
  <2> HIDE DEF through
  <2>7. \A m \in Mains :
          /\ mpc[m] = "gather" => cancel'[m] = "gather"
          /\ mpc[m] # "gather" /\ MainLive(m) => cancel'[m] = "must"
          /\ ~MainLive(m) => cancel'[m] = "none"
    BY <2>1, <2>2, <2>4, <2>5 DEF MainLive
  <2>8. \A m \in Mains : MainLive(m) => mpc[m] \in {"new", "alloc", "sleep", "gather"}
    BY <2>3 DEF TypeOK, MainLive
  <2>9. OneLive'
    <3>1. \A m \in Mains : /\ cancel'[m] = "must" => mpc[m] \in {"new", "alloc", "sleep"}
                           /\ cancel'[m] = "gather" => mpc[m] = "gather"
      BY <2>7, <2>8
    <3>2. QED
      BY <2>1, <3>1 DEF Pairs, OneLive, MainLive
  <2>10. Marks'
    BY <2>1, <2>6 DEF Pairs, Marks
  <2>11. \A g \in Gangs : Leaving(g) => Leaving(g)'
    BY <2>1, <2>6 DEF Leaving
  <2>12. ASSUME NEW m \in Mains, mpc[m] = "gather"
         PROVE  Unwinding(m)'
    <3>1. gang[m] \in Gangs /\ gang[m] \in {gang[n] : n \in through}
      BY <2>4, <2>12
    <3>2. Leaving(gang[m])'
      BY <2>1, <2>6, <3>1 DEF Leaving
    <3>3. lst'[gang[m]] \notin {"none", "failed"} /\ wrk'[gang[m]] \notin {"none", "failed"}
      BY <2>1, <2>4, <2>6, <2>12, <3>1 DEF ListenerLive, WorkerLive
    <3>4. QED
      BY <2>1, <2>7, <2>12, <3>2, <3>3 DEF Unwinding
  <2>13. StoppedMains'
    BY <2>1, <2>7, <2>12 DEF StoppedMains, MainLive
  <2>14. Gathers'
    BY <2>1, <2>3, <2>7 DEF Gathers, Woken
  <2>15. Owned'
    BY <2>1, <2>11 DEF Pairs, Owned
  <2>16. QED
    BY <2>9, <2>10, <2>13, <2>14, <2>15 DEF Pairs
<1>3. QED
  BY <1>1, <1>2

\* Tasks, pairs and the main leave the controllers and the schedules alone.
LEMMA OthersLeaveControllers ==
  ASSUME TypeOK, OneController, Schedules, UNCHANGED <<stopping, ctl, schedVars>>,
         ctl["boot"] = "begin" => /\ \A m \in Mains : mpc'[m] = mpc[m]
                                  /\ \A g \in Gangs : lcan'[g] => lcan[g]
                                  /\ \A g \in Gangs : wcan'[g] => wcan[g]
  PROVE  OneController' /\ Schedules'
<1>1. OneController'
  BY DEF OneController, MainLive
<1>2. Schedules'
  BY DEF Schedules, OneTaskPerSchedule, NoSchedule, schedVars
<1>3. QED
  BY <1>1, <1>2

LEMMA MainsLeaveControllers ==
  ASSUME NEW m \in Mains, MainSteps(m)
  PROVE  MainLive(m) /\ UNCHANGED <<stopping, ctl, schedVars>>
  BY DEF MainSteps, MainBegins, AllocFails, AllocDone, GatherEnds, MainLoops, GatherFailed,
         MainCancelled, MainWakes, MainLive, svcVars, schedVars

\* A schedule task moves from its creation to its loop, or is gone.
LEMMA ScheduleStepKeeps ==
  ASSUME TypeOK, OneController, Schedules, NEW k \in Kinds, ScheduleSteps(k)
  PROVE  OneController' /\ Schedules'
<1>1. UNCHANGED <<stopping, ctl, mpc, lcan, wcan>>
  BY DEF ScheduleSteps, ScheduleBegins, ScheduleFires, svcVars, mainVars, pairVars
<1>2. OneController'
  BY <1>1 DEF OneController, MainLive
<1>3. CASE ScheduleBegins(k)
  <2>1. \A j \in Kinds \ {k} : schedNew'[j] = schedNew[j] /\ schedLive'[j] = schedLive[j]
    BY <1>3 DEF ScheduleBegins, TypeOK
  <2>2. /\ schedNew[k] \in Nat /\ schedLive[k] \in Nat /\ schedNew[k] > 0
        /\ schedNew'[k] = schedNew[k] - 1
        /\ schedLive'[k] = schedLive[k] \/ schedLive'[k] = schedLive[k] + 1
    BY <1>3 DEF ScheduleBegins, TypeOK
  <2>3. schedNew[k] + schedLive[k] <= 1
    BY DEF Schedules, OneTaskPerSchedule
  <2>4. schedNew'[k] + schedLive'[k] <= 1 /\ ~NoSchedule(k)
    BY <2>2, <2>3 DEF NoSchedule
  <2>5. OneTaskPerSchedule'
    BY <2>1, <2>4 DEF Schedules, OneTaskPerSchedule
  <2>6. \A c \in Controllers :
          /\ ctl[c] \in {"begin", "pausing", "reading"} => \A j \in Kinds : NoSchedule(j)'
          /\ ctl[c] = "closing" /\ "daily" \in Kinds => NoSchedule("daily")'
    BY <2>1, <2>4 DEF Schedules, NoSchedule
  <2>7. QED
    BY <1>1, <1>2, <2>5, <2>6 DEF Schedules
<1>4. CASE \E t \in TaskIds : ScheduleFires(k, t)
  <2>1. UNCHANGED <<schedNew, schedLive>>
    BY <1>4 DEF ScheduleFires, schedVars
  <2>2. QED
    BY <1>1, <1>2, <2>1 DEF Schedules, OneTaskPerSchedule, NoSchedule
<1>5. QED
  BY <1>3, <1>4 DEF ScheduleSteps

\* Where nothing is cancelled or half done a start comes to the reading of the
\* schedules, with none of them there.
LEMMA StartKeepsControllers ==
  ASSUME TypeOK, OneController, Schedules, NEW c \in Controllers, BeginStart(c),
         UNCHANGED <<lcan, wcan, schedVars>>,
         \A d \in Controllers : d # c => ctl[d] = "idle",
         stopping => \A k \in Kinds : NoSchedule(k)
  PROVE  OneController' /\ Schedules'
<1>1. /\ ctl' = [ctl EXCEPT ![c] = IF stopping THEN "reading" ELSE "idle"]
      /\ UNCHANGED <<schedNew, schedLive>>
  BY DEF BeginStart, schedVars
<1>2. \A d \in Controllers : d # c => ctl'[d] = "idle"
  BY <1>1 DEF TypeOK
<1>3. ctl'[c] = IF stopping THEN "reading" ELSE "idle"
  BY <1>1 DEF TypeOK
<1>4. OneController'
  BY <1>2, <1>3 DEF OneController, Controllers
<1>5. Schedules'
  BY <1>1, <1>2, <1>3 DEF Schedules, OneTaskPerSchedule, NoSchedule
<1>6. QED
  BY <1>4, <1>5

\* A stop, also the one of a restart, and a restart of the schedules leave none.
LEMMA StopKeepsControllers ==
  ASSUME TypeOK, OneController, Schedules, NoScheduleWhenStopped, Settled,
         NEW to \in {"idle", "pausing", "reading"},
         ctl' = [ctl EXCEPT !["redis"] = to],
         \/ StopBody
         \/ StopScheduleTasks /\ to = "reading"
  PROVE  OneController' /\ Schedules'
<1>1. ctl'["boot"] = "idle" /\ ctl'["redis"] = to
  BY DEF Settled, Controllers, TypeOK
<1>2. \A k \in Kinds : NoSchedule(k)'
  <2>1. CASE StopScheduleTasks
    BY <2>1 DEF StopScheduleTasks, NoSchedule
  <2>2. CASE StopBody /\ stopping
    BY <2>2 DEF StopBody, Settled, NoScheduleWhenStopped, NoSchedule, schedVars
  <2>3. QED
    BY <2>1, <2>2 DEF StopBody
<1>3. to = "pausing" => stopping'
  BY DEF StopBody, svcVars
<1>4. OneController'
  BY <1>1, <1>3 DEF OneController
<1>5. Schedules'
  BY <1>2 DEF Schedules, OneTaskPerSchedule, NoSchedule
<1>6. QED
  BY <1>4, <1>5

LEMMA CreateKeepsControllers ==
  ASSUME TypeOK, OneController, Schedules, NEW c \in Controllers,
         CreateRowSchedules(c) \/ CreateDailySchedule(c)
  PROVE  OneController' /\ Schedules'
<1>1. /\ UNCHANGED <<stopping, mpc, lcan, wcan, schedLive>>
      /\ ctl[c] # "idle" /\ ctl[c] # "begin"
  BY DEF CreateRowSchedules, CreateDailySchedule, svcVars, mainVars, pairVars
<1>2. \A d \in Controllers : d # c => ctl[d] = "idle"
  BY <1>1 DEF OneController, Controllers
<1>3. CASE CreateRowSchedules(c)
  <2>1. ctl' = [ctl EXCEPT ![c] = "closing"] /\ ctl[c] = "reading"
    BY <1>3 DEF CreateRowSchedules
  <2>2. ctl'[c] = "closing" /\ \A d \in Controllers : d # c => ctl'[d] = "idle"
    BY <1>2, <2>1 DEF TypeOK
  <2>3. /\ \A k \in Kinds : schedNew[k] = 0 /\ schedLive[k] = 0
        /\ \A k \in Kinds : schedNew'[k] = IF k = "row" THEN 1 ELSE 0
    <3>1. \A k \in Kinds : schedNew[k] = 0 /\ schedLive[k] = 0
      BY <2>1 DEF Schedules, NoSchedule
    <3>2. schedNew' = [k \in Kinds |-> IF k = "row" THEN schedNew[k] + 1 ELSE schedNew[k]]
      BY <1>3 DEF CreateRowSchedules, CreateSchedule
    <3>3. QED
      BY <3>1, <3>2
  <2>4. OneController'
    BY <1>1, <2>2 DEF OneController, Controllers
  <2>5. Schedules'
    BY <1>1, <2>2, <2>3 DEF Schedules, OneTaskPerSchedule, NoSchedule
  <2>6. QED
    BY <2>4, <2>5
<1>4. CASE CreateDailySchedule(c)
  <2>1. ctl' = [ctl EXCEPT ![c] = "idle"] /\ ctl[c] = "closing"
    BY <1>4 DEF CreateDailySchedule
  <2>2. \A d \in Controllers : ctl'[d] = "idle"
    BY <1>2, <2>1 DEF TypeOK
  <2>3. \A k \in Kinds : schedNew'[k] = IF k = "daily" THEN schedNew[k] + 1 ELSE schedNew[k]
    BY <1>4 DEF CreateDailySchedule, CreateSchedule
  <2>4. "daily" \in Kinds => schedNew["daily"] = 0 /\ schedLive["daily"] = 0
    BY <2>1 DEF Schedules, NoSchedule
  <2>5. OneController'
    BY <2>2 DEF OneController, Controllers
  <2>6. OneTaskPerSchedule'
    BY <1>1, <2>3, <2>4 DEF Schedules, OneTaskPerSchedule
  <2>7. Schedules'
    BY <2>2, <2>6 DEF Schedules
  <2>8. QED
    BY <2>5, <2>7
<1>5. QED
  BY <1>3, <1>4

LEMMA InitCalm == Init => CalmInv
<1> SUFFICES ASSUME Init
             PROVE  CalmInv
  OBVIOUS
<1>1. OneController
  BY DEF Init, OneController, Controllers, MainLive
<1>2. Schedules
  BY DEF Init, Schedules, OneTaskPerSchedule, NoSchedule
<1>3. OneLive /\ StoppedMains /\ Gathers
  BY DEF Init, OneLive, StoppedMains, Gathers, MainLive, Woken
<1>4. Marks /\ Owned
  BY DEF Init, Marks, Owned, Leaving, ListenerLive, WorkerLive
<1>5. QED
  BY <1>1, <1>2, <1>3, <1>4 DEF CalmInv, Pairs

LEMMA CommandsKeep ==
  ASSUME TypeOK, CalmInv, NoScheduleWhenStopped, Calm, Commands
  PROVE  CalmInv'
<1>1. Settled /\ CancelsRaised /\ ctl["boot"] = "idle" /\ ctl["redis"] = "idle"
  BY DEF Commands, StartService, StopService, Restart, ScheduleRestart, CommandTaken,
         Settled, Controllers
<1>2. CASE StartService
  <2>1. BeginStart("redis") /\ UNCHANGED <<pairVars, schedVars>> /\ "redis" \in Controllers
    BY <1>2 DEF StartService, Controllers
  <2>2. stopping => \A k \in Kinds : NoSchedule(k)
    BY <1>1 DEF Settled, NoScheduleWhenStopped, NoSchedule
  <2>3. OneController' /\ Schedules'
    BY <1>1, <2>1, <2>2, StartKeepsControllers DEF CalmInv, Controllers, pairVars
  <2>4. Pairs'
    BY <1>1, <2>1, StoppedIsEmpty, StartKeepsPairs DEF CalmInv, CancelsRaised
  <2>5. QED
    BY <2>3, <2>4 DEF CalmInv
<1>3. CASE StopService \/ Restart
  <2>1. PICK to \in {"idle", "pausing"} :
          StopBody /\ ctl' = [ctl EXCEPT !["redis"] = to]
    <3>1. ctl = [ctl EXCEPT !["redis"] = "idle"]
      BY <1>1 DEF TypeOK
    <3>2. QED
      BY <1>3, <3>1 DEF StopService, Restart
  <2>2. OneController' /\ Schedules'
    BY <1>1, <2>1, StopKeepsControllers DEF CalmInv
  <2>3. Pairs'
    BY <1>1, <2>1, StopKeepsPairs DEF CalmInv
  <2>4. QED
    BY <2>2, <2>3 DEF CalmInv
<1>4. CASE ScheduleRestart
  <2>1. OneController' /\ Schedules'
    BY <1>1, <1>4, StopKeepsControllers DEF ScheduleRestart, CalmInv
  <2>2. UNCHANGED <<svcVars, mainVars, pairVars>>
    BY <1>4 DEF ScheduleRestart
  <2>3. QED
    BY <2>1, <2>2 DEF CalmInv, Pairs, OneLive, Marks, StoppedMains, Gathers, Owned,
       Unwinding, Leaving, MainLive, BothEnded, svcVars, mainVars, pairVars
<1>5. QED
  BY <1>2, <1>3, <1>4 DEF Commands

LEMMA ControllersKeep ==
  ASSUME TypeOK, CalmInv, ControllerSteps
  PROVE  CalmInv'
<1>1. CASE BootStart
  <2>1. /\ ctl["boot"] = "begin" /\ BeginStart("boot") /\ UNCHANGED <<pairVars, schedVars>>
        /\ "boot" \in Controllers
    BY <1>1 DEF BootStart, Controllers
  <2>2. OneController' /\ Schedules'
    BY <2>1, StartKeepsControllers DEF CalmInv, OneController, Schedules, Controllers, pairVars
  <2>3. Pairs'
    BY <2>1, StartKeepsPairs DEF CalmInv, OneController
  <2>4. QED
    BY <2>2, <2>3 DEF CalmInv
<1>2. CASE EndPause
  <2>1. /\ ctl["redis"] = "pausing" /\ CancelsRaised /\ BeginStart("redis")
        /\ UNCHANGED <<pairVars, schedVars>> /\ "redis" \in Controllers
    BY <1>2 DEF EndPause, Controllers
  <2>2. OneController' /\ Schedules'
    BY <2>1, StartKeepsControllers DEF CalmInv, OneController, Schedules, Controllers, pairVars
  <2>3. Pairs'
    BY <2>1, StoppedIsEmpty, StartKeepsPairs DEF CalmInv, CancelsRaised
  <2>4. QED
    BY <2>2, <2>3 DEF CalmInv
<1>3. CASE ~BootStart /\ ~EndPause
  <2>1. UNCHANGED <<svcVars, mainVars, pairVars>>
    BY <1>3 DEF ControllerSteps, ScheduleReadFails, CreateRowSchedules, CreateDailySchedule
  <2>2. Pairs'
    BY <2>1 DEF CalmInv, Pairs, OneLive, Marks, StoppedMains, Gathers, Owned, Unwinding,
                Leaving, MainLive, BothEnded, svcVars, mainVars, pairVars
  <2>3. CASE ScheduleReadFails
    <3>1. UNCHANGED <<stopping, mpc, lcan, wcan, schedNew, schedLive>>
      BY <2>1, <2>3 DEF ScheduleReadFails, svcVars, mainVars, pairVars, schedVars
    <3>2. ctl'["redis"] = "idle" /\ ctl'["boot"] = ctl["boot"]
      BY <2>3 DEF ScheduleReadFails, TypeOK, Controllers
    <3>3. OneController'
      BY <3>1, <3>2 DEF CalmInv, OneController, MainLive
    <3>4. Schedules'
      BY <3>1, <3>2 DEF CalmInv, Schedules, OneTaskPerSchedule, NoSchedule, Controllers
    <3>5. QED
      BY <2>2, <3>3, <3>4 DEF CalmInv
  <2>4. ASSUME NEW c \in Controllers, CreateRowSchedules(c) \/ CreateDailySchedule(c)
        PROVE  CalmInv'
    BY <2>2, <2>4, CreateKeepsControllers DEF CalmInv
  <2>5. QED
    BY <1>3, <2>3, <2>4 DEF ControllerSteps
<1>4. QED
  BY <1>1, <1>2, <1>3

LEMMA CalmStep ==
  ASSUME TypeOK, CalmInv, NoScheduleWhenStopped, Calm, [Next]_vars
  PROVE  CalmInv'
<1>1. ASSUME NEW m \in Mains, MainSteps(m)
      PROVE  CalmInv'
  <2>1. MainLive(m) /\ UNCHANGED <<stopping, ctl, schedVars>>
    BY <1>1, MainsLeaveControllers
  <2>2. ctl["boot"] # "begin"
    BY <2>1 DEF CalmInv, OneController
  <2>3. QED
    BY <1>1, <2>1, <2>2, OthersLeaveControllers, MainsKeepPairs DEF CalmInv
<1>2. ASSUME NEW g \in Gangs, ListenerSteps(g)
      PROVE  CalmInv'
  <2>1. ListenerMoves(g)
    BY <1>2, ListenerStepMoves DEF CalmInv
  <2>2. /\ UNCHANGED <<stopping, ctl, schedVars, mpc, wcan>>
        /\ \A h \in Gangs : lcan'[h] => lcan[h]
    BY <2>1 DEF ListenerMoves, svcVars, mainVars
  <2>3. QED
    BY <2>1, <2>2, OthersLeaveControllers, ListenersKeepPairs DEF CalmInv
<1>3. ASSUME NEW g \in Gangs, WorkerSteps(g)
      PROVE  CalmInv'
  <2>1. WorkerMoves(g)
    BY <1>3, WorkerStepMoves DEF CalmInv
  <2>2. /\ UNCHANGED <<stopping, ctl, schedVars, mpc, lcan>>
        /\ \A h \in Gangs : wcan'[h] => wcan[h]
    BY <2>1 DEF WorkerMoves, svcVars, mainVars
  <2>3. QED
    BY <2>1, <2>2, OthersLeaveControllers, WorkersKeepPairs DEF CalmInv
<1>4. ASSUME UNCHANGED <<svcVars, mainVars, pairVars>>
      PROVE  Pairs'
  BY <1>4 DEF CalmInv, Pairs, OneLive, Marks, StoppedMains, Gathers, Owned, Unwinding,
              Leaving, MainLive, BothEnded, svcVars, mainVars, pairVars
<1>5. ASSUME NEW k \in Kinds, ScheduleSteps(k)
      PROVE  CalmInv'
  <2>1. UNCHANGED <<svcVars, mainVars, pairVars>>
    BY <1>5 DEF ScheduleSteps, ScheduleBegins, ScheduleFires
  <2>2. QED
    BY <1>4, <1>5, <2>1, ScheduleStepKeeps DEF CalmInv
<1>6. CASE UNCHANGED vars
  <2>1. OneController' /\ Schedules'
    BY <1>6 DEF vars, svcVars, mainVars, pairVars, schedVars, CalmInv, OneController,
                Schedules, OneTaskPerSchedule, NoSchedule, MainLive
  <2>2. QED
    BY <1>4, <1>6, <2>1 DEF vars, CalmInv
<1>7. QED
  BY <1>1, <1>2, <1>3, <1>5, <1>6, CommandsKeep, ControllersKeep DEF Next

LEMMA CalmInvariant == Spec => [](Calm => CalmInv)
<1>1. Init => (Calm => CalmInv)
  BY InitCalm
<1>2. TypeOK /\ StopIsClean /\ (Calm => CalmInv) /\ [Next]_vars => (Calm => CalmInv)'
  BY CalmStep DEF StopIsClean
<1>3. QED
  BY <1>1, <1>2, TypeCorrect, CleanStop, PTL DEF Spec

\* However many stops, starts, restarts and failures there were, one main is at work
\* at most, no pair but its own runs uncancelled, and each schedule has one task at most.
THEOREM RunsOnce == Spec => []OneOfEach
<1>1. CalmInv => OneMain /\ OneTaskPerSchedule
  <2> SUFFICES ASSUME CalmInv
               PROVE  OneMain /\ OneTaskPerSchedule
    OBVIOUS
  <2>1. OneMain
    BY DEF CalmInv, Pairs, OneLive, Owned, Leaving, OneMain
  <2>2. QED
    BY <2>1 DEF CalmInv, Schedules
<1>2. (Calm => CalmInv) => OneOfEach
  BY <1>1 DEF OneOfEach
<1>3. QED
  BY <1>2, CalmInvariant, PTL

\* What is taken while the service is stopped: nothing, since all that lives is on its
\* way out, and the client that schedules and events need is gone.
LEMMA StoppedTakesNothing ==
  ASSUME TypeOK, CalmInv, StopIsClean, TaskInOnePlace, stopping, [Next]_vars
  PROVE  NothingRuns
<1>1. \A g \in Gangs : Leaving(g)
  BY StoppedLeaves DEF CalmInv
<1>2. ASSUME UNCHANGED <<tries, fate>>
      PROVE  NothingRuns
  BY <1>2 DEF NothingRuns
<1>3. CASE Commands \/ ControllerSteps
  <2>1. UNCHANGED taskVars
    BY <1>3 DEF Commands, ControllerSteps, StartService, StopService, Restart,
                ScheduleRestart, BootStart, EndPause, ScheduleReadFails,
                CreateRowSchedules, CreateDailySchedule
  <2>2. QED
    BY <1>2, <2>1 DEF taskVars
<1>4. ASSUME NEW m \in Mains, MainSteps(m)
      PROVE  NothingRuns
  <2>1. UNCHANGED taskVars
    BY <1>4 DEF MainSteps, MainBegins, AllocFails, AllocDone, GatherEnds, MainLoops,
                GatherFailed, MainCancelled, MainWakes
  <2>2. QED
    BY <1>2, <2>1 DEF taskVars
<1>5. ASSUME NEW g \in Gangs, ListenerSteps(g)
      PROVE  NothingRuns
  <2>1. ASSUME NEW t \in TaskIds
        PROVE  ~EventArrives(g, t)
    BY <1>1 DEF EventArrives, PollReturns, Leaving, ListenerLive
  <2>2. UNCHANGED taskVars
    BY <1>5, <2>1 DEF ListenerSteps, ListenerBegins, PollFails, GeneratorStops,
                      ListenerCancelled
  <2>3. QED
    BY <1>2, <2>2 DEF taskVars
<1>6. ASSUME NEW g \in Gangs, WorkerSteps(g)
      PROVE  NothingRuns
  <2>1. wrk[g] \in WorkerLive => wcan[g]
    BY <1>1 DEF Leaving
  <2>2. WorkerCancelled(g)
    BY <1>6, <2>1 DEF WorkerSteps, WorkerBegins, GetTask, HandlerReturns, AccessDenied,
                      HandlerFails, HandlerFailsLast, HandlerRpcCancelled, TaskSaved,
                      Executing, Failing, WorkerLive
  <2>3. CASE held[g] = NoTask
    BY <1>2, <2>2, <2>3 DEF WorkerCancelled, taskVars
  <2>4. CASE held[g] # NoTask
    <3>1. held[g] \in TaskIds /\ fate[held[g]] = "held"
      BY <2>4 DEF TypeOK, TaskInOnePlace
    <3>2. UNCHANGED tries /\ fate' = [fate EXCEPT ![held[g]] = "lost"]
      BY <2>2, <2>4 DEF WorkerCancelled, LetGo
    <3>3. \A t \in TaskIds : fate[t] = "new" => fate'[t] = "new"
      BY <3>1, <3>2 DEF TypeOK
    <3>4. QED
      BY <3>2, <3>3 DEF NothingRuns
  <2>5. QED
    BY <2>3, <2>4
<1>7. ASSUME NEW k \in Kinds, ScheduleSteps(k)
      PROVE  NothingRuns
  <2>1. client # "open"
    BY DEF StopIsClean, ClientReleasedWhenStopped
  <2>2. UNCHANGED taskVars
    BY <1>7, <2>1 DEF ScheduleSteps, ScheduleBegins, ScheduleFires
  <2>3. QED
    BY <1>2, <2>2 DEF taskVars
<1>8. CASE UNCHANGED vars
  BY <1>2, <1>8 DEF vars, taskVars
<1>9. QED
  BY <1>3, <1>4, <1>5, <1>6, <1>7, <1>8 DEF Next

\* A worker loses its task only as it is cancelled, which the main it belongs to has
\* left behind or brings about by being stopped, or by its RPC.
LEMMA LossesExplained ==
  ASSUME TypeOK, CalmInv, NEW g \in Gangs, [Next]_vars
  PROVE  LostWithItsWorker(g)
<1> SUFFICES ASSUME held[g] # NoTask, held'[g] = NoTask, fate'[held[g]] = "lost"
             PROVE  IF wcan[g] THEN stopping \/ \A m \in Mains : gang[m] # g
                               ELSE RpcCancels /\ wrk'[g] = "ended"
  BY DEF LostWithItsWorker
<1>1. held[g] \in TaskIds
  BY DEF TypeOK
<1>2. ASSUME wcan[g], ~stopping, NEW m \in Mains
      PROVE  gang[m] # g
  <2>1. mpc[m] = "none" \/ mpc[m] = "sleep"
    BY <1>2 DEF CalmInv, Pairs, Marks, MainLive
  <2>2. gang[m] = NoGang
    BY <2>1 DEF CalmInv, Pairs, OneLive, Woken
  <2>3. QED
    BY <2>2, SlotAssumption
<1>3. UNCHANGED held \/ \E h \in Gangs : WorkerSteps(h)
  <2>1. CASE Commands \/ ControllerSteps
    BY <2>1 DEF Commands, ControllerSteps, StartService, StopService, Restart,
                ScheduleRestart, BootStart, EndPause, ScheduleReadFails,
                CreateRowSchedules, CreateDailySchedule, taskVars
  <2>2. ASSUME NEW m \in Mains, MainSteps(m)
        PROVE  UNCHANGED held
    BY <2>2 DEF MainSteps, MainBegins, AllocFails, AllocDone, GatherEnds, MainLoops,
                GatherFailed, MainCancelled, MainWakes, taskVars
  <2>3. ASSUME NEW h \in Gangs, ListenerSteps(h)
        PROVE  UNCHANGED held
    BY <2>3 DEF ListenerSteps, ListenerBegins, EventArrives, ExecuteInWorker, PollFails,
                GeneratorStops, ListenerCancelled, taskVars
  <2>4. ASSUME NEW k \in Kinds, ScheduleSteps(k)
        PROVE  UNCHANGED held
    BY <2>4 DEF ScheduleSteps, ScheduleBegins, ScheduleFires, ExecuteInWorker, taskVars
  <2>5. CASE UNCHANGED vars
    BY <2>5 DEF vars, taskVars
  <2>6. QED
    BY <2>1, <2>2, <2>3, <2>4, <2>5 DEF Next
<1>4. PICK h \in Gangs : WorkerSteps(h)
  BY <1>3
<1>5. held'[g] = held[g] \/ h = g
  BY <1>4 DEF WorkerSteps, WorkerBegins, GetTask, HandlerReturns, AccessDenied, HandlerFails,
              HandlerFailsLast, HandlerRpcCancelled, TaskSaved, WorkerCancelled, LetGo,
              taskVars, TypeOK
<1>6. WorkerSteps(g)
  BY <1>4, <1>5
<1>7. CASE wcan[g]
  BY <1>2, <1>7
<1>8. CASE ~wcan[g]
  <2>1. ASSUME NEW f, fate' = [fate EXCEPT ![held[g]] = f]
        PROVE  f = "lost"
    BY <1>1, <2>1 DEF TypeOK
  <2>2. ~WorkerBegins(g) /\ ~GetTask(g) /\ ~HandlerReturns(g) /\ ~HandlerFailsLast(g)
    BY <1>1, SlotAssumption DEF WorkerBegins, GetTask, HandlerReturns, HandlerFailsLast,
                                taskVars, TypeOK
  <2>3. ~AccessDenied(g) /\ ~HandlerFails(g)
    BY <2>1 DEF AccessDenied, HandlerFails, LetGo
  <2>4. ~TaskSaved(g)
    BY <2>1 DEF TaskSaved, LetGo
  <2>5. HandlerRpcCancelled(g)
    BY <1>6, <1>8, <2>2, <2>3, <2>4 DEF WorkerSteps, WorkerCancelled
  <2>6. QED
    BY <1>8, <2>5 DEF HandlerRpcCancelled, TypeOK
<1>9. QED
  BY <1>7, <1>8

\* While the service is stopped no task is accepted or begun; and one that is lost in
\* mid-run went with its worker, in a stop, beside a failed listener, or by its RPC.
THEOREM OnlyStops == Spec => OnlyStopsInterrupt
<1>1. TypeOK /\ StopIsClean /\ TasksAreKept /\ (Calm => CalmInv) /\ [Next]_vars
      => [Calm => /\ stopping => NothingRuns
                  /\ \A g \in Gangs : LostWithItsWorker(g)]_vars
  BY StoppedTakesNothing, LossesExplained DEF TasksAreKept
<1>2. QED
  BY <1>1, TypeCorrect, CleanStop, NoTaskLostOrCopied, CalmInvariant, PTL
     DEF Spec, OnlyStopsInterrupt

====
