-------------------------- MODULE ServiceLifecycle --------------------------
(***************************************************************************)
(* How a process of this system comes up and goes down: the four services   *)
(* on BaseService (utils/service.py), the dumper, and the lifespan of the   *)
(* two web applications.  A process opens what it needs one by one, starts  *)
(* its tasks, and closes what it holds one by one; any of these may fail.   *)
(*                                                                         *)
(* asyncio gives each new task its first step in the order the tasks were   *)
(* created, and none before the running one waits: ready is that queue.     *)
(***************************************************************************)
EXTENDS Naturals, Sequences, SequencesExt

CONSTANT Kinds      \* the processes looked at

Services == {"vk", "discord", "steam", "utils"}
Webs     == {"rest", "web"}

ASSUME KindsAssumption == Kinds \subseteq Services \cup Webs \cup {"dumper"}

VARIABLES
  kind,     \* which process this is
  todo,     \* what is still to be opened, or to be closed, in order
  held,     \* what is open and still referred to
  setUp,    \* how the opening ended
  init,     \* where init() of main.py, or the lifespan, stands
  stopping, \* BaseService.stopping
  ready,    \* tasks that wait for their first step
  work,     \* tasks that have had it
  closing   \* where safe_close, or the shutdown, stands

vars == <<kind, todo, held, setUp, init, stopping, ready, work, closing>>

-----------------------------------------------------------------------------
(* What each init opens, and each close closes. *)

VkOpens == <<"amqp", "db", "redis", "utils_client", "worker", "s3", "handlers",
             "pubsub", "listener">>
DiscordOpens == <<"amqp", "db", "redis", "vk_pot_client", "utils_client", "bot",
                  "commands", "events">>
SteamOpens == <<"amqp", "db", "redis">>
UtilsOpens == <<"amqp", "db", "redis", "gigachat_client", "worker", "handlers">>
RestOpens == <<"db", "redis", "smtp", "amqp", "vk_bot_client", "utils_client",
               "jinja">>
WebOpens == <<"db", "redis", "smtp", "jinja">>

Opens == [vk |-> VkOpens, discord |-> DiscordOpens, steam |-> SteamOpens,
          utils |-> UtilsOpens, rest |-> RestOpens, web |-> WebOpens,
          dumper |-> <<>>]

\* The close of VkBotService is called by safe_close alone, and never: its stop()
\* finds stopping TRUE.  The close of DiscordService raises before its first.
UtilsCloses == <<"db", "redis", "gigachat_client", "amqp">>
SteamCloses == <<"poller", "db", "redis">>
\* Mutant: redis after the clients.
RedisLast == <<"db", "amqp", "vk_bot_client", "utils_client", "redis">>
RestCloses == <<"db", "redis", "amqp", "vk_bot_client", "utils_client">>
WebCloses == <<"db", "redis">>

Closes == [steam |-> SteamCloses, utils |-> UtilsCloses,
           rest |-> RestCloses, web |-> WebCloses]

\* What uses a channel of amqp: closed with it.
Channels == {"worker", "utils_client", "vk_pot_client", "vk_bot_client"}

\* _register_commands asks the database for the reply commands.
ReadsDatabase == {"commands"}

\* The engine of the database connects when it is first used, and close() of the
\* helper only disposes of it: no more than S3, Jinja and the like can it fail.
OpenFallible == {"amqp", "redis", "pubsub"} \cup ReadsDatabase \cup Channels
CloseFallible == {"redis", "amqp"}

\* What the process keeps connected.
Connected == (held \cap {"db", "redis", "pubsub"})
             \cup (IF "amqp" \in held THEN held \cap (Channels \cup {"amqp"}) ELSE {})

\* The process is not on its way out of run_until_complete.
Alive == init \notin {"raised", "exited"}

-----------------------------------------------------------------------------
(* BaseService.create, and startup of the web applications. *)

Init ==
  /\ kind \in Kinds
  /\ todo = Opens[kind]
  /\ held = {}
  /\ setUp = "going"
  /\ init = "setup"
  /\ stopping = (kind = "vk")
  /\ ready = <<>>
  /\ work = {}
  /\ closing = "none"

\* setup() has returned: without a wait main.py comes to the start of the service.
SetUpReturns(how) ==
  /\ setUp' = how
  /\ init' = IF kind \in Webs THEN "serving" ELSE "start"

Open ==
  /\ init = "setup" /\ todo # <<>>
  /\ held' = held \cup {Head(todo)}
  /\ todo' = Tail(todo)
  /\ ready' = IF Head(todo) = "listener" THEN Append(ready, "listener") ELSE ready
  /\ UNCHANGED <<kind, setUp, init, stopping, work, closing>>

SetUpEnds ==
  /\ init = "setup" /\ todo = <<>>
  /\ SetUpReturns("ok")
  /\ UNCHANGED <<kind, todo, held, stopping, ready, work, closing>>

\* stop(): safe_close becomes a task, once.
Stop ==
  /\ stopping' = TRUE
  /\ ready' = IF stopping THEN ready ELSE Append(ready, "closer")

\* Mutant: a failed set-up is tried again, for ever.
TriesAgain ==
  /\ init = "setup" /\ todo # <<>> /\ Head(todo) \in OpenFallible
  /\ todo' = Opens[kind] /\ held' = {}
  /\ UNCHANGED <<kind, setUp, init, stopping, ready, work, closing>>

\* Whatever fails, setup() logs it and calls stop(); a web application logs it.
OpenFails ==
  /\ init = "setup" /\ todo # <<>> /\ Head(todo) \in OpenFallible
  /\ SetUpReturns("failed")
  /\ IF kind \in Webs THEN UNCHANGED <<stopping, ready>> ELSE Stop
  /\ UNCHANGED <<kind, todo, held, work, closing>>

-----------------------------------------------------------------------------
(* init() of main.py goes on, whether setup() failed or not. *)

\* start_service: the main task is created before the schedules are read, and
\* without a database that read raises at once.
VkStarts ==
  /\ kind = "vk" /\ init = "start"
  /\ stopping' = FALSE
  /\ ready' = Append(ready, "main")
  /\ init' = IF "db" \in held THEN "reading" ELSE "raised"
  /\ UNCHANGED <<kind, todo, held, setUp, work, closing>>

SchedulesRead ==
  /\ init = "reading"
  /\ init' = "done"
  /\ ready' = Append(ready, "schedules")
  /\ UNCHANGED <<kind, todo, held, setUp, stopping, work, closing>>

StartRaises ==
  /\ init \in {"reading", "on_ready"}
  /\ init' = "raised"
  /\ UNCHANGED <<kind, todo, held, setUp, stopping, ready, work, closing>>

\* start_bot asks a bot that is not there whether it is ready.
DiscordStarts ==
  /\ kind = "discord" /\ init = "start"
  /\ stopping' = FALSE
  /\ IF "bot" \in held
       THEN init' = "waiting" /\ ready' = Append(ready, "bot")
       ELSE init' = "raised" /\ UNCHANGED ready
  /\ UNCHANGED <<kind, todo, held, setUp, work, closing>>

BotIsReady ==
  /\ init = "waiting" /\ "bot" \in work
  /\ init' = "on_ready"
  /\ UNCHANGED <<kind, todo, held, setUp, stopping, ready, work, closing>>

\* run_bot logs why it ends; start_bot goes on waiting.
BotEnds ==
  /\ "bot" \in work /\ init # "exited"
  /\ work' = work \ {"bot"}
  /\ UNCHANGED <<kind, todo, held, setUp, init, stopping, ready, closing>>

OnReadyReturns ==
  /\ init = "on_ready"
  /\ init' = "done"
  /\ ready' = Append(ready, "schedules")
  /\ UNCHANGED <<kind, todo, held, setUp, stopping, work, closing>>

\* Mutant: the poller is there before the failed set-up is closed.
PollerFirst ==
  /\ kind = "steam" /\ init = "start"
  /\ init' = "done"
  /\ ready' = <<"poller">> \o ready
  /\ UNCHANGED <<kind, todo, held, setUp, stopping, work, closing>>

SteamStarts ==
  /\ kind = "steam" /\ init = "start"
  /\ init' = "done"
  /\ ready' = Append(ready, "poller")
  /\ UNCHANGED <<kind, todo, held, setUp, stopping, work, closing>>

UtilsStarts ==
  /\ kind = "utils" /\ init = "start"
  /\ init' = "done"
  /\ UNCHANGED <<kind, todo, held, setUp, stopping, ready, work, closing>>

DumperStarts ==
  /\ kind = "dumper" /\ init = "start"
  /\ init' = "done"
  /\ ready' = Append(ready, "dump")
  /\ UNCHANGED <<kind, todo, held, setUp, stopping, work, closing>>

-----------------------------------------------------------------------------
(* The loop. *)

\* The loop is at a wait of init(), or past it; after an exception of init() it
\* still gives the tasks that are ready their first step.
LoopTurns == ready # <<>> /\ init \notin {"start", "exited"}

\* Mutant: a task that began is not taken off the queue.
TaskKept ==
  /\ LoopTurns /\ Head(ready) # "closer"
  /\ work' = work \cup {Head(ready)}
  /\ UNCHANGED <<kind, todo, held, setUp, init, stopping, ready, closing>>

TaskBegins ==
  /\ LoopTurns /\ Head(ready) # "closer"
  /\ Head(ready) = "poller" => closing # "awaiting"
  /\ ready' = Tail(ready)
  /\ work' = work \cup {Head(ready)}
  /\ UNCHANGED <<kind, todo, held, setUp, init, stopping, closing>>

\* safe_close has its first step.  DiscordService.close assigns to an attribute a
\* list does not have.  SteamService.close cancels its poller and awaits it.
CloserBegins ==
  /\ LoopTurns /\ Head(ready) = "closer"
  /\ ready' = Tail(ready)
  /\ closing' = CASE kind = "discord" -> "raised"
                  [] kind = "steam" /\ "poller" \in ToSet(ready) -> "awaiting"
                  [] OTHER -> "going"
  /\ todo' = IF closing' = "going" THEN Closes[kind] ELSE <<>>
  /\ UNCHANGED <<kind, held, setUp, init, stopping, work>>

\* A task cancelled before its first step ends without one, and the CancelledError
\* its awaiter gets is not caught by close() or safe_close.
PollerCancelled ==
  /\ LoopTurns /\ Head(ready) = "poller" /\ closing = "awaiting"
  /\ ready' = Tail(ready)
  /\ closing' = "cancelled"
  /\ UNCHANGED <<kind, todo, held, setUp, init, stopping, work>>

\* main.py logs the exception of init() and returns.
Exit ==
  /\ init = "raised" /\ ready = <<>>
  /\ init' = "exited"
  /\ work' = {} /\ held' = {}
  /\ UNCHANGED <<kind, todo, setUp, stopping, ready, closing>>

\* The main task makes a client, and lets it go when anything fails.
AllocateVk ==
  /\ "main" \in work /\ "client_vk" \notin held
  /\ held' = held \cup {"client_vk"}
  /\ UNCHANGED <<kind, todo, setUp, init, stopping, ready, work, closing>>

ReleaseVk ==
  /\ "client_vk" \in held /\ Alive
  /\ held' = held \ {"client_vk"}
  /\ UNCHANGED <<kind, todo, setUp, init, stopping, ready, work, closing>>

-----------------------------------------------------------------------------
(* close(), and shutdown of the web applications. *)

Shutdown ==
  /\ init = "serving"
  /\ init' = "leaving"
  /\ closing' = "going"
  /\ todo' = Closes[kind]
  /\ UNCHANGED <<kind, held, setUp, stopping, ready, work>>

\* A client asks the broker to cancel its consumer: not over a closed connection.
Reachable(r) == r \in Channels => "amqp" \in held

CloseNext ==
  /\ closing = "going" /\ todo # <<>>
  /\ Head(todo) \in held => Reachable(Head(todo))
  /\ held' = held \ {Head(todo)}
  /\ todo' = Tail(todo)
  /\ UNCHANGED <<kind, setUp, init, stopping, ready, work, closing>>

CloseRaises ==
  /\ closing = "going" /\ todo # <<>>
  /\ Head(todo) \in held
  /\ Head(todo) \in CloseFallible \/ ~Reachable(Head(todo))
  /\ closing' = "raised"
  /\ UNCHANGED <<kind, todo, held, setUp, init, stopping, ready, work>>

\* "was stopped successfully", "app shutdown executed".
CloseEnds ==
  /\ closing = "going" /\ todo = <<>>
  /\ closing' = "stopped"
  /\ UNCHANGED <<kind, todo, held, setUp, init, stopping, ready, work>>

-----------------------------------------------------------------------------

Starts == VkStarts \/ DiscordStarts \/ SteamStarts \/ UtilsStarts \/ DumperStarts

SetUp == Open \/ SetUpEnds \/ OpenFails
Start == Starts \/ SchedulesRead \/ StartRaises \/ OnReadyReturns
Loop  == TaskBegins \/ CloserBegins \/ PollerCancelled \/ Exit
Close == CloseNext \/ CloseRaises \/ CloseEnds

Next == SetUp \/ Start \/ BotIsReady \/ BotEnds \/ Loop \/ AllocateVk \/ ReleaseVk
        \/ Shutdown \/ Close

\* The opens end by their time-outs or by an error, and so do the reads; the loop
\* turns.  Nothing makes Discord let the bot in, or ends a web application.
Spec == Init /\ [][Next]_vars /\ WF_vars(SetUp) /\ WF_vars(Start) /\ WF_vars(Loop)
             /\ WF_vars(Close)

-----------------------------------------------------------------------------

TypeOK ==
  /\ kind \in Kinds
  /\ held \subseteq (UNION {ToSet(Opens[k]) : k \in Kinds}) \cup {"client_vk"}
  /\ setUp \in {"going", "ok", "failed"}
  /\ init \in {"setup", "start", "reading", "waiting", "on_ready", "done", "raised",
               "exited", "serving", "leaving"}
  /\ stopping \in BOOLEAN
  /\ ToSet(ready) \cup work \subseteq {"listener", "main", "schedules", "bot",
                                       "poller", "dump", "closer"}
  /\ IsInjective(ready) /\ ToSet(ready) \cap work = {}
  /\ closing \in {"none", "going", "stopped", "raised", "awaiting", "cancelled"}

\* What reads and writes the database while it runs: tasks, the handlers of a
\* worker that consumes, and requests.
UsesDatabase ==
  \/ work \cap {"main", "listener", "schedules", "bot", "poller"} # {}
  \/ {"worker", "amqp"} \subseteq held
  \/ init = "serving"

\* Nothing that runs on the database is left running without it, whichever step of
\* the set-up failed and however far the close has come; and where a failed set-up
\* leaves the process idle (steam, utils), nothing runs at all.
WorkHasItsDatabase ==
  /\ Alive /\ UsesDatabase => "db" \in held
  /\ setUp = "failed" /\ kind \in {"steam", "utils"} =>
       work = {} /\ "worker" \notin held

\* A service that logs that it was stopped successfully, and a web application
\* that logs that its shutdown was executed, is connected to nothing; and so is
\* the REST API when its shutdown crashes at a client.
SuccessReleasesAll ==
  \/ closing = "stopped"
  \/ closing = "raised" /\ todo # <<>> /\ Head(todo) \in Channels
  => Connected = {}

\* main.py comes to its end or to run_forever, and a web application to serving,
\* whatever fails, except for a Discord that never gets ready; and a planned
\* safe_close has its end.
Settles ==
  /\ init = "setup" /\ kind # "discord" ~> init \in {"done", "exited", "serving"}
  /\ "closer" \in ToSet(ready) ~> closing \in {"stopped", "raised", "cancelled"}
=============================================================================
