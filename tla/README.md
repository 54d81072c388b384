# vk-bot: a TLA+ model of its services

vk-bot is a handful of Python services around one PostgreSQL database, one
RabbitMQ and one redis: a bot for VK, a bot for Discord, a poller of Steam, a
service for slow work (GigaChat, image tags, speech to text), a REST API, web
pages and a database dumper. Each service is one process with one asyncio loop.
The modules here model the parts whose correctness depends on the order of
events: life cycles, queues, cancellation, remote calls, and sessions kept in
the database. The repository has no tests and its README is a title, so the
reference is the code alone.

All paths below are under `src/app`.

## 1. The system

| component | state | operations | who it talks to | what is hard | what makes it correct | module |
|---|---|---|---|---|---|---|
| VkBotService (`services/vk_bot/service.py`, `task.py`, `vk/sheduled.py`) | `stopping`, `client_vk`, `_background_tasks`, `_queue`, the tasks in flight | start, stop, restart, restart of the schedules; main task, listener, worker, schedule tasks | redis commands, VK, the database, the RPC client | cancellation of coroutines at any await, overlap of an old main with a new one, retries | a stopped service holds no client and runs nothing; a task is neither lost nor copied, and saved once | `VkBotService`, `TaskQueue` |
| VkClient (`utils/vk_client.py`) | `_stopping`, the sessions of vk_api | `events_generator`, `close`, API calls | VK | the generator swallows cancellation | a closed client ends every generator over it | in `VkBotService` |
| RPC (`utils/asynctask`) | the client's table of tasks and its future per task; the worker's handlers; `replied` of a context | `call`, `close`, `on_message`, `on_close`, `on_message_returned`; worker `init`, `register`, `on_message`, `close` | RabbitMQ | late and duplicated replies, redelivery, lost channels, timeouts, close during calls | every call ends, once, and with a result only if the work was done | `AsyncTask`, `RpcCall` |
| SteamService (`services/steam/service.py`) | rows of users, activity sessions and status sessions | a pass over the listed users | Steam, the database | failure or death between any two awaits | one open session of a kind per user, telling what Steam said | `SteamService` |
| DiscordService, sessions (`services/discord/events.py`, `scheduled.py`) | sessions of activities and statuses | presence events, the nightly clean-up jobs | Discord, the database | events of one member handled concurrently | the tables are the history of what a member played and was; what races and failures leave open is cleaned up | `DiscordSessions` |
| DiscordService, bot, commands, voice | none of its own beyond the library's | commands, joining and leaving, playing a file | discord.py, RPC | the start of the bot | - | its start and close in `ServiceLifecycle`, its gpt calls in `ChatHistory` |
| VK handlers (`services/vk_bot/vk/handlers.py`, `callbacks.py`) | messages, polls, the history of triggers, the memes bucket, the cached picture of the help text | `on_new_message`, `on_message_reply`, `on_callback_event`, `on_poll_vote` | VK, RPC, the database, S3, redis | a run that failed is run again from its start; an answer of VK is lost | no run repeats itself; what was answered is saved | `MessageHandlers` |
| UtilsService (`services/utils`, `utils/gigachat_client.py`) | the conversations with GigaChat | three RPC handlers | RPC, GigaChat, the database | requests handled side by side, and twice; a handler that stays silent | the model is asked in the context of its user; what was told is kept | `ChatHistory`, its RPC side in `AsyncTask`, speech to text in `TempFiles` |
| Posts, messages with files, dumps (`utils/files.py`, `on_vk_post`, `business_logic/vk.py`, the two routers `messages.py`, `services/db_dumper`) | files on the local disk, at SFTP and at S3 | fetch, use, remove; dump, send, remove | SFTP, S3, URLs, YouTube, VK, `pg_dump` | failure between any two steps, two deliveries of one post | no file stays behind for a reason that is not named; no original is lost unread | `TempFiles` |
| Web sessions and accounts (`utils/fastapi`, `rest_api/routers/auth.py`, `web/routers/auth.py`, `rest_api/routers/admin/users.py`) | sessions in redis, the keys clients hold, accounts | find a session by Basic credentials or by a key, change it, save it; log in and out; create an account | redis, the database, SMTP | requests of one session that overlap, creations that overlap or fail half way | a session says who its client is, and nobody else; an account that was answered can be used | `WebSession` |
| BaseService, `main.py` of each service, the lifespans of the web applications | what is connected, `stopping`, the tasks of the loop | set-up, start, stop, `safe_close`, close | everything that is opened | a set-up or a close that fails half way | nothing runs without its database; a close that reports success has released everything | `ServiceLifecycle` |
| REST API and pages, mailing, models, data URLs, charts | none of their own | one request, one statement | all of the above | little | - | in part, see section 5 |

How they interact: the REST API and the dumper speak to VK themselves; the REST
API publishes redis commands that `VkBotService._listen_redis` takes up one
after the other; the VK and Discord bots call the UtilsService, and the Discord
bot calls the VK bot, through `asynctask.Client.call`. A channel lost under
`Client` completes or cancels the futures that handlers of VkBotService wait
on; this is the toggle `RpcCancels` of `VkBotService`. A task of VkBotService runs
one handler of `MessageHandlers`, several times if it fails; a handler asks
UtilsService, and that question is a call of `ChatHistory`, which takes of the RPC
what `RpcCall` and `AsyncTask` say of it: deliveries may repeat, and an answer may
come when nobody waits for it any more.

## 2. Modules

| module | what it is |
|---|---|
| `TaskQueue` | abstract: what VkBotService promises about the tasks it accepts |
| `VkBotService` | the life cycle of the VK bot |
| `RpcCall` | abstract: what a caller of `Client.call` may rely on |
| `AsyncTask` | client, worker and broker of the RPC |
| `ChatHistory` | gpt_chat in UtilsService: calls, deliveries, the table of the conversations |
| `MessageHandlers` | the VK handlers over the retries of their tasks; extends `ChatHistory`, whose actions are part of its `Next` |
| `SteamService` | the Steam poller and its tables |
| `DiscordSessions` | presence events of Discord, the tables of sessions, the nightly jobs |
| `TempFiles` | posts, messages with files, dumps: the local disk and the remote stores |
| `WebSession` | requests, sessions and accounts of the web services |
| `ServiceLifecycle` | how each of the seven processes comes up and goes down |
| `MC...` | for each of them the instances TLC checks, with the fairness and the liveness properties where there are any |
| `..._proofs` | the theorems about `VkBotService`, `AsyncTask`, `SteamService`, `DiscordSessions`, `MessageHandlers` (with `ChatHistory`), `TempFiles`, `WebSession` and `ServiceLifecycle` |

Some definitions carry the comment "Mutant": they are wrong variants of the
definition that follows, used to see that a property notices the difference.
No specification uses them.

### VkBotService

One asyncio loop runs everything, so an action is the code between two awaits,
and the order in which ready coroutines run is open. `Task.cancel()` marks its
target and the target's next step raises; the marks are `cancel`, `lcan` and
`wcan`.

| model | code |
|---|---|
| `ctl["boot"]`, `ctl["redis"]` | the coroutine of `main.py:init`, and `_listen_redis` inside a command: reading or closing the session of the schedules, or in the pause of a restart |
| `BootStart`, `StartService`, `BeginStart` | `start_service` up to its await; the main task is created before the schedules are read |
| `CreateRowSchedules`, `CreateDailySchedule`, `ScheduleReadFails` | the rest of `start_schedule_tasks`: after `get_list`, after the session is closed, or when the database fails |
| `StopService`, `StopBody` | `stop_service`, which has no await that waits |
| `Restart`, `EndPause` | `restart_service` before and after its sleep |
| `ScheduleRestart` | the command `SEND_ON_SCHEDULE_RESTART` |
| `MainHead` to `MainWakes` | `_main_task`: loop head and `_allocate_vk`, the gather, its end, the two `except` branches, the sleep |
| `lst`, `Listener*`, `EventArrives`, `PollFails`, `GeneratorStops` | `_listen_vk` over `events_generator`; `pollClosed` is a poll in flight over a client that was closed |
| `wrk`, `Worker*`, `GetTask`, `Handler*`, `AccessDenied`, `TaskSaved` | `_worker`, `execute_task`, `save_task` |
| `ScheduleBegins`, `ScheduleFires` | `send_on_schedule` |

Abstractions. The handlers are reduced to how they end: they return, raise
(`Failing`, which is also a session around `save_task` that cannot be opened: it is
inside the same `try`), are denied, or are cancelled with their RPC. A row of the schedule
table is one kind, `"row"`, the daily statistic the other. Tasks carry an
identity, tries and rows. `fate` and `rows` record what happened to a task; the
code has no such variables, but every value of them is read off an event in the
code (a put, a get, a commit).

Slots. `Mains` and `Gangs` bound how many main tasks, and pairs of listener and
worker, are alive at once; a slot is reused when its coroutine has ended. A start
that finds no free slot cannot be taken, so a behaviour with more overlap than
slots is not explored by TLC. The proofs hold for any number of slots.

`Calm` says whether commands come only when the last one has settled. An operator
who clicks once and waits is calm; the code does not enforce it. Under `Calm =
FALSE` `start_service` right after `stop_service` leaves the old main alive until
its cancellation is raised, and listeners, which swallow it, for longer. The
properties of section "what holds if each command waits" are stated for calm
commands only, since the code does not keep them otherwise (two mains may then
run side by side and share the client). A sleep of the restart or of a failed
main is taken to outlast the raising of cancellations (a few turns of the loop),
not the end of a poll.

### AsyncTask

Client and Worker run in different processes with the broker between them.
Actions are the code between two awaits, or steps of the broker. The broker is
external: it is modelled by what the code asks of it. A mandatory publish to an
undeclared queue is returned; a delivery stays unacked until acked or rejected,
and is delivered again when its channel goes; a request older than its expiration
is dropped from the queue. The callbacks of aio_pika for returns and channel
closes are taken to be called as `Client.init` registers them.

| model | code |
|---|---|
| `tasks`, `fut`, `cpc`, `end` | `Client.tasks`, `Task.future`, where `call` stands, what it returned or raised |
| `Call`, `Route`, `Confirm`, `PublishFails`, `Resume`, `Timeout`, `CallerCancelled` | `Client.call`: the table entry, the publish and its confirmation, `wait_for` |
| `OnMessage`, `OnMessageReturned`, `ClientChannelLost` | `on_message`, `on_message_returned`, `on_close` |
| `CloseCancels`, `CloseDrains`, `CloseEnds` | `Client.close` between its awaits |
| `WorkerInit`, `Register`, `WorkerClose*` | `Worker.init`, the `register` calls of a service after it, `Worker.close` |
| `Deliver`, `Reject`, `Handle`, `Handler*`, `Failure*`, `Ack` | `Worker.on_message`, `handle`, `Context.reply_to`, `reply_to` and the `finally` clause, one `job[c][d]` per delivery |

All replies that make the call raise are one type, `"FAILURE"`; a `SUCCESS` whose
body does not unpack raises too (`Meaning`). `sent` and `worked` are history.

### SteamService

An action is a step of `_process_users_task` up to its next await. `draft` is what
the database session of the pass has changed and not yet committed; an exception
anywhere (`PassFails`) and the death of the process (`Crash`) drop it, except
that a commit under way may have been carried out. Only the number of open rows
is kept per user, game and status: times and names do not matter to the
properties. The list of users may name one twice, and the instance does.

### DiscordSessions

discord.py raises one presence event per server that a member shares with the
bot and runs each handler as a task of its own. An action is a step of
`on_presence_update` up to its next await. A handler is idle or one coroutine:

| model | code |
|---|---|
| `PresenceChanges` | a member changes and discord.py starts the coroutines, one per shared server (up to `Copies`) |
| `ReadConfig` | the configuration has been read; `_get_activities_state` compares before with after |
| `StartCommits`, `FindGame`, `FinishCommits`, `GoOn` | the loops of `handle_activities_on_db`, one statement each |
| `Leave` | `_handle_status_update` compares the statuses |
| `SelectStatus`, `UpdateCommits`, `CreateCommits` | the session of the old status is looked up and finished, that of the new one created |
| `Ages`, `JobReads`, `JobDeletes` | `drop_broken_activities`: the hours pass, the open sessions are read, each old one deleted |
| `HandlerFails`, `Cut`, `JobFails` | an exception of the database in a handler or in the job: the rest of the event or of the night is skipped; a commit under way may have been carried out |
| `ChangeUnseen` | a member changes while the bot is away; no event is raised for it |

What it takes from discord.py: `before` is a copy of the member and `after` the live
member, so that `after` is what the member is when the handler looks (`Now`), which
is after its first await. Only games are kept in the table, so activities are games;
listening, streaming and the rest are only logged. The order in which a set is
iterated is open.

Times are counted in changes of the member: a row's `from` is the number of changes so
far, which is also its place in `order_by started_at`. A row has its place from its
insert on, but is visible only once committed. Hours do not matter but for the 48 of
the job; a row that has been open for as long (as the job counts, which compares the
local clock with the UTC of the row) is `old`. `get_first_unfinished` takes the
newest row whether it is finished or not, as the code does. `drop_broken_status_sessions`
has no action: it asks for rows where the Python expression `finished_at is None` holds,
which is no row.

`Calm` says that a member changes only when his earlier events have been handled.
The code does not enforce it: two changes within the time of a few statements are
handled side by side, and may leave more than one open row for a game, or finish one
twice; so do the events of one change when several servers raise them. `TablesTellThePast`
(the rows are the periods the bot saw, and each ends with its own period) is therefore
checked and proved for calm members of one server; `ShortSessionsAreKept` and `NoGameStaysOpen`
hold without.

### MessageHandlers and ChatHistory

A task is one event of VK; `pc[e]` is the await at which its handler is, or how the task
ended. A run begins with a database session and counters of its own (`Begin`); a run that
raises is put back until `tries` exceeds `MaxRetries`.

| model | code |
|---|---|
| `Accept`, `Begin`, `SaveTask`, `WorkerCancelled` | `execute_in_worker`, `execute_task`, `_save_task`, a cancellation at any await |
| `SaveMessage` | `_save_vk_message`, which swallows its failure; `broken` is a session whose transaction has failed, at which the next statement raises |
| `TagPicture` | `_parse_attachments_tags`, one call of `get_image_tags` per picture |
| `FindTriggers`, `RecordAnswer` | the queries for triggers and reply commands, and the row of `triggers_history` after the answer was sent |
| `AskGpt`, `GptEnds` | `UtilsClient.gpt_chat` from the handler: `Ask` of `ChatHistory` and the end of that call |
| `StorePhoto`, `CreatePollRow`, `PollRaises` | the loop over the attachments of the memes chat, `on_poll_vote` |
| `ReadCache`, `WriteCache` | `help_callback` and the picture redis remembers |
| `VkAnswers`, `VkFails`, `NoClient` | a call of VK under `with_retries`: taken, failed, its answer lost, or no client; `attempt` counts failed tries, `sends` the calls of `send` the run is through with |
| `Handle`, `QuestionCommits`, `GetPayload`, `AnswerCommits`, `Reply`, `HandlerGivesUp` | `on_gpt_chat` and `GigachatClient.chat`, one `job[a][d]` per delivery |

What a message says is left out: whether it has tags or triggers an answer is open at the
step that asks; `Shapes` keeps the kind of the event, whether it is the help command, how
many pictures it has, whether it addresses the bot and what it brings to the memes chat.
VK shows two messages with one `random_id` once: `vk` is a set of records with the id.
`Messages.send` draws an id per call, before `with_retries` begins (`RandomId`), so two calls
are two messages even if they say the same, and the tries of one call are one. Both an id per
try and a text that is sent by a second call (two mutants) break `OncePerRun`. Two ids drawn in
one run are taken never to agree. `Begin` may raise where a callback reads the fields of its
event; messages, replies and votes catch what is missing there. `_call_user` is
disabled in `VkClient` and returns 1, so that no poll can be made or looked up; the model says
so. A task that ends in "Access denied" has no row. `HistoryIsTrue` is about the runs: a run
cut off between the answer and its row leaves an answer the table does not have. Rows of
a conversation have no stated order (`get_by_user` sorts by nothing), so `payload` is a set.

### TempFiles

A job is one use of a temporary file, or of several in a row for a message with files.

| model | code |
|---|---|
| `Begin` | the branch of `on_vk_post`, the first file of a message, `dump_db` |
| `StatRemote`, `OpenLocal`, `NothingToOpen`, `Enter`, `OpenRaises`, `Cut` | `__aenter__` of the classes of `utils/files.py`, and where it fails: before the local file exists, or during its write, after which nobody calls `__aexit__` |
| `UseFile`, `Upload`, `PostYtVideo` | the body of the `with`: a post, speech to text, `file_to_vk_attachment`; `post_yt_video` uses no `with` |
| `RemoveLocal`, `RemoveRemote` | `TempFileBase.__aexit__`, and `auto_remove` of SFTP and S3 |
| `Finish` | the message is sent, or the reply given |
| `DumpDb`, `SendDumpFile` | the dumper and its tries |
| `Dies` | the process dies at any await |

A file is named by its job and its number (uuid4 in the code), or by its title for YouTube,
where two jobs can meet in one file. Contents, sizes and extensions are left out but for
whether VK takes the file. Posting is disabled in `VkClient`: a post is done where it would
have been posted.

### WebSession

A request is one record, from the keys it brings to its answer.

| model | code |
|---|---|
| `Arrive` | a client sends a page, a guarded page, a login, a logout or an account to be created, to the REST API or to the pages, with all the keys it holds |
| `BasicSession` | `get_session` with Basic credentials that are right: a new session that says their user, whatever keys came with them. Any request may bring credentials |
| `Load`, `NewSession` | `get_session` without: the session redis has under the cookie, then under the other key; if it has neither, a new one; `check_auth` |
| `Login`, `Logout` | the handlers: `set_user`, `reset_user` |
| `CheckEmail`, `CheckName`, `CreateUser`, `MailPassword` | `api_create_user` at each of its awaits |
| `Save`, `Respond` | the exit code of the dependency writes the whole session; the response names the key in a cookie, unless the session was found by another key or the handler returned a response of its own, and in the body (`MeResponse.token`) |
| `Raise`, `Expire` | redis, the database, SMTP or a handler fails, a write that fails may have been made; a session runs out |

A session is reduced to the user it says; its other data goes with it. Keys are never drawn
twice (24 random bytes). A client holds at most two keys, one in its cookie and one as a token;
the header and the query are one way here, since a client that uses both is one with two tokens.
`Keeps` says which of them a client takes from answers and sends. A page that needs no user and
a login that is refused are one to the session. `check_is_admin` is left out: creations may come
from anybody, which is more than the code allows.

`granted`, `may`, `used`, `mailed` and `beside` are history: which credentials were accepted for
which key, what a client can conclude from the answers it got, which keys were given, which
passwords mailed, and which creations were under way when one was asked for. `Calm` clients wait
for an answer before they ask again. The code does not enforce that; for the others a logout can
be undone by a request that read the session before it, and only `SessionsAreSeparate` is said
of them. `SessionFollowsClient` also leaves out clients that send a cookie beside a token: when
the session of the one expires, they fall back to the user of the other.

Nothing stops two creations that overlap from passing the check of the name together, and a mail
that fails leaves an account with a password nobody has. `AccountsAreSound` does not deny this, it
says that nothing else can be wrong: twins overlapped, orphans raised, and whoever was answered
has a row and a mail.

### ServiceLifecycle

One process at a time, any of the seven. `todo` is what is still to open or to close, in the
order of the code, `held` what is open, `ready` the queue of tasks that have not had their
first step. asyncio gives first steps in the order of creation and none before the running
coroutine waits, which decides what a failed set-up comes to.

| model | code |
|---|---|
| `Open`, `OpenFails`, `SetUpEnds`, `Stop` | `BaseService.setup` over `init` of each service, `stop()`; the startup of the web applications |
| `VkStarts` to `DumperStarts`, `SchedulesRead`, `BotIsReady`, `OnReadyReturns`, `StartRaises` | `init` of each `main.py`, which goes on whether the set-up failed or not |
| `TaskBegins`, `CloserBegins`, `Exit` | the loop: first steps, `safe_close`, the end of `run_until_complete` |
| `PollerCancelled` | the poller of steam, cancelled by `close` before its first step: `close`, which awaits it, ends with its `CancelledError` and releases nothing |
| `AllocateVk`, `ReleaseVk`, `BotEnds` | what the running tasks do to what is held |
| `Shutdown`, `CloseNext`, `CloseRaises`, `CloseEnds` | the closes of the services and of the web applications |

What a task does after its first step is in the other modules.

## 3. What TLC checks

| run | shows | bounds |
|---|---|---|
| `vkbot_calm` | one main, one live pair and one task per schedule (`OneOfEach`); a task is in one place and saved once (`TasksAreKept`), and lost in mid-run only with its worker (`OnlyStopsInterrupt`); `TaskQueue` is implemented | commands that wait, 2 mains, 2 pairs, 2 tasks, 3 retries, both kinds of schedules, RPCs cancelled under their handlers |
| `vkbot_hasty` | no client and no schedule task after a stop, no poll of a released client (`StopIsClean`), with mains of several starts alive | commands at any time, 2 mains, 2 pairs, both kinds of schedules, no tasks |
| `vkbot_live` | accepted tasks finish, and the service comes back to a listener and a worker at work, unless a worker that returned on a cancelled RPC is missing for ever (see below); the last stop is final | commands that wait, 2 mains, 1 pair, 2 tasks, 1 retry, no schedules, RPCs cancelled under their handlers |
| `asynctask_redelivery` | the table holds the calls that can still be answered, deliveries end with at most two replies, `RpcCall` is implemented, and every call ends | 1 call, 2 deliveries, all faults, timeouts, silent handlers |
| `asynctask_answers` | where nothing fails every call is answered without its timeout | 2 calls, 1 delivery, prefetch 1 |
| `steam` | one open session of a kind, whole answers, and the database comes to say what Steam says | 2 users, one listed twice, 1 game |
| `discord_calm` | the tables are the history of the member, ends of sessions are their own | 1 calm member, 4 changes, a game, an excluded one, 2 statuses |
| `discord_races` | the job takes no short session; what was left open is finished or dropped | 1 member, 2 changes, up to 2 servers, 2 handlers at once, failures |
| `vk_handlers` | what was answered is saved, no text of a run goes out by two calls, the history of triggers is true, conversations hold | 1 event of any of 6 shapes, 1 retry, the code's 3 tries of a call, 2 deliveries of questions in all, a question of a Discord user beside an event that asks as well |
| `temp_files` | which files stay behind, no original goes unread, one success per SFTP post, messages are whole | 2 jobs of any of 16 shapes, one remote file or title, 3 tries |
| `web_session` | sessions follow calm clients and are separate; creations of accounts that overlap or fail leave twins, orphans, and nothing else | 3 requests of a calm client with a cookie and one that overlaps its own and sends a cookie and a token, or 3 creations of a client that does not wait; Basic credentials with any of them; 3 keys, 1 account that is there, 1 name and 2 mails for others |
| `lifecycle` | nothing runs without its database, success means released, the process settles | each of the 7 processes, a failure at every step |

The exception of `vkbot_live`. When a channel of the RPC client goes, `Client.on_close`
cancels the futures of its calls (`asynctask/client.py:233`). To `_worker` this looks like its own
cancellation and it returns (`service.py:149`), while the listener polls on and the gather waits
for both: until the listener fails, or somebody stops the service, tasks are accepted and not
run. `QueuedTaskFinishes` and `KeepsServing` are therefore stated under `[]<>~Workerless`: they
hold of every behaviour in which no such gap lasts for ever. Without the condition TLC finds one.

Why the bounds are enough. Two mains and two pairs are the smallest number at which an old
one meets a new one, and nothing in the code counts them; with commands that wait no two
pairs are live at once (`OneOfEach`), so that one slot for a pair does for `vkbot_live`. Two
tasks are enough for one to overtake the other in the queue. One retry passes through both
branches of `task.tries <= 3`; `vkbot_calm`, which checks the refinement, uses the code's 3.
Two deliveries of one call give all crossings of two answers; two calls of one delivery each
give the competition for the prefetch slot, which the code leaves at 1. One game at Steam is
enough for a session to open, close and open again; the proofs cover any number. Four
changes of a member are two whole periods of a game, so that a session can be mistaken for
the one before it. The six shapes of events reach each branch of each handler, two pictures
or two photos go round each loop and leave it, and one retry gives a run that meets the
traces of an earlier one; the constraint `AsksMeet` lets the Discord user ask only beside
events whose handlers ask too, since the two meet nowhere else. Two jobs are enough to meet
in one file or one original, or to be two deliveries of one post. Three requests are a login
and two that overlap, or a session by Basic credentials, a logout and what comes after it;
three keys let each have its own. Three creations are two that pass the check of the name
together, and one that comes later. The constraint `CreationsApart` keeps creations and
other requests out of one behaviour: what they share is the table of accounts, and a created
account logs in as the one that is there. `MaxDeliver`, `MaxHandled`, `TaskIds`,
`MaxChanges`, `MaxCalls`, `Workers` and the slots, `Handlers` among them, are the only
artificial bounds; everything else is finite by itself. A change that finds no idle handler
cannot be taken, as a start without a slot.

Symmetry is used in safety runs only. Deadlock checking is switched off where the system
really comes to a stop because each call, event, job or request comes once, or because the
process has ended: `asynctask_answers`, `vk_handlers`, `temp_files`, `web_session`,
`lifecycle`.

### Fairness

- `VkBotService`: the loop runs every ready coroutine, timers fire and each await
  of the network ends (weak fairness of the mains, workers, pending
  cancellations). No event, command or failure has to come. `FairVk` adds strong
  fairness of `AllocDone` and `GetTask`: VK accepts the greeting if it is sent again
  and again, and a worker that comes back to a queue that is not empty takes a
  task before the listener beside it fails every single time. Without these the
  code promises nothing: it retries as long as VK refuses.
- `AsyncTask`: both loops run what is ready and handlers come to an end; `Deliver`
  is strongly fair as it competes for the prefetch slot. `EveryCallEnds` is checked
  with the timer and the caller alone fair (`TimeoutSpec`): broker and worker may do
  nothing at all.
- `SteamService`: the loop goes on. `FollowsSteam` is conditional: if failures
  cease and Steam's answer for a user stands, the tables follow. A failure that
  comes back in every pass does starve the users listed after it.
- `DiscordSessions`: the loop goes on, hours pass and nights come. `NoGameStaysOpen`
  is conditional: if failures cease for good.
- `ServiceLifecycle`: opens and reads end, by an error at the latest, the loop turns and
  a close goes on. Nothing lets the bot of Discord in, so a Discord process that waits
  for it is excepted from `Settles`.
- `MessageHandlers`, `TempFiles` and `WebSession` have safety properties only: whatever
  their jobs wait for may fail for ever.

## 4. What is proved

TLAPS proves these for all values of the constants, under the named assumptions of the
modules, which give the constants their types; beyond that only `CalmTablesTellThePast`
assumes something, and says so in its statement. The named assumption of `TempFiles` says besides
that only messages have any number of files and that a dump is one document, which is how
the callers build them. `OneOfEach` and `OnlyStopsInterrupt` begin with `Calm =>`, and
`AckedIsAnswered` with `~Faults /\ ~Silent =>`: they say what is said of calm commands, and
of connections that hold.

| theorem | property | argument |
|---|---|---|
| `VkBotService_proofs!TypeCorrect` | `TypeOK` | one lemma per coroutine |
| `VkBotService_proofs!CleanStop` | `StopIsClean` | `ClientInv`: a client appears only in `MainHead`, which looks at `stopping` in the same step, and `ReleaseVk` closes what it forgets; a schedule task that begins looks at `stopping` too |
| `VkBotService_proofs!NoTaskLostOrCopied` | `TasksAreKept` | `TaskInv` adds that a pair holds a task exactly while its worker is busy. Each step is first shown to be one of a few moves of a task (`TaskMove`); the moves alone are then shown to keep the invariant |
| `VkBotService_proofs!Refinement` | `ImplementsTaskQueue` | each move is a step of `TaskQueue` or a stutter |
| `VkBotService_proofs!RunsOnce` | `OneOfEach` | `CalmInv`: while the service is stopped every live listener and worker is marked or unwinding (`StoppedMains`, `Leaving`), every pair is some main's or on its way out (`Owned`), and schedules are created only where none is (`Schedules`). So a service that has settled and is stopped has no main, and the next start finds nothing |
| `VkBotService_proofs!OnlyStops` | `OnlyStopsInterrupt` | from the same invariant: what runs while the service is stopped bears its cancellation, and a worker loses a task only by its own or by that of its RPC |
| `AsyncTask_proofs!TypeCorrect` | `TypeOK` | one lemma per process |
| `AsyncTask_proofs!ResultIsEarned` | `ResultMeansWorked` | `SuccessInv` follows a success back: from the end of the call to its future, to the reply in the mail, to the handler at its publish |
| `AsyncTask_proofs!Refinement` | `ImplementsRpcCall` | uses `SuccessInv`, and `BegunInv`: whatever is on its way or at work belongs to a call that has begun |
| `AsyncTask_proofs!TableServes` | `TableServesCalls` | `TableInv`: no call in the table has an answer, as an answer takes its call out in the same step (`Completed`) |
| `AsyncTask_proofs!DeliveriesDoEnd` | `DeliveriesEnd` | `DeliveryInv`: the stage of a delivery tells how many replies it may have had (`RepliesCounted`), a delivery to come has no stage (`NotYet`), and a request is in no two places |
| `AsyncTask_proofs!NoSilentAck` | `AckedIsAnswered` | `AllCertain`, part of `DeliveryInv`: where nothing fails a delivery that is being acked has replied |
| `SteamService_proofs!TypeCorrect` | `TypeOK` | one lemma per await of the pass |
| `SteamService_proofs!SessionsAreSingle` | `OneOpenSession` | `IInv` adds `DraftFollows`: at each await the draft is the committed state of this user with the answer applied to the tables already visited |
| `SteamService_proofs!AnswersAreWhole` | `WritesOneAnswer` | from the same invariant |
| `DiscordSessions_proofs!TypeCorrect` | `TypeOK` | `IInv` says what a waiting coroutine relies on (the row it inserts is still there and pending, the row it finishes is no pending one) and that no two insert the same row. Each statement is shown once to be a `Follows`, under which all of that lasts |
| `DiscordSessions_proofs!OnlyLongSessionsAreDropped` | `ShortSessionsAreKept` | `AreOld`, part of `IInv`: what the job has read to be old still is when it is deleted; every step is a `Spares` |
| `DiscordSessions_proofs!CalmTablesTellThePast` | `TablesTellThePast` | assumes `Quiet` (calm members of one server, no faults). `CalmInv`: one coroutine at most is at work for a member, it handles his last change (`Course`), and each table is his history as of now or, where that coroutine has still to write (`Behind`), as of just before the change (`AsOf`). One lemma for each thing that can happen to the rows of one game or status from one time to the next: a period begins and its row is inserted, is committed, a period ends and its row is finished, nothing happens, a row is dropped |
| `MessageHandlers_proofs!TypeCorrect` | `TypeOK` | `TypeInv`: the place of a run bounds its tries (`Counts`) and keeps its loops within the pictures and photos of the event (`Loops`) |
| `MessageHandlers_proofs!AnsweredSaved` | `AnsweredIsSaved` | `Saved`: a run past its save either has a row or a broken session, and past its first query it has a row |
| `MessageHandlers_proofs!HistoryTrue` | `HistoryIsTrue` | `History`: the present run has shown an answer only between its sending and its recording, or has recorded it; earlier runs are done with |
| `MessageHandlers_proofs!TextsOnce` | `OncePerRun` | `Unsent`: a run leads from text to text and never back (`Ahead`), so that VK has nothing of what it may yet send, but for the message of the call at hand, which a failed try may have brought there under that call's id (`Fresh`). The ids of a run's calls are their numbers, so a second call of a text would be a second message |
| `MessageHandlers_proofs!ConversationsHold` | `ConversationHolds` | `Talk`: where a delivery stands tells which of its rows are there; the table only grows, so they stay |
| `TempFiles_proofs!TypeCorrect` | `TypeOK` | `TypeInv`: the place of a job tells which file is at hand (`AtFile`) and that it had it (`Had`) |
| `TempFiles_proofs!MessagesWhole` | `SentWhole` | `Partial`: before the body with file n the attachments are those of the files before it, and after it those up to n; a failure ends the message |
| `TempFiles_proofs!FilesAccounted` | `FilesAreAccountedFor` | each step is shown to leave, add or remove only the file of its own job (`StepDisk`); a job that leaves a holding state removes its file or comes to a named end. Where a file is shared by its title the job that stays accounts for it |
| `TempFiles_proofs!SourcesKept` | `SourceIsKept` | `Originals`: a job that cleans up has come to its body with the file |
| `TempFiles_proofs!OneSuccess` | `OneSftpSuccess` | `OnePast`, part of `Originals`: a job past the removal of its original finds none other past it, and no original |
| `WebSession_proofs!TypeCorrect` | `TypeOK` | with `RequestsAreWhole`: a request past its load has a key in use |
| `WebSession_proofs!Separate` | `SessionsAreSeparate` | ownership: a key, in a request, held or granted, is had by one client only (`OneOwner`), since only `get_session` brings a key to a client and draws it new; and what a request or a session says of a user was accepted with that key (`UsersGranted`, `SessionsGranted`) |
| `WebSession_proofs!SessionsFollow` | `SessionFollowsClient` | `Follows`: of a calm client with keys in one way at most one request is under way, and its session says who the client may be before that request's write or after it, seen from each place of the request; if the request drew a new key, the session of the old one is gone and nobody else can bring it back |
| `WebSession_proofs!AccountsSound` | `AccountsAreSound` | `Accounts`: of two creations under way one was asked for beside the other (`AllBeside`), so that a row whose name a creation is about to insert again came, after its check, from one beside it (`NamesBeside`); and where a row without a mail is (`AllOrphans`) |
| `ServiceLifecycle_proofs!TypeCorrect` | `TypeOK` | part of `IInv` |
| `ServiceLifecycle_proofs!DatabaseOutlivesWork` | `WorkHasItsDatabase` | `IInv`: a set-up opens in the order of its list (`Opening`), the database is held wherever something after it is (`Database`), and a steam process whose set-up failed closes before its poller begins, by the order of `ready` (`FailedSteam`) |
| `ServiceLifecycle_proofs!SuccessMeansReleased` | `SuccessReleasesAll` | `Releases`, part of `IInv`: a close holds no more than what its list still names, but for what keeps no connection |

Type invariants and the parts of `StopIsClean` aside, no property is inductive by itself,
hence the strengthenings; each property was run by TLC before it was proved.

Only model-checked: all liveness (`FairVk` and the other fairness conditions are out of the
prover's reach).

## 5. Not modelled, and why

- `VkBotService.close`: nothing reaches it, since `stop()` finds `stopping` set
  (`ServiceLifecycle` shows the stop that does nothing).
- Code without a caller: `asynctask.client.retry`, the pruning of the GigaChat history,
  the mails of registration and recovery. Disabled code: the posting of `VkClient`.
- Wrong queue items (`TypeError` in `_worker`) and malformed redis messages: the
  code never makes the first, and drops the second without a change of state.
- A schedule that fires without a client (`vk/sheduled.py:52`): the message is skipped, which
  changes nothing the properties see. A failing read of the schedules in a restart of them
  (`service.py:355`) is an action, but that the old tasks are gone then has no property.
- `drop_broken_status_sessions` changes nothing: `status_sessions.py:88` compares with the
  Python expression `is None`, so that it reads no row.
- Voice events, mentions and commands of the Discord bot: calls into discord.py with
  next to no state of their own. Whether `start_bot` waits for ever is up to Discord.
- The check of an administrator, `set_password`, the list of accounts, the request handlers that read or write one row, the
  activity pages and charts: single statements and formatting.
- Paging and conversion of VK events, the serializer of the RPC, the grammar of data URLs,
  SMTP, S3 and SFTP beyond their success or failure, models, schemas, migrations,
  templates, configuration, password hashing: input and output without an order of events.

What the models say of the code and no property contradicts, because nothing in the
repository promises otherwise: a task refused with "Access denied" ends without a row
(`service.py:152`); rows of polls pile up with each retry of a video for the memes chat
(`handlers.py:142`); an exception for one user ends the pass of the Steam poller for those
listed after him (`steam/service.py:140`); a steam or utils process whose set-up failed
idles in `run_forever`; a cancelled or unsent dump is removed or left as `TempFiles` names it;
`auto_remove` takes the original although the body raised (`files.py:128`); a worker whose RPC was
cancelled leaves its queue to nobody until the listener fails (`service.py:150`, the exception of
`vkbot_live`); a session finished a second time after the job dropped one, which
`TablesTellThePast` excuses (`db/activity_sessions.py:70`); a long session deleted with its end
because it was finished after the job had read it (`discord/scheduled.py:67`); a name shared by
two accounts, and an account whose password nobody has (`admin/users.py:35`, `43`); a close that
is cancelled or raises and leaves the database or redis open (`steam/service.py:165`,
`discord/service.py:190`).

## 6. Plan

1. Composition of `VkBotService` with `AsyncTask` in place of the toggle `RpcCancels`, and
   of `TaskQueue` with `MessageHandlers` in place of its own queue.
2. The commands of the Discord bot and its voice connection, as far as they keep state.
