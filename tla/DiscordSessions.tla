-------------------------- MODULE DiscordSessions --------------------------
(***************************************************************************)
(* What src/app/services/discord/events.py and scheduled.py keep about the *)
(* members of a server: a row for every time a game was played and a row   *)
(* for every time a status was held, open until it is given a finished_at. *)
(*                                                                         *)
(* discord.py runs the handler of each presence event as a task of its own *)
(* and raises one event per server the member shares with the bot.  It     *)
(* passes a copy of the member as before and the live member as after, so  *)
(* that after is what the member is when it is looked at.  A nightly job   *)
(* deletes games that have been open for 48 hours.                         *)
(*                                                                         *)
(* Times are counted in changes of the member: past[u][k] is what u was    *)
(* after k - 1 changes, and k is the time of the rows written then.        *)
(***************************************************************************)
EXTENDS Naturals, Sequences, FiniteSetsExt

CONSTANTS Users, Games, Statuses,
          Excluded,     \* exclude_activities of the dynamic config
          Handlers,     \* handlers of events at work at once
          Copies,       \* most servers a member shares with the bot at a time
          Calm,         \* BOOLEAN: a member changes after his events were handled
          Faults,       \* BOOLEAN: the database fails, the process dies
          MaxChanges    \* bound on the changes of a member

ASSUME CopiesAssumption == Copies \in Nat \ {0} /\ IsFiniteSet(Handlers)

VARIABLES past,     \* what each member was, the first as the bot found him
          run,      \* the handlers
          acts,     \* acts[u][g]: activity sessions, in the order of started_at
          stats,    \* stats[u][s]: status sessions, in the same order
          drop      \* ids of activity sessions the nightly job is deleting

vars == <<past, run, acts, stats, drop>>

Presences == [games : SUBSET Games, status : Statuses]

\* A row that is being inserted has its place by started_at and is not seen yet;
\* a row that is "gone" was deleted or never committed.
Rows == [state : {"pending", "open", "done", "gone"},
         from : Nat, to : Nat, old : BOOLEAN]
NewRow(time) == [state |-> "pending", from |-> time, to |-> 0, old |-> FALSE]

\* The coroutine of one event: left and ended are what remains of the two loops,
\* row and at the session it is writing and its finished_at.
Coroutines ==
  [pc : {"config", "start", "find", "finish", "leave", "select", "update", "create"},
   user : Users, before : Presences, left : SUBSET Games, ended : SUBSET Games,
   game : Games \cup {"none"}, status : Statuses \cup {"none"}, row : Nat, at : Nat]
Idle == [pc |-> "idle"]

TypeOK ==
  /\ past \in [Users -> Seq(Presences)]
  /\ run \in [Handlers -> Coroutines \cup {Idle}]
  /\ acts \in [Users -> [Games -> Seq(Rows)]]
  /\ stats \in [Users -> [Statuses -> Seq(Rows)]]
  /\ drop \subseteq Users \X Games \X Nat
  /\ \A h \in Handlers :
       /\ run[h].pc \in {"start", "finish"} =>
            run[h].row \in DOMAIN acts[run[h].user][run[h].game]
       /\ run[h].pc = "update" =>
            run[h].row \in DOMAIN stats[run[h].user][run[h].before.status]
       /\ run[h].pc = "create" =>
            run[h].row \in DOMAIN stats[run[h].user][run[h].status]
       /\ run[h].pc \in {"start", "find", "finish"} => run[h].game \in Games
       /\ run[h].pc \in {"select", "update", "create"} => run[h].status \in Statuses

Init ==
  /\ past \in [Users -> {<<p>> : p \in Presences}]
  /\ run = [h \in Handlers |-> Idle]
  /\ acts = [u \in Users |-> [g \in Games |-> <<>>]]
  /\ stats = [u \in Users |-> [s \in Statuses |-> <<>>]]
  /\ drop = {}

Time(u) == Len(past[u])
Now(u) == past[u][Time(u)]

Busy(u) == \E h \in Handlers : run[h] # Idle /\ run[h].user = u

-----------------------------------------------------------------------------
(* Statements *)

\* A select sees what is committed and not deleted.
Visible(rows) == {i \in DOMAIN rows : rows[i].state \in {"open", "done"}}

\* Mutant: ascending order.
OldestRow(rows) == {i \in Visible(rows) : \A j \in Visible(rows) : i <= j}

\* get_first_unfinished: the row started last, if there is one.  It does not look at
\* finished_at.
NewestRow(rows) == {i \in Visible(rows) : \A j \in Visible(rows) : j <= i}

\* create, up to its commit and after it.
Inserting(table, u, x) == [table EXCEPT ![u][x] = Append(@, NewRow(Time(u)))]
Inserted(table, u, x, i) == [table EXCEPT ![u][x][i].state = "open"]

\* update ... set finished_at where id: of a row that is still there.
Finished(table, u, x, i, time) ==
  IF table[u][x][i].state = "gone" THEN table
  ELSE [table EXCEPT ![u][x][i].state = "done", ![u][x][i].to = time]

Deleted(table, u, x, i) == [table EXCEPT ![u][x][i].state = "gone"]

-----------------------------------------------------------------------------
(* An event *)

\* A member starts or stops games or changes his status, and the events of it, one
\* per shared server, are handed to coroutines.
PresenceChanges ==
  \E u \in Users, p \in Presences :
    /\ p # Now(u)
    /\ Time(u) <= MaxChanges
    /\ Calm => ~Busy(u)
    /\ past' = [past EXCEPT ![u] = Append(@, p)]
    /\ \E H \in UNION {kSubset(n, {h \in Handlers : run[h] = Idle}) :
                        n \in 1..Copies} :
         run' = [h \in Handlers |->
                  IF h \notin H THEN run[h]
                  ELSE [pc |-> "config", user |-> u, before |-> Now(u),
                        left |-> {}, ended |-> {}, game |-> "none",
                        status |-> "none", row |-> 0, at |-> 0]]
    /\ UNCHANGED <<acts, stats, drop>>

\* The loops over the started and then the finished games: c is the coroutine h
\* and table the activity sessions, with what the last await has brought about.
GoOn(h, c, table) ==
  \/ \E g \in c.left :
       /\ acts' = Inserting(table, c.user, g)
       /\ run' = [run EXCEPT ![h] = [c EXCEPT !.pc = "start", !.game = g,
                                              !.left = @ \ {g},
                                              !.row = Len(table[c.user][g]) + 1]]
  \/ c.left = {} /\ \E g \in c.ended :
       /\ acts' = table
       /\ run' = [run EXCEPT ![h] = [c EXCEPT !.pc = "find", !.game = g,
                                              !.ended = @ \ {g}, !.row = 0]]
  \/ /\ c.left = {} /\ c.ended = {}
     /\ acts' = table
     /\ run' = [run EXCEPT ![h] = [c EXCEPT !.pc = "leave", !.game = "none",
                                            !.row = 0, !.at = 0]]

\* Mutant: games the member goes on playing are started again.
StartedAll(before, after) == after.games \ Excluded

Started(before, after) == (after.games \ before.games) \ Excluded
Ended(before, after) == before.games \ after.games

\* dynamic_config_db.get has answered: _get_activities_state.
ReadConfig(h) ==
  /\ run[h].pc = "config"
  /\ GoOn(h, [run[h] EXCEPT !.left = Started(run[h].before, Now(run[h].user)),
                            !.ended = Ended(run[h].before, Now(run[h].user))],
          acts)
  /\ UNCHANGED <<past, stats, drop>>

\* The session of a started game is committed.
StartCommits(h) ==
  /\ run[h].pc = "start"
  /\ GoOn(h, run[h], Inserted(acts, run[h].user, run[h].game, run[h].row))
  /\ UNCHANGED <<past, stats, drop>>

\* get_first_unfinished has answered for a finished game.
FindGame(h) ==
  LET c == run[h]  found == NewestRow(acts[c.user][c.game])
  IN /\ c.pc = "find"
     /\ \/ found = {} /\ GoOn(h, c, acts)
        \/ /\ \E i \in found :
                run' = [run EXCEPT ![h] = [c EXCEPT !.pc = "finish", !.row = i,
                                                   !.at = Time(c.user)]]
           /\ UNCHANGED acts
     /\ UNCHANGED <<past, stats, drop>>

FinishCommits(h) ==
  LET c == run[h]
  IN /\ c.pc = "finish"
     /\ GoOn(h, c, Finished(acts, c.user, c.game, c.row, c.at))
     /\ UNCHANGED <<past, stats, drop>>

\* The database session is closed: _handle_status_update.
Leave(h) ==
  LET c == run[h]
  IN /\ c.pc = "leave"
     /\ run' = [run EXCEPT ![h] =
                 IF c.before.status = Now(c.user).status THEN Idle
                 ELSE [c EXCEPT !.pc = "select", !.status = Now(c.user).status]]
     /\ UNCHANGED <<past, acts, stats, drop>>

\* create of the new status, over the sessions of table.
BeginStatus(h, c, table) ==
  /\ stats' = Inserting(table, c.user, c.status)
  /\ run' = [run EXCEPT ![h] = [c EXCEPT !.pc = "create", !.at = 0,
                                         !.row = Len(table[c.user][c.status]) + 1]]

\* get_first_unfinished has answered for the status the member had.
SelectStatus(h) ==
  LET c == run[h]  found == NewestRow(stats[c.user][c.before.status])
  IN /\ c.pc = "select"
     /\ \/ found = {} /\ BeginStatus(h, c, stats)
        \/ /\ \E i \in found :
                run' = [run EXCEPT ![h] = [c EXCEPT !.pc = "update", !.row = i,
                                                   !.at = Time(c.user)]]
           /\ UNCHANGED stats
     /\ UNCHANGED <<past, acts, drop>>

UpdateCommits(h) ==
  LET c == run[h]
  IN /\ c.pc = "update"
     /\ BeginStatus(h, c, Finished(stats, c.user, c.before.status, c.row, c.at))
     /\ UNCHANGED <<past, acts, drop>>

CreateCommits(h) ==
  LET c == run[h]
  IN /\ c.pc = "create"
     /\ stats' = Inserted(stats, c.user, c.status, c.row)
     /\ run' = [run EXCEPT ![h] = Idle]
     /\ UNCHANGED <<past, acts, drop>>

Handle(h) == \/ ReadConfig(h) \/ StartCommits(h) \/ FindGame(h) \/ FinishCommits(h)
             \/ Leave(h) \/ SelectStatus(h) \/ UpdateCommits(h) \/ CreateCommits(h)

-----------------------------------------------------------------------------
(* drop_broken_activities.  drop_broken_status_sessions asks for the rows for *)
(* which the Python expression `finished_at is None` holds: for none.         *)

\* A game has been open for timeout_hours.
Ages ==
  /\ \E u \in Users, g \in Games : \E i \in DOMAIN acts[u][g] :
       /\ acts[u][g][i].state = "open" /\ ~acts[u][g][i].old
       /\ acts' = [acts EXCEPT ![u][g][i].old = TRUE]
  /\ UNCHANGED <<past, run, stats, drop>>

\* Mutants: every unfinished session; the condition of the other job.
AnyOpen(row) == row.state = "open"
NeverBroken(row) == FALSE

Broken(row) == row.state = "open" /\ row.old

\* get_list has answered, in the night.
JobReads ==
  /\ drop = {}
  /\ drop' = {x \in UNION {{u} \X {g} \X DOMAIN acts[u][g] :
                              u \in Users, g \in Games} :
                Broken(acts[x[1]][x[2]][x[3]])}
  /\ UNCHANGED <<past, run, acts, stats>>

\* One of them is deleted.
JobDeletes ==
  /\ \E x \in drop : /\ acts' = Deleted(acts, x[1], x[2], x[3])
                     /\ drop' = drop \ {x}
  /\ UNCHANGED <<past, run, stats>>

-----------------------------------------------------------------------------
(* What goes wrong *)

\* What a statement leaves behind whose coroutine c has come to nothing: what was
\* being committed may have been.
Cut(c) ==
  \/ UNCHANGED <<acts, stats>> /\ c.pc \notin {"start", "create"}
  \/ /\ c.pc = "start" /\ UNCHANGED stats
     /\ \/ acts' = Inserted(acts, c.user, c.game, c.row)
        \/ acts' = Deleted(acts, c.user, c.game, c.row)
  \/ /\ c.pc = "create" /\ UNCHANGED acts
     /\ \/ stats' = Inserted(stats, c.user, c.status, c.row)
        \/ stats' = Deleted(stats, c.user, c.status, c.row)
  \/ /\ c.pc = "finish" /\ UNCHANGED stats
     /\ acts' = Finished(acts, c.user, c.game, c.row, c.at)
  \/ /\ c.pc = "update" /\ UNCHANGED acts
     /\ stats' = Finished(stats, c.user, c.before.status, c.row, c.at)

\* The database fails under a handler: the rest of the event is skipped.
HandlerFails ==
  /\ Faults
  /\ \E h \in Handlers : /\ run[h] # Idle
                         /\ Cut(run[h])
                         /\ run' = [run EXCEPT ![h] = Idle]
  /\ UNCHANGED <<past, drop>>

\* It fails under the job: the rest waits for the next night.
JobFails ==
  /\ Faults
  /\ drop # {}
  /\ drop' = {}
  /\ UNCHANGED <<past, run, acts, stats>>

\* The bot is away for a while, with no event at work, and a member changes.
ChangeUnseen ==
  /\ Faults
  /\ \A h \in Handlers : run[h] = Idle
  /\ \E u \in Users, p \in Presences :
       /\ p # Now(u)
       /\ Time(u) <= MaxChanges
       /\ past' = [past EXCEPT ![u] = Append(@, p)]
  /\ drop' = {}
  /\ UNCHANGED <<run, acts, stats>>

Fault == HandlerFails \/ JobFails \/ ChangeUnseen

Next == \/ PresenceChanges \/ Ages \/ JobReads \/ JobDeletes \/ Fault
        \/ \E h \in Handlers : Handle(h)

Spec == Init /\ [][Next]_vars

-----------------------------------------------------------------------------
(* Properties *)

\* The times at which u was playing g, or had the status s.
Playing(u, g) == {k \in DOMAIN past[u] : g \in past[u][k].games}
Having(u, s) == {k \in DOMAIN past[u] : past[u][k].status = s}

\* The times at which a period of K begins, not counting one the bot came into.
Begins(K) == {k \in K : k > 1 /\ k - 1 \notin K}

\* When the period that began at b has ended, or 0.
EndOf(b, K, n) == IF b..n \subseteq K THEN 0 ELSE Min((b..n) \ K)

\* One row for each period of K, in their order, and only the last may be open, if it
\* has not ended.
RowsOf(rows, K, n) ==
  /\ {rows[i].from : i \in DOMAIN rows} = Begins(K)
  /\ \A i, j \in DOMAIN rows : i < j => rows[i].from < rows[j].from
  /\ \A i \in DOMAIN rows :
       \/ rows[i].state = "gone"
       \/ rows[i].state = IF EndOf(rows[i].from, K, n) = 0 THEN "open" ELSE "done"

\* While a member shares one server with the bot and changes no faster than his events
\* are handled, the tables are the history of what he played and was: a session for
\* each period the bot saw begin, open as long as the period lasts.  Games may be
\* dropped by the job; no status is.
SessionsAreHistory ==
  \A u \in Users : ~Busy(u) =>
    /\ \A g \in Games \ Excluded : RowsOf(acts[u][g], Playing(u, g), Time(u))
    /\ \A g \in Games \cap Excluded : acts[u][g] = <<>>
    /\ \A s \in Statuses : RowsOf(stats[u][s], Having(u, s), Time(u))
                           /\ \A i \in DOMAIN stats[u][s] : stats[u][s][i].state # "gone"

\* A session that is finished ended when its own period did.  Since finished rows are
\* looked up too, this is so only as long as no session of that game was dropped.
EndsAreTrue ==
  \A u \in Users :
    /\ \A g \in Games : \A i \in DOMAIN acts[u][g] :
         acts[u][g][i].state = "done" =>
           \/ acts[u][g][i].to = EndOf(acts[u][g][i].from, Playing(u, g), Time(u))
           \/ \E j \in DOMAIN acts[u][g] : j > i /\ acts[u][g][j].state = "gone"
    /\ \A s \in Statuses : \A i \in DOMAIN stats[u][s] :
         stats[u][s][i].state = "done" =>
           stats[u][s][i].to = EndOf(stats[u][s][i].from, Having(u, s), Time(u))

\* What the statistics read is what happened.
TablesTellThePast == SessionsAreHistory /\ EndsAreTrue

\* The job takes no session that was finished within its hours, though it deletes
\* long after it has looked.
ShortSessionsAreKept ==
  [][\A u \in Users, g \in Games : \A i \in DOMAIN acts[u][g] :
       acts[u][g][i].state \in {"open", "done"} /\ acts'[u][g][i].state = "gone"
       => acts[u][g][i].old]_vars
=============================================================================
