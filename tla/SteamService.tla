---------------------------- MODULE SteamService ----------------------------
(***************************************************************************)
(* The poller of src/app/services/steam/service.py.  In passes over the    *)
(* configured users it asks Steam what each one plays and whether he is    *)
(* online, and keeps that in the database as sessions: rows that are open  *)
(* until they are given a finished_at.                                     *)
(*                                                                         *)
(* A pass works in one database session.  What it has changed is seen by   *)
(* its own queries and becomes durable with the commit at the end of each  *)
(* user; an exception, wherever it is raised, rolls back and ends the pass. *)
(* Only the number of open rows of each kind is kept.                      *)
(***************************************************************************)
EXTENDS Naturals, Sequences

CONSTANTS Users, Games, NoGame,
          Order         \* process_users: config.steam.user_ids, as it is listed

ASSUME OrderAssumption == Order \in Seq(Users)
ASSUME NoGameAssumption == NoGame \notin Games

Statuses == {"online", "offline"}

VARIABLES steam,      \* what Steam would answer: the game and the status of a user
          pc,         \* the await of the pass
          at,         \* index in Order of the user it is at
          mapped,     \* keys of users_db_map, read when the pass began
          seen,       \* Steam's answer for this user
          draft,      \* this user's open rows as the database session sees them
          users,      \* committed rows of steam_users
          playing,    \* playing[u][g]: committed open activity sessions
          being       \* being[u][s]: committed open status sessions

passVars == <<pc, at, mapped, seen, draft>>
dbVars   == <<users, playing, being>>
vars     == <<steam, passVars, dbVars>>

Answers == [game : Games \cup {NoGame}, status : Statuses]
NoGames == [g \in Games |-> 0]
NoStatus == [s \in Statuses |-> 0]

TypeOK ==
  /\ steam \in [Users -> Answers]
  /\ pc \in {"pass", "ask", "register", "activity", "status", "commit",
             "rest", "pause"}
  /\ at \in 1..Len(Order) + 1
  /\ mapped \subseteq Users
  /\ seen \in Answers
  /\ draft \in [playing : [Games -> Nat], being : [Statuses -> Nat]]
  /\ users \subseteq Users
  /\ playing \in [Users -> [Games -> Nat]]
  /\ being \in [Users -> [Statuses -> Nat]]

Init ==
  /\ steam \in [Users -> Answers]
  /\ pc = "pass"
  /\ at = 1
  /\ mapped = {}
  /\ seen = [game |-> NoGame, status |-> "offline"]
  /\ draft = [playing |-> NoGames, being |-> NoStatus]
  /\ users = {}
  /\ playing = [u \in Users |-> NoGames]
  /\ being = [u \in Users |-> NoStatus]

User == Order[at]

-----------------------------------------------------------------------------
(* A pass *)

\* A new database session, and the users known to it.
BeginPass ==
  /\ pc = "pass"
  /\ mapped' = users
  /\ at' = 1
  /\ pc' = IF Order = <<>> THEN "pause" ELSE "ask"
  /\ UNCHANGED <<steam, seen, draft, dbVars>>

\* Mutant: the first user ends the pass.
NoNextUser == /\ at' = at + 1
              /\ pc' = "pause"

\* The next user of the list, or the end of the pass.
NextUser == /\ at' = at + 1
            /\ pc' = IF at = Len(Order) THEN "pause" ELSE "ask"

\* Steam answers.  The open rows of the user, the only ones the session will
\* touch, are still as they were committed.
Answer ==
  /\ pc = "ask"
  /\ seen' = steam[User]
  /\ draft' = [playing |-> playing[User], being |-> being[User]]
  /\ pc' = IF User \in mapped THEN "activity" ELSE "register"
  /\ UNCHANGED <<steam, at, mapped, dbVars>>

\* Steam does not know the user, or the request failed: `continue`, with no rest.
NoAnswer ==
  /\ pc = "ask"
  /\ NextUser
  /\ UNCHANGED <<steam, mapped, seen, draft, dbVars>>

\* A row for a user users_db_map does not have, in a commit of its own.
\* steam_id is unique: a second row is refused.
Register ==
  /\ pc = "register"
  /\ IF User \in users
     THEN pc' = "pause" /\ UNCHANGED users
     ELSE pc' = "activity" /\ users' = users \cup {User}
  /\ UNCHANGED <<steam, at, mapped, seen, draft, playing, being>>

\* `result.first()` of the open rows, or None.
Current(rows, none) ==
  LET open == {x \in DOMAIN rows : rows[x] > 0}
  IN IF open = {} THEN {none} ELSE open

\* Mutants: nothing is finished; what is finished and started are exchanged.
StartOnly(rows, cur, new) ==
  [x \in DOMAIN rows |-> IF cur # new /\ x = new THEN rows[x] + 1 ELSE rows[x]]
Exchanged(rows, cur, new) ==
  [x \in DOMAIN rows |-> IF cur = new THEN rows[x]
                         ELSE IF x = new THEN rows[x] - 1
                         ELSE IF x = cur THEN rows[x] + 1
                         ELSE rows[x]]

\* Finish the session cur and start one of new, if they differ.
Switch(rows, cur, new) ==
  [x \in DOMAIN rows |-> IF cur = new THEN rows[x]
                         ELSE IF x = cur THEN rows[x] - 1
                         ELSE IF x = new THEN rows[x] + 1
                         ELSE rows[x]]

SetActivity ==
  /\ pc = "activity"
  /\ \E cur \in Current(draft.playing, NoGame) :
       draft' = [draft EXCEPT !.playing = Switch(@, cur, seen.game)]
  /\ pc' = "status"
  /\ UNCHANGED <<steam, at, mapped, seen, dbVars>>

SetStatus ==
  /\ pc = "status"
  /\ \E cur \in Current(draft.being, "none") :
       draft' = [draft EXCEPT !.being = Switch(@, cur, seen.status)]
  /\ pc' = "commit"
  /\ UNCHANGED <<steam, at, mapped, seen, dbVars>>

WriteDraft == /\ playing' = [playing EXCEPT ![User] = draft.playing]
              /\ being' = [being EXCEPT ![User] = draft.being]

Commit ==
  /\ pc = "commit"
  /\ WriteDraft
  /\ pc' = "rest"
  /\ UNCHANGED <<steam, at, mapped, seen, draft, users>>

Rest ==
  /\ pc = "rest"
  /\ NextUser
  /\ UNCHANGED <<steam, mapped, seen, draft, dbVars>>

EndPause ==
  /\ pc = "pause"
  /\ pc' = "pass"
  /\ UNCHANGED <<steam, at, mapped, seen, draft, dbVars>>

Progress == \/ BeginPass \/ Answer \/ Register \/ SetActivity \/ SetStatus
            \/ Commit \/ Rest \/ EndPause

-----------------------------------------------------------------------------
(* What goes wrong *)

\* Mutant: a database session that commits what it is left with.
EndsCommitted(where) ==
  /\ pc' = where
  /\ IF pc \in {"activity", "status", "commit"} THEN WriteDraft ELSE UNCHANGED <<playing, being>>
  /\ UNCHANGED <<steam, at, mapped, seen, draft, users>>

\* The pass is over: an exception of the database or of the name service, or the
\* process has died and is started again.  A commit that fails may have been
\* carried out.
Ends(where) ==
  /\ pc' = where
  /\ \/ UNCHANGED dbVars
     \/ pc = "register" /\ users' = users \cup {User} /\ UNCHANGED <<playing, being>>
     \/ pc = "commit" /\ WriteDraft /\ UNCHANGED users
  /\ UNCHANGED <<steam, at, mapped, seen, draft>>

PassFails == pc \in {"pass", "ask", "register", "activity", "status", "commit"}
             /\ Ends("pause")
\* A death in the pause is no different from its end.
Crash == pc # "pause" /\ Ends("pass")

\* The user does something.
SteamChanges ==
  /\ \E u \in Users, a \in Answers : steam' = [steam EXCEPT ![u] = a]
  /\ UNCHANGED <<passVars, dbVars>>

Next == Progress \/ NoAnswer \/ PassFails \/ Crash \/ SteamChanges

Spec == Init /\ [][Next]_vars

-----------------------------------------------------------------------------
(* Properties *)

\* The rows S are open for exactly the session x, once; for none if x is none.
Tells(rows, x) == \A y \in DOMAIN rows : rows[y] = IF y = x THEN 1 ELSE 0

\* A user has at most one open session of each kind, wherever a pass was cut off:
\* the next pass finishes the one it finds and leaves no other open for good.
OneOpenSession ==
  \A u \in Users :
    /\ \E a \in Games \cup {NoGame} : Tells(playing[u], a)
    /\ \E s \in Statuses \cup {"none"} : Tells(being[u], s)

\* The two tables always speak of one answer of Steam: whatever is written for a
\* user, or half written before a failure, is the answer of this visit.
OneAnswerWritten ==
  \A u \in Users :
    playing'[u] # playing[u] \/ being'[u] # being[u]
    => /\ u = User
       /\ Tells(playing'[u], seen.game)
       /\ Tells(being'[u], seen.status)

WritesOneAnswer == [][OneAnswerWritten]_vars
=============================================================================
