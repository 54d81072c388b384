------------------------ MODULE SteamService_proofs ------------------------
(***************************************************************************)
(* Proofs about SteamService, for any users, games and list of users.      *)
(***************************************************************************)
EXTENDS SteamService, TLAPS

Working == {"register", "activity", "status", "commit", "rest"}

\* At the awaits where a user is at hand, at is the index of one.
AtUser == pc \in Working \cup {"ask"} => at \in DOMAIN Order

\* How far the draft has come from what was committed to what was seen.
DraftFollows ==
  /\ pc \in {"register", "activity", "status"} =>
       \E s \in Statuses \cup {"none"} : Tells(draft.being, s)
  /\ pc \in {"register", "activity"} =>
       \E a \in Games \cup {NoGame} : Tells(draft.playing, a)
  /\ pc \in {"status", "commit"} => Tells(draft.playing, seen.game)
  /\ pc = "commit" => Tells(draft.being, seen.status)

IInv == TypeOK /\ AtUser /\ OneOpenSession /\ DraftFollows

LEMMA ListedUser ==
  ASSUME AtUser, pc \in Working \cup {"ask"}
  PROVE  /\ at \in 1..Len(Order) /\ Len(Order) \in Nat
         /\ User \in Users
  BY OrderAssumption DEF AtUser, User

\* Finishing the one open session and starting another leaves that one open; and
\* the number of open rows does not go below zero.
LEMMA SwitchTells ==
  ASSUME NEW S, NEW none, none \notin S,
         NEW rows \in [S -> Nat],
         NEW x \in S \cup {none}, Tells(rows, x),
         NEW cur \in Current(rows, none),
         NEW new \in S \cup {none}
  PROVE  /\ Switch(rows, cur, new) \in [S -> Nat]
         /\ Tells(Switch(rows, cur, new), new)
<1>1. DOMAIN rows = S
  OBVIOUS
<1>2. cur = x
  BY <1>1 DEF Current, Tells
<1>3. \A y \in S : rows[y] = IF y = cur THEN 1 ELSE 0
  BY <1>1, <1>2 DEF Tells
<1>4. Switch(rows, cur, new) = [y \in S |-> IF y = new THEN 1 ELSE 0]
  BY <1>1, <1>3 DEF Switch
<1>5. QED
  BY <1>4 DEF Tells

LEMMA InitInv == Init => IInv
<1> SUFFICES ASSUME Init
             PROVE  IInv
  OBVIOUS
<1>1. TypeOK
  BY OrderAssumption DEF Init, TypeOK, Answers, Statuses, NoGames, NoStatus
<1>2. Tells(NoGames, NoGame) /\ Tells(NoStatus, "none")
  BY NoGameAssumption DEF Tells, NoGames, NoStatus, Statuses
<1>3. QED
  BY <1>1, <1>2 DEF Init, IInv, AtUser, Working, OneOpenSession, DraftFollows

\* The draft, once it has followed the answer, replaces the open rows of its user.
LEMMA WriteDraftInv ==
  ASSUME IInv, pc = "commit", WriteDraft
  PROVE  /\ playing' \in [Users -> [Games -> Nat]]
         /\ being' \in [Users -> [Statuses -> Nat]]
         /\ OneOpenSession'
<1>1. /\ draft.playing \in [Games -> Nat] /\ draft.being \in [Statuses -> Nat]
      /\ seen.game \in Games \cup {NoGame} /\ seen.status \in Statuses
      /\ playing \in [Users -> [Games -> Nat]]
      /\ being \in [Users -> [Statuses -> Nat]]
  BY DEF IInv, TypeOK, Answers
<1>2. Tells(draft.playing, seen.game) /\ Tells(draft.being, seen.status)
  BY DEF IInv, DraftFollows
<1>3. /\ playing' = [playing EXCEPT ![User] = draft.playing]
      /\ being' = [being EXCEPT ![User] = draft.being]
  BY DEF WriteDraft
<1>4. ASSUME NEW u \in Users
      PROVE  /\ \E a \in Games \cup {NoGame} : Tells(playing'[u], a)
             /\ \E s \in Statuses \cup {"none"} : Tells(being'[u], s)
  <2>1. CASE u = User
    BY <1>1, <1>2, <1>3, <2>1
  <2>2. CASE u # User
    BY <1>1, <1>3, <2>2 DEF IInv, OneOpenSession
  <2>3. QED
    BY <2>1, <2>2
<1>5. QED
  BY <1>1, <1>3, <1>4 DEF OneOpenSession

LEMMA ProgressInv ==
  ASSUME IInv, Progress \/ NoAnswer
  PROVE  IInv'
<1> USE DEF IInv
<1>0. ASSUME UNCHANGED <<steam, dbVars>>
      PROVE  /\ steam' \in [Users -> Answers]
             /\ users' \subseteq Users
             /\ playing' \in [Users -> [Games -> Nat]]
             /\ being' \in [Users -> [Statuses -> Nat]]
             /\ OneOpenSession'
  BY <1>0 DEF TypeOK, dbVars, OneOpenSession
<1>1. CASE BeginPass
  <2>1. Order # <<>> => 1 \in DOMAIN Order
    BY OrderAssumption
  <2>2. 1 \in 1..Len(Order) + 1
    BY OrderAssumption
  <2>3. QED
    BY <1>0, <1>1, <2>1, <2>2 DEF BeginPass, TypeOK, AtUser, Working, DraftFollows
<1>2. ASSUME NextUser, pc \in {"ask", "rest"},
             UNCHANGED <<steam, mapped, seen, draft, dbVars>>
      PROVE  IInv'
  <2>1. at \in 1..Len(Order) /\ Len(Order) \in Nat
    BY <1>2, ListedUser DEF Working
  <2>2. /\ at + 1 \in 1..Len(Order) + 1
        /\ at # Len(Order) => at + 1 \in DOMAIN Order
    BY <2>1, OrderAssumption
  <2>3. QED
    BY <1>0, <1>2, <2>2 DEF NextUser, TypeOK, AtUser, Working, DraftFollows
<1>3. CASE NoAnswer \/ Rest
  BY <1>2, <1>3 DEF NoAnswer, Rest
<1>4. CASE Answer
  <2>1. User \in Users /\ at \in DOMAIN Order
    BY <1>4, ListedUser DEF Answer, Working, AtUser
  <2>2. /\ playing[User] \in [Games -> Nat]
        /\ being[User] \in [Statuses -> Nat]
        /\ steam[User] \in Answers
        /\ \E a \in Games \cup {NoGame} : Tells(playing[User], a)
        /\ \E s \in Statuses \cup {"none"} : Tells(being[User], s)
    BY <2>1 DEF TypeOK, OneOpenSession
  <2>3. DraftFollows'
    BY <1>4, <2>2 DEF Answer, DraftFollows
  <2>4. TypeOK'
    BY <1>0, <1>4, <2>2 DEF Answer, TypeOK
  <2>5. QED
    BY <1>0, <1>4, <2>1, <2>3, <2>4 DEF Answer, AtUser
<1>5. CASE Register
  <2>1. User \in Users /\ at \in DOMAIN Order
    BY <1>5, ListedUser DEF Register, Working, AtUser
  <2>2. QED
    BY <1>5, <2>1 DEF Register, TypeOK, AtUser, Working, OneOpenSession, DraftFollows
<1>6. CASE SetActivity
  <2>1. PICK cur \in Current(draft.playing, NoGame) :
          draft' = [draft EXCEPT !.playing = Switch(draft.playing, cur, seen.game)]
    BY <1>6 DEF SetActivity
  <2>2. /\ draft.playing \in [Games -> Nat] /\ seen.game \in Games \cup {NoGame}
        /\ \E a \in Games \cup {NoGame} : Tells(draft.playing, a)
    BY <1>6 DEF SetActivity, TypeOK, Answers, DraftFollows
  <2>3. /\ Switch(draft.playing, cur, seen.game) \in [Games -> Nat]
        /\ Tells(Switch(draft.playing, cur, seen.game), seen.game)
    BY <2>2, SwitchTells, NoGameAssumption
  <2>4. draft' \in [playing : [Games -> Nat], being : [Statuses -> Nat]]
        /\ draft'.being = draft.being /\ Tells(draft'.playing, seen.game)
    BY <2>1, <2>3 DEF TypeOK
  <2>5. QED
    BY <1>0, <1>6, <2>4 DEF SetActivity, TypeOK, AtUser, Working, DraftFollows
<1>7. CASE SetStatus
  <2>1. PICK cur \in Current(draft.being, "none") :
          draft' = [draft EXCEPT !.being = Switch(draft.being, cur, seen.status)]
    BY <1>7 DEF SetStatus
  <2>2. /\ draft.being \in [Statuses -> Nat] /\ seen.status \in Statuses
        /\ \E s \in Statuses \cup {"none"} : Tells(draft.being, s)
        /\ "none" \notin Statuses
    BY <1>7 DEF SetStatus, TypeOK, Answers, DraftFollows, Statuses
  <2>3. /\ Switch(draft.being, cur, seen.status) \in [Statuses -> Nat]
        /\ Tells(Switch(draft.being, cur, seen.status), seen.status)
    BY <2>2, SwitchTells
  <2>4. draft' \in [playing : [Games -> Nat], being : [Statuses -> Nat]]
        /\ draft'.playing = draft.playing /\ Tells(draft'.being, seen.status)
    BY <2>1, <2>3 DEF TypeOK
  <2>5. QED
    BY <1>0, <1>7, <2>4 DEF SetStatus, TypeOK, AtUser, Working, DraftFollows
<1>8. CASE Commit
  <2>1. /\ playing' \in [Users -> [Games -> Nat]]
        /\ being' \in [Users -> [Statuses -> Nat]]
        /\ OneOpenSession'
    BY <1>8, WriteDraftInv DEF Commit
  <2>2. QED
    BY <1>8, <2>1 DEF Commit, TypeOK, AtUser, Working, DraftFollows
<1>9. CASE EndPause
  BY <1>0, <1>9 DEF EndPause, TypeOK, AtUser, Working, DraftFollows
<1>10. QED
  BY <1>1, <1>3, <1>4, <1>5, <1>6, <1>7, <1>8, <1>9 DEF Progress

LEMMA FailureInv ==
  ASSUME IInv, NEW where \in {"pass", "pause"}, Ends(where)
  PROVE  IInv'
<1> USE DEF IInv
<1>1. /\ users' \subseteq Users
      /\ playing' \in [Users -> [Games -> Nat]]
      /\ being' \in [Users -> [Statuses -> Nat]]
      /\ OneOpenSession'
  <2>1. CASE UNCHANGED dbVars
    BY <2>1 DEF dbVars, TypeOK, OneOpenSession
  <2>2. CASE pc = "register" /\ users' = users \cup {User} /\ UNCHANGED <<playing, being>>
    <3>1. User \in Users
      BY <2>2, ListedUser DEF Working
    <3>2. QED
      BY <2>2, <3>1 DEF TypeOK, OneOpenSession
  <2>3. CASE pc = "commit" /\ WriteDraft /\ UNCHANGED users
    BY <2>3, WriteDraftInv DEF TypeOK
  <2>4. QED
    BY <2>1, <2>2, <2>3 DEF Ends
<1>2. QED
  BY <1>1 DEF Ends, TypeOK, AtUser, Working, DraftFollows

LEMMA NextInv ==
  ASSUME IInv, [Next]_vars
  PROVE  IInv'
<1>1. CASE SteamChanges
  BY <1>1 DEF SteamChanges, passVars, dbVars, IInv, TypeOK, AtUser, OneOpenSession,
              DraftFollows
<1>2. CASE UNCHANGED vars
  BY <1>2 DEF vars, passVars, dbVars, IInv, TypeOK, AtUser, OneOpenSession,
              DraftFollows
<1>3. QED
  BY <1>1, <1>2, ProgressInv, FailureInv DEF Next, PassFails, Crash

LEMMA Invariant == Spec => []IInv
  BY InitInv, NextInv, PTL DEF Spec

\* The values stay in their types; a count of open rows, from which a finished
\* session is taken, does not go below zero.
THEOREM TypeCorrect == Spec => []TypeOK
  BY Invariant, PTL DEF IInv

\* Wherever a pass is cut off, a user is left with at most one open session of
\* each kind.
THEOREM SessionsAreSingle == Spec => []OneOpenSession
  BY Invariant, PTL DEF IInv

\* What is written for a user, in a commit or in one that seemed to fail, is one
\* answer of Steam, in both tables.
THEOREM AnswersAreWhole == Spec => WritesOneAnswer
<1>1. ASSUME IInv, Next
      PROVE  OneAnswerWritten
  <2>1. \/ playing' = playing /\ being' = being
        \/ pc = "commit" /\ WriteDraft
    <3>1. CASE Progress
      BY <3>1 DEF Progress, BeginPass, Answer, Register, SetActivity, SetStatus,
                  Commit, Rest, EndPause, dbVars
    <3>2. CASE NoAnswer \/ SteamChanges
      BY <3>2 DEF NoAnswer, SteamChanges, dbVars
    <3>3. CASE PassFails \/ Crash
      BY <3>3 DEF PassFails, Crash, Ends, dbVars
    <3>4. QED
      BY <1>1, <3>1, <3>2, <3>3 DEF Next
  <2>2. CASE pc = "commit" /\ WriteDraft
    <3>1. /\ Tells(draft.playing, seen.game) /\ Tells(draft.being, seen.status)
          /\ playing \in [Users -> [Games -> Nat]]
          /\ being \in [Users -> [Statuses -> Nat]]
      BY <1>1, <2>2 DEF IInv, TypeOK, DraftFollows
    <3>2. QED
      BY <2>2, <3>1 DEF WriteDraft, OneAnswerWritten
  <2>3. QED
    BY <2>1, <2>2 DEF OneAnswerWritten
<1>2. IInv /\ [Next]_vars => [OneAnswerWritten]_vars
  BY <1>1
<1>3. QED
  BY <1>2, Invariant, PTL DEF Spec, WritesOneAnswer
=============================================================================
