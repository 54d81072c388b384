---------------------- MODULE DiscordSessions_proofs ----------------------
(***************************************************************************)
(* Proofs about DiscordSessions, for any members, games and handlers, with *)
(* events that race each other and failures; and, for members who change   *)
(* only when their events were handled, that the tables are their history. *)
(***************************************************************************)
EXTENDS DiscordSessions, SequenceTheorems, FiniteSetTheorems, WellFoundedInduction, TLAPS

Table(K) == [Users -> [K -> Seq(Rows)]]

\* What a coroutine c relies on of the activity sessions T.
HoldsRow(c, T) ==
  /\ c.pc \in {"start", "finish"} => c.row \in DOMAIN T[c.user][c.game]
  /\ c.pc = "start" => T[c.user][c.game][c.row].state = "pending"
  /\ c.pc = "finish" => T[c.user][c.game][c.row].state # "pending"

\* And of the status sessions S.
HoldsStatus(c, S) ==
  /\ c.pc = "update" => c.row \in DOMAIN S[c.user][c.before.status]
  /\ c.pc = "create" => c.row \in DOMAIN S[c.user][c.status]

Formed(c) ==
  \/ c = Idle
  \/ /\ c \in Coroutines
     /\ c.pc \in {"start", "find", "finish"} => c.game \in Games
     /\ c.pc \in {"select", "update", "create"} => c.status \in Statuses

\* Two coroutines never insert the same row.
Apart(c, d) ==
  c.pc = "start" /\ d.pc = "start" /\ c.user = d.user /\ c.game = d.game
  => c.row # d.row

\* The ids in D are those of sessions that were open for their hours.
AreOld(D, T) ==
  \A x \in D : /\ x[1] \in Users /\ x[2] \in Games
               /\ x[3] \in DOMAIN T[x[1]][x[2]]
               /\ T[x[1]][x[2]][x[3]].old
               /\ T[x[1]][x[2]][x[3]].state # "pending"

Base ==
  /\ past \in [Users -> Seq(Presences) \ {<<>>}]
  /\ run \in [Handlers -> Coroutines \cup {Idle}]
  /\ acts \in Table(Games)
  /\ stats \in Table(Statuses)
  /\ drop \subseteq Users \X Games \X Nat

Held ==
  /\ \A h \in Handlers : Formed(run[h]) /\ HoldsRow(run[h], acts)
                         /\ HoldsStatus(run[h], stats)
  /\ \A h, k \in Handlers : h # k => Apart(run[h], run[k])

IInv == Base /\ Held /\ AreOld(drop, acts)

-----------------------------------------------------------------------------
(* Statements *)

LEMMA RowFacts ==
  /\ \A t \in Nat : NewRow(t) \in Rows /\ NewRow(t).state = "pending"
  /\ \A r \in Rows : /\ [r EXCEPT !.state = "open"] \in Rows
                     /\ [r EXCEPT !.state = "gone"] \in Rows
                     /\ [r EXCEPT !.old = TRUE] \in Rows
                     /\ \A t \in Nat : [r EXCEPT !.state = "done", !.to = t] \in Rows
  BY DEF NewRow, Rows

\* S is the table T with r in place of one row.
Put(T, u, x, i, r) == [T EXCEPT ![u][x][i] = r]
Replaces(K, T, S, u, x, i, r) ==
  /\ S \in Table(K)
  /\ \A v \in Users, y \in K : DOMAIN S[v][y] = DOMAIN T[v][y]
  /\ S[u][x][i] = r
  /\ \A v \in Users, y \in K : \A j \in DOMAIN T[v][y] :
       <<v, y, j>> # <<u, x, i>> => S[v][y][j] = T[v][y][j]

LEMMA ReplaceRow ==
  ASSUME NEW K, NEW T \in Table(K), NEW u \in Users, NEW x \in K,
         NEW i \in DOMAIN T[u][x], NEW r \in Rows
  PROVE  Replaces(K, T, Put(T, u, x, i, r), u, x, i, r)
<1> DEFINE s == [T[u][x] EXCEPT ![i] = r]
           S == Put(T, u, x, i, r)
<1>1. T[u][x] \in Seq(Rows) /\ s \in Seq(Rows) /\ DOMAIN s = DOMAIN T[u][x]
  <2>1. T[u][x] \in Seq(Rows)
    BY DEF Table
  <2>2. Len(T[u][x]) \in Nat /\ DOMAIN T[u][x] = 1..Len(T[u][x])
    BY <2>1
  <2>3. QED
    BY <2>1, <2>2, ExceptSeq
<1>2. S = [T EXCEPT ![u] = [T[u] EXCEPT ![x] = s]]
  BY DEF Put
<1>3. S[u][x] = s
  BY <1>2 DEF Table
<1>4. \A v \in Users, y \in K : <<v, y>> # <<u, x>> => S[v][y] = T[v][y]
  BY <1>2 DEF Table
<1>5. S \in Table(K)
  BY <1>1, <1>2 DEF Table
<1>6. s[i] = r /\ \A j \in DOMAIN T[u][x] : j # i => s[j] = T[u][x][j]
  BY <1>1
<1>7. QED
  BY <1>1, <1>3, <1>4, <1>5, <1>6 DEF Replaces

\* Rows are as they were, though there may be more of them.
Extends(K, T, S) ==
  \A v \in Users, y \in K : \A j \in DOMAIN T[v][y] :
    j \in DOMAIN S[v][y] /\ S[v][y][j] = T[v][y][j]

\* A row is inserted.
LEMMA InsertRow ==
  ASSUME NEW K, NEW T \in Table(K), NEW u \in Users, NEW x \in K,
         Time(u) \in Nat
  PROVE  LET S == Inserting(T, u, x)
             n == Len(T[u][x]) + 1
         IN /\ S \in Table(K)
            /\ n \in Nat /\ n \in DOMAIN S[u][x] /\ n \notin DOMAIN T[u][x]
            /\ S[u][x][n].state = "pending"
            /\ Extends(K, T, S)
<1> DEFINE s == Append(T[u][x], NewRow(Time(u)))
           S == Inserting(T, u, x)
<1>1. T[u][x] \in Seq(Rows) /\ NewRow(Time(u)) \in Rows
  BY RowFacts DEF Table
<1>2. s \in Seq(Rows) /\ Len(s) = Len(T[u][x]) + 1 /\ Len(T[u][x]) \in Nat
      /\ s[Len(T[u][x]) + 1] = NewRow(Time(u))
      /\ \A j \in 1..Len(T[u][x]) : s[j] = T[u][x][j]
  BY <1>1, AppendProperties
<1>3. DOMAIN s = 1..(Len(T[u][x]) + 1) /\ DOMAIN T[u][x] = 1..Len(T[u][x])
  BY <1>1, <1>2
<1>4. S = [T EXCEPT ![u] = [T[u] EXCEPT ![x] = s]]
  BY DEF Inserting
<1>5. S[u][x] = s /\ \A v \in Users, y \in K : <<v, y>> # <<u, x>> => S[v][y] = T[v][y]
  BY <1>4 DEF Table
<1>6. S \in Table(K)
  BY <1>2, <1>4 DEF Table
<1>7. NewRow(Time(u)).state = "pending"
  BY DEF NewRow
<1>8. \A v \in Users, y \in K : \A j \in DOMAIN T[v][y] :
         j \in DOMAIN S[v][y] /\ S[v][y][j] = T[v][y][j]
  <2>1. SUFFICES ASSUME NEW v \in Users, NEW y \in K, NEW j \in DOMAIN T[v][y]
                 PROVE  j \in DOMAIN S[v][y] /\ S[v][y][j] = T[v][y][j]
    OBVIOUS
  <2>2. CASE v = u /\ y = x
    <3>1. j \in 1..Len(T[u][x]) /\ j \in DOMAIN s /\ s[j] = T[u][x][j]
      BY <1>2, <1>3, <2>2
    <3>2. QED
      BY <1>5, <2>2, <3>1
  <2>3. CASE ~(v = u /\ y = x)
    BY <1>5, <2>3
  <2>4. QED
    BY <2>2, <2>3
<1>9. LET n == Len(T[u][x]) + 1
      IN /\ n \in Nat /\ n \in DOMAIN S[u][x] /\ n \notin DOMAIN T[u][x]
         /\ S[u][x][n].state = "pending"
  <2>1. Len(T[u][x]) + 1 \in 1..(Len(T[u][x]) + 1) /\ Len(T[u][x]) + 1 \notin 1..Len(T[u][x])
    BY <1>2
  <2>2. QED
    BY <1>2, <1>3, <1>5, <1>7, <2>1
<1>10. Extends(K, T, S)
  BY <1>8 DEF Extends
<1>11. QED
  BY <1>6, <1>9, <1>10

\* From table T to table S rows stay where they are and forget nothing; only those of X
\* may have been pending and be so no more.
Follows(K, T, S, X) ==
  \A v \in Users, y \in K : \A j \in DOMAIN T[v][y] :
    /\ j \in DOMAIN S[v][y]
    /\ T[v][y][j].old => S[v][y][j].old
    /\ T[v][y][j].state # "pending" => S[v][y][j].state # "pending"
    /\ T[v][y][j].state = "pending" /\ <<v, y, j>> \notin X
         => S[v][y][j].state = "pending"

\* No session that is open or finished is taken away before its hours.
Spares(T, S) ==
  \A v \in Users, y \in Games : \A j \in DOMAIN T[v][y] :
    T[v][y][j].state \in {"open", "done"} /\ S[v][y][j].state = "gone" => T[v][y][j].old

LEMMA ExtendsFollows ==
  ASSUME NEW K, NEW T, NEW S, Extends(K, T, S)
  PROVE  Follows(K, T, S, {})
  BY DEF Extends, Follows

LEMMA InsertedFollows ==
  ASSUME NEW K, NEW T \in Table(K), NEW u \in Users, NEW x \in K,
         NEW i \in DOMAIN T[u][x]
  PROVE  LET S == Inserted(T, u, x, i)
         IN /\ S \in Table(K) /\ Follows(K, T, S, {<<u, x, i>>})
            /\ K = Games => Spares(T, S)
<1> DEFINE r == [T[u][x][i] EXCEPT !.state = "open"]
           S == Put(T, u, x, i, r)
<1>1. T[u][x][i] \in Rows
  BY DEF Table
<1>2. r \in Rows /\ r.state = "open" /\ r.old = T[u][x][i].old
  BY <1>1 DEF Rows
<1>3. Inserted(T, u, x, i) = S
  BY DEF Inserted, Put
<1> HIDE DEF r
<1>4. Replaces(K, T, S, u, x, i, r)
  BY <1>2, ReplaceRow
<1> HIDE DEF S
<1>5. Follows(K, T, S, {<<u, x, i>>})
  BY <1>2, <1>4 DEF Follows, Replaces
<1>6. K = Games => Spares(T, S)
  BY <1>2, <1>4 DEF Spares, Replaces
<1>7. QED
  BY <1>3, <1>4, <1>5, <1>6 DEF Replaces

LEMMA FinishedFollows ==
  ASSUME NEW K, NEW T \in Table(K), NEW u \in Users, NEW x \in K,
         NEW i \in DOMAIN T[u][x], NEW t \in Nat
  PROVE  LET S == Finished(T, u, x, i, t)
         IN /\ S \in Table(K) /\ Follows(K, T, S, {<<u, x, i>>})
            /\ T[u][x][i].state # "pending" => Follows(K, T, S, {})
            /\ K = Games => Spares(T, S)
<1> DEFINE r == [T[u][x][i] EXCEPT !.state = "done", !.to = t]
           S == Put(T, u, x, i, r)
<1>1. T[u][x][i] \in Rows
  BY DEF Table
<1>2. r \in Rows /\ r.state = "done" /\ r.old = T[u][x][i].old
  BY <1>1 DEF Rows
<1>3. CASE T[u][x][i].state = "gone"
  BY <1>3 DEF Finished, Follows, Spares
<1>4. CASE T[u][x][i].state # "gone"
  <2>1. Finished(T, u, x, i, t) = S
    BY <1>4 DEF Finished, Table, Put
  <2> HIDE DEF r
  <2>2. Replaces(K, T, S, u, x, i, r)
    BY <1>2, ReplaceRow
  <2> HIDE DEF S
  <2>3. Follows(K, T, S, {<<u, x, i>>})
        /\ (T[u][x][i].state # "pending" => Follows(K, T, S, {}))
    BY <1>2, <2>2 DEF Follows, Replaces
  <2>4. K = Games => Spares(T, S)
    BY <1>2, <2>2 DEF Spares, Replaces
  <2>5. QED
    BY <2>1, <2>2, <2>3, <2>4 DEF Replaces
<1>5. QED
  BY <1>3, <1>4

LEMMA DeletedFollows ==
  ASSUME NEW K, NEW T \in Table(K), NEW u \in Users, NEW x \in K,
         NEW i \in DOMAIN T[u][x]
  PROVE  LET S == Deleted(T, u, x, i)
         IN /\ S \in Table(K) /\ Follows(K, T, S, {<<u, x, i>>})
            /\ T[u][x][i].state # "pending" => Follows(K, T, S, {})
            /\ K = Games /\ (T[u][x][i].state = "pending" \/ T[u][x][i].old)
                 => Spares(T, S)
<1> DEFINE r == [T[u][x][i] EXCEPT !.state = "gone"]
           S == Put(T, u, x, i, r)
<1>1. T[u][x][i] \in Rows
  BY DEF Table
<1>2. r \in Rows /\ r.state = "gone" /\ r.old = T[u][x][i].old
  BY <1>1 DEF Rows
<1>3. Deleted(T, u, x, i) = S
  BY DEF Deleted, Put
<1> HIDE DEF r
<1>4. Replaces(K, T, S, u, x, i, r)
  BY <1>2, ReplaceRow
<1> HIDE DEF S
<1>5. Follows(K, T, S, {<<u, x, i>>})
      /\ (T[u][x][i].state # "pending" => Follows(K, T, S, {}))
  BY <1>2, <1>4 DEF Follows, Replaces
<1>6. K = Games /\ (T[u][x][i].state = "pending" \/ T[u][x][i].old) => Spares(T, S)
  BY <1>2, <1>4 DEF Spares, Replaces
<1>7. QED
  BY <1>3, <1>4, <1>5, <1>6 DEF Replaces

\* What the coroutines and the job rely on outlives a statement.
LEMMA RowFollows ==
  ASSUME NEW T, NEW S, NEW X, Follows(Games, T, S, X),
         NEW c, Formed(c), HoldsRow(c, T),
         c.pc = "start" => <<c.user, c.game, c.row>> \notin X
  PROVE  HoldsRow(c, S)
<1>1. CASE c = Idle
  BY <1>1 DEF Idle, HoldsRow
<1>2. CASE c \in Coroutines /\ c.pc \in {"start", "finish"}
  <2>1. c.user \in Users /\ c.game \in Games
    BY <1>2 DEF Formed, Coroutines, Idle
  <2>2. QED
    BY <1>2, <2>1 DEF HoldsRow, Follows
<1>3. CASE c.pc \notin {"start", "finish"}
  BY <1>3 DEF HoldsRow
<1>4. QED
  BY <1>1, <1>2, <1>3 DEF Formed

LEMMA OldFollows ==
  ASSUME NEW T, NEW S, NEW X, Follows(Games, T, S, X), NEW D, AreOld(D, T)
  PROVE  AreOld(D, S)
BY DEF AreOld, Follows

LEMMA StatusFollows ==
  ASSUME NEW T, NEW S, NEW X, Follows(Statuses, T, S, X),
         NEW c, Formed(c), HoldsStatus(c, T)
  PROVE  HoldsStatus(c, S)
<1>1. CASE c = Idle
  BY <1>1 DEF Idle, HoldsStatus
<1>2. CASE c \in Coroutines /\ c.pc \in {"update", "create"}
  <2>1. c.user \in Users /\ c.status \in Statuses /\ c.before.status \in Statuses
    BY <1>2 DEF Formed, Coroutines, Idle, Presences
  <2>2. QED
    BY <1>2, <2>1 DEF HoldsStatus, Follows
<1>3. CASE c.pc \notin {"update", "create"}
  BY <1>3 DEF HoldsStatus
<1>4. QED
  BY <1>1, <1>2, <1>3 DEF Formed
-----------------------------------------------------------------------------
(* Steps *)

\* One coroutine moves, and the others still have what they rely on.
LEMMA Assemble ==
  ASSUME IInv, NEW h \in Handlers, NEW d, Formed(d),
         run' = [run EXCEPT ![h] = d],
         UNCHANGED <<past, drop>>,
         acts' \in Table(Games), stats' \in Table(Statuses),
         HoldsRow(d, acts'), HoldsStatus(d, stats'),
         \A k \in Handlers \ {h} :
           /\ HoldsRow(run[k], acts') /\ HoldsStatus(run[k], stats')
           /\ Apart(d, run[k])
         , AreOld(drop, acts')
  PROVE  IInv'
<1>1. run \in [Handlers -> Coroutines \cup {Idle}] /\ d \in Coroutines \cup {Idle}
  BY DEF IInv, Base, Formed
<1>2. Base'
  BY <1>1 DEF IInv, Base
<1>3. run'[h] = d /\ \A k \in Handlers : k # h => run'[k] = run[k]
  BY <1>1
<1>4. \A k \in Handlers : Formed(run'[k]) /\ HoldsRow(run'[k], acts')
                           /\ HoldsStatus(run'[k], stats')
  BY <1>3 DEF IInv, Held
<1>5. \A k, l \in Handlers : k # l => Apart(run'[k], run'[l])
  <2>1. \A k \in Handlers : k # h => Apart(run[k], d)
    BY DEF Apart
  <2>2. QED
    BY <1>3, <2>1 DEF IInv, Held
<1>6. Held'
  BY <1>4, <1>5 DEF Held
<1>7. AreOld(drop', acts')
  OBVIOUS
<1>8. QED
  BY <1>2, <1>6, <1>7 DEF IInv

\* The coroutine c of h goes on from the sessions T.
LEMMA GoOnInv ==
  ASSUME IInv, NEW h \in Handlers, NEW c \in Coroutines, NEW T \in Table(Games),
         \A k \in Handlers \ {h} : HoldsRow(run[k], T),
         AreOld(drop, T),
         GoOn(h, c, T), UNCHANGED <<past, stats, drop>>
  PROVE  IInv' /\ Extends(Games, T, acts')
<1>0. /\ stats' \in Table(Statuses)
      /\ \A k \in Handlers : Formed(run[k]) /\ HoldsStatus(run[k], stats')
      /\ c.user \in Users /\ Time(c.user) \in Nat
      /\ c.left \subseteq Games /\ c.ended \subseteq Games
  BY DEF IInv, Base, Held, Coroutines, Time
<1>1. CASE \E g \in c.left :
             /\ acts' = Inserting(T, c.user, g)
             /\ run' = [run EXCEPT ![h] = [c EXCEPT !.pc = "start", !.game = g,
                                                    !.left = @ \ {g},
                                                    !.row = Len(T[c.user][g]) + 1]]
  <2>1. PICK g \in c.left :
             /\ acts' = Inserting(T, c.user, g)
             /\ run' = [run EXCEPT ![h] = [c EXCEPT !.pc = "start", !.game = g,
                                                    !.left = @ \ {g},
                                                    !.row = Len(T[c.user][g]) + 1]]
    BY <1>1
  <2> DEFINE n == Len(T[c.user][g]) + 1
  <2>2. g \in Games
    BY <1>0
  <2>3. /\ acts' \in Table(Games) /\ n \in Nat
        /\ n \in DOMAIN acts'[c.user][g] /\ n \notin DOMAIN T[c.user][g]
        /\ acts'[c.user][g][n].state = "pending"
        /\ Extends(Games, T, acts')
    <3> DEFINE S == Inserting(T, c.user, g)
    <3>1. c.user \in Users /\ Time(c.user) \in Nat
      BY <1>0
    <3>2. /\ S \in Table(Games) /\ n \in Nat
          /\ n \in DOMAIN S[c.user][g] /\ n \notin DOMAIN T[c.user][g]
          /\ S[c.user][g][n].state = "pending"
          /\ Extends(Games, T, S)
      BY <2>2, <3>1, InsertRow
    <3>3. acts' = S
      BY <2>1
    <3> HIDE DEF S, n
    <3>4. QED
      BY <3>2, <3>3
  <2> HIDE DEF n
  <2> DEFINE d == [c EXCEPT !.pc = "start", !.game = g, !.left = @ \ {g}, !.row = n]
  <2>4. d \in Coroutines
    BY <2>2, <2>3 DEF Coroutines
  <2>5. d.pc = "start" /\ d.user = c.user /\ d.game = g /\ d.row = n
    BY DEF Coroutines
  <2>6. run' = [run EXCEPT ![h] = d]
    BY <2>1 DEF n
  <2> HIDE DEF d
  <2>7. Formed(d) /\ HoldsRow(d, acts') /\ HoldsStatus(d, stats')
    BY <2>2, <2>3, <2>4, <2>5 DEF Formed, HoldsRow, HoldsStatus
  <2>8. \A k \in Handlers \ {h} : Apart(d, run[k])
    BY <2>3, <2>5 DEF Apart, HoldsRow
  <2>9. /\ \A k \in Handlers \ {h} : HoldsRow(run[k], acts')
        /\ AreOld(drop, acts')
    <3>1. Follows(Games, T, acts', {})
      BY <2>3, ExtendsFollows
    <3>2. ASSUME NEW k \in Handlers \ {h}
          PROVE  HoldsRow(run[k], acts')
      <4>1. Formed(run[k]) /\ HoldsRow(run[k], T)
        BY <1>0
      <4>2. <<run[k].user, run[k].game, run[k].row>> \notin {}
        OBVIOUS
      <4>3. QED
        BY <3>1, <4>1, <4>2, RowFollows
    <3>3. AreOld(drop, acts')
      BY <3>1, OldFollows
    <3>4. QED
      BY <3>2, <3>3
  <2>10. IInv'
    BY <1>0, <2>3, <2>6, <2>7, <2>8, <2>9, Assemble
  <2>11. QED
    BY <2>3, <2>10
<1>2. ASSUME acts' = T, NEW d, Formed(d), d.pc \notin {"start", "finish"},
             d.pc \notin {"update", "create"},
             run' = [run EXCEPT ![h] = d]
      PROVE  IInv' /\ Extends(Games, T, acts')
  <2>1. HoldsRow(d, acts') /\ HoldsStatus(d, stats')
        /\ \A k \in Handlers \ {h} : Apart(d, run[k])
    BY <1>2 DEF HoldsRow, HoldsStatus, Apart
  <2>2. IInv'
    BY <1>0, <1>2, <2>1, Assemble
  <2>3. QED
    BY <1>2, <2>2 DEF Extends
<1>3. CASE \E g \in c.ended :
             /\ acts' = T
             /\ run' = [run EXCEPT ![h] = [c EXCEPT !.pc = "find", !.game = g,
                                                    !.ended = @ \ {g}, !.row = 0]]
  <2>1. PICK g \in c.ended :
             /\ acts' = T
             /\ run' = [run EXCEPT ![h] = [c EXCEPT !.pc = "find", !.game = g,
                                                    !.ended = @ \ {g}, !.row = 0]]
    BY <1>3
  <2> DEFINE d == [c EXCEPT !.pc = "find", !.game = g, !.ended = @ \ {g}, !.row = 0]
  <2>2. d \in Coroutines /\ d.pc = "find" /\ d.game = g /\ g \in Games
    BY <1>0 DEF Coroutines
  <2>3. run' = [run EXCEPT ![h] = d]
    BY <2>1
  <2> HIDE DEF d
  <2>4. QED
    BY <1>2, <2>1, <2>2, <2>3 DEF Formed
<1>4. CASE /\ acts' = T
           /\ run' = [run EXCEPT ![h] = [c EXCEPT !.pc = "leave", !.game = "none",
                                                  !.row = 0, !.at = 0]]
  <2> DEFINE d == [c EXCEPT !.pc = "leave", !.game = "none", !.row = 0, !.at = 0]
  <2>1. d \in Coroutines /\ d.pc = "leave"
    BY DEF Coroutines
  <2>2. run' = [run EXCEPT ![h] = d]
    BY <1>4
  <2> HIDE DEF d
  <2>3. QED
    BY <1>2, <1>4, <2>1, <2>2 DEF Formed
<1>5. QED
  BY <1>1, <1>3, <1>4 DEF GoOn
\* Where the activity sessions stay as they are.
LEMMA StatusStep ==
  ASSUME IInv, NEW h \in Handlers, NEW d, Formed(d), d.pc \notin {"start", "finish"},
         run' = [run EXCEPT ![h] = d],
         UNCHANGED <<past, acts, drop>>, stats' \in Table(Statuses),
         HoldsStatus(d, stats'),
         NEW X, Follows(Statuses, stats, stats', X)
  PROVE  IInv'
<1>1. acts' \in Table(Games) /\ HoldsRow(d, acts') /\ AreOld(drop, acts')
      /\ \A k \in Handlers \ {h} : HoldsRow(run[k], acts') /\ Apart(d, run[k])
  BY DEF IInv, Base, Held, HoldsRow, Apart
<1>2. \A k \in Handlers \ {h} : HoldsStatus(run[k], stats')
  BY StatusFollows DEF IInv, Held
<1>3. QED
  BY <1>1, <1>2, Assemble

LEMMA NowIsPresence ==
  ASSUME IInv, NEW u \in Users
  PROVE  Now(u) \in Presences /\ Time(u) \in Nat \ {0}
<1>1. past[u] \in Seq(Presences) /\ past[u] # <<>>
  BY DEF IInv, Base
<1>2. Len(past[u]) \in Nat \ {0} /\ Len(past[u]) \in DOMAIN past[u]
  BY <1>1
<1>3. QED
  BY <1>1, <1>2 DEF Now, Time

\* A coroutine at work, and the rows of the others.
LEMMA AtWork ==
  ASSUME IInv, NEW h \in Handlers, run[h].pc # "idle"
  PROVE  /\ run[h] \in Coroutines /\ Formed(run[h])
         /\ HoldsRow(run[h], acts) /\ HoldsStatus(run[h], stats)
         /\ run[h].pc = "start" =>
              \A k \in Handlers \ {h} : run[k].pc = "start" =>
                <<run[k].user, run[k].game, run[k].row>>
                  # <<run[h].user, run[h].game, run[h].row>>
  BY DEF IInv, Base, Held, Formed, Idle, Apart

\* The others, after a statement about the row of h.
LEMMA OthersFollow ==
  ASSUME IInv, NEW h \in Handlers, NEW T, NEW X, Follows(Games, acts, T, X),
         X = {} \/ (run[h].pc = "start"
                    /\ X = {<<run[h].user, run[h].game, run[h].row>>})
  PROVE  /\ \A k \in Handlers \ {h} : HoldsRow(run[k], T)
         /\ AreOld(drop, T)
<1>1. ASSUME NEW k \in Handlers \ {h}
      PROVE  HoldsRow(run[k], T)
  <2>1. run[k].pc = "start" => <<run[k].user, run[k].game, run[k].row>> \notin X
    <3>1. CASE X = {}
      BY <3>1
    <3>2. CASE run[h].pc = "start" /\ X = {<<run[h].user, run[h].game, run[h].row>>}
      BY <3>2, AtWork
    <3>3. QED
      BY <3>1, <3>2
  <2>2. Formed(run[k]) /\ HoldsRow(run[k], acts)
    BY DEF IInv, Held
  <2>3. QED
    BY <2>1, <2>2, RowFollows
<1>2. AreOld(drop, T)
  BY OldFollows DEF IInv
<1>3. QED
  BY <1>1, <1>2

LEMMA ExtendsSpares ==
  ASSUME NEW T, NEW R, NEW S, NEW X, Spares(T, R), Follows(Games, T, R, X),
         Extends(Games, R, S)
  PROVE  Spares(T, S)
<1>1. ASSUME NEW v \in Users, NEW y \in Games, NEW j \in DOMAIN T[v][y]
      PROVE  S[v][y][j] = R[v][y][j]
  BY DEF Follows, Extends
<1>2. QED
  BY <1>1 DEF Spares

LEMMA FollowsExtends ==
  ASSUME NEW K, NEW T, NEW R, NEW S, NEW X, Follows(K, T, R, X), Extends(K, R, S)
  PROVE  Follows(K, T, S, X)
<1>1. SUFFICES ASSUME NEW v \in Users, NEW y \in K, NEW j \in DOMAIN T[v][y]
               PROVE  /\ j \in DOMAIN S[v][y]
                      /\ T[v][y][j].old => S[v][y][j].old
                      /\ T[v][y][j].state # "pending" => S[v][y][j].state # "pending"
                      /\ T[v][y][j].state = "pending" /\ <<v, y, j>> \notin X
                           => S[v][y][j].state = "pending"
  BY DEF Follows
<1>2. j \in DOMAIN R[v][y]
      /\ (T[v][y][j].old => R[v][y][j].old)
      /\ (T[v][y][j].state # "pending" => R[v][y][j].state # "pending")
      /\ (T[v][y][j].state = "pending" /\ <<v, y, j>> \notin X
           => R[v][y][j].state = "pending")
  BY DEF Follows
<1>3. j \in DOMAIN S[v][y] /\ S[v][y][j] = R[v][y][j]
  BY <1>2 DEF Extends
<1>4. QED
  BY <1>2, <1>3

\* The coroutine of h goes on to insert a status, from the sessions T.
LEMMA BeginStatusInv ==
  ASSUME IInv, NEW h \in Handlers, NEW c \in Coroutines, c.status \in Statuses,
         NEW T \in Table(Statuses), NEW X, Follows(Statuses, stats, T, X),
         BeginStatus(h, c, T), UNCHANGED <<past, acts, drop>>
  PROVE  IInv'
<1> DEFINE n == Len(T[c.user][c.status]) + 1
<1>1. c.user \in Users /\ Time(c.user) \in Nat
  BY NowIsPresence DEF Coroutines
<1>2. /\ stats' = Inserting(T, c.user, c.status)
      /\ run' = [run EXCEPT ![h] = [c EXCEPT !.pc = "create", !.at = 0, !.row = n]]
  BY DEF BeginStatus
<1>3. /\ stats' \in Table(Statuses) /\ n \in Nat
      /\ n \in DOMAIN stats'[c.user][c.status]
      /\ Extends(Statuses, T, stats')
  BY <1>1, <1>2, InsertRow
<1> HIDE DEF n
<1> DEFINE d == [c EXCEPT !.pc = "create", !.at = 0, !.row = n]
<1>4. d \in Coroutines /\ d.pc = "create" /\ d.status = c.status /\ d.user = c.user
      /\ d.row = n
  BY <1>3 DEF Coroutines
<1>4a. run' = [run EXCEPT ![h] = d] /\ d.pc \notin {"start", "finish"}
  BY <1>2, <1>4
<1> HIDE DEF d
<1>5. Formed(d) /\ HoldsStatus(d, stats')
  BY <1>3, <1>4 DEF Formed, HoldsStatus
<1>6. Follows(Statuses, stats, stats', X)
  BY <1>3, FollowsExtends
<1>7. QED
  BY <1>3, <1>4a, <1>5, <1>6, StatusStep

\* A handler that takes a step is at work.
LEMMA HandlesAtWork ==
  ASSUME NEW h \in Handlers, Handle(h)
  PROVE  run[h].pc # "idle"
  BY Zenon DEF Handle, ReadConfig, StartCommits, FindGame, FinishCommits, Leave, SelectStatus,
     UpdateCommits, CreateCommits

LEMMA HandleInv ==
  ASSUME IInv, NEW h \in Handlers, Handle(h)
  PROVE  IInv' /\ Spares(acts, acts')
<1> DEFINE c == run[h]
<1>a. acts \in Table(Games) /\ stats \in Table(Statuses)
  BY DEF IInv, Base
<1>b. \A k \in Handlers \ {h} : HoldsRow(run[k], acts)
  BY DEF IInv, Held
<1>c. AreOld(drop, acts)
  BY DEF IInv
<1>d. Follows(Games, acts, acts, {}) /\ Follows(Statuses, stats, stats, {})
  BY DEF Follows
<1>e. Spares(acts, acts)
  BY DEF Spares
<1>f. ASSUME NEW d \in Coroutines, GoOn(h, d, acts), UNCHANGED <<past, stats, drop>>
      PROVE  IInv' /\ Spares(acts, acts')
  <2>1. IInv' /\ Extends(Games, acts, acts')
    BY <1>a, <1>b, <1>c, <1>f, GoOnInv
  <2>2. QED
    BY <1>d, <1>e, <2>1, ExtendsSpares
<1>g. ASSUME UNCHANGED acts
      PROVE  Spares(acts, acts')
  BY <1>e, <1>g
<1>1. c \in Coroutines /\ Formed(c) /\ HoldsRow(c, acts) /\ HoldsStatus(c, stats)
  BY AtWork, HandlesAtWork
<1>2. c.user \in Users /\ c.before \in Presences /\ c.at \in Nat
      /\ Now(c.user) \in Presences /\ Time(c.user) \in Nat
      /\ c.before.status \in Statuses
  BY <1>1, NowIsPresence DEF Coroutines, Presences
<1>3. CASE ReadConfig(h)
  <2> DEFINE d == [c EXCEPT !.left = Started(c.before, Now(c.user)),
                            !.ended = Ended(c.before, Now(c.user))]
  <2>1. Started(c.before, Now(c.user)) \in SUBSET Games
        /\ Ended(c.before, Now(c.user)) \in SUBSET Games
    BY <1>2 DEF Started, Ended, Presences
  <2>2. d \in Coroutines
    BY <1>1, <2>1 DEF Coroutines
  <2>3. GoOn(h, d, acts) /\ UNCHANGED <<past, stats, drop>>
    BY <1>3 DEF ReadConfig
  <2> HIDE DEF d
  <2>4. QED
    BY <1>f, <2>2, <2>3
<1>4. CASE StartCommits(h)
  <2> DEFINE T == Inserted(acts, c.user, c.game, c.row)
             X == {<<c.user, c.game, c.row>>}
  <2>1. c.pc = "start" /\ c.game \in Games /\ c.row \in DOMAIN acts[c.user][c.game]
    BY <1>1, <1>4 DEF StartCommits, Formed, HoldsRow, Idle
  <2>2. T \in Table(Games) /\ Follows(Games, acts, T, X) /\ Spares(acts, T)
    BY <1>a, <1>2, <2>1, InsertedFollows
  <2>3. GoOn(h, c, T) /\ UNCHANGED <<past, stats, drop>>
    BY <1>4 DEF StartCommits
  <2>4. (\A k \in Handlers \ {h} : HoldsRow(run[k], T)) /\ AreOld(drop, T)
    BY <2>1, <2>2, OthersFollow
  <2> HIDE DEF T, X
  <2>5. IInv' /\ Extends(Games, T, acts')
    BY <1>1, <2>2, <2>3, <2>4, GoOnInv
  <2>6. QED
    BY <2>2, <2>5, ExtendsSpares
<1>5. CASE FindGame(h)
  <2>1. CASE GoOn(h, c, acts) /\ UNCHANGED <<past, stats, drop>>
    BY <1>1, <1>f, <2>1
  <2>2. CASE /\ \E i \in NewestRow(acts[c.user][c.game]) :
                  run' = [run EXCEPT ![h] = [c EXCEPT !.pc = "finish", !.row = i,
                                                     !.at = Time(c.user)]]
             /\ UNCHANGED <<past, acts, stats, drop>>
    <3>1. PICK i \in NewestRow(acts[c.user][c.game]) :
                  run' = [run EXCEPT ![h] = [c EXCEPT !.pc = "finish", !.row = i,
                                                     !.at = Time(c.user)]]
      BY <2>2
    <3> DEFINE d == [c EXCEPT !.pc = "finish", !.row = i, !.at = Time(c.user)]
    <3>2. c.pc = "find" /\ c.game \in Games
      <4>1. c.pc = "find"
        BY <1>5, Zenon DEF FindGame
      <4>2. QED
        BY <1>1, <4>1 DEF Formed, Idle
    <3>3. i \in DOMAIN acts[c.user][c.game]
          /\ acts[c.user][c.game][i].state \in {"open", "done"}
      BY <3>1 DEF NewestRow, Visible
    <3>4. i \in Nat
      <4>1. acts[c.user][c.game] \in Seq(Rows)
        BY <1>a, <1>2, <3>2 DEF Table
      <4>2. QED
        BY <3>3, <4>1
    <3>5. d \in Coroutines /\ d.pc = "finish" /\ d.user = c.user /\ d.game = c.game
          /\ d.row = i
      BY <1>1, <1>2, <3>4 DEF Coroutines
    <3>6. run' = [run EXCEPT ![h] = d]
      BY <3>1
    <3> HIDE DEF d
    <3>7. Formed(d) /\ HoldsRow(d, acts) /\ HoldsStatus(d, stats)
          /\ \A k \in Handlers \ {h} : Apart(d, run[k])
      BY <3>2, <3>3, <3>5 DEF Formed, HoldsRow, HoldsStatus, Apart
    <3>8. \A k \in Handlers \ {h} : HoldsStatus(run[k], stats)
      BY DEF IInv, Held
    <3>9. IInv'
      BY <1>a, <1>b, <1>c, <2>2, <3>6, <3>7, <3>8, Assemble
    <3>10. QED
      BY <2>2, <3>9, <1>g
  <2>3. QED
    BY <1>5, <2>1, <2>2, Zenon DEF FindGame
<1>6. CASE FinishCommits(h)
  <2> DEFINE T == Finished(acts, c.user, c.game, c.row, c.at)
  <2>1. c.pc = "finish" /\ c.game \in Games /\ c.row \in DOMAIN acts[c.user][c.game]
        /\ acts[c.user][c.game][c.row].state # "pending"
    BY <1>1, <1>6 DEF FinishCommits, Formed, HoldsRow, Idle
  <2>2. T \in Table(Games) /\ Follows(Games, acts, T, {}) /\ Spares(acts, T)
    BY <1>a, <1>2, <2>1, FinishedFollows
  <2>3. GoOn(h, c, T) /\ UNCHANGED <<past, stats, drop>>
    BY <1>6 DEF FinishCommits
  <2> HIDE DEF T
  <2>4. (\A k \in Handlers \ {h} : HoldsRow(run[k], T)) /\ AreOld(drop, T)
    BY <2>2, OthersFollow
  <2>5. IInv' /\ Extends(Games, T, acts')
    BY <1>1, <2>2, <2>3, <2>4, GoOnInv
  <2>6. QED
    BY <2>2, <2>5, ExtendsSpares
<1>7. CASE Leave(h)
  <2> DEFINE d == IF c.before.status = Now(c.user).status THEN Idle
                  ELSE [c EXCEPT !.pc = "select", !.status = Now(c.user).status]
  <2>1. Now(c.user).status \in Statuses
    BY <1>2 DEF Presences
  <2>2. /\ Formed(d) /\ d.pc \notin {"start", "finish", "update", "create"}
    BY <1>1, <2>1 DEF Coroutines, Formed, Idle
  <2>3. run' = [run EXCEPT ![h] = d] /\ UNCHANGED <<past, acts, stats, drop>>
    BY <1>7 DEF Leave
  <2> HIDE DEF d
  <2>4. Follows(Statuses, stats, stats', {}) /\ HoldsStatus(d, stats')
    BY <1>d, <2>2, <2>3 DEF HoldsStatus
  <2>5. IInv'
    BY <1>a, <2>2, <2>3, <2>4, StatusStep
  <2>6. QED
    BY <2>3, <2>5, <1>g
<1>8. CASE SelectStatus(h)
  <2>1. c.pc = "select" /\ c.status \in Statuses /\ UNCHANGED <<past, acts, drop>>
    <3>1. c.pc = "select" /\ UNCHANGED <<past, acts, drop>>
      BY <1>8, Zenon DEF SelectStatus
    <3>2. QED
      BY <1>1, <3>1 DEF Formed, Idle
  <2>3. ASSUME BeginStatus(h, c, stats)
        PROVE  IInv'
    BY <1>1, <1>a, <1>d, <2>1, <2>3, BeginStatusInv
  <2>4. ASSUME \E i \in NewestRow(stats[c.user][c.before.status]) :
                 run' = [run EXCEPT ![h] = [c EXCEPT !.pc = "update", !.row = i,
                                                    !.at = Time(c.user)]],
               UNCHANGED stats
        PROVE  IInv'
    <3>1. PICK i \in NewestRow(stats[c.user][c.before.status]) :
                  run' = [run EXCEPT ![h] = [c EXCEPT !.pc = "update", !.row = i,
                                                     !.at = Time(c.user)]]
      BY <2>4
    <3> DEFINE d == [c EXCEPT !.pc = "update", !.row = i, !.at = Time(c.user)]
    <3>2. i \in DOMAIN stats[c.user][c.before.status]
      BY <3>1 DEF NewestRow, Visible
    <3>3. i \in Nat
      <4>1. stats[c.user][c.before.status] \in Seq(Rows)
        BY <1>a, <1>2 DEF Table
      <4>2. QED
        BY <3>2, <4>1
    <3>4. d \in Coroutines /\ d.pc = "update" /\ d.user = c.user /\ d.row = i
          /\ d.status = c.status /\ d.before = c.before
      BY <1>1, <1>2, <3>3 DEF Coroutines
    <3>5. run' = [run EXCEPT ![h] = d]
      BY <3>1
    <3> HIDE DEF d
    <3>6. Formed(d) /\ HoldsStatus(d, stats)
      BY <2>1, <3>2, <3>4 DEF Formed, HoldsStatus
    <3>7. QED
      BY <1>a, <1>d, <2>1, <2>4, <3>4, <3>5, <3>6, StatusStep
  <2>5. IInv'
    BY <1>8, <2>3, <2>4, Zenon DEF SelectStatus
  <2>6. QED
    BY <2>1, <2>5, <1>g
<1>9. CASE UpdateCommits(h)
  <2> DEFINE T == Finished(stats, c.user, c.before.status, c.row, c.at)
             X == {<<c.user, c.before.status, c.row>>}
  <2>1. c.status \in Statuses /\ c.row \in DOMAIN stats[c.user][c.before.status]
    BY <1>1, <1>9 DEF UpdateCommits, Formed, HoldsStatus, Idle
  <2>2. T \in Table(Statuses) /\ Follows(Statuses, stats, T, X)
    BY <1>a, <1>2, <2>1, FinishedFollows
  <2>3. BeginStatus(h, c, T) /\ UNCHANGED <<past, acts, drop>>
    BY <1>9 DEF UpdateCommits
  <2> HIDE DEF T, X
  <2>4. IInv'
    BY <1>1, <2>1, <2>2, <2>3, BeginStatusInv
  <2>5. QED
    BY <2>3, <2>4, <1>g
<1>10. CASE CreateCommits(h)
  <2> DEFINE X == {<<c.user, c.status, c.row>>}
  <2>1. c.status \in Statuses /\ c.row \in DOMAIN stats[c.user][c.status]
    BY <1>1, <1>10 DEF CreateCommits, Formed, HoldsStatus, Idle
  <2>2. /\ stats' = Inserted(stats, c.user, c.status, c.row)
        /\ run' = [run EXCEPT ![h] = Idle] /\ UNCHANGED <<past, acts, drop>>
    BY <1>10 DEF CreateCommits
  <2>3. stats' \in Table(Statuses) /\ Follows(Statuses, stats, stats', X)
    BY <1>a, <1>2, <2>1, <2>2, InsertedFollows
  <2>4. Formed(Idle) /\ Idle.pc = "idle" /\ HoldsStatus(Idle, stats')
    BY DEF Formed, Idle, HoldsStatus
  <2> HIDE DEF X
  <2>5. IInv'
    BY <2>2, <2>3, <2>4, StatusStep
  <2>6. QED
    BY <2>2, <2>5, <1>g
<1>11. QED
  BY <1>3, <1>4, <1>5, <1>6, <1>7, <1>8, <1>9, <1>10 DEF Handle

LEMMA InitInv == Init => IInv
<1> SUFFICES ASSUME Init
             PROVE  IInv
  OBVIOUS
<1>1. past \in [Users -> Seq(Presences) \ {<<>>}]
  <2>1. \A p \in Presences : <<p>> \in Seq(Presences) \ {<<>>}
    OBVIOUS
  <2> DEFINE Q == {<<p>> : p \in Presences}
  <2>2. Q \subseteq Seq(Presences) \ {<<>>}
    BY <2>1
  <2>3. past \in [Users -> Q]
    BY DEF Init
  <2> HIDE DEF Q
  <2>4. QED
    BY <2>2, <2>3
<1>2. acts \in Table(Games) /\ stats \in Table(Statuses)
  BY DEF Init, Table
<1>3. run \in [Handlers -> Coroutines \cup {Idle}] /\ drop = {}
  BY DEF Init
<1>4. \A h \in Handlers : run[h] = Idle
  BY DEF Init
<1>5. Held
  BY <1>4 DEF Held, Formed, HoldsRow, HoldsStatus, Apart, Idle
<1>6. QED
  BY <1>1, <1>2, <1>3, <1>5 DEF IInv, Base, AreOld

\* Steps that no coroutine takes part in.
LEMMA ApartFromHandlers ==
  ASSUME IInv, UNCHANGED <<run, stats>>,
         past' \in [Users -> Seq(Presences) \ {<<>>}],
         acts' \in Table(Games), Follows(Games, acts, acts', {}),
         drop' \subseteq Users \X Games \X Nat, AreOld(drop', acts')
  PROVE  IInv'
<1>1. Base'
  BY DEF IInv, Base
<1>2. ASSUME NEW h \in Handlers
      PROVE  HoldsRow(run[h], acts')
  <2>1. Formed(run[h]) /\ HoldsRow(run[h], acts)
    BY DEF IInv, Held
  <2>2. <<run[h].user, run[h].game, run[h].row>> \notin {}
    OBVIOUS
  <2>3. QED
    BY <2>1, <2>2, RowFollows
<1>3. Held'
  BY <1>2 DEF IInv, Held
<1>4. QED
  BY <1>1, <1>3 DEF IInv

LEMMA Unmoved ==
  ASSUME IInv
  PROVE  /\ Follows(Games, acts, acts, {}) /\ Spares(acts, acts)
         /\ past \in [Users -> Seq(Presences) \ {<<>>}]
         /\ acts \in Table(Games) /\ stats \in Table(Statuses)
         /\ drop \subseteq Users \X Games \X Nat /\ AreOld(drop, acts)
  BY DEF IInv, Base, Follows, Spares

\* A member who changes has been something before.
LEMMA Grows ==
  ASSUME IInv, NEW u \in Users, NEW p \in Presences,
         past' = [past EXCEPT ![u] = Append(@, p)]
  PROVE  past' \in [Users -> Seq(Presences) \ {<<>>}]
<1>1. past \in [Users -> Seq(Presences) \ {<<>>}]
  BY Unmoved
<1>2. past[u] \in Seq(Presences)
  BY <1>1
<1>3. Append(past[u], p) \in Seq(Presences) /\ Len(Append(past[u], p)) = Len(past[u]) + 1
      /\ Len(past[u]) \in Nat
  BY <1>2, AppendProperties
<1>4. Append(past[u], p) # <<>>
  BY <1>3
<1>5. QED
  BY <1>1, <1>3, <1>4

LEMMA PresenceChangesInv ==
  ASSUME IInv, PresenceChanges
  PROVE  IInv' /\ Spares(acts, acts')
<1>1. PICK u \in Users, p \in Presences :
        /\ past' = [past EXCEPT ![u] = Append(@, p)]
        /\ \E H \in UNION {kSubset(n, {h \in Handlers : run[h] = Idle}) :
                            n \in 1..Copies} :
             run' = [h \in Handlers |->
                      IF h \notin H THEN run[h]
                      ELSE [pc |-> "config", user |-> u, before |-> Now(u),
                            left |-> {}, ended |-> {}, game |-> "none",
                            status |-> "none", row |-> 0, at |-> 0]]
  BY DEF PresenceChanges
<1> DEFINE new == [pc |-> "config", user |-> u, before |-> Now(u),
                   left |-> {}, ended |-> {}, game |-> "none",
                   status |-> "none", row |-> 0, at |-> 0]
<1>2. PICK H : run' = [h \in Handlers |-> IF h \notin H THEN run[h] ELSE new]
  BY <1>1
<1>3. new \in Coroutines /\ new.pc = "config"
  BY NowIsPresence DEF Coroutines
<1> HIDE DEF new
<1>4. UNCHANGED <<acts, stats, drop>>
  BY DEF PresenceChanges
<1>5. past' \in [Users -> Seq(Presences) \ {<<>>}]
  BY <1>1, Grows
<1>6. \A h \in Handlers : run'[h] = run[h] \/ run'[h] = new
  BY <1>2
<1>7. run' \in [Handlers -> Coroutines \cup {Idle}]
  BY <1>2, <1>3 DEF IInv, Base
<1>8. Formed(new) /\ HoldsRow(new, acts) /\ HoldsStatus(new, stats)
      /\ \A d : Apart(new, d) /\ Apart(d, new)
  BY <1>3 DEF Formed, HoldsRow, HoldsStatus, Apart
<1>9. Base'
  BY <1>4, <1>5, <1>7 DEF IInv, Base
<1>10. \A h \in Handlers : Formed(run'[h]) /\ HoldsRow(run'[h], acts)
                           /\ HoldsStatus(run'[h], stats)
  BY <1>6, <1>8 DEF IInv, Held
<1>11. \A h, k \in Handlers : h # k => Apart(run'[h], run'[k])
  BY <1>6, <1>8 DEF IInv, Held
<1>12. Held'
  BY <1>4, <1>10, <1>11 DEF Held
<1>13. QED
  BY <1>4, <1>9, <1>12, Unmoved DEF IInv

LEMMA AgesInv ==
  ASSUME IInv, Ages
  PROVE  IInv' /\ Spares(acts, acts')
<1>1. PICK u \in Users, g \in Games : \E i \in DOMAIN acts[u][g] :
        /\ acts[u][g][i].state = "open"
        /\ acts' = [acts EXCEPT ![u][g][i].old = TRUE]
  BY DEF Ages
<1>2. PICK i \in DOMAIN acts[u][g] :
        /\ acts[u][g][i].state = "open"
        /\ acts' = [acts EXCEPT ![u][g][i].old = TRUE]
  BY <1>1
<1> DEFINE r == [acts[u][g][i] EXCEPT !.old = TRUE]
<1>3. acts[u][g][i] \in Rows
  BY Unmoved DEF Table
<1>4. r \in Rows /\ r.state = "open" /\ r.old
  BY <1>2, <1>3 DEF Rows
<1>5. acts' = Put(acts, u, g, i, r)
  BY <1>2 DEF Put
<1> HIDE DEF r
<1>6. Replaces(Games, acts, acts', u, g, i, r)
  BY <1>4, <1>5, Unmoved, ReplaceRow
<1>7. acts' \in Table(Games) /\ Follows(Games, acts, acts', {})
  BY <1>2, <1>4, <1>6 DEF Follows, Replaces
<1>8. Spares(acts, acts')
  BY <1>4, <1>6 DEF Spares, Replaces
<1>9. UNCHANGED <<past, run, stats, drop>>
  BY DEF Ages
<1>10. AreOld(drop', acts')
  BY <1>7, <1>9, Unmoved, OldFollows
<1>11. QED
  BY <1>7, <1>8, <1>9, <1>10, Unmoved, ApartFromHandlers

LEMMA JobReadsInv ==
  ASSUME IInv, JobReads
  PROVE  IInv' /\ Spares(acts, acts')
<1>1. UNCHANGED <<past, run, acts, stats>>
  BY DEF JobReads
<1>2. ASSUME NEW x \in drop'
      PROVE  /\ x \in Users \X Games \X Nat
             /\ x[1] \in Users /\ x[2] \in Games /\ x[3] \in DOMAIN acts[x[1]][x[2]]
             /\ Broken(acts[x[1]][x[2]][x[3]])
  <2>1. /\ x \in UNION {{u} \X {g} \X DOMAIN acts[u][g] : u \in Users, g \in Games}
        /\ Broken(acts[x[1]][x[2]][x[3]])
    BY <1>2 DEF JobReads
  <2>2. PICK u \in Users, g \in Games : x \in {u} \X {g} \X DOMAIN acts[u][g]
    BY <2>1
  <2>3. acts[u][g] \in Seq(Rows)
    BY Unmoved DEF Table
  <2>4. DOMAIN acts[u][g] \subseteq Nat
    BY <2>3
  <2>5. QED
    BY <2>1, <2>2, <2>4
<1>3. AreOld(drop', acts')
  BY <1>1, <1>2 DEF AreOld, Broken
<1>4. QED
  BY <1>1, <1>2, <1>3, Unmoved, ApartFromHandlers

LEMMA JobDeletesInv ==
  ASSUME IInv, JobDeletes
  PROVE  IInv' /\ Spares(acts, acts')
<1>1. PICK x \in drop : /\ acts' = Deleted(acts, x[1], x[2], x[3])
                        /\ drop' = drop \ {x}
  BY DEF JobDeletes
<1>2. /\ x[1] \in Users /\ x[2] \in Games /\ x[3] \in DOMAIN acts[x[1]][x[2]]
      /\ acts[x[1]][x[2]][x[3]].old /\ acts[x[1]][x[2]][x[3]].state # "pending"
  BY <1>1, Unmoved DEF AreOld
<1>3. /\ acts' \in Table(Games) /\ Follows(Games, acts, acts', {})
      /\ Spares(acts, acts')
  BY <1>1, <1>2, Unmoved, DeletedFollows
<1>4. UNCHANGED <<past, run, stats>> /\ drop' \subseteq drop
  BY <1>1 DEF JobDeletes
<1>5. AreOld(drop, acts')
  BY <1>3, Unmoved, OldFollows
<1>6. AreOld(drop', acts')
  BY <1>4, <1>5 DEF AreOld
<1>7. QED
  BY <1>3, <1>4, <1>6, Unmoved, ApartFromHandlers

LEMMA HandlerFailsInv ==
  ASSUME IInv, HandlerFails
  PROVE  IInv' /\ Spares(acts, acts')
<1>1. PICK h \in Handlers : /\ run[h] # Idle
                            /\ Cut(run[h])
                            /\ run' = [run EXCEPT ![h] = Idle]
  BY DEF HandlerFails
<1> DEFINE c == run[h]
<1>2. UNCHANGED <<past, drop>>
  BY DEF HandlerFails
<1>3. c \in Coroutines /\ Formed(c) /\ HoldsRow(c, acts) /\ HoldsStatus(c, stats)
  BY <1>1 DEF IInv, Base, Held
<1>4. /\ c.user \in Users /\ c.before.status \in Statuses /\ c.at \in Nat
      /\ c.pc \in {"start", "finish"} => c.game \in Games
      /\ c.pc = "create" => c.status \in Statuses
  BY <1>1, <1>3 DEF Coroutines, Presences, Formed
<1>5. Formed(Idle) /\ HoldsRow(Idle, acts') /\ HoldsStatus(Idle, stats')
      /\ \A k \in Handlers : Apart(Idle, run[k])
  BY DEF Formed, HoldsRow, HoldsStatus, Apart, Idle
<1>6. ASSUME NEW X, NEW Y,
             acts' \in Table(Games), Follows(Games, acts, acts', X), Spares(acts, acts'),
             X = {} \/ (c.pc = "start" /\ X = {<<c.user, c.game, c.row>>}),
             stats' \in Table(Statuses), Follows(Statuses, stats, stats', Y)
      PROVE  IInv' /\ Spares(acts, acts')
  <2>1. (\A k \in Handlers \ {h} : HoldsRow(run[k], acts')) /\ AreOld(drop, acts')
    BY <1>6, OthersFollow
  <2>2. \A k \in Handlers \ {h} : HoldsStatus(run[k], stats')
    BY <1>6, StatusFollows DEF IInv, Held
  <2>3. IInv'
    BY <1>1, <1>2, <1>5, <1>6, <2>1, <2>2, Assemble
  <2>4. QED
    BY <1>6, <2>3
<1>7. Follows(Statuses, stats, stats, {})
  BY DEF Follows
<1>8. CASE UNCHANGED <<acts, stats>>
  BY <1>6, <1>7, <1>8, Unmoved
<1>9. CASE /\ c.pc = "start" /\ UNCHANGED stats
           /\ \/ acts' = Inserted(acts, c.user, c.game, c.row)
              \/ acts' = Deleted(acts, c.user, c.game, c.row)
  <2>1. c.game \in Games /\ c.row \in DOMAIN acts[c.user][c.game]
        /\ acts[c.user][c.game][c.row].state = "pending"
    BY <1>3, <1>4, <1>9 DEF HoldsRow
  <2>2. ASSUME NEW S, S = Inserted(acts, c.user, c.game, c.row)
                      \/ S = Deleted(acts, c.user, c.game, c.row)
        PROVE  /\ S \in Table(Games) /\ Spares(acts, S)
               /\ Follows(Games, acts, S, {<<c.user, c.game, c.row>>})
    <3>1. CASE S = Inserted(acts, c.user, c.game, c.row)
      BY <1>4, <2>1, <3>1, Unmoved, InsertedFollows
    <3>2. CASE S = Deleted(acts, c.user, c.game, c.row)
      BY <1>4, <2>1, <3>2, Unmoved, DeletedFollows
    <3>3. QED
      BY <2>2, <3>1, <3>2
  <2>3. /\ acts' \in Table(Games) /\ Spares(acts, acts')
        /\ Follows(Games, acts, acts', {<<c.user, c.game, c.row>>})
    BY <1>9, <2>2
  <2>4. stats' \in Table(Statuses) /\ Follows(Statuses, stats, stats', {})
    BY <1>7, <1>9, Unmoved
  <2>5. QED
    BY <1>6, <1>9, <2>3, <2>4
<1>10. CASE /\ c.pc = "create" /\ UNCHANGED acts
            /\ \/ stats' = Inserted(stats, c.user, c.status, c.row)
               \/ stats' = Deleted(stats, c.user, c.status, c.row)
  <2>1. c.status \in Statuses /\ c.row \in DOMAIN stats[c.user][c.status]
    BY <1>3, <1>4, <1>10 DEF HoldsStatus
  <2>2. ASSUME NEW S, S = Inserted(stats, c.user, c.status, c.row)
                      \/ S = Deleted(stats, c.user, c.status, c.row)
        PROVE  /\ S \in Table(Statuses)
               /\ Follows(Statuses, stats, S, {<<c.user, c.status, c.row>>})
    <3>1. CASE S = Inserted(stats, c.user, c.status, c.row)
      BY <1>4, <2>1, <3>1, Unmoved, InsertedFollows
    <3>2. CASE S = Deleted(stats, c.user, c.status, c.row)
      BY <1>4, <2>1, <3>2, Unmoved, DeletedFollows
    <3>3. QED
      BY <2>2, <3>1, <3>2
  <2>3. /\ stats' \in Table(Statuses)
        /\ Follows(Statuses, stats, stats', {<<c.user, c.status, c.row>>})
    BY <1>10, <2>2
  <2>4. QED
    BY <1>6, <1>10, <2>3, Unmoved
<1>11. CASE /\ c.pc = "finish" /\ UNCHANGED stats
            /\ acts' = Finished(acts, c.user, c.game, c.row, c.at)
  <2>1. c.game \in Games /\ c.row \in DOMAIN acts[c.user][c.game]
        /\ acts[c.user][c.game][c.row].state # "pending"
    BY <1>3, <1>4, <1>11 DEF HoldsRow
  <2>2. /\ acts' \in Table(Games) /\ Follows(Games, acts, acts', {})
        /\ Spares(acts, acts')
    BY <1>4, <1>11, <2>1, Unmoved, FinishedFollows
  <2>3. stats' \in Table(Statuses) /\ Follows(Statuses, stats, stats', {})
    BY <1>7, <1>11, Unmoved
  <2>4. QED
    BY <1>6, <2>2, <2>3
<1>12. CASE /\ c.pc = "update" /\ UNCHANGED acts
            /\ stats' = Finished(stats, c.user, c.before.status, c.row, c.at)
  <2>1. c.row \in DOMAIN stats[c.user][c.before.status]
    BY <1>3, <1>12 DEF HoldsStatus
  <2>2. /\ stats' \in Table(Statuses)
        /\ Follows(Statuses, stats, stats', {<<c.user, c.before.status, c.row>>})
    BY <1>4, <1>12, <2>1, Unmoved, FinishedFollows
  <2>3. QED
    BY <1>6, <1>12, <2>2, Unmoved
<1>13. QED
  BY <1>1, <1>8, <1>9, <1>10, <1>11, <1>12 DEF Cut

LEMMA NextInv == IInv /\ [Next]_vars => IInv' /\ Spares(acts, acts')
<1> SUFFICES ASSUME IInv, [Next]_vars
             PROVE  IInv' /\ Spares(acts, acts')
  OBVIOUS
<1>1. ASSUME UNCHANGED <<run, acts, stats>>, drop' \subseteq drop,
             past' \in [Users -> Seq(Presences) \ {<<>>}]
      PROVE  IInv' /\ Spares(acts, acts')
  <2>1. AreOld(drop', acts') /\ drop' \subseteq Users \X Games \X Nat
    BY <1>1, Unmoved DEF AreOld
  <2>2. QED
    BY <1>1, <2>1, Unmoved, ApartFromHandlers
<1>2. CASE JobFails
  BY <1>1, <1>2, Unmoved DEF JobFails
<1>3. CASE ChangeUnseen
  <2>1. past' \in [Users -> Seq(Presences) \ {<<>>}]
    BY <1>3, Grows DEF ChangeUnseen
  <2>2. QED
    BY <1>1, <1>3, <2>1 DEF ChangeUnseen
<1>4. CASE UNCHANGED vars
  BY <1>1, <1>4, Unmoved DEF vars
<1>5. CASE \E h \in Handlers : Handle(h)
  BY <1>5, HandleInv
<1>6. QED
  BY <1>2, <1>3, <1>4, <1>5, PresenceChangesInv, AgesInv, JobReadsInv, JobDeletesInv,
     HandlerFailsInv
  DEF Next, Fault

LEMMA Invariant == Spec => []IInv
  BY InitInv, NextInv, PTL DEF Spec

\* Every coroutine writes to a row that is there, though others insert, finish and
\* delete rows while it waits, and no statement spoils the tables.
THEOREM TypeCorrect == Spec => []TypeOK
<1>1. IInv => TypeOK
  <2> SUFFICES ASSUME IInv
               PROVE  TypeOK
    OBVIOUS
  <2>1. /\ past \in [Users -> Seq(Presences)]
        /\ run \in [Handlers -> Coroutines \cup {Idle}]
        /\ acts \in [Users -> [Games -> Seq(Rows)]]
        /\ stats \in [Users -> [Statuses -> Seq(Rows)]]
        /\ drop \subseteq Users \X Games \X Nat
    BY DEF IInv, Base, Table
  <2>2. ASSUME NEW h \in Handlers
        PROVE  HoldsRow(run[h], acts) /\ HoldsStatus(run[h], stats)
               /\ (run[h].pc \in {"start", "find", "finish"} => run[h].game \in Games)
               /\ (run[h].pc \in {"select", "update", "create"}
                    => run[h].status \in Statuses)
    BY DEF IInv, Held, Formed, Idle
  <2>3. QED
    BY <2>1, <2>2 DEF TypeOK, HoldsRow, HoldsStatus
<1>2. QED
  BY <1>1, Invariant, PTL

\* Whatever races the nightly job, it deletes no session that was finished within its
\* hours: what it has read to be old is still old when it comes to delete it.
THEOREM OnlyLongSessionsAreDropped == Spec => ShortSessionsAreKept
<1>1. Spares(acts, acts')
      <=> \A u \in Users, g \in Games : \A i \in DOMAIN acts[u][g] :
            acts[u][g][i].state \in {"open", "done"} /\ acts'[u][g][i].state = "gone"
            => acts[u][g][i].old
  BY DEF Spares
<1>2. QED
  BY <1>1, NextInv, Invariant, PTL DEF Spec, ShortSessionsAreKept

(***************************************************************************)
(* The tables of members who change only when their events were handled,   *)
(* who share one server with the bot, while nothing fails.                 *)
(***************************************************************************)
Quiet == Calm /\ Copies = 1 /\ ~Faults

\* The period of K that began at b lasts at m; or ended at e.
Lasts(b, K, m) == b..m \subseteq K
Ends(b, K, e) == e \in Nat /\ b < e /\ e \notin K /\ b..(e - 1) \subseteq K

\* Row i of a table as of time m; row p is being inserted.
RowIs(r, i, K, m, p) ==
  IF i = p THEN r.state = "pending" /\ Lasts(r.from, K, m)
  ELSE \/ r.state = "gone"
       \/ r.state = "open" /\ Lasts(r.from, K, m)
       \/ r.state = "done" /\ \E e \in 1..m : Ends(r.from, K, e)

\* Its end is its own, or a later session was dropped.
EndIs(rows, i, K, m) ==
  rows[i].state = "done" =>
    \/ Ends(rows[i].from, K, rows[i].to) /\ rows[i].to <= m
    \/ \E j \in DOMAIN rows : j > i /\ rows[j].state = "gone"

\* A period that lasts at m was seen to begin, or is the first.
Traced(K, m) ==
  m \in K => Lasts(1, K, m) \/ \E b \in Begins(K) : b <= m /\ Lasts(b, K, m)

\* The rows are the periods of K as of time m.
AsOf(rows, K, m, p) ==
  /\ Traced(K, m)
  /\ {rows[i].from : i \in DOMAIN rows} = {b \in Begins(K) : b <= m}
  /\ \A i, j \in DOMAIN rows : i < j => rows[i].from < rows[j].from
  /\ \A i \in DOMAIN rows : RowIs(rows[i], i, K, m, p) /\ EndIs(rows, i, K, m)

\* What c has still to write of g, and the row it inserts.
Behind(c, g) ==
  \/ c.pc = "config"
  \/ c.pc \in {"start", "find", "finish"} /\ g \in c.left \cup c.ended
  \/ c.pc \in {"find", "finish"} /\ c.game = g
GameTime(u, c, g) == IF Behind(c, g) THEN Time(u) - 1 ELSE Time(u)
GameRow(c, g) == IF c.pc = "start" /\ c.game = g THEN c.row ELSE 0

StatusTime(u, c) == IF c.pc \in {"idle", "create"} THEN Time(u) ELSE Time(u) - 1
StatusRow(c, s) == IF c.pc = "create" /\ c.status = s THEN c.row ELSE 0

NoneGone(rows) == \A i \in DOMAIN rows : rows[i].state # "gone"
NoneAfter(rows, n) == \A i \in DOMAIN rows : i > n => rows[i].state = "gone"

\* The tables tell what u was, but for what c has still to write.
GamesTold(u, c, T) ==
  /\ \A g \in Games \ Excluded :
       AsOf(T[u][g], Playing(u, g), GameTime(u, c, g), GameRow(c, g))
  /\ \A g \in Games \cap Excluded : T[u][g] = <<>>
  /\ c.pc = "finish" => NoneAfter(T[u][c.game], c.row)

StatusTold(u, c, S) ==
  /\ \A s \in Statuses :
       AsOf(S[u][s], Having(u, s), StatusTime(u, c), StatusRow(c, s)) /\ NoneGone(S[u][s])
  /\ c.pc = "update" => NoneAfter(S[u][c.before.status], c.row)

\* A coroutine handles the last change of its member.
Course(c) ==
  LET n == Time(c.user)  now == Now(c.user)
  IN /\ n >= 2 /\ c.before = past[c.user][n - 1]
     /\ c.left \subseteq Started(c.before, now) /\ c.ended \subseteq Ended(c.before, now)
     /\ c.pc = "start" => c.game \in Started(c.before, now) \ c.left
     /\ c.pc \in {"find", "finish"} =>
          c.left = {} /\ c.game \in Ended(c.before, now) \ c.ended
     /\ c.pc \in {"finish", "update"} => c.at = n
     /\ c.pc \in {"select", "update", "create"} =>
          c.status = now.status /\ c.status # c.before.status

OneAtWork ==
  \A h, k \in Handlers :
    run[h] # Idle /\ run[k] # Idle /\ run[h].user = run[k].user => h = k

Told(u, c) == GamesTold(u, c, acts) /\ StatusTold(u, c, stats)

CalmInv ==
  /\ OneAtWork
  /\ \A h \in Handlers : \A c \in {run[h]} \ {Idle} : Course(c) /\ Told(c.user, c)
  /\ \A u \in Users : ~Busy(u) => Told(u, Idle)

-----------------------------------------------------------------------------
(* Periods. *)

\* The greatest element of a finite set of numbers, by the order of the naturals.
Less == {p \in Nat \X Nat : p[1] < p[2]}

LEMMA LessIsWellFounded == IsWellFoundedOn(Less, Nat)
  BY NatLessThanWellFounded, Zenon DEF OpToRel, Less

LEMMA Greatest ==
  ASSUME NEW n \in Nat, NEW V \in SUBSET (1..n), V # {}
  PROVE  \E i \in V : \A j \in V : j <= i
<1> DEFINE T == {n - i : i \in V}
<1>1. T \subseteq Nat /\ T # {}
  <2>1. \A i \in V : n - i \in Nat
    OBVIOUS
  <2>2. QED
    BY <2>1
<1> HIDE DEF T
<1>2. PICK x \in T : \A y \in T : ~(<<y, x>> \in Less)
  BY <1>1, LessIsWellFounded, WFMin, Zenon
<1>3. PICK i \in V : x = n - i
  BY DEF T
<1>4. ASSUME NEW j \in V, ~(j <= i)
      PROVE  FALSE
  <2>1. n - j \in T /\ n - j \in Nat /\ n - i \in Nat /\ n - j < n - i
    BY <1>4 DEF T
  <2>2. <<n - j, n - i>> \in Less
    BY <2>1 DEF Less
  <2>3. QED
    BY <1>2, <1>3, <2>1, <2>2
<1>5. QED
  BY <1>4

LEMMA RowsFacts ==
  ASSUME NEW rows \in Seq(Rows)
  PROVE  /\ Len(rows) \in Nat /\ DOMAIN rows = 1..Len(rows)
         /\ \A i \in DOMAIN rows :
              rows[i] \in Rows /\ rows[i].from \in Nat /\ rows[i].to \in Nat
<1>1. \A r \in Rows : r.from \in Nat /\ r.to \in Nat
  BY DEF Rows
<1>2. QED
  BY <1>1

LEMMA BeginsFacts ==
  ASSUME NEW K \in SUBSET Nat
  PROVE  \A b \in Begins(K) : b \in Nat /\ b > 1 /\ b \in K /\ b - 1 \in Nat /\ b - 1 \notin K
  BY DEF Begins

\* A row is that of a period, which began at its from.
LEMMA FromBegins ==
  ASSUME NEW K \in SUBSET Nat, NEW m, NEW p, NEW rows, AsOf(rows, K, m, p),
         NEW i \in DOMAIN rows
  PROVE  rows[i].from \in Begins(K) /\ rows[i].from <= m
  BY DEF AsOf

\* The end of a period that has ended by n.
LEMMA EndOfEnded ==
  ASSUME NEW K \in SUBSET Nat, NEW b \in Nat, NEW n \in Nat, NEW e \in 1..n, Ends(b, K, e)
  PROVE  EndOf(b, K, n) = e
<1> DEFINE S == (b..n) \ K
<1>1. e \in S /\ S \subseteq Nat /\ \A k \in S : e <= k
  BY DEF Ends
<1>2. ~(b..n \subseteq K)
  BY <1>1
<1> HIDE DEF S
<1>3. Min(S) = e
  <2>1. ASSUME NEW x \in S, \A k \in S : x <= k
        PROVE  x = e
    BY <1>1, <2>1
  <2>2. QED
    BY <1>1, <2>1 DEF Min
<1>4. QED
  BY <1>2, <1>3 DEF EndOf, S

\* What happens after m says nothing of the periods up to m.
LEMMA SamePast ==
  ASSUME NEW K \in SUBSET Nat, NEW L \in SUBSET Nat, NEW m \in Nat,
         \A k \in 0..m : k \in K <=> k \in L
  PROVE  /\ {b \in Begins(K) : b <= m} = {b \in Begins(L) : b <= m}
         /\ \A b \in Nat : Lasts(b, K, m) <=> Lasts(b, L, m)
         /\ \A b \in Nat, e \in 0..m : Ends(b, K, e) <=> Ends(b, L, e)
<1>1. ASSUME NEW P \in SUBSET Nat, NEW Q \in SUBSET Nat,
             \A k \in 0..m : k \in P <=> k \in Q
      PROVE  {b \in Begins(P) : b <= m} \subseteq {b \in Begins(Q) : b <= m}
  <2>1. ASSUME NEW b \in Begins(P), b <= m
        PROVE  b \in Begins(Q)
    <3>1. b \in 0..m /\ b - 1 \in 0..m /\ b > 1 /\ b \in P /\ b - 1 \notin P
      BY <2>1, BeginsFacts
    <3>2. b \in Q /\ b - 1 \notin Q
      BY <1>1, <3>1
    <3>3. QED
      BY <3>1, <3>2 DEF Begins
  <2>2. QED
    BY <2>1
<1>2. {b \in Begins(K) : b <= m} = {b \in Begins(L) : b <= m}
  BY <1>1
<1>3. ASSUME NEW b \in Nat
      PROVE  Lasts(b, K, m) <=> Lasts(b, L, m)
  BY DEF Lasts
<1>4. ASSUME NEW b \in Nat, NEW e \in 0..m
      PROVE  Ends(b, K, e) <=> Ends(b, L, e)
  BY DEF Ends
<1>5. QED
  BY <1>2, <1>3, <1>4

LEMMA SamePastAsOf ==
  ASSUME NEW K \in SUBSET Nat, NEW L \in SUBSET Nat, NEW m \in Nat,
         \A k \in 0..m : k \in K <=> k \in L,
         NEW rows \in Seq(Rows), NEW p, AsOf(rows, K, m, p)
  PROVE  AsOf(rows, L, m, p)
<1>1. /\ {b \in Begins(K) : b <= m} = {b \in Begins(L) : b <= m}
      /\ \A b \in Nat : Lasts(b, K, m) <=> Lasts(b, L, m)
      /\ \A b \in Nat, e \in 0..m : Ends(b, K, e) <=> Ends(b, L, e)
  BY SamePast
<1>2. Traced(L, m)
  <2>1. SUFFICES ASSUME m \in L
                 PROVE  Lasts(1, L, m) \/ \E b \in Begins(L) : b <= m /\ Lasts(b, L, m)
    BY DEF Traced
  <2>2. m \in K
    BY <2>1
  <2>3. CASE Lasts(1, K, m)
    BY <1>1, <2>3
  <2>4. ASSUME NEW b \in Begins(K), b <= m, Lasts(b, K, m)
        PROVE  b \in Begins(L) /\ Lasts(b, L, m)
    BY <1>1, <2>4, BeginsFacts
  <2>5. QED
    BY <2>2, <2>3, <2>4 DEF AsOf, Traced
<1>3. ASSUME NEW i \in DOMAIN rows
      PROVE  RowIs(rows[i], i, L, m, p) /\ EndIs(rows, i, L, m)
  <2>1. rows[i].from \in Nat /\ rows[i].to \in Nat
    BY RowsFacts
  <2>2. RowIs(rows[i], i, K, m, p) /\ EndIs(rows, i, K, m)
    BY DEF AsOf
  <2>3. RowIs(rows[i], i, L, m, p)
    BY <1>1, <2>1, <2>2 DEF RowIs
  <2>4. EndIs(rows, i, L, m)
    BY <1>1, <2>1, <2>2 DEF EndIs
  <2>5. QED
    BY <2>3, <2>4
<1>4. QED
  BY <1>1, <1>2, <1>3 DEF AsOf

-----------------------------------------------------------------------------
(* Rows and periods, from time m to time m + 1. *)

\* A period that has not ended is that of the last row.
LEMMA LastLasts ==
  ASSUME NEW K \in SUBSET Nat, NEW m \in Nat, NEW rows \in Seq(Rows), NEW p,
         AsOf(rows, K, m, p),
         NEW i \in DOMAIN rows, Lasts(rows[i].from, K, m), NEW j \in DOMAIN rows
  PROVE  j <= i
<1>0. i \in Nat /\ j \in Nat /\ rows[i].from \in Nat /\ rows[j].from \in Nat
  BY RowsFacts
<1>1. SUFFICES ASSUME i < j
               PROVE  FALSE
  BY <1>0
<1>2. rows[i].from < rows[j].from
  BY <1>1 DEF AsOf
<1>3. rows[j].from \in Begins(K) /\ rows[j].from <= m
  BY FromBegins
<1>4. rows[j].from - 1 \in rows[i].from..m /\ rows[j].from - 1 \notin K
  BY <1>0, <1>2, <1>3, BeginsFacts
<1>5. QED
  BY <1>4 DEF Lasts

\* Where nothing begins at m + 1 the rows are the same.
LEMMA SameBegins ==
  ASSUME NEW K \in SUBSET Nat, NEW m \in Nat, m \in K \/ m + 1 \notin K
  PROVE  {b \in Begins(K) : b <= m + 1} = {b \in Begins(K) : b <= m}
<1>1. m + 1 \notin Begins(K)
  BY BeginsFacts
<1>2. \A b \in Begins(K) : b <= m + 1 => b <= m
  BY <1>1, BeginsFacts
<1>3. QED
  BY <1>2, BeginsFacts

\* What is over at m is over at m + 1.
LEMMA EndsLater ==
  ASSUME NEW K, NEW m \in Nat, NEW rows \in Seq(Rows), NEW i \in DOMAIN rows,
         EndIs(rows, i, K, m)
  PROVE  EndIs(rows, i, K, m + 1)
  BY RowsFacts DEF EndIs

\* Nothing begins or ends.
LEMMA Passes ==
  ASSUME NEW K \in SUBSET Nat, NEW m \in Nat \ {0}, m \in K <=> m + 1 \in K,
         NEW rows \in Seq(Rows), AsOf(rows, K, m, 0)
  PROVE  AsOf(rows, K, m + 1, 0)
<1>1. \A b \in Nat : b <= m /\ Lasts(b, K, m) => Lasts(b, K, m + 1)
  BY DEF Lasts
<1>2. Traced(K, m + 1)
  <2>1. SUFFICES ASSUME m \in K
                 PROVE  Lasts(1, K, m + 1)
                        \/ \E b \in Begins(K) : b <= m + 1 /\ Lasts(b, K, m + 1)
    BY DEF Traced
  <2>2. CASE Lasts(1, K, m)
    BY <1>1, <2>2
  <2>3. ASSUME NEW b \in Begins(K), b <= m, Lasts(b, K, m)
        PROVE  b <= m + 1 /\ Lasts(b, K, m + 1)
    BY <1>1, <2>3, BeginsFacts
  <2>4. QED
    BY <2>1, <2>2, <2>3 DEF AsOf, Traced
<1>3. ASSUME NEW i \in DOMAIN rows
      PROVE  RowIs(rows[i], i, K, m + 1, 0) /\ EndIs(rows, i, K, m + 1)
  <2>1. rows[i].from \in Nat /\ rows[i].from <= m /\ i # 0
    <3>1. rows[i].from \in Nat /\ i \in 1..Len(rows) /\ Len(rows) \in Nat
      BY RowsFacts
    <3>2. rows[i].from <= m
      BY FromBegins
    <3>3. i # 0
      BY <3>1
    <3>4. QED
      BY <3>1, <3>2, <3>3
  <2>2. RowIs(rows[i], i, K, m, 0) /\ EndIs(rows, i, K, m)
    BY DEF AsOf
  <2>3. RowIs(rows[i], i, K, m + 1, 0)
    <3>1. \A e \in 1..m : e \in 1..(m + 1)
      OBVIOUS
    <3>2. QED
      BY <1>1, <2>1, <2>2, <3>1 DEF RowIs
  <2>4. QED
    BY <2>2, <2>3, EndsLater
<1>4. QED
  BY <1>2, <1>3, SameBegins DEF AsOf

\* A period begins and its row is inserted.
Longer(rows, time) == Append(rows, NewRow(time))

LEMMA InsertedAsOf ==
  ASSUME NEW K \in SUBSET Nat, NEW m \in Nat \ {0}, m \notin K, m + 1 \in K,
         NEW rows \in Seq(Rows), AsOf(rows, K, m, 0)
  PROVE  /\ AsOf(Longer(rows, m + 1), K, m + 1, Len(rows) + 1)
         /\ NoneGone(rows) => NoneGone(Longer(rows, m + 1))
<1> DEFINE r == NewRow(m + 1)
           s == Append(rows, r)
           n == Len(rows)
<1>1. r \in Rows /\ r.from = m + 1 /\ r.state = "pending"
  BY RowFacts DEF NewRow
<1> HIDE DEF r
<1>2. n \in Nat /\ DOMAIN rows = 1..n
  BY RowsFacts
<1>3. /\ s \in Seq(Rows) /\ DOMAIN s = 1..(n + 1) /\ s[n + 1] = r
      /\ \A i \in 1..n : s[i] = rows[i]
  BY <1>1, <1>2
<1> HIDE DEF s, n
<1>4. m + 1 \in Begins(K)
  BY DEF Begins
<1>5. \A i \in 1..n : rows[i].from \in Nat /\ rows[i].from \in Begins(K) /\ rows[i].from <= m
  BY <1>2, RowsFacts, FromBegins
<1>6. {s[i].from : i \in DOMAIN s} = {b \in Begins(K) : b <= m + 1}
  <2>1. \A b \in Begins(K) : b <= m + 1 <=> b <= m \/ b = m + 1
    BY BeginsFacts
  <2>2. {rows[i].from : i \in 1..n} = {b \in Begins(K) : b <= m}
    BY <1>2 DEF AsOf
  <2>3. {s[i].from : i \in DOMAIN s} = {rows[i].from : i \in 1..n} \cup {m + 1}
    <3>1. \A i \in DOMAIN s : i \in 1..n \/ i = n + 1
      BY <1>2, <1>3
    <3>2. n + 1 \in DOMAIN s /\ \A i \in 1..n : i \in DOMAIN s
      BY <1>2, <1>3
    <3>3. QED
      BY <1>1, <1>3, <3>1, <3>2
  <2>4. QED
    BY <1>4, <2>1, <2>2, <2>3
<1>7. \A i, j \in DOMAIN s : i < j => s[i].from < s[j].from
  <2>1. ASSUME NEW i \in 1..(n + 1), NEW j \in 1..(n + 1), i < j
        PROVE  s[i].from < s[j].from
    <3>1. i \in 1..n
      BY <1>2, <2>1
    <3>2. CASE j \in 1..n
      BY <1>2, <1>3, <2>1, <3>1, <3>2 DEF AsOf
    <3>3. CASE j = n + 1
      BY <1>1, <1>3, <1>5, <3>1, <3>3
    <3>4. QED
      BY <1>2, <3>2, <3>3
  <2>2. QED
    BY <1>3, <2>1
<1>8. Traced(K, m + 1)
  BY <1>4 DEF Traced, Lasts
<1>9. ASSUME NEW i \in 1..n
      PROVE  RowIs(s[i], i, K, m + 1, n + 1) /\ EndIs(s, i, K, m + 1)
  <2>1. RowIs(rows[i], i, K, m, 0) /\ EndIs(rows, i, K, m)
    BY <1>2 DEF AsOf
  <2>2. ~Lasts(rows[i].from, K, m)
    BY <1>5 DEF Lasts
  <2>3. i # 0 /\ i # n + 1 /\ s[i] = rows[i] /\ i \in DOMAIN rows
    BY <1>2, <1>3
  <2>4. RowIs(s[i], i, K, m + 1, n + 1)
    <3>1. \A e \in 1..m : e \in 1..(m + 1)
      OBVIOUS
    <3>2. QED
      BY <2>1, <2>2, <2>3, <3>1 DEF RowIs
  <2>5. EndIs(rows, i, K, m + 1)
    BY <2>1, <2>3, EndsLater
  <2>6. EndIs(s, i, K, m + 1)
    <3>1. \A j \in DOMAIN rows : j \in DOMAIN s /\ s[j] = rows[j]
      BY <1>2, <1>3
    <3>2. QED
      BY <2>3, <2>5, <3>1 DEF EndIs
  <2>7. QED
    BY <2>4, <2>6
<1>10. RowIs(s[n + 1], n + 1, K, m + 1, n + 1) /\ EndIs(s, n + 1, K, m + 1)
  BY <1>1, <1>3 DEF RowIs, EndIs, Lasts
<1>11. \A i \in DOMAIN s : RowIs(s[i], i, K, m + 1, n + 1) /\ EndIs(s, i, K, m + 1)
  <2>1. \A i \in DOMAIN s : i \in 1..n \/ i = n + 1
    BY <1>2, <1>3
  <2>2. QED
    BY <1>9, <1>10, <2>1
<1>12. AsOf(s, K, m + 1, n + 1)
  BY <1>6, <1>7, <1>8, <1>11 DEF AsOf
<1>13. NoneGone(rows) => NoneGone(s)
  <2>1. \A i \in DOMAIN s : i \in 1..n \/ i = n + 1
    BY <1>2, <1>3
  <2>2. QED
    BY <1>1, <1>2, <1>3, <2>1 DEF NoneGone
<1>14. QED
  BY <1>12, <1>13 DEF s, n, r, Longer

\* Row i of rows is r in s.
Changes(rows, s, i, r) ==
  /\ s \in Seq(Rows) /\ DOMAIN s = DOMAIN rows /\ i \in DOMAIN rows
  /\ s[i] = r
  /\ \A j \in DOMAIN rows : j # i => s[j] = rows[j]

OpenedRow(r) == [r EXCEPT !.state = "open"]
EndedRow(r, time) ==
  IF r.state = "gone" THEN r ELSE [r EXCEPT !.state = "done", !.to = time]
DroppedRow(r) == [r EXCEPT !.state = "gone"]

\* The row that was inserted is committed.
LEMMA CommittedAsOf ==
  ASSUME NEW K \in SUBSET Nat, NEW m \in Nat, NEW rows \in Seq(Rows),
         NEW p, AsOf(rows, K, m, p),
         NEW s, Changes(rows, s, p, OpenedRow(rows[p]))
  PROVE  AsOf(s, K, m, 0)
<1> USE DEF Changes, OpenedRow
<1>1. s[p].from = rows[p].from /\ s[p].state = "open"
  <2>1. rows[p] \in Rows
    BY RowsFacts
  <2>2. QED
    BY <2>1 DEF Rows
<1>2. /\ \A i \in DOMAIN rows : s[i].from = rows[i].from
      /\ rows[p].state = "pending" /\ Lasts(rows[p].from, K, m)
  BY <1>1 DEF AsOf, RowIs
<1>3. ASSUME NEW i \in DOMAIN rows
      PROVE  RowIs(s[i], i, K, m, 0) /\ EndIs(s, i, K, m)
  <2>1. i # 0
    <3>1. i \in 1..Len(rows) /\ Len(rows) \in Nat
      BY RowsFacts
    <3>2. QED
      BY <3>1
  <2>2. RowIs(rows[i], i, K, m, p) /\ EndIs(rows, i, K, m)
    BY DEF AsOf
  <2>3. CASE i = p
    BY <1>1, <1>2, <2>1, <2>3 DEF RowIs, EndIs
  <2>4. CASE i # p
    <3>1. RowIs(s[i], i, K, m, 0)
      BY <2>1, <2>2, <2>4 DEF RowIs
    <3>2. EndIs(s, i, K, m)
      BY <1>2, <2>2, <2>4 DEF EndIs
    <3>3. QED
      BY <3>1, <3>2
  <2>5. QED
    BY <2>3, <2>4
<1>4. \A i, j \in DOMAIN s : i < j => s[i].from < s[j].from
  BY <1>2 DEF AsOf
<1>5. {s[i].from : i \in DOMAIN s} = {b \in Begins(K) : b <= m}
  <2>1. {s[i].from : i \in DOMAIN s} = {rows[i].from : i \in DOMAIN rows}
    BY <1>2
  <2>2. QED
    BY <2>1 DEF AsOf
<1>6. QED
  BY <1>3, <1>4, <1>5 DEF AsOf

\* Of the rows none is open any more, and the period ends.
LEMMA ClosedAsOf ==
  ASSUME NEW K \in SUBSET Nat, NEW m \in Nat, m + 1 \notin K,
         NEW rows \in Seq(Rows), AsOf(rows, K, m, 0),
         NEW s \in Seq(Rows), DOMAIN s = DOMAIN rows,
         \A i \in DOMAIN rows :
           /\ s[i].from = rows[i].from
           /\ s[i].state \in {"gone", "done"}
           /\ s[i].state = "done" => \E e \in 1..(m + 1) : Ends(s[i].from, K, e)
           /\ EndIs(s, i, K, m + 1)
  PROVE  AsOf(s, K, m + 1, 0)
<1>1. \A i, j \in DOMAIN s : i < j => s[i].from < s[j].from
  BY DEF AsOf
<1>2. {s[i].from : i \in DOMAIN s} = {b \in Begins(K) : b <= m + 1}
  <2>1. {s[i].from : i \in DOMAIN s} = {rows[i].from : i \in DOMAIN rows}
    OBVIOUS
  <2>2. QED
    BY <2>1, SameBegins DEF AsOf
<1>3. Traced(K, m + 1)
  BY DEF Traced
<1>4. ASSUME NEW i \in DOMAIN s
      PROVE  RowIs(s[i], i, K, m + 1, 0)
  <2>1. i # 0
    <3>1. i \in 1..Len(rows) /\ Len(rows) \in Nat
      BY RowsFacts
    <3>2. QED
      BY <3>1
  <2>2. QED
    BY <2>1 DEF RowIs
<1>5. QED
  BY <1>1, <1>2, <1>3, <1>4 DEF AsOf

\* Without a row that a select sees there is nothing to end.
LEMMA NothingAsOf ==
  ASSUME NEW K \in SUBSET Nat, NEW m \in Nat, m + 1 \notin K,
         NEW rows \in Seq(Rows), AsOf(rows, K, m, 0), NewestRow(rows) = {}
  PROVE  AsOf(rows, K, m + 1, 0)
<1>1. Visible(rows) = {}
  <2>1. Len(rows) \in Nat /\ Visible(rows) \in SUBSET (1..Len(rows))
    BY RowsFacts DEF Visible
  <2>2. Visible(rows) # {} => \E i \in Visible(rows) : \A j \in Visible(rows) : j <= i
    BY <2>1, Greatest
  <2>3. QED
    BY <2>2 DEF NewestRow
<1>2. ASSUME NEW i \in DOMAIN rows
      PROVE  rows[i].state = "gone" /\ EndIs(rows, i, K, m + 1)
  <2>1. i # 0
    <3>1. i \in 1..Len(rows) /\ Len(rows) \in Nat
      BY RowsFacts
    <3>2. QED
      BY <3>1
  <2>2. RowIs(rows[i], i, K, m, 0) /\ rows[i].state \notin {"open", "done"}
    BY <1>1 DEF AsOf, Visible
  <2>3. rows[i].state = "gone"
    BY <2>1, <2>2 DEF RowIs
  <2>4. QED
    BY <2>3 DEF EndIs
<1>3. QED
  BY <1>2, ClosedAsOf

\* The newest row, that of the period that ends unless it was dropped, is finished.
LEMMA FinishedAsOf ==
  ASSUME NEW K \in SUBSET Nat, NEW m \in Nat \ {0}, m \in K, m + 1 \notin K,
         NEW rows \in Seq(Rows), AsOf(rows, K, m, 0),
         NEW i, NoneAfter(rows, i),
         NEW s, Changes(rows, s, i, EndedRow(rows[i], m + 1))
  PROVE  AsOf(s, K, m + 1, 0)
<1> USE DEF Changes, EndedRow
<1>0. /\ \A j \in DOMAIN rows : j \in Nat \ {0} /\ rows[j].from \in Nat
      /\ \A j \in DOMAIN rows : rows[j].from \in Begins(K) /\ rows[j].from <= m
  <2>1. ASSUME NEW j \in DOMAIN rows
        PROVE  j \in Nat \ {0} /\ rows[j].from \in Nat
    <3>1. j \in 1..Len(rows) /\ Len(rows) \in Nat /\ rows[j].from \in Nat
      BY RowsFacts
    <3>2. QED
      BY <3>1
  <2>2. ASSUME NEW j \in DOMAIN rows
        PROVE  rows[j].from \in Begins(K) /\ rows[j].from <= m
    BY FromBegins
  <2>3. QED
    BY <2>1, <2>2
<1>1. \A j \in DOMAIN rows : RowIs(rows[j], j, K, m, 0) /\ EndIs(rows, j, K, m)
  BY DEF AsOf
<1>2. /\ s[i].from = rows[i].from
      /\ rows[i].state = "gone" => s[i].state = "gone"
      /\ rows[i].state # "gone" => s[i].state = "done" /\ s[i].to = m + 1
  <2>1. rows[i] \in Rows
    BY RowsFacts
  <2>2. QED
    BY <2>1 DEF Rows
<1>3. ASSUME NEW j \in DOMAIN rows, j # i
      PROVE  rows[j].state # "open"
  <2>1. SUFFICES ASSUME rows[j].state = "open"
                 PROVE  FALSE
    OBVIOUS
  <2>2. Lasts(rows[j].from, K, m)
    BY <1>0, <1>1, <2>1 DEF RowIs
  <2>3. i <= j
    BY <2>2, LastLasts
  <2>4. j > i
    BY <1>0, <1>3, <2>3
  <2>5. QED
    BY <2>1, <2>4 DEF NoneAfter
\* The end of the row that was found: it is the last one, or the last one is gone.
<1>4. ASSUME rows[i].state # "gone"
      PROVE  /\ \E e \in 1..(m + 1) : Ends(rows[i].from, K, e)
             /\ \/ Ends(rows[i].from, K, m + 1)
                \/ \E j \in DOMAIN rows : j > i /\ rows[j].state = "gone"
  <2>1. CASE Lasts(rows[i].from, K, m)
    <3>1. Ends(rows[i].from, K, m + 1)
      BY <1>0, <2>1 DEF Ends, Lasts
    <3>2. QED
      BY <3>1
  <2>2. CASE ~Lasts(rows[i].from, K, m)
    <3>1. rows[i].state = "done" /\ \E e \in 1..m : Ends(rows[i].from, K, e)
      BY <1>0, <1>1, <1>4, <2>2 DEF RowIs
    <3>2. PICK e \in 1..m : Ends(rows[i].from, K, e)
      BY <3>1
    <3>3. ~Lasts(1, K, m)
      BY <3>2 DEF Ends, Lasts
    <3>4. PICK b \in Begins(K) : b <= m /\ Lasts(b, K, m)
      BY <3>3 DEF AsOf, Traced
    <3>5. PICK j \in DOMAIN rows : rows[j].from = b
      BY <3>4 DEF AsOf
    <3>6. b \in Nat /\ b > e /\ b > rows[i].from
      <4>1. b \in Nat
        BY BeginsFacts
      <4>2. e \notin K /\ e <= m /\ e \in Nat /\ rows[i].from < e
        BY <1>0, <3>2 DEF Ends
      <4>3. e \notin b..m
        BY <3>4, <4>2 DEF Lasts
      <4>4. QED
        BY <1>0, <4>1, <4>2, <4>3
    <3>7. j > i
      <4>1. j < i => rows[j].from < rows[i].from
        BY DEF AsOf
      <4>2. j # i
        BY <1>0, <3>5, <3>6
      <4>3. QED
        BY <1>0, <3>5, <3>6, <4>1, <4>2
    <3>8. rows[j].state = "gone"
      BY <3>7 DEF NoneAfter
    <3>9. e \in 1..(m + 1)
      OBVIOUS
    <3>10. QED
      BY <3>2, <3>7, <3>8, <3>9
  <2>3. QED
    BY <2>1, <2>2
<1>5. ASSUME NEW j \in DOMAIN rows
      PROVE  /\ s[j].from = rows[j].from
             /\ s[j].state \in {"gone", "done"}
             /\ s[j].state = "done" => \E e \in 1..(m + 1) : Ends(s[j].from, K, e)
             /\ EndIs(s, j, K, m + 1)
  <2>1. \A k \in DOMAIN rows : rows[k].state = "gone" => s[k].state = "gone"
    BY <1>2
  <2>2. CASE j = i
    <3>1. CASE rows[i].state = "gone"
      BY <1>2, <2>2, <3>1 DEF EndIs
    <3>2. CASE rows[i].state # "gone"
      <4>1. /\ s[i].from = rows[i].from /\ s[i].state = "done" /\ s[i].to = m + 1
            /\ \E e \in 1..(m + 1) : Ends(rows[i].from, K, e)
            /\ \/ Ends(rows[i].from, K, m + 1)
               \/ \E k \in DOMAIN rows : k > i /\ rows[k].state = "gone"
        BY <1>2, <1>4, <3>2
      <4>2. EndIs(s, i, K, m + 1)
        BY <2>1, <4>1 DEF EndIs
      <4>3. QED
        BY <2>2, <4>1, <4>2
    <3>3. QED
      BY <3>1, <3>2
  <2>3. CASE j # i
    <3>1. s[j] = rows[j] /\ rows[j].state # "open" /\ j # 0
      BY <1>0, <1>3, <2>3
    <3>2. RowIs(rows[j], j, K, m, 0) /\ EndIs(rows, j, K, m)
      BY <1>1
    <3>3. s[j].state = "gone" \/ (s[j].state = "done" /\ \E e \in 1..m : Ends(s[j].from, K, e))
      BY <3>1, <3>2 DEF RowIs
    <3>4. \A e \in 1..m : e \in 1..(m + 1)
      OBVIOUS
    <3>5. EndIs(s, j, K, m + 1)
      <4>1. EndIs(rows, j, K, m + 1)
        BY <3>2, EndsLater
      <4>2. QED
        BY <2>1, <3>1, <4>1 DEF EndIs
    <3>6. QED
      BY <3>1, <3>3, <3>4, <3>5
  <2>4. QED
    BY <2>2, <2>3
<1>6. QED
  BY <1>5, ClosedAsOf

\* Row i is dropped, or has been open for long.
Loses(rows, s, i) ==
  /\ DOMAIN s = DOMAIN rows /\ i \in DOMAIN rows
  /\ \A j \in DOMAIN rows : j # i => s[j] = rows[j]
  /\ s[i].from = rows[i].from
  /\ s[i].state = "gone" \/ (s[i].state = rows[i].state /\ s[i].to = rows[i].to)

LEMMA DroppedAsOf ==
  ASSUME NEW K, NEW m, NEW p, NEW rows, NEW i, NEW s,
         AsOf(rows, K, m, p), i # p, Loses(rows, s, i)
  PROVE  /\ AsOf(s, K, m, p)
         /\ \A n : NoneAfter(rows, n) => NoneAfter(s, n)
<1>0. /\ DOMAIN s = DOMAIN rows /\ i \in DOMAIN rows
      /\ \A j \in DOMAIN rows : j # i => s[j] = rows[j]
      /\ s[i].from = rows[i].from
      /\ s[i].state = "gone" \/ (s[i].state = rows[i].state /\ s[i].to = rows[i].to)
  BY DEF Loses
<1>1. /\ \A j \in DOMAIN rows : s[j].from = rows[j].from
      /\ \A j \in DOMAIN rows : rows[j].state = "gone" => s[j].state = "gone"
  BY <1>0
<1>2. ASSUME NEW j \in DOMAIN rows
      PROVE  RowIs(s[j], j, K, m, p) /\ EndIs(s, j, K, m)
  <2>1. RowIs(rows[j], j, K, m, p) /\ EndIs(rows, j, K, m)
    BY DEF AsOf
  <2>2. CASE j # i
    BY <1>0, <1>1, <2>1, <2>2 DEF RowIs, EndIs
  <2>3. CASE j = i /\ s[i].state = "gone"
    BY <1>0, <2>3 DEF RowIs, EndIs
  <2>4. CASE j = i /\ s[i].state = rows[i].state /\ s[i].to = rows[i].to
    BY <1>0, <1>1, <2>1, <2>4 DEF RowIs, EndIs
  <2>5. QED
    BY <1>0, <2>2, <2>3, <2>4
<1>3. \A j, k \in DOMAIN s : j < k => s[j].from < s[k].from
  BY <1>0, <1>1 DEF AsOf
<1>4. {s[j].from : j \in DOMAIN s} = {b \in Begins(K) : b <= m}
  <2>1. {s[j].from : j \in DOMAIN s} = {rows[j].from : j \in DOMAIN rows}
    BY <1>0, <1>1
  <2>2. QED
    BY <2>1 DEF AsOf
<1>5. AsOf(s, K, m, p)
  BY <1>0, <1>2, <1>3, <1>4 DEF AsOf
<1>6. \A n : NoneAfter(rows, n) => NoneAfter(s, n)
  BY <1>0, <1>1 DEF NoneAfter
<1>7. QED
  BY <1>5, <1>6

-----------------------------------------------------------------------------
(* What the rows as of now tell. *)

LEMMA RowsAreHistory ==
  ASSUME NEW n \in Nat, NEW K \in SUBSET (1..n), NEW rows \in Seq(Rows),
         AsOf(rows, K, n, 0)
  PROVE  RowsOf(rows, K, n)
<1>0. K \in SUBSET Nat
  OBVIOUS
<1>1. {rows[i].from : i \in DOMAIN rows} = Begins(K)
  <2>1. \A b \in Begins(K) : b <= n
    BY DEF Begins
  <2>2. QED
    BY <2>1 DEF AsOf
<1>2. ASSUME NEW i \in DOMAIN rows, rows[i].state # "gone"
      PROVE  rows[i].state = IF EndOf(rows[i].from, K, n) = 0 THEN "open" ELSE "done"
  <2>1. i # 0 /\ rows[i].from \in Nat
    <3>1. i \in 1..Len(rows) /\ Len(rows) \in Nat /\ rows[i].from \in Nat
      BY RowsFacts
    <3>2. QED
      BY <3>1
  <2>2. RowIs(rows[i], i, K, n, 0)
    BY DEF AsOf
  <2>3. CASE rows[i].state = "open" /\ Lasts(rows[i].from, K, n)
    BY <2>3 DEF EndOf, Lasts
  <2>4. CASE rows[i].state = "done" /\ \E e \in 1..n : Ends(rows[i].from, K, e)
    <3>1. PICK e \in 1..n : Ends(rows[i].from, K, e)
      BY <2>4
    <3>2. EndOf(rows[i].from, K, n) = e
      BY <1>0, <2>1, <3>1, EndOfEnded
    <3>3. QED
      BY <2>4, <3>2
  <2>5. QED
    BY <1>2, <2>1, <2>2, <2>3, <2>4 DEF RowIs
<1>3. \A i, j \in DOMAIN rows : i < j => rows[i].from < rows[j].from
  BY DEF AsOf
<1>4. QED
  BY <1>1, <1>2, <1>3 DEF RowsOf

LEMMA EndsAreOwn ==
  ASSUME NEW n \in Nat, NEW K \in SUBSET Nat, NEW rows \in Seq(Rows), NEW m \in Nat, m <= n,
         NEW p, AsOf(rows, K, m, p), NEW i \in DOMAIN rows, rows[i].state = "done"
  PROVE  \/ rows[i].to = EndOf(rows[i].from, K, n)
         \/ \E j \in DOMAIN rows : j > i /\ rows[j].state = "gone"
<1>1. EndIs(rows, i, K, m) /\ rows[i].from \in Nat /\ rows[i].to \in Nat
  BY RowsFacts DEF AsOf
<1>2. CASE Ends(rows[i].from, K, rows[i].to) /\ rows[i].to <= m
  <2>1. rows[i].to \in 1..n
    BY <1>1, <1>2 DEF Ends
  <2>2. QED
    BY <1>1, <1>2, <2>1, EndOfEnded
<1>3. QED
  BY <1>1, <1>2 DEF EndIs

\* A member's past.
LEMMA PastFacts ==
  ASSUME IInv, NEW u \in Users
  PROVE  /\ Time(u) \in Nat \ {0} /\ DOMAIN past[u] = 1..Time(u) /\ past[u] \in Seq(Presences)
         /\ \A k \in 1..Time(u) : past[u][k] \in Presences
         /\ \A g : Playing(u, g) \in SUBSET (1..Time(u)) /\ Playing(u, g) \in SUBSET Nat
         /\ \A s : Having(u, s) \in SUBSET (1..Time(u)) /\ Having(u, s) \in SUBSET Nat
<1>1. past[u] \in Seq(Presences) /\ Time(u) \in Nat \ {0}
  BY NowIsPresence DEF IInv, Base
<1>2. DOMAIN past[u] = 1..Time(u) /\ \A k \in 1..Time(u) : past[u][k] \in Presences
  BY <1>1 DEF Time
<1>3. QED
  BY <1>1, <1>2 DEF Playing, Having

\* What the last change was.
LEMMA LastChange ==
  ASSUME IInv, NEW u \in Users, Time(u) >= 2
  PROVE  LET m == Time(u) - 1
         IN /\ m \in Nat \ {0} /\ m + 1 = Time(u)
            /\ \A g : /\ m \in Playing(u, g) <=> g \in past[u][m].games
                      /\ m + 1 \in Playing(u, g) <=> g \in Now(u).games
            /\ \A s : /\ m \in Having(u, s) <=> past[u][m].status = s
                      /\ m + 1 \in Having(u, s) <=> Now(u).status = s
<1>1. /\ Time(u) \in Nat \ {0} /\ DOMAIN past[u] = 1..Time(u)
      /\ Time(u) - 1 \in 1..Time(u) /\ Time(u) \in 1..Time(u)
  BY PastFacts
<1> DEFINE m == Time(u) - 1
<1>2. m \in Nat \ {0} /\ m + 1 = Time(u) /\ m \in DOMAIN past[u] /\ m + 1 \in DOMAIN past[u]
  BY <1>1
<1>3. Now(u) = past[u][m + 1]
  BY <1>2 DEF Now
<1> HIDE DEF m
<1>4. \A g : /\ m \in Playing(u, g) <=> g \in past[u][m].games
             /\ m + 1 \in Playing(u, g) <=> g \in Now(u).games
  BY <1>2, <1>3 DEF Playing
<1>5. \A s : /\ m \in Having(u, s) <=> past[u][m].status = s
             /\ m + 1 \in Having(u, s) <=> Now(u).status = s
  BY <1>2, <1>3 DEF Having
<1>6. QED
  BY <1>2, <1>4, <1>5 DEF m

\* A row is appended to one sequence of a table, or replaced in one.
LEMMA InsertingIs ==
  ASSUME NEW K, NEW T \in Table(K), NEW u \in Users, NEW x \in K, Time(u) \in Nat
  PROVE  /\ Inserting(T, u, x)[u][x] = Longer(T[u][x], Time(u))
         /\ \A v \in Users, y \in K :
              v # u \/ y # x => Inserting(T, u, x)[v][y] = T[v][y]
  BY DEF Inserting, Table, Longer

\* Only row i of one sequence changes.
OneRow(K, T, S, u, x, i, r) ==
  /\ S \in Table(K)
  /\ \A v \in Users, y \in K : v # u \/ y # x => S[v][y] = T[v][y]
  /\ Changes(T[u][x], S[u][x], i, r)

LEMMA PutIs ==
  ASSUME NEW K, NEW T \in Table(K), NEW u \in Users, NEW x \in K,
         NEW i \in DOMAIN T[u][x], NEW r \in Rows
  PROVE  OneRow(K, T, Put(T, u, x, i, r), u, x, i, r)
<1> DEFINE S == Put(T, u, x, i, r)
<1>1. Replaces(K, T, S, u, x, i, r)
  BY ReplaceRow
<1>2. \A v \in Users, y \in K : v # u \/ y # x => S[v][y] = T[v][y]
  BY DEF Put, Table
<1> HIDE DEF S
<1>3. S[u][x] \in Seq(Rows)
  BY <1>1 DEF Replaces, Table
<1>4. Changes(T[u][x], S[u][x], i, r)
  BY <1>1, <1>3 DEF Replaces, Changes
<1>5. QED
  BY <1>1, <1>2, <1>4 DEF OneRow, Replaces, S

LEMMA InsertedIs ==
  ASSUME NEW K, NEW T \in Table(K), NEW u \in Users, NEW x \in K,
         NEW i \in DOMAIN T[u][x]
  PROVE  OneRow(K, T, Inserted(T, u, x, i), u, x, i, OpenedRow(T[u][x][i]))
<1> DEFINE r == OpenedRow(T[u][x][i])
<1>1. T[u][x][i] \in Rows
  BY DEF Table
<1>2. r \in Rows
  BY <1>1, RowFacts DEF OpenedRow
<1>3. Inserted(T, u, x, i) = Put(T, u, x, i, r)
  BY DEF Inserted, Put, OpenedRow
<1> HIDE DEF r
<1>4. QED
  BY <1>2, <1>3, PutIs DEF r

LEMMA FinishedIs ==
  ASSUME NEW K, NEW T \in Table(K), NEW u \in Users, NEW x \in K,
         NEW i \in DOMAIN T[u][x], NEW t \in Nat
  PROVE  OneRow(K, T, Finished(T, u, x, i, t), u, x, i, EndedRow(T[u][x][i], t))
<1> DEFINE r == [T[u][x][i] EXCEPT !.state = "done", !.to = t]
<1>1. T[u][x][i] \in Rows /\ T[u][x] \in Seq(Rows)
  BY DEF Table
<1>2. r \in Rows
  BY <1>1, RowFacts
<1>3. CASE T[u][x][i].state = "gone"
  BY <1>1, <1>3 DEF Finished, OneRow, Changes, EndedRow
<1>4. CASE T[u][x][i].state # "gone"
  <2>1. Finished(T, u, x, i, t) = Put(T, u, x, i, r)
    BY <1>4 DEF Finished, Table, Put
  <2>2. EndedRow(T[u][x][i], t) = r
    BY <1>4 DEF EndedRow
  <2> HIDE DEF r
  <2>3. QED
    BY <1>2, <2>1, <2>2, PutIs
<1>5. QED
  BY <1>3, <1>4

LEMMA DeletedIs ==
  ASSUME NEW K, NEW T \in Table(K), NEW u \in Users, NEW x \in K,
         NEW i \in DOMAIN T[u][x]
  PROVE  OneRow(K, T, Deleted(T, u, x, i), u, x, i, DroppedRow(T[u][x][i]))
<1> DEFINE r == DroppedRow(T[u][x][i])
<1>1. T[u][x][i] \in Rows
  BY DEF Table
<1>2. r \in Rows
  BY <1>1, RowFacts DEF DroppedRow
<1>3. Deleted(T, u, x, i) = Put(T, u, x, i, r)
  BY DEF Deleted, Put, DroppedRow
<1> HIDE DEF r
<1>4. QED
  BY <1>2, <1>3, PutIs DEF r

-----------------------------------------------------------------------------
(* Steps of a handler. *)

\* Between two statements of the loops: the games of c.left and c.ended are still to
\* be written, and the status.
AtLoop(c) ==
  LET n == Time(c.user)  now == Now(c.user)
  IN /\ n >= 2 /\ c.before = past[c.user][n - 1]
     /\ c.left \subseteq Started(c.before, now) /\ c.ended \subseteq Ended(c.before, now)

LoopTime(u, c, g) == IF g \in c.left \cup c.ended THEN Time(u) - 1 ELSE Time(u)

LoopTold(u, c, T) ==
  /\ \A g \in Games \ Excluded : AsOf(T[u][g], Playing(u, g), LoopTime(u, c, g), 0)
  /\ \A g \in Games \cap Excluded : T[u][g] = <<>>

StatusBehind(u, S) ==
  \A s \in Statuses : AsOf(S[u][s], Having(u, s), Time(u) - 1, 0) /\ NoneGone(S[u][s])

Elsewhere(K, u, T, S) == \A v \in Users, y \in K : v # u => S[v][y] = T[v][y]

\* What a coroutine has told of u when it is done with its step.
Done(u, d, T, S) ==
  /\ d # Idle => d.user = u /\ Course(d)
  /\ GamesTold(u, d, T) /\ StatusTold(u, d, S)

LEMMA NotBoth ==
  ASSUME NEW before, NEW now
  PROVE  \A g : ~(g \in Started(before, now) /\ g \in Ended(before, now))
  BY DEF Started, Ended

\* Excluded games are not started.
LEMMA GoOnTold ==
  ASSUME IInv, NEW h \in Handlers, NEW c \in Coroutines, NEW T \in Table(Games),
         AtLoop(c), LoopTold(c.user, c, T), StatusBehind(c.user, stats),
         GoOn(h, c, T), UNCHANGED <<past, stats, drop>>
  PROVE  /\ Elsewhere(Games, c.user, T, acts')
         /\ \E d : run' = [run EXCEPT ![h] = d] /\ Done(c.user, d, acts', stats)
<1> DEFINE u == c.user
           n == Time(c.user)
           now == Now(c.user)
<1>0. /\ u \in Users /\ n \in Nat \ {0} /\ n >= 2 /\ c.before = past[u][n - 1]
      /\ c.left \subseteq Started(c.before, now) /\ c.ended \subseteq Ended(c.before, now)
      /\ c.left \subseteq Games /\ c.ended \subseteq Games
      /\ \A g : ~(g \in Started(c.before, now) /\ g \in Ended(c.before, now))
  <2>1. u \in Users /\ c.left \subseteq Games /\ c.ended \subseteq Games
    BY DEF Coroutines
  <2>2. n \in Nat \ {0}
    BY <2>1, NowIsPresence
  <2>3. QED
    BY <2>1, <2>2, NotBoth DEF AtLoop
<1>1. ASSUME NEW g \in c.left,
             acts' = Inserting(T, u, g),
             run' = [run EXCEPT ![h] = [c EXCEPT !.pc = "start", !.game = g,
                                                 !.left = @ \ {g},
                                                 !.row = Len(T[u][g]) + 1]]
      PROVE  /\ Elsewhere(Games, u, T, acts')
             /\ \E d : run' = [run EXCEPT ![h] = d] /\ Done(u, d, acts', stats)
  <2> DEFINE row == Len(T[u][g]) + 1
             d == [c EXCEPT !.pc = "start", !.game = g, !.left = @ \ {g}, !.row = row]
  <2>1. g \in Games /\ g \in Started(c.before, now) /\ g \notin Excluded
    BY <1>0 DEF Started
  <2>2. /\ acts'[u][g] = Longer(T[u][g], n)
        /\ \A v \in Users, y \in Games : v # u \/ y # g => acts'[v][y] = T[v][y]
    BY <1>0, <1>1, <2>1, InsertingIs
  <2>3. /\ d.pc = "start" /\ d.user = u /\ d.game = g /\ d.left = c.left \ {g}
        /\ d.ended = c.ended /\ d.row = row /\ d.before = c.before /\ d.at = c.at
        /\ d.status = c.status /\ d # Idle
    BY DEF Coroutines, Idle
  <2>4. run' = [run EXCEPT ![h] = d]
    BY <1>1
  <2> HIDE DEF d
  <2>5. Course(d)
    BY <1>0, <2>1, <2>3 DEF Course
  <2>6. T[u][g] \in Seq(Rows)
    BY <1>0, <2>1 DEF Table
  <2>7. AsOf(acts'[u][g], Playing(u, g), n, row)
    <3> DEFINE m == n - 1
    <3>1. /\ m \in Nat \ {0} /\ m + 1 = n /\ Playing(u, g) \in SUBSET Nat
          /\ m \notin Playing(u, g) /\ m + 1 \in Playing(u, g)
      <4>1. g \in now.games /\ g \notin c.before.games
        BY <2>1 DEF Started
      <4>2. QED
        BY <1>0, <4>1, LastChange, PastFacts
    <3>2. AsOf(T[u][g], Playing(u, g), m, 0)
      BY <2>1, <1>1 DEF LoopTold, LoopTime
    <3> HIDE DEF m
    <3>3. AsOf(Longer(T[u][g], m + 1), Playing(u, g), m + 1, Len(T[u][g]) + 1)
      BY <2>6, <3>1, <3>2, InsertedAsOf
    <3>4. QED
      BY <2>2, <3>1, <3>3
  <2>8. ASSUME NEW y \in Games \ Excluded
        PROVE  AsOf(acts'[u][y], Playing(u, y), GameTime(u, d, y), GameRow(d, y))
    <3>1. CASE y = g
      <4>1. g \notin c.ended
        BY <1>0, <2>1
      <4>2. GameTime(u, d, y) = n /\ GameRow(d, y) = row
        BY <2>3, <3>1, <4>1 DEF GameTime, GameRow, Behind
      <4>3. QED
        BY <2>7, <3>1, <4>2
    <3>2. CASE y # g
      <4>1. GameTime(u, d, y) = LoopTime(u, c, y) /\ GameRow(d, y) = 0
        BY <2>3, <3>2 DEF GameTime, GameRow, Behind, LoopTime
      <4>2. acts'[u][y] = T[u][y]
        BY <1>0, <2>2, <3>2
      <4>3. QED
        BY <4>1, <4>2 DEF LoopTold
    <3>3. QED
      BY <3>1, <3>2
  <2>9. \A y \in Games \cap Excluded : acts'[u][y] = <<>>
    BY <1>0, <2>1, <2>2 DEF LoopTold
  <2>10. GamesTold(u, d, acts')
    BY <2>3, <2>8, <2>9 DEF GamesTold
  <2>11. StatusTold(u, d, stats)
    BY <2>3 DEF StatusBehind, StatusTold, StatusTime, StatusRow
  <2>12. Elsewhere(Games, u, T, acts')
    BY <2>2 DEF Elsewhere
  <2>13. QED
    BY <2>3, <2>4, <2>5, <2>10, <2>11, <2>12 DEF Done
<1>2. ASSUME NEW d, acts' = T, run' = [run EXCEPT ![h] = d], d # Idle,
             d.user = u, Course(d), d.pc \in {"find", "leave"},
             \A g \in Games : GameTime(u, d, g) = LoopTime(u, c, g)
      PROVE  /\ Elsewhere(Games, u, T, acts')
             /\ \E e : run' = [run EXCEPT ![h] = e] /\ Done(u, e, acts', stats)
  <2>1. GamesTold(u, d, acts')
    BY <1>2 DEF GamesTold, LoopTold, GameRow
  <2>2. StatusTold(u, d, stats)
    BY <1>2 DEF StatusBehind, StatusTold, StatusTime, StatusRow
  <2>3. QED
    BY <1>2, <2>1, <2>2 DEF Done, Elsewhere
<1>3. ASSUME NEW g \in c.ended, c.left = {}, acts' = T,
             run' = [run EXCEPT ![h] = [c EXCEPT !.pc = "find", !.game = g,
                                                 !.ended = @ \ {g}, !.row = 0]]
      PROVE  /\ Elsewhere(Games, u, T, acts')
             /\ \E d : run' = [run EXCEPT ![h] = d] /\ Done(u, d, acts', stats)
  <2> DEFINE d == [c EXCEPT !.pc = "find", !.game = g, !.ended = @ \ {g}, !.row = 0]
  <2>1. /\ d.pc = "find" /\ d.user = u /\ d.game = g /\ d.left = {}
        /\ d.ended = c.ended \ {g} /\ d.before = c.before /\ d.at = c.at
        /\ d.status = c.status /\ d # Idle
    BY <1>3 DEF Coroutines, Idle
  <2>2. run' = [run EXCEPT ![h] = d]
    BY <1>3
  <2> HIDE DEF d
  <2>3. Course(d)
    BY <1>0, <2>1 DEF Course
  <2>4. \A y \in Games : GameTime(u, d, y) = LoopTime(u, c, y)
    BY <1>3, <2>1 DEF GameTime, LoopTime, Behind
  <2>5. QED
    BY <1>2, <1>3, <2>1, <2>2, <2>3, <2>4
<1>4. ASSUME c.left = {}, c.ended = {}, acts' = T,
             run' = [run EXCEPT ![h] = [c EXCEPT !.pc = "leave", !.game = "none",
                                                 !.row = 0, !.at = 0]]
      PROVE  /\ Elsewhere(Games, u, T, acts')
             /\ \E d : run' = [run EXCEPT ![h] = d] /\ Done(u, d, acts', stats)
  <2> DEFINE d == [c EXCEPT !.pc = "leave", !.game = "none", !.row = 0, !.at = 0]
  <2>1. /\ d.pc = "leave" /\ d.user = u /\ d.left = {} /\ d.ended = {}
        /\ d.before = c.before /\ d # Idle
    BY <1>4 DEF Coroutines, Idle
  <2>2. run' = [run EXCEPT ![h] = d]
    BY <1>4
  <2> HIDE DEF d
  <2>3. Course(d)
    BY <1>0, <2>1 DEF Course
  <2>4. \A y \in Games : GameTime(u, d, y) = LoopTime(u, c, y)
    BY <1>4, <2>1 DEF GameTime, LoopTime, Behind
  <2>5. QED
    BY <1>2, <1>4, <2>1, <2>2, <2>3, <2>4
<1>5. QED
  BY <1>1, <1>3, <1>4 DEF GoOn

\* In S the status before is finished, and nothing else is written yet.
StatusesReady(c, S) ==
  \A s \in Statuses :
    /\ AsOf(S[c.user][s], Having(c.user, s),
            IF s = c.before.status THEN Time(c.user) ELSE Time(c.user) - 1, 0)
    /\ NoneGone(S[c.user][s])

\* The status that c has come to is inserted over the sessions S, in which the one
\* before it is finished.
LEMMA BeginStatusTold ==
  ASSUME IInv, NEW h \in Handlers, NEW c \in Coroutines, NEW S \in Table(Statuses),
         Course(c), c.pc \in {"select", "update"}, GamesTold(c.user, c, acts),
         StatusesReady(c, S),
         BeginStatus(h, c, S), UNCHANGED <<past, acts, drop>>
  PROVE  /\ Elsewhere(Statuses, c.user, S, stats')
         /\ \E d : run' = [run EXCEPT ![h] = d] /\ Done(c.user, d, acts, stats')
<1> DEFINE u == c.user
           n == Time(c.user)
           m == n - 1
           s == c.status
           row == Len(S[u][s]) + 1
           d == [c EXCEPT !.pc = "create", !.at = 0, !.row = row]
<1>0. /\ u \in Users /\ n \in Nat \ {0} /\ n >= 2 /\ c.before = past[u][n - 1]
      /\ c.before = past[u][m] /\ m \in Nat \ {0} /\ m + 1 = n
      /\ s = Now(u).status /\ s # c.before.status /\ s \in Statuses
      /\ c.before.status \in Statuses
  <2>1. u \in Users /\ c.before.status \in Statuses
    BY DEF Coroutines, Presences
  <2>2. n \in Nat \ {0} /\ Now(u).status \in Statuses
    BY <2>1, NowIsPresence DEF Presences
  <2>3. n >= 2 /\ c.before = past[u][n - 1] /\ s = Now(u).status /\ s # c.before.status
    BY DEF Course
  <2>4. m \in Nat \ {0} /\ m + 1 = n
    BY <2>2, <2>3
  <2>5. QED
    BY <2>1, <2>2, <2>3, <2>4
<1>1. stats' = Inserting(S, u, s) /\ run' = [run EXCEPT ![h] = d]
  BY DEF BeginStatus
<1>2. /\ d.pc = "create" /\ d.user = u /\ d.status = s /\ d.row = row /\ d.before = c.before
      /\ d.left = c.left /\ d.ended = c.ended /\ d.game = c.game /\ d # Idle
  BY DEF Coroutines, Idle
<1> HIDE DEF d, m
<1>3. /\ stats'[u][s] = Longer(S[u][s], n)
      /\ \A v \in Users, y \in Statuses : v # u \/ y # s => stats'[v][y] = S[v][y]
  <2>1. u \in Users /\ s \in Statuses /\ Time(u) \in Nat
    BY <1>0
  <2>2. /\ Inserting(S, u, s)[u][s] = Longer(S[u][s], Time(u))
        /\ \A v \in Users, y \in Statuses : v # u \/ y # s => Inserting(S, u, s)[v][y] = S[v][y]
    BY <2>1, InsertingIs
  <2>3. QED
    BY <1>1, <2>2
<1>4. Course(d)
  BY <1>2 DEF Course
<1>5. AsOf(stats'[u][s], Having(u, s), n, row) /\ NoneGone(stats'[u][s])
  <2>1. m \notin Having(u, s) /\ m + 1 \in Having(u, s) /\ Having(u, s) \in SUBSET Nat
    BY <1>0, LastChange, PastFacts DEF m
  <2>2. AsOf(S[u][s], Having(u, s), m, 0) /\ NoneGone(S[u][s])
    BY <1>0 DEF m, StatusesReady
  <2>3. S[u][s] \in Seq(Rows)
    BY <1>0 DEF Table
  <2>4. /\ AsOf(Longer(S[u][s], m + 1), Having(u, s), m + 1, Len(S[u][s]) + 1)
        /\ NoneGone(Longer(S[u][s], m + 1))
    BY <1>0, <2>1, <2>2, <2>3, InsertedAsOf
  <2>5. QED
    BY <1>0, <1>3, <2>4
<1>6. ASSUME NEW y \in Statuses, y # s
      PROVE  AsOf(stats'[u][y], Having(u, y), n, 0) /\ NoneGone(stats'[u][y])
  <2>1. stats'[u][y] = S[u][y] /\ S[u][y] \in Seq(Rows) /\ NoneGone(S[u][y])
    BY <1>0, <1>3, <1>6 DEF Table, StatusesReady
  <2>2. CASE y = c.before.status
    BY <2>1, <2>2 DEF StatusesReady
  <2>3. CASE y # c.before.status
    <3>1. m \notin Having(u, y) /\ m + 1 \notin Having(u, y) /\ Having(u, y) \in SUBSET Nat
      BY <1>0, <1>6, <2>3, LastChange, PastFacts DEF m
    <3>2. AsOf(S[u][y], Having(u, y), m, 0)
      BY <2>3 DEF m, StatusesReady
    <3>3. AsOf(S[u][y], Having(u, y), m + 1, 0)
      BY <1>0, <2>1, <3>1, <3>2, Passes
    <3>4. QED
      BY <1>0, <2>1, <3>3
  <2>4. QED
    BY <2>2, <2>3
<1>7. StatusTold(u, d, stats')
  BY <1>2, <1>5, <1>6 DEF StatusTold, StatusTime, StatusRow
<1>8. GamesTold(u, d, acts)
  BY <1>2 DEF GamesTold, GameTime, GameRow, Behind
<1>9. Elsewhere(Statuses, u, S, stats')
  BY <1>3 DEF Elsewhere
<1>10. QED
  BY <1>1, <1>2, <1>4, <1>7, <1>8, <1>9 DEF Done

\* Rows that a select has not seen after the newest it has.
LEMMA FoundIsNewest ==
  ASSUME NEW K \in SUBSET Nat, NEW m \in Nat, NEW rows \in Seq(Rows), AsOf(rows, K, m, 0),
         NEW i \in NewestRow(rows)
  PROVE  i \in DOMAIN rows /\ NoneAfter(rows, i)
<1>1. i \in DOMAIN rows /\ \A j \in DOMAIN rows : j > i => j \notin Visible(rows)
  <2>1. Len(rows) \in Nat /\ \A j \in DOMAIN rows : j \in 1..Len(rows)
    BY RowsFacts
  <2>2. i \in DOMAIN rows /\ \A j \in Visible(rows) : j <= i
    BY DEF NewestRow, Visible
  <2>3. QED
    BY <2>1, <2>2
<1>2. ASSUME NEW j \in DOMAIN rows, j > i
      PROVE  rows[j].state = "gone"
  <2>1. j # 0
    <3>1. j \in 1..Len(rows) /\ Len(rows) \in Nat
      BY RowsFacts
    <3>2. QED
      BY <3>1
  <2>2. RowIs(rows[j], j, K, m, 0) /\ rows[j].state \notin {"open", "done"}
    BY <1>1, <1>2 DEF AsOf, Visible
  <2>3. QED
    BY <2>1, <2>2 DEF RowIs
<1>3. QED
  BY <1>1, <1>2 DEF NoneAfter

\* Finishing a session or committing it drops none.
LEMMA StillNone ==
  ASSUME NEW rows \in Seq(Rows), NoneGone(rows), NEW s, NEW i, NEW t,
         \/ Changes(rows, s, i, OpenedRow(rows[i]))
         \/ Changes(rows, s, i, EndedRow(rows[i], t))
  PROVE  NoneGone(s)
<1>1. /\ i \in DOMAIN rows /\ DOMAIN s = DOMAIN rows
      /\ \A j \in DOMAIN rows : j # i => s[j] = rows[j]
      /\ s[i] = OpenedRow(rows[i]) \/ s[i] = EndedRow(rows[i], t)
  BY DEF Changes
<1>2. rows[i] \in Rows /\ rows[i].state # "gone"
  BY <1>1, RowsFacts DEF NoneGone
<1>3. s[i].state # "gone"
  BY <1>1, <1>2 DEF OpenedRow, EndedRow, Rows
<1>4. QED
  BY <1>1, <1>3 DEF NoneGone

\* A step of h, at work for u.
StepTold(h, u) ==
  /\ Elsewhere(Games, u, acts, acts')
  /\ Elsewhere(Statuses, u, stats, stats')
  /\ UNCHANGED <<past, drop>>
  /\ \E d : run' = [run EXCEPT ![h] = d] /\ Done(u, d, acts', stats')

LEMMA HandleTold ==
  ASSUME IInv, NEW h \in Handlers, Handle(h), Course(run[h]), Told(run[h].user, run[h])
  PROVE  StepTold(h, run[h].user)
<1>0. PICK c : c = run[h]
  OBVIOUS
<1> DEFINE u == c.user
           n == Time(u)
           now == Now(u)
<1> SUFFICES StepTold(h, u)
  BY <1>0
<1>m. Course(c) /\ Told(u, c)
  BY <1>0
<1>a. acts \in Table(Games) /\ stats \in Table(Statuses)
  BY DEF IInv, Base
<1>b. c \in Coroutines /\ Formed(c) /\ HoldsRow(c, acts) /\ HoldsStatus(c, stats) /\ c # Idle
  <2>1. c.pc # "idle"
    BY <1>0, HandlesAtWork
  <2>2. c # Idle
    BY <2>1 DEF Idle
  <2>3. QED
    BY <1>0, <2>1, <2>2, AtWork
<1>c. /\ u \in Users /\ n \in Nat \ {0} /\ n >= 2 /\ c.before = past[u][n - 1]
      /\ n - 1 \in Nat \ {0} /\ (n - 1) + 1 = n
      /\ c.before.status \in Statuses /\ now.status \in Statuses /\ c.at \in Nat
  <2>1. u \in Users /\ c.before.status \in Statuses /\ c.at \in Nat
    BY <1>b DEF Coroutines, Presences
  <2>2. n \in Nat \ {0} /\ now.status \in Statuses
    BY <2>1, NowIsPresence DEF Presences
  <2>3. n >= 2 /\ c.before = past[u][n - 1]
    BY <1>m DEF Course
  <2>4. QED
    BY <2>1, <2>2, <2>3
<1>d. GamesTold(u, c, acts) /\ StatusTold(u, c, stats)
  BY <1>m DEF Told
<1>e. c.pc \notin {"idle", "create"} => StatusBehind(u, stats)
  BY <1>d DEF StatusBehind, StatusTold, StatusTime, StatusRow
<1>f. ASSUME NEW d \in Coroutines, d.user = u, AtLoop(d), c.pc \notin {"idle", "create"},
             NEW T \in Table(Games), Elsewhere(Games, u, acts, T), LoopTold(u, d, T),
             GoOn(h, d, T), UNCHANGED <<past, stats, drop>>
      PROVE  StepTold(h, u)
  <2>1. /\ Elsewhere(Games, u, T, acts')
        /\ \E e : run' = [run EXCEPT ![h] = e] /\ Done(u, e, acts', stats)
    BY <1>e, <1>f, GoOnTold
  <2>2. Elsewhere(Games, u, acts, acts') /\ Elsewhere(Statuses, u, stats, stats')
    BY <1>f, <2>1 DEF Elsewhere
  <2>3. stats' = stats
    BY <1>f
  <2>4. QED
    BY <1>f, <2>1, <2>2, <2>3 DEF StepTold
<1>g. Elsewhere(Games, u, acts, acts) /\ Elsewhere(Statuses, u, stats, stats)
  BY DEF Elsewhere
<1>h. /\ \A s : Having(u, s) \in SUBSET Nat /\ \A g : Playing(u, g) \in SUBSET Nat
      /\ \A g : /\ n - 1 \in Playing(u, g) <=> g \in c.before.games
                /\ n \in Playing(u, g) <=> g \in now.games
      /\ \A s : /\ n - 1 \in Having(u, s) <=> c.before.status = s
                /\ n \in Having(u, s) <=> now.status = s
  BY <1>c, LastChange, PastFacts
<1>i. \A g \in Games : acts[u][g] \in Seq(Rows)
  BY <1>a, <1>c DEF Table
<1>j. \A s \in Statuses : stats[u][s] \in Seq(Rows)
  BY <1>a, <1>c DEF Table
\* The loops begin: games that go on as they were need no statement.
<1>1. CASE ReadConfig(h)
  <2> DEFINE d == [c EXCEPT !.left = Started(c.before, now), !.ended = Ended(c.before, now)]
  <2>1. c.pc = "config" /\ GoOn(h, d, acts) /\ UNCHANGED <<past, stats, drop>>
    BY <1>0, <1>1 DEF ReadConfig
  <2>2. /\ d \in Coroutines /\ d.user = u /\ d.before = c.before
        /\ d.left = Started(c.before, now) /\ d.ended = Ended(c.before, now)
    <3>1. now \in Presences /\ c.before \in Presences
      BY <1>b, <1>c, NowIsPresence DEF Coroutines
    <3>2. Started(c.before, now) \in SUBSET Games /\ Ended(c.before, now) \in SUBSET Games
      BY <3>1 DEF Started, Ended, Presences
    <3>3. QED
      BY <1>b, <3>2 DEF Coroutines
  <2> HIDE DEF d
  <2>3. AtLoop(d)
    BY <1>c, <2>2 DEF AtLoop
  <2>4. ASSUME NEW g \in Games \ Excluded
        PROVE  AsOf(acts[u][g], Playing(u, g), LoopTime(u, d, g), 0)
    <3>1. AsOf(acts[u][g], Playing(u, g), n - 1, 0)
      BY <1>d, <2>1 DEF GamesTold, GameTime, GameRow, Behind
    <3>2. CASE g \in d.left \cup d.ended
      BY <3>1, <3>2 DEF LoopTime
    <3>3. CASE g \notin d.left \cup d.ended
      <4>1. g \in c.before.games <=> g \in now.games
        BY <2>2, <3>3 DEF Started, Ended
      <4>2. n - 1 \in Playing(u, g) <=> (n - 1) + 1 \in Playing(u, g)
        BY <1>c, <1>h, <4>1
      <4>3. AsOf(acts[u][g], Playing(u, g), (n - 1) + 1, 0)
        BY <1>c, <1>h, <1>i, <3>1, <4>2, Passes
      <4>4. QED
        BY <1>c, <3>3, <4>3 DEF LoopTime
    <3>4. QED
      BY <3>2, <3>3
  <2>5. LoopTold(u, d, acts)
    BY <1>d, <2>4 DEF LoopTold, GamesTold
  <2>6. QED
    BY <1>a, <1>f, <1>g, <2>1, <2>2, <2>3, <2>5
<1>2. CASE StartCommits(h)
  <2> DEFINE g == c.game
             T == Inserted(acts, u, g, c.row)
  <2>1. /\ c.pc = "start" /\ GoOn(h, c, T) /\ UNCHANGED <<past, stats, drop>>
    BY <1>0, <1>2 DEF StartCommits
  <2>2. /\ g \in Games /\ c.row \in DOMAIN acts[u][g]
        /\ g \in Started(c.before, now) /\ g \notin c.left /\ g \notin c.ended
        /\ c.left \subseteq Started(c.before, now) /\ c.ended \subseteq Ended(c.before, now)
    <3>1. g \in Games /\ c.row \in DOMAIN acts[u][g]
      BY <1>b, <2>1 DEF Formed, HoldsRow
    <3>2. /\ g \in Started(c.before, now) /\ g \notin c.left
          /\ c.left \subseteq Started(c.before, now) /\ c.ended \subseteq Ended(c.before, now)
      BY <1>m, <2>1 DEF Course
    <3>3. QED
      BY <3>1, <3>2, NotBoth
  <2>3. OneRow(Games, acts, T, u, g, c.row, OpenedRow(acts[u][g][c.row]))
    BY <1>a, <1>c, <2>2, InsertedIs
  <2> HIDE DEF T
  <2>4. AsOf(T[u][g], Playing(u, g), n, 0)
    <3>1. GameTime(u, c, g) = n /\ GameRow(c, g) = c.row /\ g \in Games \ Excluded
      BY <2>1, <2>2 DEF GameTime, GameRow, Behind, Started
    <3>2. AsOf(acts[u][g], Playing(u, g), n, c.row)
      BY <1>d, <3>1 DEF GamesTold
    <3>3. Changes(acts[u][g], T[u][g], c.row, OpenedRow(acts[u][g][c.row]))
      BY <2>3 DEF OneRow
    <3>4. n \in Nat /\ Playing(u, g) \in SUBSET Nat /\ acts[u][g] \in Seq(Rows)
      BY <1>c, <1>h, <1>i, <2>2
    <3>5. QED
      BY <3>2, <3>3, <3>4, CommittedAsOf
  <2>5. LoopTold(u, c, T)
    <3>1. ASSUME NEW y \in Games \ Excluded
          PROVE  AsOf(T[u][y], Playing(u, y), LoopTime(u, c, y), 0)
      <4>1. CASE y = g
        BY <2>2, <2>4, <4>1 DEF LoopTime
      <4>2. CASE y # g
        <5>1. GameTime(u, c, y) = LoopTime(u, c, y) /\ GameRow(c, y) = 0
          BY <2>1, <4>2 DEF GameTime, GameRow, Behind, LoopTime
        <5>2. T[u][y] = acts[u][y]
          BY <1>c, <2>3, <4>2 DEF OneRow
        <5>3. QED
          BY <1>d, <5>1, <5>2 DEF GamesTold
      <4>3. QED
        BY <4>1, <4>2
    <3>2. \A y \in Games \cap Excluded : T[u][y] = acts[u][y]
      BY <1>c, <2>2, <2>3 DEF OneRow, Started
    <3>3. QED
      BY <1>d, <3>1, <3>2 DEF LoopTold, GamesTold
  <2>6. AtLoop(c)
    BY <1>c, <2>2 DEF AtLoop
  <2>7. T \in Table(Games) /\ Elsewhere(Games, u, acts, T)
    BY <2>3 DEF OneRow, Elsewhere
  <2>8. QED
    BY <1>b, <1>f, <2>1, <2>5, <2>6, <2>7
<1>3. CASE FindGame(h)
  <2> DEFINE g == c.game
  <2>0. FindGame(h) /\ c = run[h] /\ u = run[h].user /\ g = run[h].game
    BY <1>0, <1>3
  <2>a. /\ c.pc = "find"
        /\ \/ NewestRow(acts[u][g]) = {} /\ GoOn(h, c, acts)
           \/ /\ \E i \in NewestRow(acts[u][g]) :
                   run' = [run EXCEPT ![h] = [c EXCEPT !.pc = "finish", !.row = i, !.at = n]]
              /\ UNCHANGED acts
        /\ UNCHANGED <<past, stats, drop>>
    BY <2>0, Zenon DEF FindGame
  <2>1. c.pc = "find"
    BY <2>a
  <2>2. /\ g \in Games /\ g \in Ended(c.before, now) /\ g \notin c.ended /\ c.left = {}
        /\ c.ended \subseteq Ended(c.before, now)
        /\ n - 1 \in Playing(u, g) /\ n \notin Playing(u, g)
    <3>1. g \in Games
      BY <1>b, <2>1 DEF Formed
    <3>2. /\ g \in Ended(c.before, now) /\ g \notin c.ended /\ c.left = {}
          /\ c.ended \subseteq Ended(c.before, now)
      BY <1>m, <2>1 DEF Course
    <3>3. QED
      BY <1>h, <3>1, <3>2 DEF Ended
  <2>3. g \notin Excluded => AsOf(acts[u][g], Playing(u, g), n - 1, 0)
    BY <1>d, <2>1, <2>2 DEF GamesTold, GameTime, GameRow, Behind
  <2>4. ASSUME NewestRow(acts[u][g]) = {}, GoOn(h, c, acts), UNCHANGED <<past, stats, drop>>
        PROVE  StepTold(h, u)
    <3>1. ASSUME NEW y \in Games \ Excluded
          PROVE  AsOf(acts[u][y], Playing(u, y), LoopTime(u, c, y), 0)
      <4>1. CASE y = g
        <5>1. AsOf(acts[u][g], Playing(u, g), (n - 1) + 1, 0)
          BY <1>c, <1>h, <1>i, <2>2, <2>3, <2>4, <4>1, NothingAsOf
        <5>2. QED
          BY <1>c, <2>2, <4>1, <5>1 DEF LoopTime
      <4>2. CASE y # g
        <5>1. GameTime(u, c, y) = LoopTime(u, c, y) /\ GameRow(c, y) = 0
          BY <2>1, <4>2 DEF GameTime, GameRow, Behind, LoopTime
        <5>2. QED
          BY <1>d, <5>1 DEF GamesTold
      <4>3. QED
        BY <4>1, <4>2
    <3>2. LoopTold(u, c, acts)
      BY <1>d, <3>1 DEF LoopTold, GamesTold
    <3>3. AtLoop(c)
      BY <1>c, <2>2 DEF AtLoop
    <3>4. QED
      BY <1>a, <1>b, <1>f, <1>g, <2>1, <2>4, <3>2, <3>3
  <2>5. ASSUME NEW i \in NewestRow(acts[u][g]),
               run' = [run EXCEPT ![h] = [c EXCEPT !.pc = "finish", !.row = i, !.at = n]],
               UNCHANGED <<past, acts, stats, drop>>
        PROVE  StepTold(h, u)
    <3> DEFINE d == [c EXCEPT !.pc = "finish", !.row = i, !.at = n]
    <3>1. /\ d.pc = "finish" /\ d.user = u /\ d.game = g /\ d.row = i /\ d.at = n
          /\ d.left = c.left /\ d.ended = c.ended /\ d.before = c.before /\ d # Idle
      BY <1>b DEF Coroutines, Idle
    <3>2. run' = [run EXCEPT ![h] = d]
      BY <2>5
    <3> HIDE DEF d
    <3>3. Course(d)
      BY <1>c, <2>2, <3>1 DEF Course
    <3>4. g \notin Excluded
      <4>1. i \in DOMAIN acts[u][g]
        BY DEF NewestRow, Visible
      <4>2. acts[u][g] # <<>>
        BY <4>1
      <4>3. QED
        BY <1>d, <2>2, <4>2 DEF GamesTold
    <3>5. NoneAfter(acts[u][g], i)
      BY <1>c, <1>h, <1>i, <2>2, <2>3, <3>4, FoundIsNewest
    <3>6. GamesTold(u, d, acts)
      <4>1. \A y \in Games : GameTime(u, d, y) = GameTime(u, c, y) /\ GameRow(d, y) = GameRow(c, y)
        BY <2>1, <3>1 DEF GameTime, GameRow, Behind
      <4>2. QED
        BY <1>d, <3>1, <3>5, <4>1 DEF GamesTold
    <3>7. StatusTold(u, d, stats)
      BY <1>e, <2>1, <3>1 DEF StatusBehind, StatusTold, StatusTime, StatusRow
    <3>8. Done(u, d, acts, stats)
      BY <3>1, <3>3, <3>6, <3>7 DEF Done
    <3>9. acts' = acts /\ stats' = stats
      BY <2>5
    <3>10. QED
      BY <1>g, <2>5, <3>2, <3>8, <3>9 DEF StepTold
  <2>6. QED
    BY <2>a, <2>4, <2>5, Zenon
<1>4. CASE FinishCommits(h)
  <2> DEFINE g == c.game
             T == Finished(acts, u, g, c.row, c.at)
  <2>1. /\ c.pc = "finish" /\ GoOn(h, c, T) /\ UNCHANGED <<past, stats, drop>>
    BY <1>0, <1>4 DEF FinishCommits
  <2>2. /\ g \in Games /\ c.row \in DOMAIN acts[u][g] /\ c.at = n
        /\ g \in Ended(c.before, now) /\ g \notin c.ended /\ c.left = {}
        /\ c.ended \subseteq Ended(c.before, now)
        /\ n - 1 \in Playing(u, g) /\ n \notin Playing(u, g)
    <3>1. g \in Games /\ c.row \in DOMAIN acts[u][g]
      BY <1>b, <2>1 DEF Formed, HoldsRow
    <3>2. /\ g \in Ended(c.before, now) /\ g \notin c.ended /\ c.left = {}
          /\ c.ended \subseteq Ended(c.before, now) /\ c.at = n
      BY <1>m, <2>1 DEF Course
    <3>3. QED
      BY <1>h, <3>1, <3>2 DEF Ended
  <2>3. g \notin Excluded
    <3>1. acts[u][g] # <<>>
      BY <2>2
    <3>2. QED
      BY <1>d, <2>2, <3>1 DEF GamesTold
  <2>4. OneRow(Games, acts, T, u, g, c.row, EndedRow(acts[u][g][c.row], n))
    BY <1>a, <1>c, <2>2, FinishedIs
  <2> HIDE DEF T
  <2>5. AsOf(T[u][g], Playing(u, g), n, 0)
    <3>1. GameTime(u, c, g) = n - 1 /\ GameRow(c, g) = 0
      BY <2>1 DEF GameTime, GameRow, Behind
    <3>2. PICK m \in Nat \ {0} : m = n - 1 /\ n = m + 1
      BY <1>c
    <3>3. AsOf(acts[u][g], Playing(u, g), m, 0) /\ NoneAfter(acts[u][g], c.row)
      BY <1>d, <2>1, <2>2, <2>3, <3>1, <3>2 DEF GamesTold
    <3>4. Changes(acts[u][g], T[u][g], c.row, EndedRow(acts[u][g][c.row], m + 1))
      BY <2>4, <3>2 DEF OneRow
    <3>5. m \in Playing(u, g) /\ m + 1 \notin Playing(u, g)
      BY <2>2, <3>2
    <3>6. Playing(u, g) \in SUBSET Nat /\ acts[u][g] \in Seq(Rows)
      BY <1>h, <1>i, <2>2
    <3>7. AsOf(T[u][g], Playing(u, g), m + 1, 0)
      BY <3>3, <3>4, <3>5, <3>6, FinishedAsOf
    <3>8. QED
      BY <3>2, <3>7
  <2>6. LoopTold(u, c, T)
    <3>1. ASSUME NEW y \in Games \ Excluded
          PROVE  AsOf(T[u][y], Playing(u, y), LoopTime(u, c, y), 0)
      <4>1. CASE y = g
        BY <2>2, <2>5, <4>1 DEF LoopTime
      <4>2. CASE y # g
        <5>1. GameTime(u, c, y) = LoopTime(u, c, y) /\ GameRow(c, y) = 0
          BY <2>1, <4>2 DEF GameTime, GameRow, Behind, LoopTime
        <5>2. T[u][y] = acts[u][y]
          BY <1>c, <2>4, <4>2 DEF OneRow
        <5>3. QED
          BY <1>d, <5>1, <5>2 DEF GamesTold
      <4>3. QED
        BY <4>1, <4>2
    <3>2. \A y \in Games \cap Excluded : T[u][y] = acts[u][y]
      BY <1>c, <2>2, <2>3, <2>4 DEF OneRow
    <3>3. QED
      BY <1>d, <3>1, <3>2 DEF LoopTold, GamesTold
  <2>7. AtLoop(c) /\ T \in Table(Games) /\ Elsewhere(Games, u, acts, T)
    BY <1>c, <2>2, <2>4 DEF AtLoop, OneRow, Elsewhere
  <2>8. QED
    BY <1>b, <1>f, <2>1, <2>6, <2>7
\* The loops are over: every game is told as of now.
<1>5. CASE Leave(h)
  <2>1. /\ c.pc = "leave" /\ UNCHANGED <<past, acts, stats, drop>>
        /\ run' = [run EXCEPT ![h] = IF c.before.status = now.status THEN Idle
                                     ELSE [c EXCEPT !.pc = "select", !.status = now.status]]
    BY <1>0, <1>5 DEF Leave
  <2>2. acts' = acts /\ stats' = stats
    BY <2>1
  <2>3. ASSUME NEW d, d.pc \in {"idle", "select"}
        PROVE  GamesTold(u, d, acts)
    <3>1. \A y \in Games : GameTime(u, d, y) = GameTime(u, c, y) /\ GameRow(d, y) = GameRow(c, y)
      BY <2>1, <2>3 DEF GameTime, GameRow, Behind
    <3>2. QED
      BY <1>d, <2>3, <3>1 DEF GamesTold
  <2>4. CASE c.before.status = now.status
    <3>1. run' = [run EXCEPT ![h] = Idle] /\ Idle.pc = "idle"
      BY <2>1, <2>4 DEF Idle
    <3>2. StatusTold(u, Idle, stats)
      <4>1. ASSUME NEW s \in Statuses
            PROVE  AsOf(stats[u][s], Having(u, s), n, 0) /\ NoneGone(stats[u][s])
        <5>1. AsOf(stats[u][s], Having(u, s), n - 1, 0) /\ NoneGone(stats[u][s])
          BY <1>e, <2>1 DEF StatusBehind
        <5>2. n - 1 \in Having(u, s) <=> (n - 1) + 1 \in Having(u, s)
          BY <1>c, <1>h, <2>4
        <5>3. AsOf(stats[u][s], Having(u, s), (n - 1) + 1, 0)
          BY <1>c, <1>h, <1>j, <5>1, <5>2, Passes
        <5>4. QED
          BY <1>c, <5>1, <5>3
      <4>2. QED
        BY <3>1, <4>1 DEF StatusTold, StatusTime, StatusRow
    <3>3. Done(u, Idle, acts, stats)
      BY <2>3, <3>1, <3>2 DEF Done
    <3>4. QED
      BY <1>g, <2>1, <2>2, <3>1, <3>3 DEF StepTold
  <2>5. CASE c.before.status # now.status
    <3> DEFINE d == [c EXCEPT !.pc = "select", !.status = now.status]
    <3>1. /\ d.pc = "select" /\ d.user = u /\ d.status = now.status /\ d.before = c.before
          /\ d.left = c.left /\ d.ended = c.ended /\ d # Idle
      BY <1>b DEF Coroutines, Idle
    <3>2. run' = [run EXCEPT ![h] = d]
      BY <2>1, <2>5
    <3> HIDE DEF d
    <3>3. Course(d)
      BY <1>m, <2>5, <3>1 DEF Course
    <3>4. StatusTold(u, d, stats)
      BY <1>e, <2>1, <3>1 DEF StatusBehind, StatusTold, StatusTime, StatusRow
    <3>5. Done(u, d, acts, stats)
      BY <2>3, <3>1, <3>3, <3>4 DEF Done
    <3>6. QED
      BY <1>g, <2>1, <2>2, <3>2, <3>5 DEF StepTold
  <2>6. QED
    BY <2>4, <2>5
<1>k. ASSUME c.pc \in {"select", "update"},
             NEW S \in Table(Statuses), Elsewhere(Statuses, u, stats, S), StatusesReady(c, S),
             BeginStatus(h, c, S), UNCHANGED <<past, acts, drop>>
      PROVE  StepTold(h, u)
  <2>1. /\ Elsewhere(Statuses, u, S, stats')
        /\ \E d : run' = [run EXCEPT ![h] = d] /\ Done(u, d, acts, stats')
    BY <1>b, <1>d, <1>k, <1>m, BeginStatusTold
  <2>2. Elsewhere(Statuses, u, stats, stats')
    BY <1>k, <2>1 DEF Elsewhere
  <2>3. acts' = acts
    BY <1>k
  <2>4. QED
    BY <1>g, <1>k, <2>1, <2>2, <2>3 DEF StepTold
<1>l. ASSUME c.pc \in {"select", "update"}
      PROVE  /\ c.status = now.status /\ c.status # c.before.status
             /\ n - 1 \in Having(u, c.before.status) /\ n \notin Having(u, c.before.status)
             /\ \A s \in Statuses :
                  AsOf(stats[u][s], Having(u, s), n - 1, 0) /\ NoneGone(stats[u][s])
  <2>1. c.status = now.status /\ c.status # c.before.status
    BY <1>l, <1>m DEF Course
  <2>2. QED
    BY <1>e, <1>h, <1>l, <2>1 DEF StatusBehind
<1>6. CASE SelectStatus(h)
  <2> DEFINE s == c.before.status
  <2>0. SelectStatus(h) /\ c = run[h]
    BY <1>0, <1>6
  <2>a. /\ c.pc = "select"
        /\ \/ NewestRow(stats[u][s]) = {} /\ BeginStatus(h, c, stats)
           \/ /\ \E i \in NewestRow(stats[u][s]) :
                   run' = [run EXCEPT ![h] = [c EXCEPT !.pc = "update", !.row = i, !.at = n]]
              /\ UNCHANGED stats
        /\ UNCHANGED <<past, acts, drop>>
    BY <2>0, Zenon DEF SelectStatus
  <2>1. c.pc = "select"
    BY <2>a
  <2>2. /\ c.status = now.status /\ c.status # s
        /\ n - 1 \in Having(u, s) /\ n \notin Having(u, s)
        /\ \A y \in Statuses : AsOf(stats[u][y], Having(u, y), n - 1, 0) /\ NoneGone(stats[u][y])
    BY <1>l, <2>1
  <2>3. ASSUME NewestRow(stats[u][s]) = {}, BeginStatus(h, c, stats),
               UNCHANGED <<past, acts, drop>>
        PROVE  StepTold(h, u)
    <3>1. AsOf(stats[u][s], Having(u, s), (n - 1) + 1, 0)
      BY <1>c, <1>h, <1>j, <2>2, <2>3, NothingAsOf
    <3>2. StatusesReady(c, stats)
      BY <1>c, <2>2, <3>1 DEF StatusesReady
    <3>3. QED
      BY <1>a, <1>g, <1>k, <2>1, <2>3, <3>2
  <2>4. ASSUME NEW i \in NewestRow(stats[u][s]),
               run' = [run EXCEPT ![h] = [c EXCEPT !.pc = "update", !.row = i, !.at = n]],
               UNCHANGED <<past, acts, stats, drop>>
        PROVE  StepTold(h, u)
    <3> DEFINE d == [c EXCEPT !.pc = "update", !.row = i, !.at = n]
    <3>1. /\ d.pc = "update" /\ d.user = u /\ d.row = i /\ d.at = n /\ d.status = c.status
          /\ d.left = c.left /\ d.ended = c.ended /\ d.before = c.before /\ d # Idle
      BY <1>b DEF Coroutines, Idle
    <3>2. run' = [run EXCEPT ![h] = d]
      BY <2>4
    <3> HIDE DEF d
    <3>3. Course(d)
      BY <1>m, <2>1, <3>1 DEF Course
    <3>4. NoneAfter(stats[u][s], i)
      BY <1>c, <1>h, <1>j, <2>2, <2>4, FoundIsNewest
    <3>5. StatusTold(u, d, stats)
      BY <2>2, <3>1, <3>4 DEF StatusTold, StatusTime, StatusRow
    <3>6. GamesTold(u, d, acts)
      <4>1. \A y \in Games : GameTime(u, d, y) = GameTime(u, c, y) /\ GameRow(d, y) = GameRow(c, y)
        BY <2>1, <3>1 DEF GameTime, GameRow, Behind
      <4>2. QED
        BY <1>d, <3>1, <4>1 DEF GamesTold
    <3>7. Done(u, d, acts, stats)
      BY <3>1, <3>3, <3>5, <3>6 DEF Done
    <3>8. acts' = acts /\ stats' = stats
      BY <2>4
    <3>9. QED
      BY <1>g, <2>4, <3>2, <3>7, <3>8 DEF StepTold
  <2>5. QED
    BY <2>a, <2>3, <2>4, Zenon
<1>7. CASE UpdateCommits(h)
  <2> DEFINE s == c.before.status
             S == Finished(stats, u, s, c.row, c.at)
  <2>1. /\ c.pc = "update" /\ BeginStatus(h, c, S) /\ UNCHANGED <<past, acts, drop>>
    BY <1>0, <1>7 DEF UpdateCommits
  <2>2. s \in Statuses /\ c.row \in DOMAIN stats[u][s] /\ c.at = n
    <3>1. c.row \in DOMAIN stats[u][s]
      BY <1>b, <2>1 DEF HoldsStatus
    <3>2. c.at = n
      BY <1>m, <2>1 DEF Course
    <3>3. QED
      BY <1>c, <3>1, <3>2
  <2>3. OneRow(Statuses, stats, S, u, s, c.row, EndedRow(stats[u][s][c.row], n))
    BY <1>a, <1>c, <2>2, FinishedIs
  <2> HIDE DEF S
  <2>4. /\ \A y \in Statuses : AsOf(stats[u][y], Having(u, y), n - 1, 0) /\ NoneGone(stats[u][y])
        /\ n - 1 \in Having(u, s) /\ n \notin Having(u, s)
    BY <1>l, <2>1
  <2>5. NoneAfter(stats[u][s], c.row)
    BY <1>d, <2>1 DEF StatusTold
  <2>6. Changes(stats[u][s], S[u][s], c.row, EndedRow(stats[u][s][c.row], n))
    BY <2>3 DEF OneRow
  <2>7. stats[u][s] \in Seq(Rows) /\ Having(u, s) \in SUBSET Nat
    BY <1>h, <1>j, <2>2
  <2>8. AsOf(S[u][s], Having(u, s), n, 0)
    <3>1. PICK m \in Nat \ {0} : m = n - 1 /\ n = m + 1
      BY <1>c
    <3>2. /\ AsOf(stats[u][s], Having(u, s), m, 0)
          /\ m \in Having(u, s) /\ m + 1 \notin Having(u, s)
          /\ Changes(stats[u][s], S[u][s], c.row, EndedRow(stats[u][s][c.row], m + 1))
      BY <2>2, <2>4, <2>6, <3>1
    <3>3. AsOf(S[u][s], Having(u, s), m + 1, 0)
      BY <2>5, <2>7, <3>2, FinishedAsOf, Zenon
    <3>4. QED
      BY <3>1, <3>3
  <2>9. NoneGone(S[u][s])
    BY <2>2, <2>4, <2>6, <2>7, StillNone, Zenon
  <2>10. \A y \in Statuses : y # s => S[u][y] = stats[u][y]
    BY <1>c, <2>3, Zenon DEF OneRow
  <2>11. StatusesReady(c, S)
    <3>1. ASSUME NEW y \in Statuses
          PROVE  /\ AsOf(S[u][y], Having(u, y), IF y = s THEN n ELSE n - 1, 0)
                 /\ NoneGone(S[u][y])
      <4>1. CASE y = s
        BY <2>8, <2>9, <4>1
      <4>2. CASE y # s
        BY <2>4, <2>10, <4>2
      <4>3. QED
        BY <4>1, <4>2
    <3>2. QED
      BY <3>1 DEF StatusesReady
  <2>12. S \in Table(Statuses) /\ Elsewhere(Statuses, u, stats, S)
    BY <1>c, <2>3, Zenon DEF OneRow, Elsewhere
  <2>13. QED
    BY <1>k, <2>1, <2>11, <2>12
<1>8. CASE CreateCommits(h)
  <2> DEFINE s == c.status
  <2>1. /\ c.pc = "create" /\ stats' = Inserted(stats, u, s, c.row)
        /\ run' = [run EXCEPT ![h] = Idle] /\ UNCHANGED <<past, acts, drop>>
    BY <1>0, <1>8 DEF CreateCommits
  <2>2. /\ s \in Statuses /\ c.row \in DOMAIN stats[u][s] /\ stats[u][s] \in Seq(Rows)
        /\ n \in Nat /\ Having(u, s) \in SUBSET Nat
    <3>1. s \in Statuses /\ c.row \in DOMAIN stats[u][s]
      BY <1>b, <2>1 DEF Formed, HoldsStatus
    <3>2. QED
      BY <1>c, <1>h, <1>j, <3>1
  <2>3. OneRow(Statuses, stats, stats', u, s, c.row, OpenedRow(stats[u][s][c.row]))
    BY <1>a, <1>c, <2>1, <2>2, InsertedIs
  <2>4. /\ Changes(stats[u][s], stats'[u][s], c.row, OpenedRow(stats[u][s][c.row]))
        /\ \A y \in Statuses : y # s => stats'[u][y] = stats[u][y]
    BY <1>c, <2>3 DEF OneRow
  <2>5. \A y \in Statuses :
          AsOf(stats[u][y], Having(u, y), n, IF y = s THEN c.row ELSE 0) /\ NoneGone(stats[u][y])
    BY <1>d, <2>1 DEF StatusTold, StatusTime, StatusRow
  <2>6. AsOf(stats[u][s], Having(u, s), n, c.row) /\ NoneGone(stats[u][s])
    BY <2>2, <2>5
  <2>7. AsOf(stats'[u][s], Having(u, s), n, 0)
    BY <2>2, <2>4, <2>6, CommittedAsOf
  <2>8. NoneGone(stats'[u][s])
    BY <2>2, <2>4, <2>6, StillNone
  <2>9. Idle.pc = "idle"
    BY DEF Idle
  <2>10. StatusTold(u, Idle, stats')
    <3>1. ASSUME NEW y \in Statuses
          PROVE  AsOf(stats'[u][y], Having(u, y), n, 0) /\ NoneGone(stats'[u][y])
      BY <2>4, <2>5, <2>7, <2>8
    <3>2. QED
      BY <2>9, <3>1 DEF StatusTold, StatusTime, StatusRow
  <2>11. GamesTold(u, Idle, acts)
    <3>1. \A y \in Games : GameTime(u, Idle, y) = GameTime(u, c, y)
                            /\ GameRow(Idle, y) = GameRow(c, y)
      BY <2>1, <2>9 DEF GameTime, GameRow, Behind
    <3>2. QED
      BY <1>d, <2>9, <3>1 DEF GamesTold
  <2>12. Done(u, Idle, acts, stats')
    BY <2>10, <2>11 DEF Done
  <2>13. Elsewhere(Statuses, u, stats, stats') /\ acts' = acts
    BY <2>1, <2>3 DEF OneRow, Elsewhere
  <2>14. QED
    BY <1>g, <2>1, <2>12, <2>13 DEF StepTold
<1>9. QED
  BY <1>0, <1>1, <1>2, <1>3, <1>4, <1>5, <1>6, <1>7, <1>8 DEF Handle

-----------------------------------------------------------------------------
(* Steps of the system. *)

LEMMA SameMember ==
  ASSUME NEW v \in Users, past'[v] = past[v]
  PROVE  /\ Time(v)' = Time(v) /\ Now(v)' = Now(v)
         /\ \A g : Playing(v, g)' = Playing(v, g)
         /\ \A s : Having(v, s)' = Having(v, s)
  BY DEF Time, Now, Playing, Having

\* A member of whom nothing is written.
LEMMA ToldElsewhere ==
  ASSUME NEW v \in Users, past'[v] = past[v], NEW e, Formed(e), Told(v, e),
         \A g \in Games : acts'[v][g] = acts[v][g],
         \A s \in Statuses : stats'[v][s] = stats[v][s]
  PROVE  Told(v, e)'
<1>1. /\ Time(v)' = Time(v)
      /\ \A g : Playing(v, g)' = Playing(v, g)
      /\ \A s : Having(v, s)' = Having(v, s)
  BY SameMember
<1>2. \A g : GameTime(v, e, g)' = GameTime(v, e, g) /\ GameRow(e, g)' = GameRow(e, g)
  BY <1>1 DEF GameTime, GameRow, Behind
<1>3. StatusTime(v, e)' = StatusTime(v, e) /\ \A s : StatusRow(e, s)' = StatusRow(e, s)
  BY <1>1 DEF StatusTime, StatusRow
<1>4. /\ e.pc = "finish" => e.game \in Games
      /\ e.pc = "update" => e.before.status \in Statuses
  BY DEF Formed, Idle, Coroutines, Presences
<1>5. GamesTold(v, e, acts)'
  <2>1. \A g \in Games \ Excluded :
          AsOf(acts'[v][g], Playing(v, g)', GameTime(v, e, g)', GameRow(e, g)')
    BY <1>1, <1>2 DEF Told, GamesTold
  <2>2. \A g \in Games \cap Excluded : acts'[v][g] = <<>>
    BY DEF Told, GamesTold
  <2>3. e.pc = "finish" => NoneAfter(acts'[v][e.game], e.row)
    BY <1>4 DEF Told, GamesTold
  <2>4. QED
    BY <2>1, <2>2, <2>3 DEF GamesTold
<1>6. StatusTold(v, e, stats)'
  <2>1. \A s \in Statuses :
          /\ AsOf(stats'[v][s], Having(v, s)', StatusTime(v, e)', StatusRow(e, s)')
          /\ NoneGone(stats'[v][s])
    BY <1>1, <1>3 DEF Told, StatusTold
  <2>2. e.pc = "update" => NoneAfter(stats'[v][e.before.status], e.row)
    BY <1>4 DEF Told, StatusTold
  <2>3. QED
    BY <2>1, <2>2 DEF StatusTold
<1>7. QED
  BY <1>5, <1>6 DEF Told

LEMMA CourseGoesOn ==
  ASSUME NEW e \in Coroutines, past'[e.user] = past[e.user], Course(e)
  PROVE  Course(e)'
  BY SameMember DEF Course, Coroutines

LEMMA ToldNow ==
  ASSUME NEW v \in Users, past' = past, NEW e,
         GamesTold(v, e, acts'), StatusTold(v, e, stats')
  PROVE  Told(v, e)'
<1>1. /\ Time(v)' = Time(v)
      /\ \A g : Playing(v, g)' = Playing(v, g)
      /\ \A s : Having(v, s)' = Having(v, s)
  BY SameMember
<1>2. \A g : GameTime(v, e, g)' = GameTime(v, e, g) /\ GameRow(e, g)' = GameRow(e, g)
  BY <1>1 DEF GameTime, GameRow, Behind
<1>3. StatusTime(v, e)' = StatusTime(v, e) /\ \A s : StatusRow(e, s)' = StatusRow(e, s)
  BY <1>1 DEF StatusTime, StatusRow
<1>4. GamesTold(v, e, acts)'
  BY <1>1, <1>2 DEF GamesTold
<1>5. StatusTold(v, e, stats)'
  BY <1>1, <1>3 DEF StatusTold
<1>6. QED
  BY <1>4, <1>5 DEF Told

LEMMA HandleCalm ==
  ASSUME IInv, CalmInv, NEW h \in Handlers, Handle(h)
  PROVE  CalmInv'
<1>1. run[h] # Idle /\ run[h] \in Coroutines
  <2>1. run[h].pc # "idle"
    BY HandlesAtWork
  <2>2. run[h] # Idle
    BY <2>1 DEF Idle
  <2>3. QED
    BY <2>1, <2>2, AtWork
<1>2. PICK u \in Users : u = run[h].user
  BY <1>1 DEF Coroutines
<1>3. Course(run[h]) /\ Told(u, run[h])
  BY <1>1, <1>2 DEF CalmInv
<1>4. /\ Elsewhere(Games, u, acts, acts') /\ Elsewhere(Statuses, u, stats, stats')
      /\ past' = past
      /\ \E d : run' = [run EXCEPT ![h] = d] /\ Done(u, d, acts', stats')
  BY <1>2, <1>3, HandleTold DEF StepTold
<1>5. PICK d : run' = [run EXCEPT ![h] = d] /\ Done(u, d, acts', stats')
  BY <1>4
<1>6. /\ run \in [Handlers -> Coroutines \cup {Idle}]
      /\ \A k \in Handlers : Formed(run[k])
      /\ run'[h] = d /\ \A k \in Handlers \ {h} : run'[k] = run[k]
  BY <1>5 DEF IInv, Base, Held
<1>7. d # Idle => d.user = u /\ Course(d)
  BY <1>5 DEF Done
<1>8. OneAtWork'
  BY <1>1, <1>2, <1>6, <1>7 DEF CalmInv, OneAtWork
<1>9. Told(u, d)'
  BY <1>4, <1>5, ToldNow DEF Done
<1>10. ASSUME NEW v \in Users, v # u, NEW e, Formed(e), Told(v, e)
       PROVE  Told(v, e)'
  BY <1>4, <1>10, ToldElsewhere DEF Elsewhere
<1>11. ASSUME NEW k \in Handlers, NEW e \in {run'[k]} \ {Idle}
       PROVE  Course(e)' /\ Told(e.user, e)'
  <2>1. CASE k = h
    <3>1. e = d /\ d # Idle /\ d.user = u /\ Course(d)
      BY <1>6, <1>7, <1>11, <2>1
    <3>2. Course(d)'
      BY <1>4, <3>1, SameMember, <1>2 DEF Course
    <3>3. QED
      BY <1>9, <3>1, <3>2
  <2>2. CASE k # h
    <3>1. e = run[k] /\ e \in Coroutines /\ Formed(e) /\ e # Idle
      BY <1>6, <1>11, <2>2
    <3>2. PICK v \in Users : v = e.user
      BY <3>1 DEF Coroutines
    <3>3. Course(e) /\ Told(v, e) /\ v # u
      BY <1>1, <1>2, <2>2, <3>1, <3>2 DEF CalmInv, OneAtWork
    <3>4. Course(e)' /\ Told(v, e)'
      BY <1>4, <1>10, <3>1, <3>3, CourseGoesOn
    <3>5. QED
      BY <3>2, <3>4
  <2>3. QED
    BY <2>1, <2>2
<1>12. ASSUME NEW v \in Users, ~Busy(v)'
       PROVE  Told(v, Idle)'
  <2>1. CASE v = u
    <3>1. d = Idle
      BY <1>6, <1>7, <1>12, <2>1 DEF Busy
    <3>2. QED
      BY <1>9, <2>1, <3>1
  <2>2. CASE v # u
    <3>1. ~Busy(v)
      BY <1>2, <1>6, <1>12, <2>2 DEF Busy
    <3>2. Told(v, Idle) /\ Formed(Idle)
      BY <3>1 DEF CalmInv, Formed
    <3>3. QED
      BY <1>10, <2>2, <3>2
  <2>3. QED
    BY <2>1, <2>2
<1>13. QED
  BY <1>8, <1>11, <1>12 DEF CalmInv

\* A member has changed, and nothing is written of it yet.
LEMMA ToldBefore ==
  ASSUME IInv, NEW u \in Users, Told(u, Idle), NEW p \in Presences,
         past' = [past EXCEPT ![u] = Append(@, p)], UNCHANGED <<acts, stats>>,
         NEW e, e.pc = "config"
  PROVE  Told(u, e)'
<1> DEFINE n == Time(u)
<1>1. n \in Nat \ {0} /\ past[u] \in Seq(Presences)
  BY PastFacts
<1>2. Time(u)' - 1 = n /\ \A k \in 1..n : past'[u][k] = past[u][k]
  BY <1>1, Unmoved DEF Time
<1>3. DOMAIN past[u] = 1..n /\ DOMAIN past'[u] = 1..(n + 1)
  BY <1>1, Unmoved DEF Time
<1>4. /\ \A g : Playing(u, g) \in SUBSET Nat /\ Playing(u, g)' \in SUBSET Nat
      /\ \A s : Having(u, s) \in SUBSET Nat /\ Having(u, s)' \in SUBSET Nat
  BY <1>1, <1>3 DEF Playing, Having
<1>5. /\ \A g : \A k \in 0..n : k \in Playing(u, g) <=> k \in Playing(u, g)'
      /\ \A s : \A k \in 0..n : k \in Having(u, s) <=> k \in Having(u, s)'
  BY <1>1, <1>2, <1>3 DEF Playing, Having
<1>6. Idle.pc = "idle"
  BY DEF Idle
<1>7. \A g : GameTime(u, e, g)' = n /\ GameRow(e, g)' = 0
  BY <1>2 DEF GameTime, GameRow, Behind
<1>8. StatusTime(u, e)' = n /\ \A s : StatusRow(e, s)' = 0
  BY <1>2 DEF StatusTime, StatusRow
<1>9. ASSUME NEW g \in Games \ Excluded
      PROVE  AsOf(acts[u][g], Playing(u, g)', n, 0)
  <2>1. AsOf(acts[u][g], Playing(u, g), n, 0)
    BY <1>6 DEF Told, GamesTold, GameTime, GameRow, Behind
  <2>2. acts[u][g] \in Seq(Rows)
    BY Unmoved DEF Table
  <2>3. QED
    BY <1>1, <1>4, <1>5, <2>1, <2>2, SamePastAsOf
<1>10. ASSUME NEW s \in Statuses
       PROVE  AsOf(stats[u][s], Having(u, s)', n, 0) /\ NoneGone(stats[u][s])
  <2>1. AsOf(stats[u][s], Having(u, s), n, 0) /\ NoneGone(stats[u][s])
    BY <1>6 DEF Told, StatusTold, StatusTime, StatusRow
  <2>2. stats[u][s] \in Seq(Rows)
    BY Unmoved DEF Table
  <2>3. QED
    BY <1>1, <1>4, <1>5, <2>1, <2>2, SamePastAsOf
<1>11. \A g \in Games \cap Excluded : acts[u][g] = <<>>
  BY DEF Told, GamesTold
<1> HIDE DEF n
<1>12. GamesTold(u, e, acts)'
  BY <1>7, <1>9, <1>11 DEF GamesTold
<1>13. StatusTold(u, e, stats)'
  BY <1>8, <1>10 DEF StatusTold
<1>14. QED
  BY <1>12, <1>13 DEF Told

LEMMA PresenceChangesCalm ==
  ASSUME Quiet, IInv, CalmInv, PresenceChanges
  PROVE  CalmInv'
<1>1. PICK u \in Users, p \in Presences :
        /\ ~Busy(u)
        /\ past' = [past EXCEPT ![u] = Append(@, p)]
        /\ \E H \in UNION {kSubset(n, {h \in Handlers : run[h] = Idle}) :
                            n \in 1..Copies} :
             run' = [h \in Handlers |->
                      IF h \notin H THEN run[h]
                      ELSE [pc |-> "config", user |-> u, before |-> Now(u),
                            left |-> {}, ended |-> {}, game |-> "none",
                            status |-> "none", row |-> 0, at |-> 0]]
  BY DEF PresenceChanges, Quiet
<1> DEFINE Free == {h \in Handlers : run[h] = Idle}
<1>2. PICK new : new = [pc |-> "config", user |-> u, before |-> Now(u),
                        left |-> {}, ended |-> {}, game |-> "none",
                        status |-> "none", row |-> 0, at |-> 0]
  OBVIOUS
<1>3. /\ new \in Coroutines /\ new.pc = "config" /\ new.user = u /\ new.before = Now(u)
      /\ new.left = {} /\ new.ended = {} /\ new # Idle
  BY <1>2, NowIsPresence DEF Coroutines, Idle
<1>a. PICK H \in UNION {kSubset(n, Free) : n \in 1..Copies} :
        run' = [h \in Handlers |-> IF h \notin H THEN run[h] ELSE new]
  BY <1>1, <1>2
\* One server is shared, and one handler is called.
<1>4. PICK x \in Handlers : H = {x} /\ run[x] = Idle
  <2>1. PICK n \in 1..1 : H \in kSubset(n, Free)
    BY <1>a DEF Quiet
  <2>2. H \in SUBSET Free /\ Cardinality(H) = 1
    BY <2>1 DEF kSubset
  <2>3. H \in SUBSET Handlers
    BY <2>2
  <2>4. IsFiniteSet(H)
    BY <2>3, CopiesAssumption, FS_Subset
  <2>5. PICK x : H = {x}
    BY <2>2, <2>4, FS_Singleton
  <2>6. QED
    BY <2>2, <2>5
<1>5. /\ run'[x] = new /\ \A k \in Handlers \ {x} : run'[k] = run[k]
      /\ run \in [Handlers -> Coroutines \cup {Idle}]
      /\ \A k \in Handlers : Formed(run[k])
  BY <1>4, <1>a DEF IInv, Base, Held
<1>6. UNCHANGED <<acts, stats>> /\ \A v \in Users \ {u} : past'[v] = past[v]
  BY <1>1, Unmoved DEF PresenceChanges
<1>7. \A k \in Handlers : run[k] # Idle => run[k].user # u
  BY <1>1 DEF Busy
<1>8. OneAtWork'
  BY <1>3, <1>4, <1>5, <1>7 DEF CalmInv, OneAtWork
<1>9. Told(u, new)'
  BY <1>1, <1>3, <1>6, ToldBefore DEF CalmInv
<1>10. Course(new)'
  <2>1. Time(u) \in Nat \ {0} /\ past[u] \in Seq(Presences)
    BY PastFacts
  <2>2. Time(u)' = Time(u) + 1 /\ past'[u][Time(u)] = Now(u)
    BY <1>1, <2>1, Unmoved DEF Time, Now
  <2>3. Time(u)' >= 2 /\ Time(u)' - 1 = Time(u)
    BY <2>1, <2>2
  <2>4. QED
    BY <1>3, <2>2, <2>3 DEF Course
<1>11. ASSUME NEW v \in Users \ {u}, NEW e, Formed(e), Told(v, e)
       PROVE  Told(v, e)'
  BY <1>6, <1>11, ToldElsewhere
<1>12. ASSUME NEW k \in Handlers, NEW e \in {run'[k]} \ {Idle}
       PROVE  Course(e)' /\ Told(e.user, e)'
  <2>1. CASE k = x
    BY <1>3, <1>5, <1>9, <1>10, <2>1
  <2>2. CASE k # x
    <3>1. e = run[k] /\ e \in Coroutines /\ Formed(e) /\ e # Idle /\ e.user # u
      BY <1>5, <1>7, <1>12, <2>2
    <3>2. PICK v \in Users \ {u} : v = e.user
      BY <3>1 DEF Coroutines
    <3>3. Course(e) /\ Told(v, e)
      BY <3>1, <3>2 DEF CalmInv
    <3>4. Course(e)' /\ Told(v, e)'
      BY <1>6, <1>11, <3>1, <3>2, <3>3, CourseGoesOn
    <3>5. QED
      BY <3>2, <3>4
  <2>3. QED
    BY <2>1, <2>2
<1>13. ASSUME NEW v \in Users, ~Busy(v)'
       PROVE  Told(v, Idle)'
  <2>1. v # u
    BY <1>3, <1>5, <1>13 DEF Busy
  <2>2. ~Busy(v)
    BY <1>4, <1>5, <1>13 DEF Busy
  <2>3. Told(v, Idle) /\ Formed(Idle)
    BY <2>2 DEF CalmInv, Formed
  <2>4. QED
    BY <1>11, <2>1, <2>3
<1>14. QED
  BY <1>8, <1>12, <1>13 DEF CalmInv

\* What was told still is.
StillTold ==
  \A v \in Users : \A e : Formed(e) /\ Told(v, e) => Told(v, e)'

LEMMA StillCalm ==
  ASSUME IInv, CalmInv, StillTold, UNCHANGED <<past, run>>
  PROVE  CalmInv'
<1>1. /\ run \in [Handlers -> Coroutines \cup {Idle}] /\ run' = run
      /\ \A k \in Handlers : Formed(run[k])
  BY DEF IInv, Base, Held
<1>2. ASSUME NEW k \in Handlers, NEW e \in {run'[k]} \ {Idle}
      PROVE  Course(e)' /\ Told(e.user, e)'
  <2>1. e = run[k] /\ e \in Coroutines /\ Formed(e) /\ e # Idle
    BY <1>1, <1>2
  <2>2. PICK v \in Users : v = e.user
    BY <2>1 DEF Coroutines
  <2>3. Course(e) /\ Told(v, e)
    BY <2>1, <2>2 DEF CalmInv
  <2>4. Course(e)' /\ Told(v, e)'
    BY <2>1, <2>3, CourseGoesOn DEF StillTold
  <2>5. QED
    BY <2>2, <2>4
<1>3. ASSUME NEW v \in Users, ~Busy(v)'
      PROVE  Told(v, Idle)'
  <2>1. ~Busy(v)
    BY <1>1, <1>3 DEF Busy
  <2>2. Told(v, Idle) /\ Formed(Idle)
    BY <2>1 DEF CalmInv, Formed
  <2>3. QED
    BY <2>2 DEF StillTold
<1>4. OneAtWork'
  BY <1>1 DEF CalmInv, OneAtWork
<1>5. QED
  BY <1>2, <1>3, <1>4 DEF CalmInv

\* A session grows old or is dropped, whatever is being written meanwhile.
LEMMA RowCalm ==
  ASSUME IInv, CalmInv, NEW u \in Users, NEW g \in Games, NEW i \in DOMAIN acts[u][g],
         NEW r, OneRow(Games, acts, acts', u, g, i, r),
         acts[u][g][i].state # "pending", r.from = acts[u][g][i].from,
         r.state = "gone" \/ (r.state = acts[u][g][i].state /\ r.to = acts[u][g][i].to),
         UNCHANGED <<past, run, stats>>
  PROVE  CalmInv'
<1>1. /\ \A v \in Users, y \in Games : v # u \/ y # g => acts'[v][y] = acts[v][y]
      /\ DOMAIN acts'[u][g] = DOMAIN acts[u][g] /\ acts'[u][g][i] = r
      /\ \A j \in DOMAIN acts[u][g] : j # i => acts'[u][g][j] = acts[u][g][j]
  BY DEF OneRow, Changes
<1>2. acts[u][g] \in Seq(Rows) /\ acts[u][g] # <<>>
  <2>1. acts[u][g] \in Seq(Rows)
    BY Unmoved DEF Table
  <2>2. QED
    BY <2>1
<1>3. ASSUME NEW v \in Users, NEW e, Formed(e), Told(v, e)
      PROVE  Told(v, e)'
  <2>1. CASE v # u
    BY <1>1, <1>3, <2>1, ToldElsewhere
  <2>2. CASE v = u
    <3> DEFINE m == GameTime(u, e, g)
               p == GameRow(e, g)
    <3>1. g \notin Excluded
      BY <1>2, <1>3, <2>2 DEF Told, GamesTold
    <3>2. AsOf(acts[u][g], Playing(u, g), m, p)
      BY <1>3, <2>2, <3>1 DEF Told, GamesTold
    <3> HIDE DEF m, p
    <3>3. i # p
      BY <3>2 DEF AsOf, RowIs
    <3>4. /\ AsOf(acts'[u][g], Playing(u, g), m, p)
          /\ \A n : NoneAfter(acts[u][g], n) => NoneAfter(acts'[u][g], n)
      <4>1. Loses(acts[u][g], acts'[u][g], i)
        BY <1>1 DEF Loses
      <4>2. QED
        BY <3>2, <3>3, <4>1, DroppedAsOf
    <3>5. GamesTold(u, e, acts')
      <4>1. ASSUME NEW y \in Games \ Excluded
            PROVE  AsOf(acts'[u][y], Playing(u, y), GameTime(u, e, y), GameRow(e, y))
        <5>1. CASE y = g
          BY <3>4, <5>1 DEF m, p
        <5>2. CASE y # g
          BY <1>1, <1>3, <2>2, <5>2 DEF Told, GamesTold
        <5>3. QED
          BY <5>1, <5>2
      <4>2. \A y \in Games \cap Excluded : acts'[u][y] = <<>>
        BY <1>1, <1>3, <2>2, <3>1 DEF Told, GamesTold
      <4>3. e.pc = "finish" => NoneAfter(acts'[u][e.game], e.row)
        <5>1. e.pc = "finish" => e.game \in Games /\ NoneAfter(acts[u][e.game], e.row)
          BY <1>3, <2>2 DEF Told, GamesTold, Formed, Idle
        <5>2. CASE e.game = g
          BY <3>4, <5>1, <5>2
        <5>3. CASE e.game # g
          BY <1>1, <5>1, <5>3
        <5>4. QED
          BY <5>2, <5>3
      <4>4. QED
        BY <4>1, <4>2, <4>3 DEF GamesTold
    <3>6. StatusTold(u, e, stats')
      BY <1>3, <2>2 DEF Told
    <3>7. QED
      BY <2>2, <3>5, <3>6, ToldNow
  <2>3. QED
    BY <2>1, <2>2
<1>4. QED
  BY <1>3, StillCalm DEF StillTold

LEMMA AgesCalm ==
  ASSUME IInv, CalmInv, Ages
  PROVE  CalmInv'
<1>1. PICK u \in Users, g \in Games : \E i \in DOMAIN acts[u][g] :
        /\ acts[u][g][i].state = "open"
        /\ acts' = [acts EXCEPT ![u][g][i].old = TRUE]
  BY DEF Ages
<1>2. PICK i \in DOMAIN acts[u][g] :
        /\ acts[u][g][i].state = "open"
        /\ acts' = [acts EXCEPT ![u][g][i].old = TRUE]
  BY <1>1
<1>3. PICK r : r = [acts[u][g][i] EXCEPT !.old = TRUE]
  OBVIOUS
<1>4. acts \in Table(Games) /\ acts[u][g][i] \in Rows
  BY Unmoved DEF Table
<1>5. /\ r \in Rows /\ r.from = acts[u][g][i].from /\ r.state = acts[u][g][i].state
      /\ r.to = acts[u][g][i].to
  BY <1>3, <1>4 DEF Rows
<1>6. acts' = Put(acts, u, g, i, r)
  BY <1>2, <1>3 DEF Put
<1>7. OneRow(Games, acts, acts', u, g, i, r)
  BY <1>4, <1>5, <1>6, PutIs
<1>8. UNCHANGED <<past, run, stats>>
  BY DEF Ages
<1>9. QED
  BY <1>2, <1>5, <1>7, <1>8, RowCalm

LEMMA JobDeletesCalm ==
  ASSUME IInv, CalmInv, JobDeletes
  PROVE  CalmInv'
<1>1. PICK x \in drop : acts' = Deleted(acts, x[1], x[2], x[3])
  BY DEF JobDeletes
<1>2. PICK u \in Users, g \in Games : \E i \in DOMAIN acts[u][g] :
        x[1] = u /\ x[2] = g /\ x[3] = i /\ acts[u][g][i].state # "pending"
  BY Unmoved DEF AreOld
<1>a. PICK i \in DOMAIN acts[u][g] :
        x[1] = u /\ x[2] = g /\ x[3] = i /\ acts[u][g][i].state # "pending"
  BY <1>2
<1>3. PICK r : r = DroppedRow(acts[u][g][i])
  OBVIOUS
<1>4. acts \in Table(Games) /\ acts[u][g][i] \in Rows
  BY Unmoved DEF Table
<1>5. r.from = acts[u][g][i].from /\ r.state = "gone"
  BY <1>3, <1>4 DEF Rows, DroppedRow
<1>6. OneRow(Games, acts, acts', u, g, i, r)
  BY <1>1, <1>3, <1>4, <1>a, DeletedIs
<1>7. UNCHANGED <<past, run, stats>>
  BY DEF JobDeletes
<1>8. QED
  BY <1>5, <1>6, <1>7, <1>a, RowCalm

LEMMA InitCalm == Init => CalmInv
<1> SUFFICES ASSUME Init
             PROVE  CalmInv
  OBVIOUS
<1>1. /\ \A h \in Handlers : run[h] = Idle
      /\ \A u \in Users : \A g \in Games : acts[u][g] = <<>>
      /\ \A u \in Users : \A s \in Statuses : stats[u][s] = <<>>
  BY DEF Init
<1>2. Idle.pc = "idle"
  BY DEF Idle
<1>3. ASSUME NEW K \in SUBSET Nat
      PROVE  AsOf(<<>>, K, 1, 0) /\ NoneGone(<<>>)
  <2>1. DOMAIN <<>> = {}
    OBVIOUS
  <2>2. {b \in Begins(K) : b <= 1} = {}
    BY BeginsFacts
  <2>3. Traced(K, 1)
    BY DEF Traced, Lasts
  <2>4. QED
    BY <2>1, <2>2, <2>3 DEF AsOf, NoneGone
<1>4. ASSUME NEW u \in Users
      PROVE  Told(u, Idle)
  <2>1. PICK p \in Presences : past[u] = <<p>>
    BY DEF Init
  <2>2. Time(u) = 1 /\ DOMAIN past[u] = {1}
    BY <2>1 DEF Time
  <2>3. /\ \A g : Playing(u, g) \in SUBSET Nat
        /\ \A s : Having(u, s) \in SUBSET Nat
    BY <2>2 DEF Playing, Having
  <2>4. GamesTold(u, Idle, acts)
    BY <1>1, <1>2, <1>3, <2>2, <2>3 DEF GamesTold, GameTime, GameRow, Behind
  <2>5. StatusTold(u, Idle, stats)
    BY <1>1, <1>2, <1>3, <2>2, <2>3 DEF StatusTold, StatusTime, StatusRow
  <2>6. QED
    BY <2>4, <2>5 DEF Told
<1>5. QED
  BY <1>1, <1>4 DEF CalmInv, OneAtWork

LEMMA NextCalm ==
  ASSUME Quiet
  PROVE  IInv /\ CalmInv /\ [Next]_vars => CalmInv'
<1> SUFFICES ASSUME IInv, CalmInv, [Next]_vars
             PROVE  CalmInv'
  OBVIOUS
<1>1. ASSUME UNCHANGED <<past, run, acts, stats>>
      PROVE  CalmInv'
  <2>1. StillTold
    BY <1>1, ToldElsewhere DEF StillTold
  <2>2. QED
    BY <1>1, <2>1, StillCalm
<1>2. CASE JobReads
  BY <1>1, <1>2 DEF JobReads
<1>3. CASE UNCHANGED vars
  BY <1>1, <1>3 DEF vars
<1>4. CASE \E h \in Handlers : Handle(h)
  BY <1>4, HandleCalm
<1>5. ~Fault
  BY DEF Fault, HandlerFails, JobFails, ChangeUnseen, Quiet
<1>6. QED
  BY <1>2, <1>3, <1>4, <1>5, PresenceChangesCalm, AgesCalm, JobDeletesCalm DEF Next

\* What CalmInv says of a member whose events were handled, and of one whose are not.
LEMMA CalmTells ==
  ASSUME IInv, CalmInv, NEW u \in Users
  PROVE  /\ ~Busy(u) => Told(u, Idle)
         /\ \E e : Told(u, e)
<1>1. CASE ~Busy(u)
  BY <1>1 DEF CalmInv
<1>2. CASE Busy(u)
  <2>1. PICK h \in Handlers : run[h] # Idle /\ run[h].user = u
    BY <1>2 DEF Busy
  <2>2. QED
    BY <1>2, <2>1 DEF CalmInv
<1>3. QED
  BY <1>1, <1>2

LEMMA CalmHistory ==
  ASSUME IInv, CalmInv
  PROVE  SessionsAreHistory
<1> SUFFICES ASSUME NEW u \in Users, ~Busy(u)
             PROVE  /\ \A g \in Games \ Excluded :
                         RowsOf(acts[u][g], Playing(u, g), Time(u))
                    /\ \A g \in Games \cap Excluded : acts[u][g] = <<>>
                    /\ \A s \in Statuses :
                         /\ RowsOf(stats[u][s], Having(u, s), Time(u))
                         /\ \A i \in DOMAIN stats[u][s] : stats[u][s][i].state # "gone"
  BY DEF SessionsAreHistory
<1>1. Told(u, Idle) /\ Idle.pc = "idle"
  BY CalmTells DEF Idle
<1>2. /\ Time(u) \in Nat
      /\ \A g : Playing(u, g) \in SUBSET (1..Time(u))
      /\ \A s : Having(u, s) \in SUBSET (1..Time(u))
  BY PastFacts
<1>3. ASSUME NEW g \in Games \ Excluded
      PROVE  RowsOf(acts[u][g], Playing(u, g), Time(u))
  <2>1. AsOf(acts[u][g], Playing(u, g), Time(u), 0)
    BY <1>1 DEF Told, GamesTold, GameTime, GameRow, Behind
  <2>2. acts[u][g] \in Seq(Rows)
    BY Unmoved DEF Table
  <2>3. QED
    BY <1>2, <2>1, <2>2, RowsAreHistory
<1>4. ASSUME NEW s \in Statuses
      PROVE  /\ RowsOf(stats[u][s], Having(u, s), Time(u))
             /\ \A i \in DOMAIN stats[u][s] : stats[u][s][i].state # "gone"
  <2>1. AsOf(stats[u][s], Having(u, s), Time(u), 0) /\ NoneGone(stats[u][s])
    BY <1>1 DEF Told, StatusTold, StatusTime, StatusRow
  <2>2. stats[u][s] \in Seq(Rows)
    BY Unmoved DEF Table
  <2>3. QED
    BY <1>2, <2>1, <2>2, RowsAreHistory DEF NoneGone
<1>5. QED
  BY <1>1, <1>3, <1>4 DEF Told, GamesTold

LEMMA CalmEnds ==
  ASSUME IInv, CalmInv
  PROVE  EndsAreTrue
<1> SUFFICES ASSUME NEW u \in Users
             PROVE  /\ \A g \in Games : \A i \in DOMAIN acts[u][g] :
                         acts[u][g][i].state = "done" =>
                           \/ acts[u][g][i].to
                                = EndOf(acts[u][g][i].from, Playing(u, g), Time(u))
                           \/ \E j \in DOMAIN acts[u][g] :
                                j > i /\ acts[u][g][j].state = "gone"
                    /\ \A s \in Statuses : \A i \in DOMAIN stats[u][s] :
                         stats[u][s][i].state = "done" =>
                           stats[u][s][i].to
                             = EndOf(stats[u][s][i].from, Having(u, s), Time(u))
  BY DEF EndsAreTrue
<1>1. PICK e : Told(u, e)
  BY CalmTells
<1>2. /\ Time(u) \in Nat \ {0}
      /\ \A g : Playing(u, g) \in SUBSET Nat
      /\ \A s : Having(u, s) \in SUBSET Nat
  BY PastFacts
<1>3. ASSUME NEW g \in Games, NEW i \in DOMAIN acts[u][g], acts[u][g][i].state = "done"
      PROVE  \/ acts[u][g][i].to = EndOf(acts[u][g][i].from, Playing(u, g), Time(u))
             \/ \E j \in DOMAIN acts[u][g] : j > i /\ acts[u][g][j].state = "gone"
  <2>1. g \notin Excluded
    <3>1. acts[u][g] # <<>>
      OBVIOUS
    <3>2. QED
      BY <1>1, <3>1 DEF Told, GamesTold
  <2>2. AsOf(acts[u][g], Playing(u, g), GameTime(u, e, g), GameRow(e, g))
    BY <1>1, <2>1 DEF Told, GamesTold
  <2>3. GameTime(u, e, g) \in Nat /\ GameTime(u, e, g) <= Time(u)
    BY <1>2 DEF GameTime
  <2>4. acts[u][g] \in Seq(Rows)
    BY Unmoved DEF Table
  <2>5. QED
    BY <1>2, <1>3, <2>2, <2>3, <2>4, EndsAreOwn
<1>4. ASSUME NEW s \in Statuses, NEW i \in DOMAIN stats[u][s], stats[u][s][i].state = "done"
      PROVE  stats[u][s][i].to = EndOf(stats[u][s][i].from, Having(u, s), Time(u))
  <2>1. /\ AsOf(stats[u][s], Having(u, s), StatusTime(u, e), StatusRow(e, s))
        /\ NoneGone(stats[u][s])
    BY <1>1 DEF Told, StatusTold
  <2>2. StatusTime(u, e) \in Nat /\ StatusTime(u, e) <= Time(u)
    BY <1>2 DEF StatusTime
  <2>3. stats[u][s] \in Seq(Rows)
    BY Unmoved DEF Table
  <2>4. QED
    BY <1>2, <1>4, <2>1, <2>2, <2>3, EndsAreOwn DEF NoneGone
<1>5. QED
  BY <1>3, <1>4

\* The tables of a member who shares one server with the bot, and whose events are
\* handled before he changes again, tell what he was: a session for each period that
\* began under the bot, in their order, open as long as the period lasts and finished
\* when it ended, but for the games the nightly job dropped.
THEOREM CalmTablesTellThePast ==
  ASSUME Quiet
  PROVE  Spec => []TablesTellThePast
<1>1. IInv /\ CalmInv => TablesTellThePast
  BY CalmHistory, CalmEnds DEF TablesTellThePast
<1>2. Spec => []CalmInv
  <2>1. Init => CalmInv
    BY InitCalm
  <2>2. IInv /\ CalmInv /\ [Next]_vars => CalmInv'
    BY NextCalm
  <2>3. QED
    BY <2>1, <2>2, Invariant, PTL DEF Spec
<1>3. QED
  BY <1>1, <1>2, Invariant, PTL
=============================================================================
