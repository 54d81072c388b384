-------------------------- MODULE WebSession_proofs --------------------------
(***************************************************************************)
(* Proofs about WebSession, for any requests, clients, keys and accounts.   *)
(***************************************************************************)
EXTENDS WebSession, TLAPS

(***************************************************************************)
(* The types.  A request that has arrived is of a client, and one that is  *)
(* past get_session has a key that was given to a session; one that is not *)
(* under way has nothing.                                                   *)
(***************************************************************************)
Keyed == Asked \ {"loading"}

Whole(r) ==
  /\ pc[r] \in Asked => req[r].client \in Clients
  /\ pc[r] \notin Asked => /\ req[r].client = None /\ req[r].key = None
                           /\ req[r].user = None /\ req[r].sent = NoKeys
  /\ pc[r] \in Keyed => req[r].key \in used /\ req[r].sent = NoKeys
  /\ req[r].key \in used \cup {None}
  /\ \A w \in Ways : req[r].sent[w] \in used \cup {None}
  /\ pc[r] \in {"new", "loading"} =>
       req[r].key = None /\ req[r].user = None /\ ~req[r].won /\ ~req[r].basic
  /\ pc[r] \in {"naming", "inserting", "mailing"} => req[r].kind = "create"
  /\ pc[r] \in Asked /\ req[r].kind = "create" => req[r].name \in Names /\ req[r].mail \in Mails

RequestsAreWhole == \A r \in Requests : Whole(r)

Base == TypeOK /\ RequestsAreWhole

RequestSet == [client : Clients \cup {None}, kind : AllKinds, web : BOOLEAN,
               sent : [Ways -> Keys \cup {None}], key : Keys \cup {None}, way : Ways,
               basic : BOOLEAN, user : Ids \cup {None}, won : BOOLEAN,
               name : Names \cup {None}, mail : Mails \cup {None}]

Places == Asked \cup {"new", "answered", "raised"}

LEMMA Types ==
  ASSUME TypeOK
  PROVE  /\ pc \in [Requests -> Places] /\ req \in [Requests -> RequestSet]
         /\ used \subseteq Keys /\ None \notin used /\ None \notin DOMAIN redis
         /\ DOMAIN redis \subseteq used
  BY WebAssumption DEF TypeOK, Places, RequestSet

LEMMA StartIs ==
  /\ Start \in RequestSet /\ Start.client = None /\ Start.sent = NoKeys /\ Start.key = None
  /\ ~Start.basic /\ Start.user = None /\ ~Start.won
  /\ \A w \in Ways : NoKeys[w] = None
  BY DEF Start, RequestSet, NoKeys, Ways, AllKinds

LEMMA InitBase == Init => Base
<1> SUFFICES ASSUME Init
             PROVE  Base
  OBVIOUS
<1>1. pc \in [Requests -> Places] /\ req \in [Requests -> RequestSet]
  BY StartIs DEF Init, Places
<1>2. held \in [Clients -> [Ways -> used \cup {None}]] /\ \A c \in Clients : held[c] = NoKeys
  BY DEF Init, NoKeys
<1>3. TypeOK
  BY <1>1, <1>2, StartIs, WebAssumption DEF Init, TypeOK, Places, RequestSet, Ids
<1>4. RequestsAreWhole
  BY StartIs DEF Init, RequestsAreWhole, Whole, Asked, Keyed
<1>5. QED
  BY <1>3, <1>4 DEF Base

\* A step of a request changes its own place and record, and keeps the others whole.
LEMMA OthersWhole ==
  ASSUME Base, NEW r \in Requests, used \subseteq used',
         \A q \in Requests \ {r} : pc'[q] = pc[q] /\ req'[q] = req[q],
         Whole(r)'
  PROVE  RequestsAreWhole'
  BY DEF Base, RequestsAreWhole, Whole

\* A step of r leaves the others alone, and is typed.
Others(r) ==
  /\ pc' \in [Requests -> Places] /\ req' \in [Requests -> RequestSet]
  /\ \A q \in Requests \ {r} : pc'[q] = pc[q] /\ req'[q] = req[q]

Same(r) == /\ req'[r].client = req[r].client /\ req'[r].kind = req[r].kind
           /\ req'[r].name = req[r].name /\ req'[r].mail = req[r].mail

LEMMA RecordType ==
  ASSUME TypeOK, NEW r \in Requests, NEW a \in RequestSet, req' = [req EXCEPT ![r] = a]
  PROVE  /\ req' \in [Requests -> RequestSet] /\ req'[r] = a
         /\ \A q \in Requests \ {r} : req'[q] = req[q]
  BY Types

LEMMA PlaceType ==
  ASSUME TypeOK, NEW r \in Requests, NEW s \in Places, Go(r, s)
  PROVE  /\ pc' \in [Requests -> Places] /\ pc'[r] = s
         /\ \A q \in Requests \ {r} : pc'[q] = pc[q]
  BY DEF TypeOK, Places, Go

LEMMA AskingIs ==
  ASSUME TypeOK, NEW c \in Clients, NEW kind \in Kinds, NEW web \in BOOLEAN,
         NEW n \in Names, NEW m \in Mails
  PROVE  LET a == Asking(c, kind, web, n, m)
         IN /\ a \in RequestSet
            /\ a.client = c /\ a.kind = kind /\ a.sent = held[c] /\ a.key = None
            /\ a.user = None /\ ~a.won /\ ~a.basic
            /\ kind = "create" => a.name = n /\ a.mail = m
<1>1. held[c] \in [Ways -> Keys \cup {None}]
  BY DEF TypeOK
<1>2. Start \in RequestSet
  BY StartIs
<1>3. kind \in AllKinds
  BY WebAssumption
<1>4. QED
  BY <1>1, <1>2, <1>3 DEF Asking, Start, RequestSet

(***************************************************************************)
(* What the steps do to their request, field by field.                     *)
(***************************************************************************)
Arrives(r) ==
  /\ Others(r) /\ pc[r] = "new" /\ pc'[r] = "loading"
  /\ req'[r].client \in Clients /\ req'[r].sent = held[req'[r].client]
  /\ req'[r].key = None /\ req'[r].user = None /\ ~req'[r].won /\ ~req'[r].basic
  /\ req'[r].kind = "create" => req'[r].name \in Names /\ req'[r].mail \in Mails
  /\ req'[r].client \in Calm =>
       \A q \in Requests : req[q].client = req'[r].client => pc[q] \notin Asked
  /\ beside' = [beside EXCEPT ![r] = IF req'[r].kind = "create" THEN Creating ELSE {}]
  /\ UNCHANGED <<redis, used, clientVars, users, mailed>>

LEMMA ArriveIs ==
  ASSUME TypeOK, NEW r \in Requests, Arrive(r)
  PROVE  Arrives(r)
<1>1. PICK c \in Clients, kind \in Kinds, web \in BOOLEAN, n \in Names, m \in Mails :
        /\ c \in Calm => \A q \in Requests : Client(q) = c => pc[q] \notin Asked
        /\ req' = [req EXCEPT ![r] = Asking(c, kind, web, n, m)]
        /\ beside' = [beside EXCEPT ![r] = IF kind = "create" THEN Creating ELSE {}]
  BY DEF Arrive
<1> DEFINE a == Asking(c, kind, web, n, m)
<1>2. /\ a \in RequestSet
      /\ a.client = c /\ a.kind = kind /\ a.sent = held[c] /\ a.key = None
      /\ a.user = None /\ ~a.won /\ ~a.basic
      /\ kind = "create" => a.name = n /\ a.mail = m
  BY AskingIs
<1>3. req' = [req EXCEPT ![r] = a]
  BY <1>1
<1> HIDE DEF a
<1>4. req' \in [Requests -> RequestSet] /\ req'[r] = a
      /\ \A q \in Requests \ {r} : req'[q] = req[q]
  BY <1>2, <1>3, RecordType
<1>5. Go(r, "loading") /\ pc[r] = "new" /\ UNCHANGED <<redis, used, clientVars, users, mailed>>
  BY DEF Arrive
<1>6. /\ pc' \in [Requests -> Places] /\ pc'[r] = "loading"
      /\ \A q \in Requests \ {r} : pc'[q] = pc[q]
  BY <1>5, PlaceType DEF Places, Asked
<1>7. beside' = [beside EXCEPT ![r] = IF req'[r].kind = "create" THEN Creating ELSE {}]
  BY <1>1, <1>2, <1>4
<1>8. QED
  BY <1>1, <1>2, <1>4, <1>5, <1>6, <1>7 DEF Arrives, Others, Client

\* get_session brings the request to a session.
Opens(r) ==
  /\ Others(r) /\ Same(r)
  /\ pc[r] = "loading" /\ pc'[r] \in {"saving", "handling"}
  /\ pc'[r] = "saving" => req[r].kind \in {"me", "guarded"}
  /\ req'[r].sent = NoKeys /\ req'[r].won = req[r].won
  /\ UNCHANGED <<redis, held, may, accountVars>>

ByBasic(r) ==
  /\ Opens(r) /\ req'[r].basic /\ req'[r].user \in Ids
  /\ req'[r].key \in Keys \ used /\ used' = used \cup {req'[r].key}
  /\ granted' = granted \cup {<<req[r].client, req'[r].key, req'[r].user>>}

Found(r) ==
  /\ Opens(r) /\ req'[r].basic = req[r].basic /\ UNCHANGED <<used, granted>>
  /\ \E w \in Ways : /\ Finds(r, w) /\ req'[r].key = req[r].sent[w]
                     /\ req'[r].user = redis[req[r].sent[w]]

Fresh(r) ==
  /\ Opens(r) /\ req'[r].basic = req[r].basic /\ req'[r].user = req[r].user
  /\ \A w \in Ways : ~Finds(r, w)
  /\ req'[r].key \in Keys \ used /\ used' = used \cup {req'[r].key}
  /\ UNCHANGED granted

LEMMA AfterLoadIs ==
  ASSUME NEW r, NEW u
  PROVE  /\ AfterLoad(r, u) \in {"saving", "handling"} /\ {"saving", "handling"} \subseteq Places
         /\ AfterLoad(r, u) = "saving" => req[r].kind \in {"me", "guarded"}
  BY DEF AfterLoad, Places, Asked

LEMMA BasicIs ==
  ASSUME TypeOK, NEW r \in Requests, BasicSession(r)
  PROVE  ByBasic(r)
<1>1. PICK u \in Knowable, k \in Keys \ used :
        /\ used' = used \cup {k}
        /\ req' = [req EXCEPT ![r].sent = NoKeys, ![r].key = k,
                             ![r].basic = TRUE, ![r].user = u.id]
        /\ granted' = granted \cup {<<Client(r), k, u.id>>}
        /\ Go(r, AfterLoad(r, u.id))
  BY DEF BasicSession
<1>2. u.id \in Ids
  BY DEF Knowable, TypeOK
<1> DEFINE a == [req[r] EXCEPT !.sent = NoKeys, !.key = k, !.basic = TRUE, !.user = u.id]
<1>3. req' = [req EXCEPT ![r] = a]
  BY <1>1, Types DEF RequestSet
<1>4. /\ a \in RequestSet /\ a.client = req[r].client /\ a.kind = req[r].kind
      /\ a.name = req[r].name /\ a.mail = req[r].mail /\ a.won = req[r].won
      /\ a.sent = NoKeys /\ a.key = k /\ a.basic /\ a.user = u.id
  BY <1>2, Types, StartIs DEF RequestSet
<1> HIDE DEF a
<1>5. req' \in [Requests -> RequestSet] /\ req'[r] = a
      /\ \A q \in Requests \ {r} : req'[q] = req[q]
  BY <1>3, <1>4, RecordType
<1>6. /\ pc' \in [Requests -> Places] /\ pc'[r] = AfterLoad(r, u.id)
      /\ \A q \in Requests \ {r} : pc'[q] = pc[q]
  BY <1>1, AfterLoadIs, PlaceType
<1>7. pc[r] = "loading" /\ UNCHANGED <<redis, held, may, accountVars>>
  BY DEF BasicSession
<1>8. Opens(r)
  BY <1>4, <1>5, <1>6, <1>7, AfterLoadIs DEF Opens, Others, Same
<1>9. QED
  BY <1>1, <1>2, <1>4, <1>5, <1>8 DEF ByBasic, Client

LEMMA LoadIs ==
  ASSUME TypeOK, NEW r \in Requests, Load(r)
  PROVE  Found(r)
<1>1. PICK w \in Ways :
        /\ Finds(r, w)
        /\ req' = [req EXCEPT ![r].sent = NoKeys, ![r].key = req[r].sent[w], ![r].way = w,
                              ![r].user = redis[req[r].sent[w]]]
        /\ Go(r, AfterLoad(r, redis[req[r].sent[w]]))
  BY DEF Load
<1>2. redis[req[r].sent[w]] \in Ids \cup {None} /\ req[r].sent[w] \in Keys
  BY <1>1 DEF Finds, TypeOK
<1> DEFINE a == [req[r] EXCEPT !.sent = NoKeys, !.key = req[r].sent[w], !.way = w,
                               !.user = redis[req[r].sent[w]]]
<1>3. req' = [req EXCEPT ![r] = a]
  BY <1>1, Types DEF RequestSet
<1>4. /\ a \in RequestSet /\ a.client = req[r].client /\ a.kind = req[r].kind
      /\ a.name = req[r].name /\ a.mail = req[r].mail /\ a.won = req[r].won
      /\ a.sent = NoKeys /\ a.key = req[r].sent[w] /\ a.basic = req[r].basic
      /\ a.user = redis[req[r].sent[w]]
  BY <1>2, Types, StartIs DEF RequestSet
<1> HIDE DEF a
<1>5. req' \in [Requests -> RequestSet] /\ req'[r] = a
      /\ \A q \in Requests \ {r} : req'[q] = req[q]
  BY <1>3, <1>4, RecordType
<1>6. /\ pc' \in [Requests -> Places] /\ pc'[r] = AfterLoad(r, redis[req[r].sent[w]])
      /\ \A q \in Requests \ {r} : pc'[q] = pc[q]
  BY <1>1, AfterLoadIs, PlaceType
<1>7. pc[r] = "loading" /\ UNCHANGED <<redis, used, clientVars, accountVars>>
  BY DEF Load
<1>8. Opens(r)
  BY <1>4, <1>5, <1>6, <1>7, AfterLoadIs DEF Opens, Others, Same, clientVars
<1>9. QED
  BY <1>1, <1>4, <1>5, <1>7, <1>8 DEF Found, clientVars

LEMMA NewIs ==
  ASSUME TypeOK, NEW r \in Requests, NewSession(r)
  PROVE  Fresh(r)
<1>1. PICK k \in Keys \ used :
        used' = used \cup {k} /\ req' = [req EXCEPT ![r].sent = NoKeys, ![r].key = k]
  BY DEF NewSession
<1> DEFINE a == [req[r] EXCEPT !.sent = NoKeys, !.key = k]
<1>3. req' = [req EXCEPT ![r] = a]
  BY <1>1, Types DEF RequestSet
<1>4. /\ a \in RequestSet /\ a.client = req[r].client /\ a.kind = req[r].kind
      /\ a.name = req[r].name /\ a.mail = req[r].mail /\ a.won = req[r].won
      /\ a.sent = NoKeys /\ a.key = k /\ a.basic = req[r].basic /\ a.user = req[r].user
  BY Types, StartIs DEF RequestSet
<1> HIDE DEF a
<1>5. req' \in [Requests -> RequestSet] /\ req'[r] = a
      /\ \A q \in Requests \ {r} : req'[q] = req[q]
  BY <1>3, <1>4, RecordType
<1>6. /\ pc' \in [Requests -> Places] /\ pc'[r] = AfterLoad(r, None)
      /\ \A q \in Requests \ {r} : pc'[q] = pc[q]
  BY AfterLoadIs, PlaceType DEF NewSession
<1>7. /\ pc[r] = "loading" /\ UNCHANGED <<redis, clientVars, accountVars>>
      /\ \A w \in Ways : ~Finds(r, w)
  BY DEF NewSession
<1>8. Opens(r)
  BY <1>4, <1>5, <1>6, <1>7, AfterLoadIs DEF Opens, Others, Same, clientVars
<1>9. QED
  BY <1>1, <1>4, <1>5, <1>7, <1>8 DEF Fresh, clientVars

\* The handlers.
Handlers(r) == \/ Login(r) \/ Logout(r) \/ CheckEmail(r) \/ CheckName(r)
               \/ CreateUser(r) \/ MailPassword(r)

Handles(r) ==
  /\ Others(r) /\ Same(r)
  /\ pc[r] \in {"handling", "naming", "inserting", "mailing"}
  /\ pc'[r] \in {"naming", "inserting", "mailing", "saving"}
  /\ pc'[r] # "saving" => req[r].kind = "create"
  /\ req'[r].key = req[r].key /\ req'[r].sent = req[r].sent /\ req'[r].basic = req[r].basic
  /\ UNCHANGED <<redis, used, held, may, beside>>

Grants(r) ==
  /\ req[r].kind = "login" /\ req'[r].won /\ req'[r].user \in Ids
  /\ granted' = granted \cup {<<req[r].client, req[r].key, req'[r].user>>}

Keeping(r) == UNCHANGED granted /\ req'[r].user \in {req[r].user, None}

LEMMA HandlersAre ==
  ASSUME Base, NEW r \in Requests, Handlers(r)
  PROVE  /\ Handles(r)
         /\ Keeping(r) \/ Grants(r)
         /\ req'[r].user = req[r].user \/ Grants(r) \/ req[r].kind = "logout"
         /\ req[r].kind = "logout" => req'[r].user = None
<1> USE DEF Base
<1>0. pc[r] \in {"naming", "inserting", "mailing"} => req[r].kind = "create"
  BY DEF RequestsAreWhole, Whole
<1>1. CASE Login(r)
  <2>1. /\ pc' \in [Requests -> Places] /\ pc'[r] = "saving"
        /\ \A q \in Requests \ {r} : pc'[q] = pc[q]
    BY <1>1, PlaceType DEF Login, Places, Asked
  <2>2. /\ pc[r] = "handling" /\ req[r].kind = "login"
        /\ UNCHANGED <<redis, used, held, may, accountVars>>
    BY <1>1 DEF Login
  <2>3. CASE UNCHANGED <<req, granted>>
    <3>1. Handles(r)
      BY <2>1, <2>2, <2>3, Types DEF Handles, Others, Same, accountVars
    <3>2. QED
      BY <2>2, <2>3, <3>1 DEF Keeping
  <2>4. CASE \E u \in Knowable :
               /\ req' = [req EXCEPT ![r].user = u.id, ![r].won = TRUE]
               /\ granted' = granted \cup {<<Client(r), req[r].key, u.id>>}
    <3>1. PICK u \in Knowable :
               /\ req' = [req EXCEPT ![r].user = u.id, ![r].won = TRUE]
               /\ granted' = granted \cup {<<Client(r), req[r].key, u.id>>}
      BY <2>4
    <3>2. u.id \in Ids
      BY DEF Knowable, TypeOK
    <3> DEFINE a == [req[r] EXCEPT !.user = u.id, !.won = TRUE]
    <3>3. req' = [req EXCEPT ![r] = a]
      BY <3>1, Types DEF RequestSet
    <3>4. /\ a \in RequestSet /\ a.client = req[r].client /\ a.kind = req[r].kind
          /\ a.name = req[r].name /\ a.mail = req[r].mail /\ a.won
          /\ a.sent = req[r].sent /\ a.key = req[r].key /\ a.basic = req[r].basic
          /\ a.user = u.id
      BY <3>2, Types DEF RequestSet
    <3> HIDE DEF a
    <3>5. req' \in [Requests -> RequestSet] /\ req'[r] = a
          /\ \A q \in Requests \ {r} : req'[q] = req[q]
      BY <3>3, <3>4, RecordType
    <3>6. Handles(r)
      BY <2>1, <2>2, <3>4, <3>5 DEF Handles, Others, Same, accountVars
    <3>7. Grants(r)
      BY <2>2, <3>1, <3>2, <3>4, <3>5 DEF Grants, Client
    <3>8. QED
      BY <2>2, <3>6, <3>7
  <2>5. QED
    BY <1>1, <2>3, <2>4 DEF Login
<1>2. CASE Logout(r)
  <2>1. /\ pc' \in [Requests -> Places] /\ pc'[r] = "saving"
        /\ \A q \in Requests \ {r} : pc'[q] = pc[q]
    BY <1>2, PlaceType DEF Logout, Places, Asked
  <2>2. /\ pc[r] = "handling" /\ req[r].kind = "logout"
        /\ UNCHANGED <<redis, used, clientVars, accountVars>>
    BY <1>2 DEF Logout
  <2> DEFINE a == [req[r] EXCEPT !.user = None]
  <2>3. req' = [req EXCEPT ![r] = a]
    BY <1>2, Types DEF Logout, RequestSet
  <2>4. /\ a \in RequestSet /\ a.client = req[r].client /\ a.kind = req[r].kind
        /\ a.name = req[r].name /\ a.mail = req[r].mail
        /\ a.sent = req[r].sent /\ a.key = req[r].key /\ a.basic = req[r].basic
        /\ a.user = None
    BY Types DEF RequestSet
  <2> HIDE DEF a
  <2>5. req' \in [Requests -> RequestSet] /\ req'[r] = a
        /\ \A q \in Requests \ {r} : req'[q] = req[q]
    BY <2>3, <2>4, RecordType
  <2>6. Handles(r)
    BY <2>1, <2>2, <2>4, <2>5 DEF Handles, Others, Same, clientVars, accountVars
  <2>7. QED
    BY <2>2, <2>4, <2>5, <2>6 DEF Keeping, clientVars
<1>3. CASE CheckEmail(r) \/ CheckName(r) \/ CreateUser(r)
  <2>1. PICK s \in {"naming", "inserting", "mailing", "saving"} : Go(r, s)
    BY <1>3 DEF CheckEmail, CheckName, CreateUser
  <2>2. /\ pc' \in [Requests -> Places] /\ pc'[r] = s
        /\ \A q \in Requests \ {r} : pc'[q] = pc[q]
    BY <2>1, PlaceType DEF Places, Asked
  <2>3. /\ pc[r] \in {"handling", "naming", "inserting"} /\ req[r].kind = "create"
        /\ UNCHANGED <<req, redis, used, clientVars, beside>>
    BY <1>0, <1>3 DEF CheckEmail, CheckName, CreateUser, accountVars
  <2>4. Handles(r)
    BY <2>2, <2>3, Types DEF Handles, Others, Same, clientVars
  <2>5. QED
    BY <2>3, <2>4 DEF Keeping, clientVars
<1>4. CASE MailPassword(r)
  <2>1. /\ pc' \in [Requests -> Places] /\ pc'[r] = "saving"
        /\ \A q \in Requests \ {r} : pc'[q] = pc[q]
    BY <1>4, PlaceType DEF MailPassword, Places, Asked
  <2>2. /\ pc[r] = "mailing" /\ req[r].kind = "create"
        /\ UNCHANGED <<redis, used, clientVars, users, beside>>
    BY <1>0, <1>4 DEF MailPassword
  <2> DEFINE a == [req[r] EXCEPT !.won = TRUE]
  <2>3. req' = [req EXCEPT ![r] = a]
    BY <1>4, Types DEF MailPassword, RequestSet
  <2>4. /\ a \in RequestSet /\ a.client = req[r].client /\ a.kind = req[r].kind
        /\ a.name = req[r].name /\ a.mail = req[r].mail
        /\ a.sent = req[r].sent /\ a.key = req[r].key /\ a.basic = req[r].basic
        /\ a.user = req[r].user
    BY Types DEF RequestSet
  <2> HIDE DEF a
  <2>5. req' \in [Requests -> RequestSet] /\ req'[r] = a
        /\ \A q \in Requests \ {r} : req'[q] = req[q]
    BY <2>3, <2>4, RecordType
  <2>6. Handles(r)
    BY <2>1, <2>2, <2>4, <2>5 DEF Handles, Others, Same, clientVars
  <2>7. QED
    BY <2>2, <2>4, <2>5, <2>6 DEF Keeping, clientVars
<1>5. QED
  BY <1>1, <1>2, <1>3, <1>4 DEF Handlers

\* The ends of a request.
Ends(r) ==
  /\ Others(r) /\ pc[r] \in Asked /\ pc'[r] \in {"answered", "raised"}
  /\ req'[r].client = None /\ req'[r].key = None /\ req'[r].user = None
  /\ req'[r].sent = NoKeys /\ ~req'[r].basic
  /\ (req'[r].kind = "create") = (req[r].kind = "create")
  /\ req[r].kind = "create" => req'[r].won = req[r].won
  /\ UNCHANGED <<used, granted, mailed, beside>>

LEMMA OverIs ==
  ASSUME TypeOK, NEW r \in Requests, Over(r)
  PROVE  /\ req' \in [Requests -> RequestSet]
         /\ \A q \in Requests \ {r} : req'[q] = req[q]
         /\ req'[r].client = None /\ req'[r].key = None /\ req'[r].user = None
         /\ req'[r].sent = NoKeys /\ ~req'[r].basic
         /\ (req'[r].kind = "create") = (req[r].kind = "create")
         /\ req[r].kind = "create" => req'[r].won = req[r].won
<1> DEFINE b == [Start EXCEPT !.kind = "create", !.won = req[r].won]
           a == IF req[r].kind = "create" THEN b ELSE Start
<1>1. req' = [req EXCEPT ![r] = a]
  BY DEF Over
<1>2. /\ Start \in RequestSet /\ req[r] \in RequestSet
      /\ Start.kind # "create" /\ ~Start.won
  BY StartIs, Types DEF Start
<1>3. /\ b \in RequestSet /\ b.kind = "create" /\ b.won = req[r].won
      /\ b.client = Start.client /\ b.key = Start.key
      /\ b.user = Start.user /\ b.sent = Start.sent /\ b.basic = Start.basic
  BY <1>2 DEF RequestSet, Start, AllKinds
<1> HIDE DEF b
<1>4. /\ a \in RequestSet /\ a.client = Start.client /\ a.key = Start.key
      /\ a.user = Start.user /\ a.sent = Start.sent /\ a.basic = Start.basic
      /\ (a.kind = "create") = (req[r].kind = "create")
      /\ req[r].kind = "create" => a.won = req[r].won
  BY <1>2, <1>3
<1> HIDE DEF a
<1>5. QED
  BY <1>1, <1>4, StartIs, RecordType

LEMMA EndsAre ==
  ASSUME TypeOK, NEW r \in Requests, Respond(r) \/ Raise(r)
  PROVE  Ends(r)
<1>1. PICK s \in {"answered", "raised"} : Go(r, s)
  BY DEF Respond, Raise
<1>2. /\ pc' \in [Requests -> Places] /\ pc'[r] = s
      /\ \A q \in Requests \ {r} : pc'[q] = pc[q]
  BY <1>1, PlaceType DEF Places
<1>3. Over(r) /\ pc[r] \in Asked /\ UNCHANGED <<used, granted, mailed, beside>>
  BY DEF Respond, Raise, accountVars, Asked
<1>4. QED
  BY <1>2, <1>3, OverIs DEF Ends, Others

LEMMA SaveIs ==
  ASSUME TypeOK, NEW r \in Requests, Save(r)
  PROVE  /\ Others(r) /\ Same(r) /\ req' = req /\ Write(r)
         /\ pc[r] = "saving" /\ pc'[r] = "answering"
         /\ UNCHANGED <<used, clientVars, accountVars>>
<1>1. /\ Write(r) /\ pc[r] = "saving" /\ req' = req
      /\ UNCHANGED <<used, clientVars, accountVars>>
  BY DEF Save
<1>2. /\ pc' \in [Requests -> Places] /\ pc'[r] = "answering"
      /\ \A q \in Requests \ {r} : pc'[q] = pc[q]
  BY PlaceType DEF Save, Places, Asked
<1>3. QED
  BY <1>1, <1>2, Types DEF Others, Same

(***************************************************************************)
(* Every step keeps the types.                                             *)
(***************************************************************************)
LEMMA ArriveBase ==
  ASSUME Base, NEW r \in Requests, Arrive(r)
  PROVE  Base'
<1> USE DEF Base
<1>1. Arrives(r)
  BY ArriveIs
<1>2. beside' \in [Requests -> SUBSET Requests]
  BY <1>1 DEF Arrives, TypeOK, Creating
<1>3. TypeOK'
  BY <1>1, <1>2 DEF Arrives, Others, TypeOK, Places, RequestSet, clientVars
<1>4. Whole(r)'
  <2>1. \A w \in Ways : held[req'[r].client][w] \in used \cup {None}
    BY <1>1 DEF Arrives, TypeOK
  <2>2. QED
    BY <1>1, <2>1 DEF Arrives, Others, Whole, Keyed, Asked, clientVars
<1>5. QED
  BY <1>1, <1>3, <1>4, OthersWhole DEF Arrives, Others

LEMMA LoadBase ==
  ASSUME Base, NEW r \in Requests, BasicSession(r) \/ Load(r) \/ NewSession(r)
  PROVE  Base'
<1> USE DEF Base
<1>1. ByBasic(r) \/ Found(r) \/ Fresh(r)
  BY BasicIs, LoadIs, NewIs
<1>2. Opens(r) /\ Whole(r)
  BY <1>1 DEF ByBasic, Found, Fresh, RequestsAreWhole
<1>3. /\ used \subseteq used' /\ used' \subseteq Keys /\ req'[r].key \in used'
      /\ granted' \subseteq Clients \X used' \X Ids
  <2>1. CASE ByBasic(r)
    <3>1. req[r].client \in Clients
      BY <1>2 DEF Opens, Whole, Asked
    <3>2. QED
      BY <2>1, <3>1 DEF ByBasic, TypeOK
  <2>2. CASE Found(r)
    BY <2>2 DEF Found, Finds, TypeOK
  <2>3. CASE Fresh(r)
    BY <2>3 DEF Fresh, TypeOK
  <2>4. QED
    BY <1>1, <2>1, <2>2, <2>3
<1>4. held' \in [Clients -> [Ways -> used' \cup {None}]]
  BY <1>2, <1>3 DEF Opens, TypeOK
<1>5. TypeOK'
  BY <1>2, <1>3, <1>4 DEF Opens, Others, TypeOK, Places, RequestSet, accountVars
<1>6. Whole(r)'
  BY <1>2, <1>3, StartIs DEF Opens, Same, Whole, Keyed, Asked
<1>7. QED
  BY <1>2, <1>3, <1>5, <1>6, OthersWhole DEF Opens, Others

LEMMA HandlerBase ==
  ASSUME Base, NEW r \in Requests, Handlers(r)
  PROVE  Base'
<1> USE DEF Base
<1>1. Handles(r) /\ (Keeping(r) \/ Grants(r)) /\ Whole(r)
  BY HandlersAre DEF RequestsAreWhole
<1>2. req[r].client \in Clients /\ req[r].key \in used
  BY <1>1 DEF Handles, Whole, Keyed, Asked
<1>3. granted' \subseteq Clients \X used \X Ids
  BY <1>1, <1>2 DEF Keeping, Grants, TypeOK
<1>4. users' \subseteq [id : Ids, name : Names \cup Users, mail : Mails \cup Users]
      /\ mailed' \subseteq Requests
  <2>1. CASE CreateUser(r)
    <3>1. req[r].name \in Names /\ req[r].mail \in Mails
      BY <1>1, <2>1 DEF CreateUser, Whole, Asked
    <3>2. QED
      BY <2>1, <3>1 DEF CreateUser, Inserts, TypeOK, Ids
  <2>2. CASE MailPassword(r)
    BY <2>2 DEF MailPassword, TypeOK
  <2>3. CASE UNCHANGED <<users, mailed>>
    BY <2>3 DEF TypeOK
  <2>4. QED
    BY <2>1, <2>2, <2>3 DEF Handlers, Login, Logout, CheckEmail, CheckName, accountVars
<1>5. TypeOK'
  BY <1>1, <1>3, <1>4 DEF Handles, Others, TypeOK, Places, RequestSet
<1>6. Whole(r)'
  BY <1>1 DEF Handles, Same, Whole, Keyed, Asked
<1>7. QED
  BY <1>1, <1>5, <1>6, OthersWhole DEF Handles, Others

LEMMA WriteType ==
  ASSUME Base, NEW r \in Requests, pc[r] \in Keyed, Write(r)
  PROVE  /\ DOMAIN redis' \subseteq used
         /\ \A k \in DOMAIN redis' : redis'[k] \in Ids \cup {None}
  BY DEF Base, TypeOK, RequestsAreWhole, Whole, Write

LEMMA EndBase ==
  ASSUME Base, NEW r \in Requests, Save(r) \/ Respond(r) \/ Raise(r)
  PROVE  Base'
<1> USE DEF Base
<1>0. Whole(r)
  BY DEF RequestsAreWhole
<1>1. CASE Save(r)
  <2>1. Others(r) /\ Same(r) /\ req' = req /\ pc[r] = "saving" /\ pc'[r] = "answering"
        /\ Write(r) /\ UNCHANGED <<used, clientVars, accountVars>>
    BY <1>1, SaveIs
  <2>2. /\ DOMAIN redis' \subseteq used
        /\ \A k \in DOMAIN redis' : redis'[k] \in Ids \cup {None}
    BY <2>1, WriteType DEF Keyed, Asked
  <2>3. TypeOK'
    BY <2>1, <2>2 DEF Others, TypeOK, Places, RequestSet, clientVars, accountVars
  <2>4. Whole(r)'
    BY <1>0, <2>1 DEF Whole, Keyed, Asked
  <2>5. QED
    BY <2>1, <2>3, <2>4, OthersWhole DEF Others
<1>2. CASE Respond(r) \/ Raise(r)
  <2>1. Ends(r)
    BY <1>2, EndsAre
  <2>2. req[r].client \in Clients /\ Claims(r) \in Ids \cup {None}
    BY <1>0, <2>1, Types DEF Ends, Whole, Claims, RequestSet
  <2>3. /\ DOMAIN redis' \subseteq used
        /\ \A k \in DOMAIN redis' : redis'[k] \in Ids \cup {None}
    BY <1>2, WriteType DEF Respond, Raise, Keyed, Asked, TypeOK
  <2>4. users' \subseteq [id : Ids, name : Names \cup Users, mail : Mails \cup Users]
    <3>1. CASE UNCHANGED users
      BY <3>1 DEF TypeOK
    <3>2. CASE pc[r] = "inserting" /\ Inserts(r)
      <4>1. req[r].name \in Names /\ req[r].mail \in Mails
        BY <1>0, <3>2 DEF Whole, Asked
      <4>2. QED
        BY <3>2, <4>1 DEF Inserts, TypeOK, Ids
    <3>3. QED
      BY <1>2, <3>1, <3>2 DEF Respond, Raise, accountVars
  <2>5. /\ held' \in [Clients -> [Ways -> used \cup {None}]]
        /\ \A c \in Clients : \A w \in Ways \ Keeps[c] : held'[c][w] = None
    <3>1. CASE UNCHANGED held
      BY <3>1 DEF TypeOK
    <3>2. CASE Respond(r)
      <4>1. held' = [held EXCEPT ![req[r].client] = KeysThen(r)]
        BY <3>2 DEF Respond, Client
      <4>2. req[r].key \in used
        BY <1>0, <3>2 DEF Respond, Whole, Keyed, Asked
      <4>3. KeysThen(r) \in [Ways -> used \cup {None}]
        BY <2>2, <4>2 DEF KeysThen, Client, TypeOK
      <4>4. \A w \in Ways \ Keeps[req[r].client] : KeysThen(r)[w] = None
        BY <2>2 DEF KeysThen, Client, TypeOK
      <4>5. QED
        BY <2>2, <4>1, <4>3, <4>4 DEF TypeOK
    <3>3. QED
      BY <1>2, <3>1, <3>2 DEF Raise
  <2>6. may' \in [Clients -> SUBSET (Ids \cup {None})]
    <3>1. may' \in {may, [may EXCEPT ![req[r].client] = {Claims(r)}],
                    [may EXCEPT ![req[r].client] = @ \cup {Claims(r)}]}
      BY <1>2 DEF Respond, Raise, Client
    <3>2. QED
      BY <2>2, <3>1 DEF TypeOK
  <2>7. TypeOK'
    BY <2>1, <2>3, <2>4, <2>5, <2>6 DEF Ends, Others, TypeOK, Places, RequestSet
  <2>8. Whole(r)'
    BY <1>0, <2>1, StartIs DEF Ends, Whole, Keyed, Asked
  <2>9. QED
    BY <2>1, <2>7, <2>8, OthersWhole DEF Ends, Others
<1>3. QED
  BY <1>1, <1>2

LEMMA ExpireBase == ASSUME Base, NEW k \in Keys, Expire(k)
                    PROVE  Base'
  BY DEF Expire, Base, TypeOK, RequestsAreWhole, Whole, clientVars, accountVars

LEMMA NextBase == ASSUME Base, [Next]_vars
                  PROVE  Base'
<1>1. CASE UNCHANGED vars
  BY <1>1 DEF vars, Base, TypeOK, RequestsAreWhole, Whole, clientVars, accountVars
<1>2. QED
  BY <1>1, ArriveBase, LoadBase, HandlerBase, EndBase, ExpireBase DEF Next, Handlers

\* Requests, sessions, keys and accounts keep their types.
THEOREM TypeCorrect == Spec => []TypeOK
<1>1. Base => TypeOK
  BY DEF Base
<1>2. QED
  BY <1>1, InitBase, NextBase, PTL DEF Spec

(***************************************************************************)
(* Sessions are separate.  A key is with one client: in its requests, in   *)
(* what it keeps and in the credentials it sent; only get_session brings a *)
(* key to a client, and the key is new then.  The user of a request was     *)
(* granted to its client with its key, and the user a session says was      *)
(* granted with its key.                                                    *)
(***************************************************************************)
Has(c, k) ==
  \/ \E r \in Requests : req[r].client = c /\ (req[r].key = k \/ Knows(req[r].sent, k))
  \/ Knows(held[c], k)
  \/ \E u \in Ids : <<c, k, u>> \in granted

OneOwner == \A k \in Keys : \A c, d \in Clients : Has(c, k) /\ Has(d, k) => c = d

UserGranted(r) ==
  req[r].user # None => <<req[r].client, req[r].key, req[r].user>> \in granted

UsersGranted == \A r \in Requests : UserGranted(r)

SessionsGranted ==
  \A k \in DOMAIN redis :
    redis[k] # None => \E c \in Clients : <<c, k, redis[k]>> \in granted

Owned == OneOwner /\ UsersGranted /\ SessionsGranted

LEMMA InitOwned == Init => Owned
<1> SUFFICES ASSUME Init
             PROVE  Owned
  OBVIOUS
<1>1. \A k \in Keys : \A c \in Clients : ~Has(c, k)
  BY StartIs, WebAssumption DEF Init, Has, Knows
<1>2. UsersGranted /\ SessionsGranted
  BY StartIs DEF Init, UsersGranted, UserGranted, SessionsGranted
<1>3. QED
  BY <1>1, <1>2 DEF Owned, OneOwner

\* Clients that come to no key leave the keys with their owners.
LEMMA OwnersStay ==
  ASSUME OneOwner, \A k \in Keys : \A c \in Clients : Has(c, k)' => Has(c, k)
  PROVE  OneOwner'
  BY DEF OneOwner

LEMMA UsersStay ==
  ASSUME UsersGranted, NEW r \in Requests, Others(r), granted \subseteq granted',
         UserGranted(r)'
  PROVE  UsersGranted'
  BY DEF UsersGranted, UserGranted, Others

\* A request with a key, its session's or one it brings, is one of the key's owner's.
LEMMA Holder ==
  ASSUME Base, NEW r \in Requests, NEW k \in Keys,
         req[r].key = k \/ Knows(req[r].sent, k)
  PROVE  req[r].client \in Clients /\ Has(req[r].client, k)
<1>1. Whole(r) /\ k # None
  BY WebAssumption DEF Base, RequestsAreWhole
<1>2. pc[r] \in Asked
  BY <1>1, StartIs DEF Whole, Knows
<1>3. QED
  BY <1>1, <1>2 DEF Whole, Has

LEMMA ArriveOwned ==
  ASSUME Base, Owned, NEW r \in Requests, Arrive(r)
  PROVE  Owned'
<1>1. Arrives(r)
  BY ArriveIs DEF Base
<1>2. ASSUME NEW k \in Keys, NEW c \in Clients, Has(c, k)'
      PROVE  Has(c, k)
  <2>1. k # None /\ UNCHANGED <<held, granted>>
    BY <1>1, WebAssumption DEF Arrives, clientVars
  <2>2. CASE \E q \in Requests : req'[q].client = c /\ (req'[q].key = k \/ Knows(req'[q].sent, k))
    <3>1. PICK q \in Requests : req'[q].client = c /\ (req'[q].key = k \/ Knows(req'[q].sent, k))
      BY <2>2
    <3>2. CASE q = r
      BY <1>1, <2>1, <3>1, <3>2 DEF Arrives, Has
    <3>3. CASE q # r
      BY <1>1, <3>1, <3>3 DEF Arrives, Others, Has
    <3>4. QED
      BY <3>2, <3>3
  <2>3. QED
    BY <1>2, <2>1, <2>2 DEF Has, Knows
<1>3. UserGranted(r)'
  BY <1>1 DEF Arrives, UserGranted
<1>4. QED
  BY <1>1, <1>2, <1>3, OwnersStay, UsersStay
     DEF Arrives, Owned, SessionsGranted, clientVars

\* A key that was given to no session is with no client.
LEMMA NewKey ==
  ASSUME Base, NEW k \in Keys \ used, NEW c \in Clients
  PROVE  ~Has(c, k)
<1>1. k # None
  BY WebAssumption
<1>2. \A r \in Requests : req[r].key # k /\ ~Knows(req[r].sent, k)
  BY <1>1 DEF Base, RequestsAreWhole, Whole, Knows
<1>3. ~Knows(held[c], k)
  BY <1>1 DEF Base, TypeOK, Knows
<1>4. \A u \in Ids : <<c, k, u>> \notin granted
  BY DEF Base, TypeOK
<1>5. QED
  BY <1>2, <1>3, <1>4 DEF Has

\* What get_session gives to a client is the client's already or a new key.
LEMMA OpensHas ==
  ASSUME Base, NEW r \in Requests, Opens(r), NEW k \in Keys, NEW c \in Clients, Has(c, k)',
         granted' \in {granted, granted \cup {<<req[r].client, req'[r].key, req'[r].user>>}}
  PROVE  Has(c, k) \/ (c = req[r].client /\ k = req'[r].key)
<1>1. k # None /\ UNCHANGED held
  BY WebAssumption DEF Opens
<1>2. CASE \E q \in Requests : req'[q].client = c /\ (req'[q].key = k \/ Knows(req'[q].sent, k))
  <2>1. PICK q \in Requests : req'[q].client = c /\ (req'[q].key = k \/ Knows(req'[q].sent, k))
    BY <1>2
  <2>2. CASE q = r
    BY <1>1, <2>1, <2>2, StartIs DEF Opens, Same, Knows
  <2>3. CASE q # r
    BY <2>1, <2>3 DEF Opens, Others, Has
  <2>4. QED
    BY <2>2, <2>3
<1>4. CASE \E u \in Ids : <<c, k, u>> \in granted'
  BY <1>4 DEF Has
<1>5. CASE Knows(held'[c], k)
  BY <1>1, <1>5 DEF Has, Knows
<1>6. QED
  BY <1>2, <1>4, <1>5 DEF Has, Knows

LEMMA LoadOwned ==
  ASSUME Base, Owned, NEW r \in Requests, BasicSession(r) \/ Load(r) \/ NewSession(r)
  PROVE  Owned'
<1>1. ByBasic(r) \/ Found(r) \/ Fresh(r)
  BY BasicIs, LoadIs, NewIs DEF Base
<1>2. Opens(r) /\ granted \subseteq granted'
  BY <1>1 DEF ByBasic, Found, Fresh
<1>3. Whole(r) /\ req[r].client \in Clients /\ req[r].user = None
  BY <1>2 DEF Base, RequestsAreWhole, Whole, Opens, Asked
<1>4. SessionsGranted'
  BY <1>2 DEF Owned, SessionsGranted, Opens
<1>5. CASE ByBasic(r) \/ Fresh(r)
  <2>1. /\ req'[r].key \in Keys \ used
        /\ granted' \in {granted, granted \cup {<<req[r].client, req'[r].key, req'[r].user>>}}
    BY <1>5 DEF ByBasic, Fresh
  <2>2. \A k \in Keys : \A c \in Clients :
          Has(c, k)' => Has(c, k) \/ (c = req[r].client /\ k = req'[r].key)
    BY <1>2, <2>1, OpensHas
  <2>3. \A c \in Clients : ~Has(c, req'[r].key)
    BY <2>1, NewKey
  <2>4. OneOwner'
    BY <2>2, <2>3 DEF Owned, OneOwner
  <2>5. UserGranted(r)'
    BY <1>2, <1>3, <1>5 DEF ByBasic, Fresh, Opens, Same, UserGranted
  <2>6. QED
    BY <1>2, <1>4, <2>4, <2>5, UsersStay DEF Owned, Opens
<1>6. CASE Found(r)
  <2>1. PICK w \in Ways : /\ Finds(r, w) /\ req'[r].key = req[r].sent[w]
                          /\ req'[r].user = redis[req[r].sent[w]]
    BY <1>6 DEF Found
  <2>2. req'[r].key \in DOMAIN redis /\ req'[r].key \in Keys
    BY <2>1 DEF Finds, Base, TypeOK
  <2>3. Has(req[r].client, req'[r].key)
    BY <2>1, <2>2, Holder DEF Knows
  <2>4. \A k \in Keys : \A c \in Clients : Has(c, k)' => Has(c, k)
    BY <1>2, <1>6, <2>3, OpensHas DEF Found
  <2>5. ASSUME req'[r].user # None
        PROVE  <<req[r].client, req'[r].key, req'[r].user>> \in granted
    <3>1. redis[req'[r].key] = req'[r].user
      BY <2>1
    <3>2. PICK c \in Clients : <<c, req'[r].key, req'[r].user>> \in granted
      BY <2>2, <2>5, <3>1 DEF Owned, SessionsGranted
    <3>3. req'[r].user \in Ids
      BY <2>2, <2>5, <3>1 DEF Base, TypeOK
    <3>4. Has(c, req'[r].key)
      BY <3>2, <3>3 DEF Has
    <3>5. c = req[r].client
      BY <1>3, <2>2, <2>3, <3>4 DEF Owned, OneOwner
    <3>6. QED
      BY <3>2, <3>5
  <2>6. UserGranted(r)'
    BY <1>2, <2>5 DEF UserGranted, Opens, Same
  <2>7. QED
    BY <1>2, <1>4, <2>4, <2>6, OwnersStay, UsersStay DEF Owned, Opens
<1>7. QED
  BY <1>1, <1>5, <1>6

LEMMA HandlerOwned ==
  ASSUME Base, Owned, NEW r \in Requests, Handlers(r)
  PROVE  Owned'
<1>1. Handles(r) /\ (Keeping(r) \/ Grants(r)) /\ Whole(r)
  BY HandlersAre DEF Base, RequestsAreWhole
<1>2. req[r].client \in Clients /\ req[r].key \in Keys
  BY <1>1, Types DEF Handles, Whole, Keyed, Asked, Base
<1>3. Has(req[r].client, req[r].key)
  BY <1>2, Holder
<1>4. granted \subseteq granted'
  BY <1>1 DEF Keeping, Grants
<1>5. ASSUME NEW k \in Keys, NEW c \in Clients, Has(c, k)'
      PROVE  Has(c, k)
  <2>1. CASE \E q \in Requests : req'[q].client = c /\ (req'[q].key = k \/ Knows(req'[q].sent, k))
    <3>1. PICK q \in Requests : req'[q].client = c /\ (req'[q].key = k \/ Knows(req'[q].sent, k))
      BY <2>1
    <3>2. req[q].client = c /\ (req[q].key = k \/ Knows(req[q].sent, k))
      BY <1>1, <3>1 DEF Handles, Same, Others, Knows
    <3>3. QED
      BY <3>2 DEF Has
  <2>2. CASE Knows(held'[c], k)
    BY <1>1, <2>2 DEF Handles, Has, Knows
  <2>3. CASE \E u \in Ids : <<c, k, u>> \in granted'
    BY <1>1, <1>3, <2>3 DEF Keeping, Grants, Has
  <2>4. QED
    BY <1>5, <2>1, <2>2, <2>3 DEF Has, Knows
<1>6. UserGranted(r)'
  BY <1>1 DEF Handles, Same, Keeping, Grants, UserGranted, Owned, UsersGranted
<1>7. SessionsGranted'
  BY <1>1, <1>4 DEF Handles, Owned, SessionsGranted
<1>8. QED
  BY <1>1, <1>4, <1>5, <1>6, <1>7, OwnersStay, UsersStay DEF Owned, Handles

\* What a request writes was granted with its key.
LEMMA WriteGranted ==
  ASSUME Base, Owned, NEW r \in Requests, pc[r] = "saving", Write(r), UNCHANGED granted
  PROVE  SessionsGranted'
<1>1. req[r].client \in Clients
  BY DEF Base, RequestsAreWhole, Whole, Asked
<1>2. UserGranted(r)
  BY DEF Owned, UsersGranted
<1>3. QED
  BY <1>1, <1>2 DEF Owned, UserGranted, SessionsGranted, Write

LEMMA EndOwned ==
  ASSUME Base, Owned, NEW r \in Requests, Save(r) \/ Respond(r) \/ Raise(r)
  PROVE  Owned'
<1>1. CASE Save(r)
  <2>1. /\ Others(r) /\ req' = req /\ Write(r) /\ pc[r] = "saving"
        /\ UNCHANGED clientVars
    BY <1>1, SaveIs DEF Base
  <2>2. \A k \in Keys : \A c \in Clients : Has(c, k)' => Has(c, k)
    BY <2>1 DEF Has, Knows, clientVars
  <2>3. UsersGranted'
    BY <2>1 DEF Owned, UsersGranted, UserGranted, clientVars
  <2>4. QED
    BY <2>1, <2>2, <2>3, WriteGranted, OwnersStay DEF Owned, clientVars
<1>2. CASE Respond(r) \/ Raise(r)
  <2>1. Ends(r)
    BY <1>2, EndsAre DEF Base
  <2>2. SessionsGranted'
    <3>1. CASE Raise(r) /\ pc[r] = "saving" /\ Write(r)
      BY <2>1, <3>1, WriteGranted DEF Ends
    <3>2. CASE UNCHANGED redis
      BY <2>1, <3>2 DEF Owned, SessionsGranted, Ends
    <3>3. QED
      BY <1>2, <3>1, <3>2 DEF Respond, Raise
  <2>3. UserGranted(r)'
    BY <2>1 DEF Ends, UserGranted
  <2>4. ASSUME NEW k \in Keys, NEW c \in Clients, Has(c, k)'
        PROVE  Has(c, k)
    <3>1. CASE \E q \in Requests : req'[q].client = c /\ (req'[q].key = k \/ Knows(req'[q].sent, k))
      <4>1. PICK q \in Requests : req'[q].client = c /\ (req'[q].key = k \/ Knows(req'[q].sent, k))
        BY <3>1
      <4>3. k # None
        BY WebAssumption
      <4>4. q # r
        BY <2>1, <4>1, <4>3, StartIs DEF Ends, Knows
      <4>5. QED
        BY <2>1, <4>1, <4>4 DEF Ends, Others, Has
    <3>2. CASE Knows(held'[c], k)
      <4>1. CASE UNCHANGED held
        BY <3>2, <4>1 DEF Has, Knows
      <4>2. CASE Respond(r)
        <5>1. held' = [held EXCEPT ![req[r].client] = KeysThen(r)]
          BY <4>2 DEF Respond, Client
        <5>2. CASE c = req[r].client
          <6>1. Knows(KeysThen(r), k)
            BY <3>2, <5>1, <5>2 DEF Base, TypeOK
          <6>2. req[r].key = k \/ Knows(held[c], k)
            BY <5>2, <6>1 DEF Knows, KeysThen, Client
          <6>3. QED
            BY <5>2, <6>2 DEF Has
        <5>3. CASE c # req[r].client
          BY <3>2, <5>1, <5>3 DEF Has, Base, TypeOK
        <5>4. QED
          BY <5>2, <5>3
      <4>3. QED
        BY <1>2, <4>1, <4>2 DEF Raise
    <3>3. CASE \E u \in Ids : <<c, k, u>> \in granted'
      BY <2>1, <3>3 DEF Ends, Has
    <3>4. QED
      BY <2>4, <3>1, <3>2, <3>3 DEF Has, Knows
  <2>5. QED
    BY <2>1, <2>2, <2>3, <2>4, OwnersStay, UsersStay DEF Owned, Ends
<1>3. QED
  BY <1>1, <1>2

LEMMA ExpireOwned == ASSUME Owned, NEW k \in Keys, Expire(k)
                     PROVE  Owned'
  BY DEF Expire, Owned, OneOwner, Has, Knows, UsersGranted, UserGranted, SessionsGranted,
         clientVars

LEMMA NextOwned == ASSUME Base, Owned, [Next]_vars
                   PROVE  Owned'
<1>1. CASE UNCHANGED vars
  BY <1>1 DEF vars, Owned, OneOwner, Has, Knows, UsersGranted, UserGranted, SessionsGranted,
              clientVars
<1>2. QED
  BY <1>1, ArriveOwned, LoadOwned, HandlerOwned, EndOwned, ExpireOwned DEF Next, Handlers

LEMMA OwnedSeparates == Base /\ Owned => SessionsAreSeparate
<1> SUFFICES ASSUME Base, Owned, NEW k \in DOMAIN redis, redis[k] # None
             PROVE  /\ \E g \in granted : g[2] = k /\ g[3] = redis[k]
                    /\ \A c \in Clients : Knows(held[c], k) => <<c, k, redis[k]>> \in granted
  BY DEF SessionsAreSeparate
<1>1. PICK d \in Clients : <<d, k, redis[k]>> \in granted
  BY DEF Owned, SessionsGranted
<1>2. k \in Keys /\ redis[k] \in Ids
  BY DEF Base, TypeOK
<1>3. Has(d, k)
  BY <1>1, <1>2 DEF Has
<1>4. \A c \in Clients : Knows(held[c], k) => c = d
  BY <1>2, <1>3 DEF Owned, OneOwner, Has
<1>5. \E g \in granted : g[2] = k /\ g[3] = redis[k]
  <2> DEFINE g == <<d, k, redis[k]>>
  <2>1. g \in granted /\ g[2] = k /\ g[3] = redis[k]
    BY <1>1
  <2>2. QED
    BY <2>1
<1>6. QED
  BY <1>1, <1>4, <1>5

\* For any requests, clients and ways to send a key: a session says a user only if
\* credentials of that user were accepted for its key, and from the client that holds
\* the key.
THEOREM Separate == Spec => []SessionsAreSeparate
<1>1. Spec => [](Base /\ Owned)
  BY InitBase, InitOwned, NextBase, NextOwned, PTL DEF Spec
<1>2. QED
  BY <1>1, OwnedSeparates, PTL

(***************************************************************************)
(* SessionFollowsClient, for a client that asks one thing at a time and     *)
(* has its key in one way.  Up to the write of its session the request has *)
(* a user the client may be, unless it brought credentials; the session in *)
(* redis says what the client may be until then, and what the request says *)
(* from then on.  If the request has a new key without credentials, the     *)
(* session of the client's key is gone, and nobody else can bring it back.  *)
(***************************************************************************)
Plain == {c \in Calm : Keeps[c] # Ways}

OneWay(c) == IF "cookie" \in Keeps[c] THEN "cookie" ELSE "token"

Only(c) == held[c][OneWay(c)]

OneKeyed ==
  \A c \in Plain :
    /\ \A k \in Keys : Knows(held[c], k) <=> Only(c) = k
    /\ \A w \in Ways : w # OneWay(c) => held[c][w] = None
    /\ SessionUser(c) = IF Only(c) \in DOMAIN redis THEN redis[Only(c)] ELSE None

LEMMA PlainIs == \A c \in Plain : /\ c \in Clients /\ OneWay(c) \in Ways
                                  /\ \A w \in Keeps[c] : w = OneWay(c)
<1> SUFFICES ASSUME NEW c \in Plain
             PROVE  /\ c \in Clients /\ OneWay(c) \in Ways
                    /\ \A w \in Keeps[c] : w = OneWay(c)
  OBVIOUS
<1>1. c \in Clients /\ Keeps[c] \subseteq {"cookie", "token"}
      /\ Keeps[c] # {"cookie", "token"}
  BY WebAssumption DEF Plain, Ways
<1>2. QED
  BY <1>1 DEF OneWay, Ways

LEMMA OneKeyIs == TypeOK => OneKeyed
<1> SUFFICES ASSUME TypeOK, NEW c \in Plain
             PROVE  /\ \A k \in Keys : Knows(held[c], k) <=> Only(c) = k
                    /\ \A w \in Ways : w # OneWay(c) => held[c][w] = None
                    /\ SessionUser(c) = IF Only(c) \in DOMAIN redis THEN redis[Only(c)] ELSE None
  BY DEF OneKeyed
<1>1. \A w \in Ways : w # OneWay(c) => held[c][w] = None
  BY PlainIs DEF TypeOK
<1>2. None \notin DOMAIN redis /\ None \notin Keys
  BY Types, WebAssumption
<1>3. \A k \in Keys : Knows(held[c], k) <=> Only(c) = k
  BY <1>1, <1>2, PlainIs DEF Knows, Only
<1>4. CASE OneWay(c) = "cookie"
  <2>1. held[c]["token"] = None
    BY <1>1, <1>4 DEF Ways
  <2>2. QED
    BY <1>1, <1>2, <1>3, <1>4, <2>1 DEF SessionUser, Only, Ways
<1>5. CASE OneWay(c) = "token"
  <2>1. held[c]["cookie"] = None
    BY <1>1, <1>5 DEF Ways
  <2>2. {w \in Ways : held[c][w] \in DOMAIN redis} =
          IF Only(c) \in DOMAIN redis THEN {"token"} ELSE {}
    BY <1>2, <1>5, <2>1 DEF Only, Ways
  <2>3. QED
    BY <1>1, <1>3, <2>2, <1>5 DEF SessionUser, Only
<1>6. QED
  BY <1>4, <1>5 DEF OneWay

LEMMA OneKeyNext == TypeOK' => OneKeyed'
  BY OneKeyIs, PTL

Mine(c, r) == req[r].client = c /\ pc[r] \in Asked

May(c) == may[c] \cup {None}

Late == {"saving", "answering"}

FollowsIn(c, r) ==
  /\ pc[r] = "loading" => req[r].sent = held[c] /\ ~req[r].basic
  /\ pc[r] # "loading" /\ req[r].key = Only(c) => ~req[r].basic
  /\ pc[r] # "loading" /\ req[r].key # Only(c) => req[r].basic \/ Only(c) \notin DOMAIN redis
  /\ ~req[r].basic /\ (pc[r] \notin Late \/ ~Identifies(r)) => req[r].user \in May(c)
  /\ pc[r] \in Late /\ req[r].kind = "logout" => req[r].user = None
  /\ pc[r] = "answering" /\ req[r].key \in DOMAIN redis => redis[req[r].key] = req[r].user

\* The session of c's key is not what an answer that is under way is about.
Settled(c) == \A r \in Requests : Mine(c, r) /\ pc[r] = "answering" => req[r].key # Only(c)

Follows(c) ==
  /\ \A r, q \in Requests : Mine(c, r) /\ Mine(c, q) => r = q
  /\ Settled(c) => SessionUser(c) \in May(c)
  /\ \A r \in Requests : Mine(c, r) => FollowsIn(c, r)

AllFollow == \A c \in Plain : Follows(c)

LEMMA InitFollow == Init => AllFollow
<1> SUFFICES ASSUME Init, NEW c \in Plain
             PROVE  Follows(c)
  BY DEF AllFollow
<1>1. \A r \in Requests : ~Mine(c, r)
  BY DEF Init, Mine, Asked
<1>2. SessionUser(c) = None
  BY DEF Init, SessionUser
<1>3. QED
  BY <1>1, <1>2 DEF Follows, May

\* The steps of a request that has arrived.
Serves(r) == \/ BasicSession(r) \/ Load(r) \/ NewSession(r) \/ Handlers(r)
             \/ Save(r) \/ Respond(r) \/ Raise(r)

LEMMA ServesFrame ==
  ASSUME Base, NEW r \in Requests, Serves(r)
  PROVE  /\ pc[r] \in Asked /\ Others(r) /\ req[r].client \in Clients
         /\ req'[r].client \in {req[r].client, None}
         /\ \A c \in Clients \ {req[r].client} : held'[c] = held[c] /\ may'[c] = may[c]
         /\ redis' = redis \/ (pc[r] \in Keyed /\ Write(r))
<1> USE DEF Base
<1>0. pc[r] \in Asked => req[r].client \in Clients
  BY DEF RequestsAreWhole, Whole
<1>1. CASE BasicSession(r) \/ Load(r) \/ NewSession(r)
  <2>1. Opens(r)
    BY <1>1, BasicIs, LoadIs, NewIs DEF ByBasic, Found, Fresh
  <2>2. QED
    BY <1>0, <2>1 DEF Opens, Same, Asked
<1>2. CASE Handlers(r)
  BY <1>0, <1>2, HandlersAre DEF Handles, Same, Asked
<1>3. CASE Save(r)
  BY <1>0, <1>3, SaveIs DEF Same, Asked, Keyed, clientVars
<1>4. CASE Respond(r) \/ Raise(r)
  <2>1. Ends(r)
    BY <1>4, EndsAre
  <2>2. \A c \in Clients \ {req[r].client} : held'[c] = held[c] /\ may'[c] = may[c]
    <3>1. held' \in {held, [held EXCEPT ![req[r].client] = KeysThen(r)]}
      BY <1>4 DEF Respond, Raise, Client
    <3>2. may' \in {may, [may EXCEPT ![req[r].client] = {Claims(r)}],
                    [may EXCEPT ![req[r].client] = @ \cup {Claims(r)}]}
      BY <1>4 DEF Respond, Raise, Client
    <3>3. QED
      BY <3>1, <3>2 DEF TypeOK
  <2>3. redis' = redis \/ (pc[r] \in Keyed /\ Write(r))
    BY <1>4 DEF Respond, Raise, Keyed, Asked
  <2>4. QED
    BY <1>0, <2>1, <2>2, <2>3 DEF Ends
<1>5. QED
  BY <1>1, <1>2, <1>3, <1>4 DEF Serves

\* A key whose session no step touches.
Kept(k) == /\ k \in DOMAIN redis' <=> k \in DOMAIN redis
           /\ k \in DOMAIN redis => redis'[k] = redis[k]

\* What Follows looks at is out of the reach of another client's request.
LEMMA OthersFollow ==
  ASSUME Base, Base', Owned, NEW c \in Plain, Follows(c),
         NEW r \in Requests, Serves(r), req[r].client # c
  PROVE  Follows(c)'
<1>0. c \in Clients /\ c # None
  BY PlainIs, WebAssumption DEF Base, TypeOK
<1>1. ASSUME NEW k \in Keys \cup {None}, k # None => Has(c, k)
      PROVE  Kept(k)
  <2>1. CASE redis' = redis
    BY <2>1 DEF Kept
  <2>2. CASE pc[r] \in Keyed /\ Write(r)
    <3>1. req[r].key \in Keys /\ req[r].key # None
      BY <2>2, WebAssumption DEF Base, TypeOK, RequestsAreWhole, Whole
    <3>2. req[r].client \in Clients /\ Has(req[r].client, req[r].key)
      BY <3>1, Holder
    <3>3. req[r].key # k
      BY <1>0, <1>1, <3>1, <3>2 DEF Owned, OneOwner
    <3>4. QED
      BY <2>2, <3>3 DEF Write, Kept
  <2>3. QED
    BY <2>1, <2>2, ServesFrame
<1>2. Kept(Only(c))
  <2>1. Only(c) \in Keys \cup {None}
    BY <1>0, PlainIs DEF Base, TypeOK, Only
  <2>2. Only(c) # None => Has(c, Only(c))
    BY PlainIs DEF Has, Knows, Only
  <2>3. QED
    BY <1>1, <2>1, <2>2
<1>3. ASSUME NEW q \in Requests, Mine(c, q)
      PROVE  Kept(req[q].key)
  <2>1. req[q].key \in Keys \cup {None}
    BY Types DEF Base, RequestSet
  <2>2. QED
    BY <1>1, <1>3, <2>1 DEF Has, Mine
<1>4. /\ held'[c] = held[c] /\ may'[c] = may[c] /\ Only(c)' = Only(c)
      /\ \A q \in Requests : Mine(c, q)' <=> Mine(c, q)
      /\ \A q \in Requests : Mine(c, q) => pc'[q] = pc[q] /\ req'[q] = req[q]
  <2>1. held'[c] = held[c] /\ may'[c] = may[c]
    BY <1>0, ServesFrame
  <2>2. \A q \in Requests \ {r} : pc'[q] = pc[q] /\ req'[q] = req[q]
    BY ServesFrame DEF Others
  <2>3. ~Mine(c, r) /\ ~Mine(c, r)'
    <3>1. req'[r].client # c
      BY <1>0, ServesFrame DEF Base, TypeOK
    <3>2. QED
      BY <3>1 DEF Mine
  <2>4. QED
    BY <2>1, <2>2, <2>3 DEF Mine, Only
<1>5. SessionUser(c)' = SessionUser(c) /\ May(c)' = May(c)
  <2>1. OneKeyed /\ OneKeyed'
    BY OneKeyIs, OneKeyNext DEF Base
  <2>2. QED
    BY <1>2, <1>4, <2>1 DEF OneKeyed, Kept, May
<1>6. ASSUME NEW q \in Requests, Mine(c, q)'
      PROVE  FollowsIn(c, q)'
  <2>1. FollowsIn(c, q) /\ pc'[q] = pc[q] /\ req'[q] = req[q] /\ Kept(req[q].key)
    BY <1>3, <1>4, <1>6 DEF Follows
  <2>2. QED
    BY <1>2, <1>4, <1>5, <2>1 DEF Kept, FollowsIn, Identifies
<1>7. Settled(c)' => Settled(c)
  BY <1>4 DEF Settled
<1>8. QED
  BY <1>4, <1>5, <1>6, <1>7 DEF Follows

\* The only request of a client decides.
LEMMA OnlyFollow ==
  ASSUME NEW c \in Plain, NEW r \in Requests,
         \A q \in Requests \ {r} : ~Mine(c, q)',
         Mine(c, r)' => FollowsIn(c, r)',
         (~Mine(c, r)' \/ pc'[r] # "answering" \/ req'[r].key # Only(c)')
            => SessionUser(c)' \in May(c)'
  PROVE  Follows(c)'
  BY DEF Follows, Settled

LEMMA OwnFollow ==
  ASSUME Base, Base', Owned, NEW c \in Plain, Follows(c),
         NEW r \in Requests, Serves(r), req[r].client = c
  PROVE  Follows(c)'
<1> USE DEF Base
<1>0. c \in Clients /\ c # None /\ Mine(c, r)
  BY PlainIs, ServesFrame, WebAssumption DEF Mine, TypeOK
<1>1. \A q \in Requests \ {r} : ~Mine(c, q) /\ ~Mine(c, q)'
  BY <1>0, ServesFrame DEF Follows, Mine, Others
<1>2. /\ FollowsIn(c, r) /\ Whole(r)
      /\ pc[r] # "answering" \/ req[r].key # Only(c) => SessionUser(c) \in May(c)
  BY <1>0, <1>1 DEF Follows, Settled, RequestsAreWhole
<1>3. /\ SessionUser(c) = IF Only(c) \in DOMAIN redis THEN redis[Only(c)] ELSE None
      /\ SessionUser(c)' = IF Only(c)' \in DOMAIN redis' THEN redis'[Only(c)'] ELSE None
      /\ \A w \in Ways : w # OneWay(c) => held[c][w] = None
      /\ \A k \in Keys : Knows(held[c], k) <=> Only(c) = k
  BY OneKeyIs, OneKeyNext DEF OneKeyed
<1>4. Only(c) \in used \cup {None}
  BY <1>0, PlainIs DEF Only, TypeOK
<1>5. CASE BasicSession(r) \/ Load(r) \/ NewSession(r)
  <2>1. ByBasic(r) \/ Found(r) \/ Fresh(r)
    BY <1>5, BasicIs, LoadIs, NewIs
  <2>2. Opens(r)
    BY <2>1 DEF ByBasic, Found, Fresh
  <2>3. /\ pc[r] = "loading" /\ pc'[r] \in {"saving", "handling"}
        /\ Only(c)' = Only(c) /\ May(c)' = May(c) /\ redis' = redis
        /\ pc'[r] = "saving" => req'[r].kind # "logout"
    BY <2>2 DEF Opens, Same, Only, May
  <2>4. SessionUser(c)' \in May(c)'
    BY <1>2, <1>3, <2>3
  <2>5. req[r].sent = held[c] /\ ~req[r].basic /\ req[r].user = None
    BY <1>2, <2>3 DEF FollowsIn, Whole
  <2>6. /\ req'[r].key = Only(c) => ~req'[r].basic
        /\ req'[r].key # Only(c) => req'[r].basic \/ Only(c) \notin DOMAIN redis
        /\ ~req'[r].basic => req'[r].user \in May(c)
    <3>1. CASE ByBasic(r)
      <4>1. req'[r].key # Only(c)
        BY <1>4, <3>1, WebAssumption DEF ByBasic
      <4>2. QED
        BY <3>1, <4>1 DEF ByBasic
    <3>2. CASE Found(r)
      <4>1. PICK w \in Ways : /\ Finds(r, w) /\ req'[r].key = req[r].sent[w]
                              /\ req'[r].user = redis[req[r].sent[w]]
        BY <3>2 DEF Found
      <4>2. req[r].sent[w] # None /\ req[r].sent[w] \in DOMAIN redis
        BY <4>1, Types DEF Finds
      <4>3. w = OneWay(c)
        BY <1>3, <2>5, <4>2
      <4>4. req'[r].key = Only(c) /\ req'[r].user = SessionUser(c)
        BY <1>3, <2>5, <4>1, <4>2, <4>3 DEF Only
      <4>5. QED
        BY <1>2, <2>3, <2>5, <3>2, <4>4 DEF Found
    <3>3. CASE Fresh(r)
      <4>1. req'[r].key # Only(c)
        BY <1>4, <3>3, WebAssumption DEF Fresh
      <4>2. Only(c) \notin DOMAIN redis
        <5>1. ~Finds(r, OneWay(c))
          BY <3>3, PlainIs DEF Fresh
        <5>2. OneWay(c) = "token" => held[c]["cookie"] \notin DOMAIN redis
          BY <1>3, Types DEF Ways
        <5>3. QED
          BY <2>5, <5>1, <5>2 DEF Finds, Only
      <4>3. QED
        BY <2>5, <3>3, <4>1, <4>2 DEF Fresh, May
    <3>4. QED
      BY <2>1, <3>1, <3>2, <3>3
  <2>7. FollowsIn(c, r)'
    BY <2>3, <2>6 DEF FollowsIn, Late
  <2>8. QED
    BY <1>1, <2>4, <2>7, OnlyFollow
<1>6. CASE Handlers(r)
  <2>1. /\ Handles(r)
        /\ req'[r].user = req[r].user \/ Grants(r) \/ req[r].kind = "logout"
        /\ req[r].kind = "logout" => req'[r].user = None
    BY <1>6, HandlersAre
  <2>2. /\ pc[r] \in {"handling", "naming", "inserting", "mailing"}
        /\ pc'[r] \in {"naming", "inserting", "mailing", "saving"}
        /\ pc'[r] # "saving" => req[r].kind = "create"
        /\ req'[r].key = req[r].key /\ req'[r].basic = req[r].basic
        /\ req'[r].kind = req[r].kind
        /\ Only(c)' = Only(c) /\ May(c)' = May(c) /\ redis' = redis
    BY <2>1 DEF Handles, Same, Only, May
  <2>3. SessionUser(c)' \in May(c)'
    BY <1>2, <1>3, <2>2
  <2>4. ~req[r].basic => req[r].user \in May(c)
    BY <1>2, <2>2 DEF FollowsIn, Late
  <2>5. ~req'[r].basic /\ (pc'[r] \notin Late \/ ~Identifies(r)') => req'[r].user \in May(c)'
    BY <2>1, <2>2, <2>4 DEF Grants, Identifies, May, Late
  <2>6. FollowsIn(c, r)'
    BY <1>2, <2>1, <2>2, <2>5 DEF FollowsIn
  <2>7. QED
    BY <1>1, <2>2, <2>3, <2>6, OnlyFollow
<1>7. CASE Save(r)
  <2>1. /\ pc[r] = "saving" /\ pc'[r] = "answering" /\ Write(r) /\ req' = req
        /\ Only(c)' = Only(c) /\ May(c)' = May(c)
    BY <1>7, SaveIs DEF Only, May, clientVars
  <2>2. /\ redis'[req[r].key] = req[r].user /\ DOMAIN redis' = DOMAIN redis \cup {req[r].key}
        /\ \A k \in DOMAIN redis : k # req[r].key => redis'[k] = redis[k]
    BY <2>1 DEF Write
  <2>3. FollowsIn(c, r)'
    BY <1>2, <2>1, <2>2 DEF FollowsIn, Identifies, Late
  <2>4. req[r].key # Only(c) => SessionUser(c)' \in May(c)'
    BY <1>2, <1>3, <2>1, <2>2
  <2>5. Mine(c, r)'
    BY <1>0, <2>1 DEF Mine, Asked
  <2>6. QED
    BY <1>1, <2>1, <2>3, <2>4, <2>5, OnlyFollow
<1>8. CASE Respond(r) \/ Raise(r)
  <2>1. Ends(r)
    BY <1>8, EndsAre
  <2>2. ~Mine(c, r)'
    BY <1>0, <2>1 DEF Ends, Mine
  <2>3. req[r].user \in May(c) \/ (pc[r] \in Late /\ Identifies(r)) \/ req[r].basic
    BY <1>2 DEF FollowsIn
  <2>4. pc[r] \in Late => Claims(r) = req[r].user
    BY <1>2 DEF FollowsIn, Claims
  <2>5. CASE Respond(r)
    <3>1. /\ pc[r] = "answering" /\ redis' = redis
          /\ held' = [held EXCEPT ![c] = KeysThen(r)]
          /\ may' = IF Identifies(r) /\ Knows(KeysThen(r), req[r].key)
                    THEN [may EXCEPT ![c] = {Claims(r)}] ELSE may
      BY <2>5 DEF Respond, Client
    <3>2. /\ held'[c] = KeysThen(r)
          /\ may'[c] = IF Identifies(r) /\ Knows(KeysThen(r), req[r].key)
                       THEN {Claims(r)} ELSE may[c]
      BY <1>0, <3>1 DEF TypeOK
    <3>3. Only(c)' = KeysThen(r)[OneWay(c)] /\ Only(c)' \in {Only(c), req[r].key}
      BY <3>2, PlainIs DEF Only, KeysThen, Client
    <3>4. req[r].key \in Keys /\ req[r].key # None
      BY <1>2, <3>1, WebAssumption DEF Whole, Keyed, Asked, TypeOK
    <3>5. Knows(KeysThen(r), req[r].key) <=> Only(c)' = req[r].key
      <4>1. \A w \in Ways : w # OneWay(c) => KeysThen(r)[w] = None
        BY <1>3, PlainIs DEF KeysThen, Client
      <4>2. QED
        BY <3>3, <3>4, <4>1, PlainIs DEF Knows
    <3>6. CASE Only(c)' = req[r].key
      <4>1. SessionUser(c)' \in {req[r].user, None}
        BY <1>2, <1>3, <3>1, <3>6 DEF FollowsIn
      <4>2. req[r].user \in May(c)'
        BY <2>3, <2>4, <3>1, <3>2, <3>5, <3>6 DEF May, Late, Identifies
      <4>3. QED
        BY <1>1, <2>2, <4>1, <4>2, OnlyFollow DEF May
    <3>7. CASE Only(c)' # req[r].key
      <4>1. Only(c)' = Only(c) /\ may'[c] = may[c]
        BY <3>2, <3>3, <3>5, <3>7
      <4>2. SessionUser(c)' \in May(c)'
        BY <1>2, <1>3, <3>1, <3>7, <4>1 DEF May
      <4>3. QED
        BY <1>1, <2>2, <4>2, OnlyFollow
    <3>8. QED
      BY <3>6, <3>7
  <2>6. CASE Raise(r)
    <3>1. /\ held' = held /\ Only(c)' = Only(c)
          /\ UNCHANGED redis \/ (pc[r] = "saving" /\ Write(r))
          /\ may' = IF pc[r] \in Late /\ Identifies(r) /\ Knows(held[c], req[r].key)
                    THEN [may EXCEPT ![c] = @ \cup {Claims(r)}] ELSE may
      BY <2>6 DEF Raise, Client, Late, Only
    <3>2. may'[c] = IF pc[r] \in Late /\ Identifies(r) /\ Knows(held[c], req[r].key)
                    THEN may[c] \cup {Claims(r)} ELSE may[c]
      BY <1>0, <3>1 DEF TypeOK
    <3>3. CASE pc[r] \in Late /\ req[r].key = Only(c)
      <4>1. req[r].key \in Keys
        BY <1>2, <3>3, WebAssumption DEF Whole, Keyed, Asked, TypeOK, Late
      <4>2. Knows(held[c], req[r].key) /\ ~req[r].basic
        BY <1>2, <1>3, <3>3, <4>1 DEF FollowsIn, Late
      <4>3. req[r].user \in May(c)' /\ May(c) \subseteq May(c)'
        BY <2>3, <2>4, <3>2, <3>3, <4>2 DEF May
      <4>4. SessionUser(c)' \in May(c)'
        <5>1. CASE pc[r] = "answering"
          BY <1>2, <1>3, <3>1, <3>3, <4>3, <5>1 DEF FollowsIn, May
        <5>2. CASE pc[r] = "saving"
          <6>1. SessionUser(c) \in May(c)'
            BY <1>2, <4>3, <5>2
          <6>2. SessionUser(c)' \in {SessionUser(c), req[r].user}
            BY <1>3, <3>1, <3>3 DEF Write
          <6>3. QED
            BY <4>3, <6>1, <6>2
        <5>3. QED
          BY <3>3, <5>1, <5>2 DEF Late
      <4>5. QED
        BY <1>1, <2>2, <4>4, OnlyFollow
    <3>4. CASE ~(pc[r] \in Late /\ req[r].key = Only(c))
      <4>1. SessionUser(c) \in May(c)
        BY <1>2, <3>4 DEF Late
      <4>2. SessionUser(c)' = SessionUser(c)
        BY <1>3, <3>1, <3>4 DEF Write, Late
      <4>3. May(c) \subseteq May(c)'
        BY <3>2 DEF May
      <4>4. QED
        BY <1>1, <2>2, <4>1, <4>2, <4>3, OnlyFollow
    <3>5. QED
      BY <3>3, <3>4
  <2>7. QED
    BY <1>8, <2>5, <2>6
<1>9. QED
  BY <1>5, <1>6, <1>7, <1>8 DEF Serves

\* A calm client that asks has no other request on its way.
LEMMA ArriveFollow ==
  ASSUME Base, NEW c \in Plain, Follows(c), NEW r \in Requests, Arrive(r)
  PROVE  Follows(c)'
<1>1. Arrives(r)
  BY ArriveIs DEF Base
<1>2. /\ pc'[r] = "loading" /\ pc[r] = "new" /\ redis' = redis /\ held' = held /\ may' = may
      /\ \A q \in Requests \ {r} : req'[q] = req[q] /\ pc'[q] = pc[q]
  BY <1>1 DEF Arrives, Others, clientVars
<1>3. SessionUser(c)' = SessionUser(c) /\ May(c)' = May(c) /\ Only(c)' = Only(c)
  BY <1>2 DEF SessionUser, May, Only
<1>4. ~Mine(c, r) /\ \A q \in Requests \ {r} : Mine(c, q)' <=> Mine(c, q)
  BY <1>2 DEF Mine, Asked
<1>5. CASE req'[r].client = c
  <2>1. \A q \in Requests : ~Mine(c, q)
    BY <1>1, <1>5 DEF Arrives, Mine, Plain
  <2>2. SessionUser(c)' \in May(c)'
    BY <1>3, <2>1 DEF Follows, Settled
  <2>3. FollowsIn(c, r)'
    BY <1>1, <1>2, <1>5 DEF Arrives, FollowsIn, May, Late
  <2>4. QED
    BY <1>4, <2>1, <2>2, <2>3, OnlyFollow
<1>6. CASE req'[r].client # c
  <2>1. ~Mine(c, r)'
    BY <1>6 DEF Mine
  <2>2. ASSUME NEW q \in Requests, Mine(c, q)'
        PROVE  FollowsIn(c, q)' /\ pc'[q] = pc[q]
    <3>1. q # r /\ Mine(c, q)
      BY <1>4, <2>1, <2>2
    <3>2. FollowsIn(c, q) /\ req'[q] = req[q] /\ pc'[q] = pc[q]
      BY <1>2, <3>1 DEF Follows
    <3>3. QED
      BY <1>2, <1>3, <3>2 DEF FollowsIn, Identifies
  <2>3. Settled(c)' => Settled(c)
    BY <1>2, <1>3, <1>4 DEF Settled
  <2>4. QED
    BY <1>3, <1>4, <2>1, <2>2, <2>3 DEF Follows
<1>7. QED
  BY <1>5, <1>6

LEMMA ExpireFollow ==
  ASSUME Base, Base', NEW c \in Plain, Follows(c), NEW k \in Keys, Expire(k)
  PROVE  Follows(c)'
<1>1. /\ DOMAIN redis' \subseteq DOMAIN redis
      /\ \A q \in DOMAIN redis' : redis'[q] = redis[q]
      /\ UNCHANGED <<pc, req, held, may>>
  BY DEF Expire, clientVars
<1>2. SessionUser(c)' \in {SessionUser(c), None} /\ May(c)' = May(c) /\ Only(c)' = Only(c)
  <2>1. Only(c)' = Only(c) /\ May(c)' = May(c)
    BY <1>1 DEF Only, May
  <2>2. QED
    BY <1>1, <2>1, OneKeyIs, OneKeyNext DEF OneKeyed, Base
<1>3. \A q \in Requests : Mine(c, q)' <=> Mine(c, q)
  BY <1>1 DEF Mine
<1>4. ASSUME NEW q \in Requests, Mine(c, q)
      PROVE  FollowsIn(c, q)'
  <2>1. FollowsIn(c, q)
    BY <1>4 DEF Follows
  <2>2. QED
    BY <1>1, <1>2, <2>1 DEF FollowsIn, Identifies
<1>5. Settled(c)' => Settled(c)
  BY <1>1, <1>2, <1>3 DEF Settled
<1>6. QED
  BY <1>1, <1>2, <1>3, <1>4, <1>5 DEF Follows, May

LEMMA NextFollow == ASSUME Base, Base', Owned, AllFollow, [Next]_vars
                    PROVE  AllFollow'
<1> SUFFICES ASSUME NEW c \in Plain
             PROVE  Follows(c)'
  BY DEF AllFollow
<1>1. Follows(c)
  BY DEF AllFollow
<1>2. CASE UNCHANGED vars
  BY <1>1, <1>2 DEF vars, clientVars, Follows, Settled, Mine, FollowsIn, Identifies,
                    SessionUser, May, Only
<1>3. ASSUME NEW r \in Requests, Serves(r)
      PROVE  Follows(c)'
  BY <1>1, <1>3, OthersFollow, OwnFollow
<1>4. QED
  BY <1>1, <1>2, <1>3, ArriveFollow, ExpireFollow DEF Next, Serves, Handlers

\* For any clients, requests and credentials: a client that asks one thing at a time
\* and has its key in one way is, to the services, who its last login, logout or
\* credentials made it, or nobody.
THEOREM SessionsFollow == Spec => []SessionFollowsClient
<1>1. Init => Base /\ Owned /\ AllFollow
  BY InitBase, InitOwned, InitFollow
<1>2. Base /\ Owned /\ AllFollow /\ [Next]_vars => (Base /\ Owned /\ AllFollow)'
  BY NextBase, NextOwned, NextFollow
<1>3. Base /\ Owned /\ AllFollow => SessionFollowsClient
  <2> SUFFICES ASSUME Base, AllFollow, NEW c \in Calm, Keeps[c] # Ways,
                      \A r \in Requests : Client(r) = c => pc[r] \notin Asked
               PROVE  SessionUser(c) \in may[c] \cup {None}
    BY DEF SessionFollowsClient
  <2>1. Follows(c) /\ \A r \in Requests : ~Mine(c, r)
    BY DEF AllFollow, Plain, Mine, Client
  <2>2. QED
    BY <2>1 DEF Follows, Settled, May
<1>4. QED
  BY <1>1, <1>2, <1>3, PTL DEF Spec

(***************************************************************************)
(* Accounts.  Of two creations that are under way one was asked for while  *)
(* the other was; so a row whose name a creation is about to insert again  *)
(* came after the question for that name, from a creation beside this one. *)
(***************************************************************************)
Beside(r, q) == r \in beside[q] \/ q \in beside[r]

RowOf(r) == \E u \in users : u.id = r

AllBeside == /\ \A r, q \in Creating : r # q => Beside(r, q)
             /\ \A r \in Requests : pc[r] = "new" => beside[r] = {}

\* The rows with the name that r is about to insert.
NamesBeside(r) ==
  \A u \in users : u.name = req[r].name => u.id \in Requests /\ Beside(r, u.id)

Twins(u, v) ==
  /\ u.mail = v.mail => u = v
  /\ u.name = v.name /\ u # v =>
       u.id \in Requests /\ v.id \in Requests /\ Beside(u.id, v.id)

AllTwins == \A u, v \in users : Twins(u, v)

Orphan(u) == u.id \in Users \cup mailed \/ pc[u.id] \in {"mailing", "raised"}

AllOrphans == \A u \in users : Orphan(u)

\* What the place and the outcome of r say of its row.
Row(r) ==
  /\ pc[r] = "inserting" => NamesBeside(r)
  /\ pc[r] = "mailing" => RowOf(r)
  /\ req[r].kind = "create" /\ req[r].won => r \in mailed /\ RowOf(r)

Rows == \A r \in Requests : Row(r)

Accounts == AllBeside /\ AllTwins /\ AllOrphans /\ Rows

LEMMA InitAccounts == Init => Accounts
<1> SUFFICES ASSUME Init
             PROVE  Accounts
  OBVIOUS
<1>1. AllBeside /\ Rows
  BY StartIs DEF Init, AllBeside, Creating, Asked, Rows, Row
<1>2. AllTwins /\ AllOrphans
  BY DEF Init, AllTwins, Twins, AllOrphans, Orphan
<1>3. QED
  BY <1>1, <1>2 DEF Accounts

\* The steps of a request, as far as accounts are concerned.
Inserting(r) == /\ pc[r] = "inserting" /\ pc'[r] \in {"mailing", "raised"} /\ Inserts(r)
                /\ mailed' = mailed /\ (req[r].kind = "create" => req'[r].won = req[r].won)

Mailing(r) == /\ pc[r] = "mailing" /\ pc'[r] = "saving"
              /\ users' = users /\ mailed' = mailed \cup {r}

Idle(r) == /\ users' = users /\ mailed' = mailed
           /\ pc[r] = "mailing" => pc'[r] = "raised"
           /\ pc'[r] \notin {"new", "mailing"} /\ pc[r] # "raised"
           /\ req[r].kind = "create" => req'[r].won = req[r].won
           /\ pc'[r] = "inserting" => ~LoginExists(r)

LEMMA ServesAccount ==
  ASSUME Base, NEW r \in Requests, Serves(r)
  PROVE  /\ pc[r] \in Asked /\ Others(r) /\ beside' = beside
         /\ (req'[r].kind = "create") = (req[r].kind = "create")
         /\ pc'[r] \in Asked => req'[r].name = req[r].name
         /\ Inserting(r) \/ Mailing(r) \/ Idle(r)
<1> USE DEF Base
<1>0. pc[r] \in Asked /\ Others(r) /\ pc[r] # "raised"
  BY ServesFrame DEF Asked
<1>1. CASE BasicSession(r) \/ Load(r) \/ NewSession(r)
  <2>1. Opens(r)
    BY <1>1, BasicIs, LoadIs, NewIs DEF ByBasic, Found, Fresh
  <2>2. QED
    BY <1>0, <2>1 DEF Opens, Same, Idle, accountVars
<1>2. CASE Handlers(r)
  <2>1. Handles(r)
    BY <1>2, HandlersAre
  <2>2. req'[r].kind = req[r].kind /\ req'[r].name = req[r].name /\ beside' = beside
    BY <2>1 DEF Handles, Same
  <2>3. \A s \in Places : Go(r, s) => pc'[r] = s
    BY PlaceType
  <2>4. CASE Login(r) \/ Logout(r)
    <3>1. /\ pc[r] = "handling" /\ pc'[r] = "saving" /\ req[r].kind # "create"
          /\ users' = users /\ mailed' = mailed
      BY <2>3, <2>4 DEF Login, Logout, accountVars, Places, Asked
    <3>2. QED
      BY <1>0, <2>2, <3>1 DEF Idle
  <2>5. CASE CheckEmail(r) \/ CheckName(r)
    <3>1. /\ pc[r] \in {"handling", "naming"} /\ pc'[r] \in {"saving", "naming", "inserting"}
          /\ users' = users /\ mailed' = mailed /\ req' = req
          /\ pc'[r] = "inserting" => ~LoginExists(r)
      BY <2>3, <2>5 DEF CheckEmail, CheckName, accountVars, Places, Asked
    <3>2. QED
      BY <1>0, <2>2, <3>1 DEF Idle
  <2>6. CASE CreateUser(r)
    BY <1>0, <2>2, <2>3, <2>6 DEF CreateUser, Inserting, Places, Asked
  <2>7. CASE MailPassword(r)
    BY <1>0, <2>2, <2>3, <2>7 DEF MailPassword, Mailing, Places, Asked
  <2>8. QED
    BY <1>2, <2>4, <2>5, <2>6, <2>7 DEF Handlers
<1>3. CASE Save(r)
  <2>1. /\ pc[r] = "saving" /\ pc'[r] = "answering" /\ req' = req
        /\ UNCHANGED accountVars
    BY <1>3, SaveIs
  <2>2. QED
    BY <1>0, <2>1 DEF Idle, accountVars
<1>4. CASE Respond(r) \/ Raise(r)
  <2>1. /\ pc'[r] \in {"answered", "raised"} /\ mailed' = mailed /\ beside' = beside
        /\ (req'[r].kind = "create") = (req[r].kind = "create")
        /\ req[r].kind = "create" => req'[r].won = req[r].won
    BY <1>4, EndsAre DEF Ends
  <2>2. /\ users' = users \/ (pc[r] = "inserting" /\ pc'[r] = "raised" /\ Inserts(r))
        /\ pc[r] = "mailing" => pc'[r] = "raised"
    <3>1. CASE Respond(r)
      BY <3>1 DEF Respond, accountVars
    <3>2. CASE Raise(r)
      <4>1. pc'[r] = "raised"
        BY <3>2, PlaceType DEF Raise, Places
      <4>2. QED
        BY <3>2, <4>1 DEF Raise
    <3>3. QED
      BY <1>4, <3>1, <3>2
  <2>3. pc'[r] \notin Asked
    BY <2>1 DEF Asked
  <2>4. QED
    BY <1>0, <2>1, <2>2, <2>3 DEF Inserting, Idle, Asked
<1>5. QED
  BY <1>1, <1>2, <1>3, <1>4 DEF Serves

LEMMA ArriveAccounts ==
  ASSUME Base, Accounts, NEW r \in Requests, Arrive(r)
  PROVE  Accounts'
<1>1. Arrives(r)
  BY ArriveIs DEF Base
<1>2. /\ pc[r] = "new" /\ pc'[r] = "loading" /\ ~req'[r].won
      /\ \A q \in Requests \ {r} : req'[q] = req[q] /\ pc'[q] = pc[q]
      /\ users' = users /\ mailed' = mailed
  BY <1>1 DEF Arrives, Others
<1>3. /\ beside[r] = {} /\ beside'[r] \subseteq Creating
      /\ req'[r].kind = "create" => beside'[r] = Creating
      /\ \A q \in Requests \ {r} : beside'[q] = beside[q]
  BY <1>1, <1>2 DEF Arrives, Base, TypeOK, Accounts, AllBeside
<1>4. \A q \in Requests : beside[q] \subseteq beside'[q]
  BY <1>3
<1>5. \A p, q \in Requests : Beside(p, q) => Beside(p, q)'
  BY <1>4 DEF Beside
<1>6. AllBeside'
  <2>1. Creating' \subseteq Creating \cup {r} /\ r \notin Creating /\ Creating \subseteq Requests
    BY <1>2 DEF Creating, Asked
  <2>2. ASSUME NEW q \in Creating, r \in Creating'
        PROVE  Beside(r, q)' /\ Beside(q, r)'
    BY <1>3, <2>2 DEF Creating, Beside
  <2>3. ASSUME NEW p \in Creating', NEW q \in Creating', p # q
        PROVE  Beside(p, q)'
    BY <1>5, <2>1, <2>2, <2>3 DEF Accounts, AllBeside
  <2>4. \A q \in Requests : pc'[q] = "new" => beside'[q] = {}
    BY <1>2, <1>3 DEF Accounts, AllBeside
  <2>5. QED
    BY <2>3, <2>4 DEF AllBeside
<1>7. AllTwins'
  BY <1>2, <1>5 DEF Accounts, AllTwins, Twins
<1>8. AllOrphans'
  <2>1. ASSUME NEW u \in users
        PROVE  Orphan(u)'
    <3>1. Orphan(u) /\ u.id \in Users \cup Requests
      BY DEF Accounts, AllOrphans, Base, TypeOK, Ids
    <3>2. CASE u.id = r
      BY <1>2, <3>1, <3>2 DEF Orphan
    <3>3. CASE u.id # r
      BY <1>2, <3>1, <3>3 DEF Orphan
    <3>4. QED
      BY <3>2, <3>3
  <2>2. QED
    BY <1>2, <2>1 DEF AllOrphans
<1>9. ASSUME NEW q \in Requests
      PROVE  Row(q)'
  <2>1. CASE q = r
    BY <1>2, <2>1 DEF Row
  <2>2. CASE q # r
    <3>1. Row(q) /\ req'[q] = req[q] /\ pc'[q] = pc[q]
      BY <1>2, <2>2 DEF Accounts, Rows
    <3>2. NamesBeside(q) => NamesBeside(q)'
      BY <1>2, <1>5, <3>1 DEF NamesBeside
    <3>3. QED
      BY <1>2, <3>1, <3>2 DEF Row, RowOf
  <2>3. QED
    BY <2>1, <2>2
<1>10. QED
  BY <1>6, <1>7, <1>8, <1>9 DEF Accounts, Rows

LEMMA ServesAccounts ==
  ASSUME Base, Accounts, NEW r \in Requests, Serves(r)
  PROVE  Accounts'
<1>1. /\ pc[r] \in Asked /\ beside' = beside
      /\ (req'[r].kind = "create") = (req[r].kind = "create")
      /\ pc'[r] \in Asked => req'[r].name = req[r].name
      /\ \A q \in Requests \ {r} : req'[q] = req[q] /\ pc'[q] = pc[q]
      /\ Inserting(r) \/ Mailing(r) \/ Idle(r)
  BY ServesAccount DEF Others
<1>2. \A p, q : Beside(p, q)' <=> Beside(p, q)
  BY <1>1 DEF Beside
<1>3. AllBeside'
  <2>1. Creating' \subseteq Creating
    BY <1>1 DEF Creating
  <2>2. \A q \in Requests : pc'[q] = "new" => pc[q] = "new"
    <3>1. pc'[r] # "new"
      BY <1>1 DEF Inserting, Mailing, Idle
    <3>2. QED
      BY <1>1, <3>1
  <2>3. QED
    BY <1>1, <1>2, <2>1, <2>2 DEF Accounts, AllBeside
<1>4. CASE Inserting(r)
  <2>1. PICK row : /\ row = [id |-> r, name |-> req[r].name, mail |-> req[r].mail]
                   /\ users' = users \cup {row}
    BY <1>4 DEF Inserting, Inserts
  <2>2. row.id = r /\ row.name = req[r].name /\ row.mail = req[r].mail
    BY <2>1
  <2>3. /\ pc[r] = "inserting" /\ pc'[r] \in {"mailing", "raised"} /\ mailed' = mailed
        /\ \A u \in users : u.mail # row.mail
    BY <1>4, <2>2 DEF Inserting, Inserts, EmailExists
  <2>4. NamesBeside(r)
    BY <2>3 DEF Accounts, Rows, Row
  <2>5. AllTwins'
    <3>1. ASSUME NEW u \in users
          PROVE  Twins(u, row) /\ Twins(row, u)
      BY <2>2, <2>3, <2>4 DEF Twins, NamesBeside, Beside
    <3>2. Twins(row, row)
      BY DEF Twins
    <3>3. \A u, v \in users' : Twins(u, v)
      BY <2>1, <3>1, <3>2 DEF Accounts, AllTwins
    <3>4. QED
      BY <1>2, <3>3 DEF AllTwins, Twins
  <2>6. AllOrphans'
    <3>1. Orphan(row)'
      BY <2>2, <2>3 DEF Orphan
    <3>2. ASSUME NEW u \in users
          PROVE  Orphan(u)'
      <4>1. Orphan(u) /\ u.id \in Users \cup Requests
        BY DEF Accounts, AllOrphans, Base, TypeOK, Ids
      <4>2. QED
        BY <1>1, <2>3, <4>1 DEF Orphan
    <3>3. QED
      BY <2>1, <3>1, <3>2 DEF AllOrphans
  <2>7. ASSUME NEW q \in Requests
        PROVE  Row(q)'
    <3>1. RowOf(r)' /\ (RowOf(q) => RowOf(q)')
      BY <2>1, <2>2 DEF RowOf
    <3>2. Row(q)
      BY DEF Accounts, Rows
    <3>3. CASE q = r
      BY <1>1, <1>4, <2>3, <3>1, <3>2, <3>3 DEF Row, Inserting
    <3>4. CASE q # r
      <4>1. req'[q] = req[q] /\ pc'[q] = pc[q]
        BY <1>1, <3>4
      <4>2. ASSUME pc[q] = "inserting"
            PROVE  NamesBeside(q)'
        <5>1. q \in Creating /\ r \in Creating
          BY <2>3, <4>2 DEF Creating, Asked, Base, RequestsAreWhole, Whole
        <5>2. Beside(q, r)
          BY <3>4, <5>1 DEF Accounts, AllBeside
        <5>3. NamesBeside(q)
          BY <3>2, <4>2 DEF Row
        <5>4. QED
          BY <1>2, <2>1, <2>2, <4>1, <5>2, <5>3 DEF NamesBeside
      <4>3. QED
        BY <2>3, <3>1, <3>2, <4>1, <4>2 DEF Row
    <3>5. QED
      BY <3>3, <3>4
  <2>8. QED
    BY <1>3, <2>5, <2>6, <2>7 DEF Accounts, Rows
<1>5. CASE Mailing(r) \/ Idle(r)
  <2>1. users' = users /\ mailed \subseteq mailed'
    BY <1>5 DEF Mailing, Idle
  <2>2. AllTwins'
    BY <1>2, <2>1 DEF Accounts, AllTwins, Twins
  <2>3. AllOrphans'
    <3>1. ASSUME NEW u \in users
          PROVE  Orphan(u)'
      <4>1. Orphan(u) /\ u.id \in Users \cup Requests
        BY DEF Accounts, AllOrphans, Base, TypeOK, Ids
      <4>2. CASE u.id = r
        BY <1>5, <4>1, <4>2 DEF Orphan, Mailing, Idle
      <4>3. CASE u.id # r
        BY <1>1, <2>1, <4>1, <4>3 DEF Orphan
      <4>4. QED
        BY <4>2, <4>3
    <3>2. QED
      BY <2>1, <3>1 DEF AllOrphans
  <2>4. ASSUME NEW q \in Requests
        PROVE  Row(q)'
    <3>1. Row(q) /\ (RowOf(q)' <=> RowOf(q))
      BY <2>1 DEF Accounts, Rows, RowOf
    <3>2. CASE q # r
      <4>1. req'[q] = req[q] /\ pc'[q] = pc[q]
        BY <1>1, <3>2
      <4>2. NamesBeside(q) => NamesBeside(q)'
        BY <1>2, <2>1, <4>1 DEF NamesBeside
      <4>3. QED
        BY <2>1, <3>1, <4>1, <4>2 DEF Row
    <3>3. CASE q = r /\ Mailing(r)
      BY <1>1, <3>1, <3>3 DEF Row, Mailing
    <3>4. CASE q = r /\ Idle(r)
      <4>1. pc'[r] = "inserting" => NamesBeside(r)'
        BY <1>1, <2>1, <3>4 DEF Idle, LoginExists, NamesBeside, Asked
      <4>2. QED
        BY <1>1, <2>1, <3>1, <3>4, <4>1 DEF Row, Idle
    <3>5. QED
      BY <1>5, <3>2, <3>3, <3>4
  <2>5. QED
    BY <1>3, <2>2, <2>3, <2>4 DEF Accounts, Rows
<1>6. QED
  BY <1>1, <1>4, <1>5

LEMMA NextAccounts == ASSUME Base, Accounts, [Next]_vars
                      PROVE  Accounts'
<1> USE DEF Accounts, AllBeside, Beside, Creating, AllTwins, Twins, AllOrphans, Orphan, Rows,
            Row, RowOf, NamesBeside, LoginExists
<1>1. CASE UNCHANGED vars
  BY <1>1 DEF vars, clientVars, accountVars
<1>2. ASSUME NEW k \in Keys, Expire(k)
      PROVE  Accounts'
  BY <1>2 DEF Expire, accountVars
<1>3. QED
  BY <1>1, <1>2, ArriveAccounts, ServesAccounts DEF Next, Serves, Handlers

\* For any number of creations at once, by whomever: an account that was answered has
\* a row and a mail; a row whose password nobody has is of a creation that raised; and
\* two rows share a name only if their creations overlapped, and never a mail.
THEOREM AccountsSound == Spec => []AccountsAreSound
<1>1. Init => Base /\ Accounts
  BY InitBase, InitAccounts
<1>2. Base /\ Accounts /\ [Next]_vars => (Base /\ Accounts)'
  BY NextBase, NextAccounts
<1>3. Base /\ Accounts => AccountsAreSound
  <2> SUFFICES ASSUME Accounts
               PROVE  CreatedIsMailed /\ OrphansHaveRaised /\ TwinsWereBeside
    BY DEF AccountsAreSound
  <2>1. CreatedIsMailed
    BY DEF Accounts, Rows, Row, RowOf, CreatedIsMailed
  <2>2. OrphansHaveRaised
    BY DEF Accounts, AllOrphans, Orphan, OrphansHaveRaised
  <2>3. ASSUME NEW u \in users, NEW v \in users
        PROVE  /\ u.mail = v.mail => u = v
               /\ u.name = v.name /\ u # v =>
                    \E r, q \in Requests : {r, q} = {u.id, v.id} /\ r \in beside[q]
    <3>1. Twins(u, v)
      BY DEF Accounts, AllTwins
    <3>2. QED
      BY <3>1 DEF Twins, Beside
  <2>4. QED
    BY <2>1, <2>2, <2>3 DEF TwinsWereBeside
<1>4. QED
  BY <1>1, <1>2, <1>3, PTL DEF Spec
=============================================================================
