----------------------------- MODULE WebSession -----------------------------
(***************************************************************************)
(* Sessions and accounts of the web services rest_api and web: a request    *)
(* comes to its session, by Basic credentials or by a key it sends in a     *)
(* cookie or elsewhere; its handler logs in, out, creates an account or     *)
(* does none of these; then the whole session is written back, and the      *)
(* response may name its key                                                *)
(* (utils/fastapi/depends/session.py, routers auth and admin/users).       *)
(*                                                                         *)
(* The exit code of a dependency runs before the response is sent, but not  *)
(* if the handler raises; what the dependency puts into its response gets   *)
(* lost if the handler returns a response of its own, as a redirect.        *)
(***************************************************************************)
EXTENDS Naturals, FiniteSets

CONSTANTS Requests, Clients,
          Calm,         \* clients that wait for an answer before they ask again
          Keeps,        \* Keeps[c]: the ways in which c keeps and sends keys
          Kinds,        \* what they ask for
          Users,        \* accounts that are there from the start
          Names, Mails, \* of the accounts that are created
          Keys,         \* session keys; all that token_hex(24) may return
          None

\* A page that needs no user is to its session what a login is that is refused.
AllKinds == {"me", "guarded", "login", "logout", "create"}

\* In the cookie, or as a token: in the header or in the query.
Ways == {"cookie", "token"}

Ids == Users \cup Requests

ASSUME WebAssumption == /\ Calm \subseteq Clients
                        /\ Kinds \subseteq AllKinds
                        /\ Keeps \in [Clients -> SUBSET Ways]
                        /\ None \notin Ids \cup Keys \cup Clients

VARIABLES
  pc,        \* pc[r]: where r is
  req,       \* req[r]: client, kind, service, keys sent, its session and its outcome
  redis,     \* the sessions: a partial function of keys to user ids
  used,      \* keys given to sessions so far
  held,      \* held[c]: the keys c sends, one for each way
  may,       \* may[c]: who c may be, by the answers it got
  granted,   \* credentials that were accepted: client, key, user
  users,     \* table users: id, name and mail of each row
  mailed,    \* rows whose password was mailed
  beside     \* beside[r]: creations under way when r asked for one

\* Who holds which key, and the history of it.
clientVars == <<held, may, granted>>
accountVars == <<users, mailed, beside>>
vars == <<pc, req, redis, used, clientVars, accountVars>>

NoKeys == [w \in Ways |-> None]

Start == [client |-> None, kind |-> "me", web |-> FALSE, sent |-> NoKeys,
          key |-> None, way |-> "cookie", basic |-> FALSE, user |-> None,
          won |-> FALSE, name |-> None, mail |-> None]

\* The client waits for an answer.
Asked == {"loading", "handling", "naming", "inserting", "mailing", "saving",
          "answering"}

TypeOK ==
  /\ pc \in [Requests -> Asked \cup {"new", "answered", "raised"}]
  /\ req \in [Requests ->
       [client : Clients \cup {None}, kind : AllKinds, web : BOOLEAN,
        sent : [Ways -> Keys \cup {None}], key : Keys \cup {None}, way : Ways,
        basic : BOOLEAN, user : Ids \cup {None}, won : BOOLEAN,
        name : Names \cup {None}, mail : Mails \cup {None}]]
  /\ DOMAIN redis \subseteq used
  /\ \A k \in DOMAIN redis : redis[k] \in Ids \cup {None}
  /\ used \subseteq Keys
  /\ held \in [Clients -> [Ways -> used \cup {None}]]
  /\ \A c \in Clients : \A w \in Ways \ Keeps[c] : held[c][w] = None
  /\ may \in [Clients -> SUBSET (Ids \cup {None})]
  /\ granted \subseteq Clients \X used \X Ids
  /\ users \subseteq [id : Ids, name : Names \cup Users, mail : Mails \cup Users]
  /\ mailed \subseteq Requests
  /\ beside \in [Requests -> SUBSET Requests]

Init ==
  /\ pc = [r \in Requests |-> "new"]
  /\ req = [r \in Requests |-> Start]
  /\ redis = [k \in {} |-> None]
  /\ used = {}
  /\ held = [c \in Clients |-> NoKeys]
  /\ may = [c \in Clients |-> {None}]
  /\ granted = {}
  /\ users = {[id |-> u, name |-> u, mail |-> u] : u \in Users}
  /\ mailed = {}
  /\ beside = [r \in Requests |-> {}]

-----------------------------------------------------------------------------
(* A request and its session *)

Go(r, s) == pc' = [pc EXCEPT ![r] = s]

Client(r) == req[r].client

\* What a client sends: the keys it has, and an account to be created.
Asking(c, kind, web, n, m) ==
  [Start EXCEPT !.client = c, !.kind = kind, !.web = web, !.sent = held[c],
                !.name = IF kind = "create" THEN n ELSE None,
                !.mail = IF kind = "create" THEN m ELSE None]

EmailExists(r) == \E u \in users : u.mail = req[r].mail

LoginExists(r) == \E u \in users : u.name = req[r].name

Creating == {q \in Requests : req[q].kind = "create" /\ pc[q] \in Asked}

Arrive(r) ==
  /\ pc[r] = "new"
  /\ \E c \in Clients, kind \in Kinds, web \in BOOLEAN, n \in Names, m \in Mails :
       /\ c \in Calm => \A q \in Requests : Client(q) = c => pc[q] \notin Asked
       /\ web => kind \in {"login", "logout"}
       /\ req' = [req EXCEPT ![r] = Asking(c, kind, web, n, m)]
       /\ beside' = [beside EXCEPT ![r] = IF kind = "create" THEN Creating ELSE {}]
  /\ Go(r, "loading")
  /\ UNCHANGED <<redis, used, clientVars, users, mailed>>

\* The handler of a page leaves the session as it is.  check_auth keeps a session
\* without a user from a guarded one: such a request can only raise.
AfterLoad(r, user) ==
  IF req[r].kind = "me" \/ (req[r].kind = "guarded" /\ user # None)
  THEN "saving" ELSE "handling"

\* get_by_credentials finds only users whose password somebody knows.
Knowable == {u \in users : u.id \in Users \cup mailed}

\* get_session, for Basic credentials that are right: a session under a new key,
\* whatever keys were sent with them.  Wrong ones leave it to the keys.
BasicSession(r) ==
  /\ pc[r] = "loading"
  /\ \E u \in Knowable, k \in Keys \ used :
       /\ used' = used \cup {k}
       /\ req' = [req EXCEPT ![r].sent = NoKeys, ![r].key = k,
                             ![r].basic = TRUE, ![r].user = u.id]
       /\ granted' = granted \cup {<<Client(r), k, u.id>>}
       /\ Go(r, AfterLoad(r, u.id))
  /\ UNCHANGED <<redis, held, may, accountVars>>

\* The cookie is looked up first; the header and the query if redis does not know it.
Finds(r, w) ==
  /\ req[r].sent[w] \in DOMAIN redis
  /\ w = "token" => req[r].sent["cookie"] \notin DOMAIN redis

\* get_session: the session redis has under a key that was sent, with its user.
Load(r) ==
  /\ pc[r] = "loading"
  /\ \E w \in Ways :
       LET key == req[r].sent[w] IN
         /\ Finds(r, w)
         /\ req' = [req EXCEPT ![r].sent = NoKeys, ![r].key = key, ![r].way = w,
                               ![r].user = redis[key]]
         /\ Go(r, AfterLoad(r, redis[key]))
  /\ UNCHANGED <<redis, used, clientVars, accountVars>>

\* Mutant: an unknown key of the cookie is kept.
KeepsKey(r) ==
  /\ pc[r] = "loading"
  /\ \A w \in Ways : ~Finds(r, w)
  /\ req' = [req EXCEPT ![r].sent = NoKeys, ![r].key = req[r].sent["cookie"]]
  /\ Go(r, AfterLoad(r, None))
  /\ UNCHANGED <<redis, used, clientVars, accountVars>>

\* Without a key, or with keys that have expired: a new session under a new key.
NewSession(r) ==
  /\ pc[r] = "loading"
  /\ \A w \in Ways : ~Finds(r, w)
  /\ \E k \in Keys \ used :
       /\ used' = used \cup {k}
       /\ req' = [req EXCEPT ![r].sent = NoKeys, ![r].key = k]
  /\ Go(r, AfterLoad(r, None))
  /\ UNCHANGED <<redis, clientVars, accountVars>>

\* Mutant: the dictionary of the data is one for all sessions.
SharedWrite(r) ==
  redis' = [k \in DOMAIN redis \cup {req[r].key} |-> req[r].user]

\* save_to_redis: whatever the session was meanwhile.
Write(r) ==
  redis' = [k \in DOMAIN redis \cup {req[r].key} |->
              IF k = req[r].key THEN req[r].user ELSE redis[k]]

Save(r) ==
  /\ pc[r] = "saving"
  /\ Write(r)
  /\ Go(r, "answering")
  /\ UNCHANGED <<req, used, clientVars, accountVars>>

\* The handler returned its content: a response of its own, as a redirect or an
\* error, goes without the cookie.
HasContent(r) ==
  CASE req[r].kind = "login" -> req[r].web # req[r].won
    [] req[r].kind = "logout" -> ~req[r].web
    [] req[r].kind = "create" -> req[r].won
    [] OTHER -> TRUE

\* Where the answer names the key: in the cookie of a session that was found by its
\* cookie or is new, or in the body, as MeResponse.token.
Tells(r, w) ==
  CASE w = "cookie" -> req[r].way = "cookie" /\ HasContent(r)
    [] w = "token" -> /\ req[r].kind \in {"me", "login", "logout"}
                      /\ ~req[r].web /\ HasContent(r)

KeysThen(r) ==
  [w \in Ways |-> IF w \in Keeps[Client(r)] /\ Tells(r, w) THEN req[r].key
                  ELSE held[Client(r)][w]]

Knows(keys, k) == \E w \in Ways : keys[w] = k

Identifies(r) ==
  \/ req[r].basic
  \/ req[r].kind = "logout"
  \/ req[r].kind = "login" /\ req[r].won

\* What an answer about a session whose key the client has makes of the client.
Claims(r) == IF req[r].kind = "logout" THEN None ELSE req[r].user

\* A request that is over is forgotten, but for the outcome of a creation.
Over(r) ==
  req' = [req EXCEPT ![r] =
            IF req[r].kind = "create" THEN [Start EXCEPT !.kind = "create", !.won = req[r].won]
            ELSE Start]

Respond(r) ==
  /\ pc[r] = "answering"
  /\ Go(r, "answered")
  /\ Over(r)
  /\ held' = [held EXCEPT ![Client(r)] = KeysThen(r)]
  /\ may' = IF Identifies(r) /\ Knows(KeysThen(r), req[r].key)
            THEN [may EXCEPT ![Client(r)] = {Claims(r)}] ELSE may
  /\ UNCHANGED <<redis, used, granted, accountVars>>

\* create: the table has a unique index on the mail, not on the name.
Inserts(r) ==
  /\ ~EmailExists(r)
  /\ users' = users \cup {[id |-> r, name |-> req[r].name, mail |-> req[r].mail]}

\* redis, the database or the handler fails, or the answer is lost; a write or a
\* commit that fails may have been made.
Raise(r) ==
  /\ pc[r] \in Asked
  /\ Go(r, "raised")
  /\ Over(r)
  /\ UNCHANGED redis \/ (pc[r] = "saving" /\ Write(r))
  /\ UNCHANGED users \/ (pc[r] = "inserting" /\ Inserts(r))
  /\ may' = IF pc[r] \in {"saving", "answering"}
               /\ Identifies(r) /\ Knows(held[Client(r)], req[r].key)
            THEN [may EXCEPT ![Client(r)] = @ \cup {Claims(r)}] ELSE may
  /\ UNCHANGED <<used, held, granted, mailed, beside>>

\* The time to live of a session is over.
Expire(k) ==
  /\ k \in DOMAIN redis
  /\ redis' = [q \in DOMAIN redis \ {k} |-> redis[q]]
  /\ UNCHANGED <<pc, req, used, clientVars, accountVars>>

-----------------------------------------------------------------------------
(* Handlers *)

\* login_user, login_submit: get_by_credentials, then set_user.
Login(r) ==
  /\ pc[r] = "handling"
  /\ req[r].kind = "login"
  /\ \/ UNCHANGED <<req, granted>>
     \/ \E u \in Knowable :
          /\ req' = [req EXCEPT ![r].user = u.id, ![r].won = TRUE]
          /\ granted' = granted \cup {<<Client(r), req[r].key, u.id>>}
  /\ Go(r, "saving")
  /\ UNCHANGED <<redis, used, held, may, accountVars>>

\* Mutant: the user is forgotten, the data is not.
ResetUserOnly(r) ==
  /\ pc[r] = "handling"
  /\ req[r].kind = "logout"
  /\ Go(r, "saving")
  /\ UNCHANGED <<req, redis, used, clientVars, accountVars>>

\* reset_user
Logout(r) ==
  /\ pc[r] = "handling"
  /\ req[r].kind = "logout"
  /\ req' = [req EXCEPT ![r].user = None]
  /\ Go(r, "saving")
  /\ UNCHANGED <<redis, used, clientVars, accountVars>>

\* api_create_user, at each of its awaits.
CheckEmail(r) ==
  /\ pc[r] = "handling"
  /\ req[r].kind = "create"
  /\ Go(r, IF EmailExists(r) THEN "saving" ELSE "naming")
  /\ UNCHANGED <<req, redis, used, clientVars, accountVars>>

\* Mutant: the name is not asked for.
NameUnasked(r) ==
  /\ pc[r] = "naming"
  /\ Go(r, "inserting")
  /\ UNCHANGED <<req, redis, used, clientVars, accountVars>>

CheckName(r) ==
  /\ pc[r] = "naming"
  /\ Go(r, IF LoginExists(r) THEN "saving" ELSE "inserting")
  /\ UNCHANGED <<req, redis, used, clientVars, accountVars>>

CreateUser(r) ==
  /\ pc[r] = "inserting"
  /\ Inserts(r)
  /\ Go(r, "mailing")
  /\ UNCHANGED <<req, redis, used, clientVars, mailed, beside>>

\* Mutant: a mail that cannot be sent is only logged.
MailOrLog(r) ==
  /\ pc[r] = "mailing"
  /\ mailed' \in {mailed, mailed \cup {r}}
  /\ req' = [req EXCEPT ![r].won = TRUE]
  /\ Go(r, "saving")
  /\ UNCHANGED <<redis, used, clientVars, users, beside>>

\* send_password_email
MailPassword(r) ==
  /\ pc[r] = "mailing"
  /\ mailed' = mailed \cup {r}
  /\ req' = [req EXCEPT ![r].won = TRUE]
  /\ Go(r, "saving")
  /\ UNCHANGED <<redis, used, clientVars, users, beside>>

-----------------------------------------------------------------------------

Next ==
  \/ \E r \in Requests :
       \/ Arrive(r) \/ BasicSession(r) \/ Load(r) \/ NewSession(r)
       \/ Login(r) \/ Logout(r)
       \/ CheckEmail(r) \/ CheckName(r) \/ CreateUser(r) \/ MailPassword(r)
       \/ Save(r) \/ Respond(r) \/ Raise(r)
  \/ \E k \in Keys : Expire(k)

Spec == Init /\ [][Next]_vars

-----------------------------------------------------------------------------
(* Properties *)

\* Who c is if it asks with its keys.
SessionUser(c) ==
  LET known == {w \in Ways : held[c][w] \in DOMAIN redis} IN
    CASE "cookie" \in known -> redis[held[c]["cookie"]]
      [] known = {"token"} -> redis[held[c]["token"]]
      [] OTHER -> None

\* A client that sends one request at a time, and its key in one way, is to the
\* services who its last login, logout or Basic credentials made it, or nobody if its
\* session was lost by its expiry.  What counts are answers about a session whose key
\* the client has then: the redirect of a login does not name the key of a new
\* session, so that the client stays who it was (depends/session.py 54-59, 76-93,
\* routers/auth.py 43-53 of web).  A client that sends a cookie beside a token may
\* fall back to the user of the one when the session of the other expires.
SessionFollowsClient ==
  \A c \in Calm :
    /\ Keeps[c] # Ways
    /\ \A r \in Requests : Client(r) = c => pc[r] \notin Asked
    => SessionUser(c) \in may[c] \cup {None}

\* However requests overlap and overwrite each other's sessions, a session says a
\* user only if credentials of that user, of a login or a Basic header, were accepted
\* for its key, and from each client that holds the key (session.py 28-33,
\* depends/session.py 76-93).
SessionsAreSeparate ==
  \A k \in DOMAIN redis :
    redis[k] # None =>
      /\ \E g \in granted : g[2] = k /\ g[3] = redis[k]
      /\ \A c \in Clients : Knows(held[c], k) => <<c, k, redis[k]>> \in granted

\* An account whose creation was answered with the account has a row, and its
\* password, which nobody else knows, was mailed (admin/users.py 38-44).
CreatedIsMailed ==
  \A r \in Requests :
    pc[r] = "answered" /\ req[r].kind = "create" /\ req[r].won =>
      r \in mailed /\ \E u \in users : u.id = r

\* An account nobody has the password of is one whose creation is at its mail or
\* has raised, never one that was answered (admin/users.py 40-44).
OrphansHaveRaised ==
  \A u \in users : u.id \notin Users \cup mailed => pc[u.id] \in {"mailing", "raised"}

\* Mails are unique by an index.  Names are so by the check before the insert, which
\* two creations can both pass: two accounts share a name only if one of them was
\* asked for while the other was under way (admin/users.py 33-40).
TwinsWereBeside ==
  \A u, v \in users :
    /\ u.mail = v.mail => u = v
    /\ u.name = v.name /\ u # v =>
         \E r, q \in Requests : {r, q} = {u.id, v.id} /\ r \in beside[q]

\* Accounts can be used by their owners, and by their names, but for what a race of
\* two creations or a failing mail leaves; and these leave no more than is said here.
AccountsAreSound == CreatedIsMailed /\ OrphansHaveRaised /\ TwinsWereBeside
=============================================================================
