---------------------- MODULE ServiceLifecycle_proofs ----------------------
(***************************************************************************)
(* Proofs about ServiceLifecycle, for any set of processes.                *)
(***************************************************************************)
EXTENDS ServiceLifecycle, TLAPS

Tasks == {"listener", "main", "schedules", "bot", "poller", "dump", "closer"}

\* What a process opens or closes.
Parts == {"amqp", "db", "redis", "smtp", "s3", "jinja", "pubsub", "listener", "worker",
          "handlers", "bot", "commands", "events", "poller", "gigachat_client",
          "utils_client", "vk_pot_client", "vk_bot_client"}

\* The tasks that work on the database.
DatabaseTasks == {"main", "listener", "schedules", "bot", "poller"}

\* The processes whose close, once it began, does release something.
Releasing == {"utils", "rest", "web"}

\* What no close releases, and which keeps nothing connected.
Unconnected == {"smtp", "jinja"}

\* s is what is left of whole.
IsRest(s, whole) ==
  /\ Len(s) <= Len(whole)
  /\ \A j \in 1..Len(s) : s[j] = whole[Len(whole) - Len(s) + j]

\* What is open of whole when the last l are not.
AllBut(whole, l) == {whole[j] : j \in 1..(Len(whole) - l)}

Sane ==
  /\ kind \in Kinds
  /\ todo \in Seq(Parts)
  /\ setUp \in {"going", "ok", "failed"}
  /\ init \in {"setup", "start", "reading", "waiting", "on_ready", "done", "raised",
               "exited", "serving", "leaving"}
  /\ stopping \in BOOLEAN
  /\ ready \in Seq(Tasks) /\ work \subseteq Tasks \ {"closer"}
  /\ closing \in {"none", "going", "stopped", "raised", "awaiting", "cancelled"}

\* The set-up opens in order, and only the listener of VK begins meanwhile.
Opening ==
  init = "setup" =>
    /\ IsRest(todo, Opens[kind])
    /\ held = AllBut(Opens[kind], Len(todo))
    /\ setUp = "going" /\ closing = "none"
    /\ stopping = (kind = "vk")
    /\ ToSet(ready) \cup work \subseteq {"listener"}
    /\ kind # "vk" \/ todo # <<>> => ready = <<>> /\ work = {}

\* Where each process can be.
Stages ==
  /\ setUp = "going" => init = "setup"
  /\ kind \in Webs => init \in {"setup", "serving", "leaving"}
  /\ init \in {"serving", "leaving"} => kind \in Webs
  /\ init = "leaving" <=> kind \in Webs /\ closing # "none"
  /\ init = "reading" => kind = "vk"
  /\ init \in {"waiting", "on_ready"} => kind = "discord"
  /\ kind \in {"steam", "utils", "dumper"} => init \in {"setup", "start", "done"}
  /\ closing = "going" => kind \in Releasing
  /\ closing = "awaiting" => kind = "steam"
  /\ kind \in Services \cup {"dumper"} /\ setUp # "failed" => closing = "none"
  /\ kind \in {"vk", "dumper"} => closing = "none"
  /\ kind = "discord" /\ closing # "none" => closing = "raised" /\ todo = <<>>

\* Which tasks wait or work, in which process and at which stage; none twice.
Queue ==
  /\ IsInjective(ready) /\ ToSet(ready) \cap work = {}
  /\ init = "start" => ToSet(ready) \cup work \subseteq {"listener", "closer"}
  /\ init \in {"reading", "waiting", "on_ready"} => "schedules" \notin ToSet(ready) \cup work
  /\ "closer" \in ToSet(ready) =>
       setUp = "failed" /\ kind \in {"discord", "steam", "utils"} /\ closing = "none"
  /\ "listener" \in ToSet(ready) \cup work => kind = "vk"
  /\ "main" \in ToSet(ready) \cup work => kind = "vk"
  /\ kind = "dumper" => ToSet(ready) \cup work \subseteq {"dump"}
  /\ kind = "utils" => ToSet(ready) \subseteq {"closer"} /\ work = {}
  /\ kind \in Webs => ready = <<>> /\ work = {}

\* A steam process whose set-up failed closes before its poller begins.
FailedSteam ==
  kind = "steam" /\ setUp = "failed" =>
    /\ work = {}
    /\ \/ init = "start" /\ ready = <<"closer">> /\ closing = "none"
       \/ init = "done" /\ ready = <<"closer", "poller">> /\ closing = "none"
       \/ init = "done" /\ ready = <<"poller">> /\ closing = "awaiting"
       \/ init = "done" /\ ready = <<>> /\ closing = "cancelled"

\* What is held was opened; the database before all that uses it, and it stays
\* where no close releases.
Database ==
  /\ held \subseteq ToSet(Opens[kind]) \cup (IF kind = "vk" THEN {"client_vk"} ELSE {})
  /\ Alive /\ (kind \in Releasing => closing = "none") /\ held \ {"amqp"} # {} =>
       "db" \in held
  /\ Alive /\ (ToSet(ready) \cup work) \cap DatabaseTasks # {} =>
       "db" \in held \/ (kind = "steam" /\ setUp = "failed")
  /\ init \in {"reading", "waiting", "on_ready", "serving"} => "db" \in held
  /\ kind = "steam" /\ setUp = "ok" => "db" \in held
  /\ kind = "utils" /\ setUp = "failed" => held \subseteq ToSet(UtilsCloses)

\* A close that releases goes through its list in order, and holds no more than
\* what the list still names, but for what keeps nothing connected.
Releases ==
  kind \in Releasing /\ closing # "none" =>
    /\ IsRest(todo, Closes[kind])
    /\ held \subseteq ToSet(todo) \cup Unconnected
    /\ closing = "stopped" => todo = <<>>

IInv == Sane /\ Opening /\ Stages /\ Queue /\ FailedSteam /\ Database /\ Releases

-----------------------------------------------------------------------------
(* Sequences. *)

LEMMA SetOfAppend ==
  ASSUME NEW S, NEW s \in Seq(S), NEW e
  PROVE  ToSet(Append(s, e)) = ToSet(s) \cup {e}
<1> DEFINE n == Len(s)
           t == Append(s, e)
<1>1. n \in Nat /\ DOMAIN s = 1..n /\ DOMAIN t = 1..(n + 1) /\ t[n + 1] = e
  OBVIOUS
<1>2. \A i \in 1..n : t[i] = s[i]
  OBVIOUS
<1> HIDE DEF n, t
<1>3. 1..(n + 1) = 1..n \cup {n + 1}
  BY <1>1
<1>4. ToSet(t) = ToSet(s) \cup {e}
  BY <1>1, <1>2, <1>3 DEF ToSet
<1>5. QED
  BY <1>4 DEF t

LEMMA SetOfTail ==
  ASSUME NEW S, NEW s \in Seq(S), s # <<>>
  PROVE  /\ Head(s) \in S /\ Tail(s) \in Seq(S)
         /\ ToSet(s) = {Head(s)} \cup ToSet(Tail(s))
<1> DEFINE n == Len(s)
           t == Tail(s)
<1>1. n \in Nat \ {0} /\ DOMAIN s = 1..n /\ DOMAIN t = 1..(n - 1)
  OBVIOUS
<1>2. Head(s) = s[1] /\ Head(s) \in S /\ t \in Seq(S)
  OBVIOUS
<1>3. \A i \in 1..(n - 1) : t[i] = s[i + 1]
  OBVIOUS
<1> HIDE DEF n, t
<1>4. \A i \in 1..n : i = 1 \/ (i - 1 \in 1..(n - 1) /\ (i - 1) + 1 = i)
  BY <1>1
<1>5. 1 \in 1..n /\ \A i \in 1..(n - 1) : i + 1 \in 1..n
  BY <1>1
<1>6. ToSet(s) \subseteq {s[1]} \cup ToSet(t)
  <2>1. SUFFICES ASSUME NEW i \in 1..n
                 PROVE  s[i] = s[1] \/ \E j \in 1..(n - 1) : t[j] = s[i]
    BY <1>1 DEF ToSet
  <2>2. QED
    BY <1>3, <1>4
<1>7. {s[1]} \cup ToSet(t) \subseteq ToSet(s)
  BY <1>1, <1>3, <1>5 DEF ToSet
<1>8. QED
  BY <1>2, <1>6, <1>7 DEF t

LEMMA InLine ==
  ASSUME NEW a, NEW b
  PROVE  Append(<<a>>, b) = <<a, b>>
<1> DEFINE s == Append(<<a>>, b)
           t == <<a, b>>
<1>1. s \in Seq({a, b}) /\ Len(s) = 2 /\ s[1] = a /\ s[2] = b
  OBVIOUS
<1>2. t \in Seq({a, b}) /\ Len(t) = 2 /\ t[1] = a /\ t[2] = b
  OBVIOUS
<1> HIDE DEF s, t
<1>3. \A i \in 1..2 : s[i] = t[i]
  <2>1. \A i \in 1..2 : i = 1 \/ i = 2
    OBVIOUS
  <2>2. QED
    BY <1>1, <1>2, <2>1
<1>4. s = t
  BY <1>1, <1>2, <1>3
<1>5. QED
  BY <1>4 DEF s, t

LEMMA OnceAppended ==
  ASSUME NEW S, NEW s \in Seq(S), IsInjective(s), NEW e, e \notin ToSet(s)
  PROVE  IsInjective(Append(s, e))
  BY DEF ToSet, IsInjective

LEMMA OnceTaken ==
  ASSUME NEW S, NEW s \in Seq(S), IsInjective(s), s # <<>>
  PROVE  IsInjective(Tail(s)) /\ Head(s) \notin ToSet(Tail(s))
<1>1. Head(s) = s[1] /\ Len(s) >= 1 /\ Tail(s) \in Seq(S) /\ Len(Tail(s)) = Len(s) - 1
  OBVIOUS
<1>2. \A i \in 1..(Len(s) - 1) : Tail(s)[i] = s[i + 1]
  OBVIOUS
<1>3. DOMAIN Tail(s) = 1..(Len(s) - 1) /\ DOMAIN s = 1..Len(s)
  BY <1>1
<1>4. IsInjective(Tail(s))
  BY <1>1, <1>2, <1>3 DEF IsInjective
<1>5. \A i \in 1..(Len(s) - 1) : s[i + 1] # s[1]
  BY <1>1, <1>3 DEF IsInjective
<1>6. QED
  BY <1>1, <1>2, <1>3, <1>4, <1>5 DEF ToSet

\* One more of the list is done.
LEMMA RestOn ==
  ASSUME NEW S, NEW s \in Seq(S), NEW whole \in Seq(S), IsRest(s, whole), s # <<>>
  PROVE  /\ IsRest(Tail(s), whole)
         /\ Len(s) \in 1..Len(whole)
         /\ Head(s) = whole[Len(whole) - Len(s) + 1]
         /\ AllBut(whole, Len(Tail(s))) = AllBut(whole, Len(s)) \cup {Head(s)}
<1> DEFINE n == Len(whole) - Len(s)
<1>1. /\ Head(s) = s[1] /\ Tail(s) \in Seq(S) /\ Len(Tail(s)) = Len(s) - 1
      /\ Len(s) \in Nat /\ Len(s) >= 1 /\ Len(whole) \in Nat /\ Len(s) <= Len(whole)
  BY DEF IsRest
<1>2. n \in Nat /\ Len(whole) - Len(Tail(s)) = n + 1 /\ 1 \in 1..Len(s)
  BY <1>1
<1>3. \A i \in 1..(Len(s) - 1) : Tail(s)[i] = s[i + 1]
  OBVIOUS
<1>4. \A j \in 1..Len(s) : s[j] = whole[n + j]
  BY <1>1 DEF IsRest
<1>5. Head(s) = whole[n + 1]
  BY <1>1, <1>2, <1>4
<1> HIDE DEF n
<1>6. \A j \in 1..Len(Tail(s)) : Tail(s)[j] = whole[(n + 1) + j]
  <2> SUFFICES ASSUME NEW j \in 1..Len(Tail(s))
               PROVE  Tail(s)[j] = whole[(n + 1) + j]
    OBVIOUS
  <2>1. j \in 1..(Len(s) - 1) /\ j + 1 \in 1..Len(s) /\ n + (j + 1) = (n + 1) + j
    BY <1>1, <1>2
  <2>2. QED
    BY <2>1, <1>3, <1>4
<1>7. IsRest(Tail(s), whole)
  BY <1>1, <1>2, <1>6 DEF IsRest
<1>8. AllBut(whole, Len(s)) = {whole[j] : j \in 1..n}
  BY DEF AllBut, n
<1>9. AllBut(whole, Len(Tail(s))) = {whole[j] : j \in 1..(n + 1)}
  BY <1>2 DEF AllBut
<1>10. 1..(n + 1) = 1..n \cup {n + 1}
  BY <1>2
<1>11. AllBut(whole, Len(Tail(s))) = AllBut(whole, Len(s)) \cup {Head(s)}
  BY <1>5, <1>8, <1>9, <1>10
<1>12. QED
  BY <1>1, <1>5, <1>7, <1>11 DEF n

\* All is still to be done, and all is done.
LEMMA RestAll ==
  ASSUME NEW S, NEW whole \in Seq(S)
  PROVE  IsRest(whole, whole) /\ AllBut(whole, Len(whole)) = {}
  BY DEF IsRest, AllBut

LEMMA RestNone ==
  ASSUME NEW S, NEW whole \in Seq(S)
  PROVE  AllBut(whole, Len(<<>>)) = ToSet(whole)
  BY DEF ToSet, AllBut

LEMMA OpenSome ==
  ASSUME NEW S, NEW s \in Seq(S), NEW whole \in Seq(S)
  PROVE  AllBut(whole, Len(s)) \subseteq ToSet(whole)
<1>1. Len(s) \in Nat /\ Len(whole) \in Nat /\ DOMAIN whole = 1..Len(whole)
  OBVIOUS
<1>2. \A j \in 1..(Len(whole) - Len(s)) : j \in 1..Len(whole)
  BY <1>1
<1>3. QED
  BY <1>1, <1>2 DEF ToSet, AllBut

-----------------------------------------------------------------------------
(* The lists of what is opened and closed. *)

LEMMA OpenLists ==
  ASSUME NEW k \in Kinds
  PROVE  /\ Opens[k] \in Seq(Parts)
         /\ k = "dumper" => Opens[k] = <<>>
         /\ k # "dumper" => /\ Len(Opens[k]) >= 2
                            /\ \/ Opens[k][1] = "db"
                               \/ Opens[k][1] = "amqp" /\ Opens[k][2] = "db"
<1>1. CASE k = "vk"
  BY <1>1 DEF Parts, Opens, VkOpens
<1>2. CASE k = "discord"
  BY <1>2 DEF Parts, Opens, DiscordOpens
<1>3. CASE k = "steam"
  BY <1>3 DEF Parts, Opens, SteamOpens
<1>4. CASE k = "utils"
  BY <1>4 DEF Parts, Opens, UtilsOpens
<1>5. CASE k = "rest"
  BY <1>5 DEF Parts, Opens, RestOpens
<1>6. CASE k = "web"
  BY <1>6 DEF Parts, Opens, WebOpens
<1>7. CASE k = "dumper"
  BY <1>7 DEF Opens
<1>8. QED
  BY <1>1, <1>2, <1>3, <1>4, <1>5, <1>6, <1>7, KindsAssumption DEF Services, Webs

LEMMA CloseLists ==
  ASSUME NEW k \in Releasing
  PROVE  Closes[k] \in Seq(Parts)
<1>1. CASE k = "utils"
  BY <1>1 DEF Parts, Closes, UtilsCloses
<1>2. CASE k = "rest"
  BY <1>2 DEF Parts, Closes, RestCloses
<1>3. CASE k = "web"
  BY <1>3 DEF Parts, Closes, WebCloses
<1>4. QED
  BY <1>1, <1>2, <1>3 DEF Releasing

LEMMA WebLists ==
  ASSUME NEW k \in Webs
  PROVE  Opens[k][1] = "db" /\ IsRest(Closes[k], Closes[k])
<1>1. CASE k = "rest"
  BY <1>1 DEF Opens, RestOpens, Closes, RestCloses, IsRest
<1>2. CASE k = "web"
  BY <1>2 DEF Opens, WebOpens, Closes, WebCloses, IsRest
<1>3. QED
  BY <1>1, <1>2 DEF Webs

\* The listener is the last of all VkBotService opens.
LEMMA ListenerLast ==
  ASSUME NEW k \in Kinds, NEW i \in 1..Len(Opens[k]), Opens[k][i] = "listener"
  PROVE  k = "vk" /\ i = Len(Opens[k])
<1>1. CASE k = "vk"
  BY <1>1 DEF Opens, VkOpens
<1>2. CASE k = "discord"
  BY <1>2 DEF Opens, DiscordOpens
<1>3. CASE k = "steam"
  BY <1>3 DEF Opens, SteamOpens
<1>4. CASE k = "utils"
  BY <1>4 DEF Opens, UtilsOpens
<1>5. CASE k = "rest"
  BY <1>5 DEF Opens, RestOpens
<1>6. CASE k = "web"
  BY <1>6 DEF Opens, WebOpens
<1>7. CASE k = "dumper"
  BY <1>7 DEF Opens
<1>8. QED
  BY <1>1, <1>2, <1>3, <1>4, <1>5, <1>6, <1>7, KindsAssumption DEF Services, Webs

\* Past the broker, the database is the first that is opened.
LEMMA DatabaseEarly ==
  ASSUME NEW k \in Kinds, NEW s \in Seq(Parts), IsRest(s, Opens[k])
  PROVE  /\ AllBut(Opens[k], Len(s)) \ {"amqp"} # {} => "db" \in AllBut(Opens[k], Len(s))
         /\ s = <<>> /\ k # "dumper" => "db" \in AllBut(Opens[k], Len(s))
         /\ s # <<>> => k # "dumper"
<1> DEFINE w == Opens[k]
           n == Len(w) - Len(s)
<1>1. /\ w \in Seq(Parts) /\ Len(w) \in Nat /\ Len(s) \in Nat /\ Len(s) <= Len(w)
      /\ n \in Nat /\ (s = <<>> => Len(s) = 0) /\ (s # <<>> => Len(s) >= 1)
  BY OpenLists DEF IsRest
<1>2. k = "dumper" => Len(w) = 0
  BY OpenLists
<1>3. k # "dumper" => Len(w) >= 2 /\ (w[1] = "db" \/ (w[1] = "amqp" /\ w[2] = "db"))
  BY OpenLists
<1>4. AllBut(w, Len(s)) = {w[j] : j \in 1..n}
  BY DEF AllBut
<1> HIDE DEF w
<1>5. ASSUME NEW j \in 1..n, w[j] # "amqp"
      PROVE  "db" \in AllBut(w, Len(s))
  <2>1. k # "dumper" /\ n >= 1
    BY <1>1, <1>2
  <2>2. CASE w[1] = "db"
    BY <2>1, <2>2, <1>1, <1>4
  <2>3. CASE w[1] = "amqp" /\ w[2] = "db"
    <3>1. j # 1 /\ 2 \in 1..n
      BY <1>5, <2>3, <1>1
    <3>2. QED
      BY <3>1, <2>3, <1>4
  <2>4. QED
    BY <2>1, <2>2, <2>3, <1>3
<1>6. s = <<>> /\ k # "dumper" => "db" \in AllBut(w, Len(s))
  BY <1>1, <1>3, <1>4
<1>7. s # <<>> => k # "dumper"
  BY <1>1, <1>2
<1>8. QED
  BY <1>4, <1>5, <1>6, <1>7 DEF w

\* The set-up of a web application does not fail at its first part.
LEMMA WebsHaveDatabase ==
  ASSUME NEW k \in Kinds, k \in Webs, NEW s \in Seq(Parts), IsRest(s, Opens[k]), s # <<>>,
         Head(s) \in OpenFallible
  PROVE  "db" \in AllBut(Opens[k], Len(s))
<1>1. Opens[k] \in Seq(Parts) /\ Opens[k][1] = "db"
  BY OpenLists, WebLists
<1>2. Len(s) \in 1..Len(Opens[k]) /\ Head(s) = Opens[k][Len(Opens[k]) - Len(s) + 1]
  BY <1>1, RestOn
<1>3. Head(s) # "db"
  BY DEF OpenFallible, ReadsDatabase, Channels
<1>4. Len(Opens[k]) \in Nat /\ Len(Opens[k]) - Len(s) \in Nat /\ Len(Opens[k]) - Len(s) # 0
  BY <1>1, <1>2, <1>3
<1>5. 1 \in 1..(Len(Opens[k]) - Len(s))
  BY <1>4
<1>6. QED
  BY <1>1, <1>5 DEF AllBut

\* When the set-up of utils fails, what is open is what its close goes through.
LEMMA UtilsFails ==
  ASSUME NEW s \in Seq(Parts), IsRest(s, UtilsOpens), s # <<>>, Head(s) \in OpenFallible
  PROVE  AllBut(UtilsOpens, Len(s)) \subseteq ToSet(UtilsCloses)
<1> DEFINE n == Len(UtilsOpens) - Len(s)
<1>1. UtilsOpens \in Seq(Parts) /\ Len(UtilsOpens) = 6
  BY DEF UtilsOpens, Parts
<1>2. Len(s) \in 1..6 /\ Head(s) = UtilsOpens[n + 1]
  BY <1>1, RestOn
<1>3. n \in 0..5
  BY <1>1, <1>2
<1> HIDE DEF n
<1>4. UtilsOpens[6] \notin OpenFallible
  BY DEF UtilsOpens, OpenFallible, ReadsDatabase, Channels
<1>5. n \in 0..4
  BY <1>2, <1>3, <1>4
<1>6. \A j \in 1..4 : UtilsOpens[j] \in {"db", "redis", "gigachat_client", "amqp"}
  BY DEF UtilsOpens
<1>7. {"db", "redis", "gigachat_client", "amqp"} \subseteq ToSet(UtilsCloses)
  BY DEF UtilsCloses, ToSet
<1>8. \A j \in 1..n : j \in 1..4
  BY <1>5
<1>9. AllBut(UtilsOpens, Len(s)) = {UtilsOpens[j] : j \in 1..n}
  BY DEF AllBut, n
<1>10. QED
  BY <1>6, <1>7, <1>8, <1>9

LEMMA StepSetUpEnds == IInv /\ SetUpEnds => IInv'
<1> SUFFICES ASSUME IInv, SetUpEnds
             PROVE  IInv'
  OBVIOUS
<1>a. /\ kind \in Kinds /\ init = "setup" /\ setUp = "going" /\ closing = "none"
      /\ todo \in Seq(Parts) /\ IsRest(todo, Opens[kind])
      /\ held = AllBut(Opens[kind], Len(todo)) /\ stopping = (kind = "vk")
      /\ ready \in Seq(Tasks) /\ ToSet(ready) \cup work \subseteq {"listener"}
      /\ kind # "vk" \/ todo # <<>> => ready = <<>> /\ work = {}
  BY DEF IInv, Sane, Opening, SetUpEnds
<1>b. Opens[kind] \in Seq(Parts) /\ AllBut(Opens[kind], Len(todo)) \subseteq ToSet(Opens[kind])
  BY <1>a, OpenLists, OpenSome
<1>c. /\ held \ {"amqp"} # {} => "db" \in held
      /\ todo = <<>> /\ kind # "dumper" => "db" \in held
      /\ todo # <<>> => kind # "dumper"
  BY <1>a, DatabaseEarly
<1>1. Sane'
  BY DEF IInv, Sane, SetUpEnds, SetUpReturns
<1>2. Opening'
  BY DEF IInv, Opening, SetUpEnds, SetUpReturns
<1>3. Stages'
  BY DEF IInv, Stages, SetUpEnds, SetUpReturns, Sane, Opening, Services, Webs, Releasing
<1>4. Queue'
  BY DEF IInv, Queue, SetUpEnds, SetUpReturns, Sane, Opening, Stages, Webs, Services
<1>5. FailedSteam'
  BY DEF IInv, FailedSteam, SetUpEnds, SetUpReturns
<1>6. Database'
  BY <1>a, <1>b, <1>c, KindsAssumption
     DEF IInv, Database, Queue, Opens, SetUpEnds, SetUpReturns, Alive, Releasing,
         DatabaseTasks, Webs, Services
<1>7. Releases'
  BY DEF IInv, Releases, SetUpEnds, SetUpReturns
<1>8. QED
  BY <1>1, <1>2, <1>3, <1>4, <1>5, <1>6, <1>7 DEF IInv

LEMMA StepOpenFails == IInv /\ OpenFails => IInv'
<1> SUFFICES ASSUME IInv, OpenFails
             PROVE  IInv'
  OBVIOUS
<1>a. /\ kind \in Kinds /\ init = "setup" /\ setUp = "going" /\ closing = "none"
      /\ todo \in Seq(Parts) /\ IsRest(todo, Opens[kind])
      /\ held = AllBut(Opens[kind], Len(todo)) /\ stopping = (kind = "vk")
      /\ ready \in Seq(Tasks) /\ ToSet(ready) \cup work \subseteq {"listener"}
      /\ kind # "vk" \/ todo # <<>> => ready = <<>> /\ work = {}
  BY DEF IInv, Sane, Opening, OpenFails
<1>b. Opens[kind] \in Seq(Parts) /\ AllBut(Opens[kind], Len(todo)) \subseteq ToSet(Opens[kind])
  BY <1>a, OpenLists, OpenSome
<1>c. /\ held \ {"amqp"} # {} => "db" \in held
      /\ todo = <<>> /\ kind # "dumper" => "db" \in held
      /\ todo # <<>> => kind # "dumper"
  BY <1>a, DatabaseEarly
<1>d. todo # <<>> /\ Head(todo) \in OpenFallible /\ kind # "dumper"
  BY <1>c DEF OpenFails
<1>e. ready' = IF kind \in Webs \cup {"vk"} THEN ready ELSE <<"closer">>
  <2>1. kind \notin Webs => ready' = IF stopping THEN ready ELSE Append(ready, "closer")
    BY DEF OpenFails, Stop
  <2>2. kind \in Webs => ready' = ready /\ kind # "vk"
    BY DEF OpenFails, Webs
  <2>3. kind = "vk" <=> stopping
    BY <1>a
  <2>4. kind # "vk" => Append(ready, "closer") = <<"closer">>
    BY <1>a
  <2>5. QED
    BY <2>1, <2>2, <2>3, <2>4
<1>f. UNCHANGED <<kind, todo, held, work, closing>> /\ setUp' = "failed"
  BY DEF OpenFails, SetUpReturns
<1>g. kind # "vk" => work = {} /\ ready = <<>>
  BY <1>a
<1>h. ToSet(<<"closer">>) = {"closer"} /\ IsInjective(<<"closer">>) /\ <<"closer">> \in Seq(Tasks)
  BY DEF ToSet, IsInjective, Tasks
<1>i. init' = IF kind \in Webs THEN "serving" ELSE "start"
  BY DEF OpenFails, SetUpReturns
<1>1. Sane'
  <2>1. stopping' \in BOOLEAN
    BY DEF IInv, Sane, OpenFails, Stop
  <2>2. QED
    BY <2>1, <1>a, <1>e, <1>f, <1>h, <1>i DEF IInv, Sane
<1>2. Opening'
  BY DEF IInv, Opening, OpenFails, SetUpReturns, Stop
<1>3. Stages'
  BY DEF IInv, Stages, OpenFails, SetUpReturns, Stop, Services, Webs, Releasing
<1>4. Queue'
  BY <1>a, <1>d, <1>e, <1>f, <1>g, <1>h, <1>i, KindsAssumption
     DEF IInv, Queue, Webs, Services
<1>5. FailedSteam'
  BY <1>a, <1>d, <1>e, <1>f, <1>g, <1>i DEF FailedSteam, Webs
<1>6. Database'
  <2>1. kind \in Webs => "db" \in held
    BY <1>a, <1>d, WebsHaveDatabase
  <2>2. kind = "utils" => held \subseteq ToSet(UtilsCloses)
    BY <1>a, <1>d, UtilsFails DEF Opens
  <2>3. held \subseteq ToSet(Opens[kind])
    BY <1>a, <1>b
  <2>4. (ToSet(ready') \cup work') \cap DatabaseTasks # {} => "db" \in held
    BY <1>a, <1>e, <1>f, <1>g, <1>h DEF IInv, Database, Alive, DatabaseTasks
  <2>5. QED
    BY <2>1, <2>2, <2>3, <2>4, <1>c, <1>f, <1>i DEF Database
<1>7. Releases'
  BY DEF IInv, Releases, OpenFails, SetUpReturns, Stop
<1>8. QED
  BY <1>1, <1>2, <1>3, <1>4, <1>5, <1>6, <1>7 DEF IInv

LEMMA StepOpen == IInv /\ Open => IInv'
<1> SUFFICES ASSUME IInv, Open
             PROVE  IInv'
  OBVIOUS
<1>a. /\ kind \in Kinds /\ init = "setup" /\ setUp = "going" /\ closing = "none"
      /\ todo \in Seq(Parts) /\ IsRest(todo, Opens[kind])
      /\ held = AllBut(Opens[kind], Len(todo)) /\ stopping = (kind = "vk")
      /\ ready \in Seq(Tasks) /\ ToSet(ready) \cup work \subseteq {"listener"}
      /\ kind # "vk" \/ todo # <<>> => ready = <<>> /\ work = {}
  BY DEF IInv, Sane, Opening, Open
<1>b. Opens[kind] \in Seq(Parts) /\ AllBut(Opens[kind], Len(todo)) \subseteq ToSet(Opens[kind])
  BY <1>a, OpenLists, OpenSome
<1>c. /\ held \ {"amqp"} # {} => "db" \in held
      /\ todo = <<>> /\ kind # "dumper" => "db" \in held
      /\ todo # <<>> => kind # "dumper"
  BY <1>a, DatabaseEarly
<1>d. /\ todo # <<>> /\ todo' = Tail(todo) /\ held' = held \cup {Head(todo)}
      /\ ready' = IF Head(todo) = "listener" THEN <<"listener">> ELSE <<>>
      /\ work' = {} /\ UNCHANGED <<kind, setUp, init, stopping, closing>>
  BY <1>a DEF Open
<1>e. /\ IsRest(todo', Opens[kind]) /\ todo' \in Seq(Parts)
      /\ held' = AllBut(Opens[kind], Len(todo'))
  BY <1>a, <1>b, <1>d, RestOn
<1>f. Head(todo) = "listener" => kind = "vk" /\ todo' = <<>>
  <2>1. /\ Len(todo) \in 1..Len(Opens[kind])
        /\ Head(todo) = Opens[kind][Len(Opens[kind]) - Len(todo) + 1]
    BY <1>a, <1>b, <1>d, RestOn
  <2>2. Len(Opens[kind]) \in Nat /\ Len(Opens[kind]) - Len(todo) + 1 \in 1..Len(Opens[kind])
    BY <1>b, <2>1
  <2>3. Head(todo) = "listener" =>
          kind = "vk" /\ Len(Opens[kind]) - Len(todo) + 1 = Len(Opens[kind])
    BY <2>1, <2>2, <1>a, ListenerLast
  <2>4. Len(todo) = 1 => Tail(todo) = <<>>
    BY <1>a, <1>d
  <2>5. QED
    BY <2>1, <2>2, <2>3, <2>4, <1>d
<1>g. ToSet(<<"listener">>) = {"listener"} /\ IsInjective(<<"listener">>) /\ <<"listener">> \in Seq(Tasks)
  BY DEF ToSet, IsInjective, Tasks
<1>h. ToSet(<<>>) = {} /\ IsInjective(<<>>) /\ <<>> \in Seq(Tasks)
  BY DEF ToSet, IsInjective
<1>i. /\ held' \ {"amqp"} # {} => "db" \in held'
      /\ held' \subseteq ToSet(Opens[kind])
  BY <1>a, <1>b, <1>e, DatabaseEarly, OpenSome
<1>1. Sane'
  BY <1>a, <1>d, <1>e, <1>g, <1>h DEF IInv, Sane
<1>2. Opening'
  BY <1>a, <1>d, <1>e, <1>f, <1>g, <1>h DEF Opening
<1>3. Stages'
  BY DEF IInv, Stages, Open
<1>4. Queue'
  BY <1>a, <1>d, <1>f, <1>g, <1>h DEF Queue, Webs, Services
<1>5. FailedSteam'
  BY DEF IInv, FailedSteam, Open
<1>6. Database'
  BY <1>a, <1>d, <1>g, <1>h, <1>i DEF Database
<1>7. Releases'
  BY DEF IInv, Releases, Open, Sane, Opening, Stages, Releasing, Webs, Services
<1>8. QED
  BY <1>1, <1>2, <1>3, <1>4, <1>5, <1>6, <1>7 DEF IInv

LEMMA StepVkStarts == IInv /\ VkStarts => IInv'
<1> SUFFICES ASSUME IInv, VkStarts
             PROVE  IInv'
  OBVIOUS
<1>1. Sane'
  <2>1. Append(ready, "main") \in Seq(Tasks)
    BY DEF IInv, Sane, Tasks
  <2>2. QED
    BY <2>1 DEF IInv, Sane, VkStarts
<1>2. Opening'
  BY DEF IInv, Opening, VkStarts
<1>3. Stages'
  BY DEF IInv, Stages, VkStarts
<1>4. Queue'
  BY SetOfAppend, OnceAppended DEF IInv, Queue, VkStarts, Sane, Tasks, Webs, Services
<1>5. FailedSteam'
  BY DEF IInv, FailedSteam, VkStarts
<1>6. Database'
  BY DEF IInv, Database, VkStarts, Alive, Releasing, DatabaseTasks
<1>7. Releases'
  BY DEF IInv, Releases, VkStarts
<1>8. QED
  BY <1>1, <1>2, <1>3, <1>4, <1>5, <1>6, <1>7 DEF IInv

LEMMA StepSchedulesRead == IInv /\ SchedulesRead => IInv'
<1> SUFFICES ASSUME IInv, SchedulesRead
             PROVE  IInv'
  OBVIOUS
<1>1. Sane'
  BY SetOfAppend, OnceAppended DEF IInv, Sane, SchedulesRead, Tasks
<1>2. Opening'
  BY DEF IInv, Opening, SchedulesRead
<1>3. Stages'
  BY DEF IInv, Stages, SchedulesRead
<1>4. Queue'
  BY SetOfAppend, OnceAppended
     DEF IInv, Queue, SchedulesRead, Sane, Stages, Tasks, Webs, Services
<1>5. FailedSteam'
  BY DEF IInv, FailedSteam, SchedulesRead
<1>6. Database'
  BY DEF IInv, Database, SchedulesRead
<1>7. Releases'
  BY DEF IInv, Releases, SchedulesRead
<1>8. QED
  BY <1>1, <1>2, <1>3, <1>4, <1>5, <1>6, <1>7 DEF IInv

LEMMA StepStartRaises == IInv /\ StartRaises => IInv'
<1> SUFFICES ASSUME IInv, StartRaises
             PROVE  IInv'
  OBVIOUS
<1>1. Sane'
  BY DEF IInv, Sane, StartRaises
<1>2. Opening'
  BY DEF IInv, Opening, StartRaises
<1>3. Stages'
  BY DEF IInv, Stages, StartRaises
<1>4. Queue'
  BY DEF IInv, Queue, StartRaises
<1>5. FailedSteam'
  BY DEF IInv, FailedSteam, StartRaises
<1>6. Database'
  BY DEF IInv, Database, StartRaises
<1>7. Releases'
  BY DEF IInv, Releases, StartRaises
<1>8. QED
  BY <1>1, <1>2, <1>3, <1>4, <1>5, <1>6, <1>7 DEF IInv

LEMMA StepDiscordStarts == IInv /\ DiscordStarts => IInv'
<1> SUFFICES ASSUME IInv, DiscordStarts
             PROVE  IInv'
  OBVIOUS
<1>a. /\ ready \in Seq(Tasks) /\ kind = "discord" /\ init = "start"
      /\ ToSet(ready) \cup work \subseteq {"listener", "closer"} /\ IsInjective(ready)
      /\ ToSet(ready) \cap work = {}
  BY DEF IInv, Sane, Queue, DiscordStarts
<1>b. /\ Append(ready, "bot") \in Seq(Tasks)
      /\ ToSet(Append(ready, "bot")) = ToSet(ready) \cup {"bot"}
      /\ IsInjective(Append(ready, "bot"))
  BY <1>a, SetOfAppend, OnceAppended DEF Tasks
<1>c. /\ \/ ready' = ready /\ init' = "raised"
         \/ ready' = Append(ready, "bot") /\ init' = "waiting"
      /\ UNCHANGED <<kind, todo, held, setUp, work, closing>> /\ stopping' = FALSE
  BY DEF DiscordStarts
<1>1. Sane'
  BY <1>b, <1>c DEF IInv, Sane
<1>2. Opening'
  BY DEF IInv, Opening, DiscordStarts
<1>3. Stages'
  BY DEF IInv, Stages, DiscordStarts
<1>4. Queue'
  <2>1. IsInjective(ready') /\ ToSet(ready') \cap work' = {}
    BY <1>a, <1>b, <1>c
  <2>2. "schedules" \notin ToSet(ready') /\ "schedules" \notin work'
    <3>1. "schedules" \notin ToSet(ready) \cup {"bot"} /\ "schedules" \notin work
      BY <1>a
    <3>2. QED
      BY <3>1, <1>b, <1>c
  <2>3. "closer" \in ToSet(ready') => setUp' = "failed" /\ closing' = "none"
    BY <1>b, <1>c DEF IInv, Queue
  <2>4. {"listener", "main"} \cap (ToSet(ready') \cup work') = {}
    BY <1>a, <1>b, <1>c DEF IInv, Queue
  <2>5. kind' = "discord" /\ init' # "start"
    BY <1>a, <1>c
  <2>6. QED
    BY <2>1, <2>2, <2>3, <2>4, <2>5 DEF Queue, Webs
<1>5. FailedSteam'
  BY DEF IInv, FailedSteam, DiscordStarts
<1>6. Database'
  BY DEF IInv, Database, DiscordStarts, Alive, Releasing, DatabaseTasks
<1>7. Releases'
  BY DEF IInv, Releases, DiscordStarts
<1>8. QED
  BY <1>1, <1>2, <1>3, <1>4, <1>5, <1>6, <1>7 DEF IInv

LEMMA StepBotIsReady == IInv /\ BotIsReady => IInv'
<1> SUFFICES ASSUME IInv, BotIsReady
             PROVE  IInv'
  OBVIOUS
<1>1. Sane'
  BY DEF IInv, Sane, BotIsReady
<1>2. Opening'
  BY DEF IInv, Opening, BotIsReady
<1>3. Stages'
  BY DEF IInv, Stages, BotIsReady
<1>4. Queue'
  BY DEF IInv, Queue, BotIsReady
<1>5. FailedSteam'
  BY DEF IInv, FailedSteam, BotIsReady
<1>6. Database'
  BY DEF IInv, Database, BotIsReady
<1>7. Releases'
  BY DEF IInv, Releases, BotIsReady
<1>8. QED
  BY <1>1, <1>2, <1>3, <1>4, <1>5, <1>6, <1>7 DEF IInv

LEMMA StepBotEnds == IInv /\ BotEnds => IInv'
<1> SUFFICES ASSUME IInv, BotEnds
             PROVE  IInv'
  OBVIOUS
<1>1. Sane'
  BY DEF IInv, Sane, BotEnds
<1>2. Opening'
  BY DEF IInv, Opening, BotEnds
<1>3. Stages'
  BY DEF IInv, Stages, BotEnds
<1>4. Queue'
  BY DEF IInv, Queue, BotEnds
<1>5. FailedSteam'
  BY DEF IInv, FailedSteam, BotEnds
<1>6. Database'
  BY DEF IInv, Database, BotEnds, Alive, Releasing, DatabaseTasks
<1>7. Releases'
  BY DEF IInv, Releases, BotEnds
<1>8. QED
  BY <1>1, <1>2, <1>3, <1>4, <1>5, <1>6, <1>7 DEF IInv

LEMMA StepOnReadyReturns == IInv /\ OnReadyReturns => IInv'
<1> SUFFICES ASSUME IInv, OnReadyReturns
             PROVE  IInv'
  OBVIOUS
<1>1. Sane'
  BY SetOfAppend, OnceAppended DEF IInv, Sane, OnReadyReturns, Tasks
<1>2. Opening'
  BY DEF IInv, Opening, OnReadyReturns
<1>3. Stages'
  BY DEF IInv, Stages, OnReadyReturns
<1>4. Queue'
  BY SetOfAppend, OnceAppended
     DEF IInv, Queue, OnReadyReturns, Sane, Stages, Tasks, Webs, Services
<1>5. FailedSteam'
  BY DEF IInv, FailedSteam, OnReadyReturns
<1>6. Database'
  BY DEF IInv, Database, OnReadyReturns
<1>7. Releases'
  BY DEF IInv, Releases, OnReadyReturns
<1>8. QED
  BY <1>1, <1>2, <1>3, <1>4, <1>5, <1>6, <1>7 DEF IInv

LEMMA StepSteamStarts == IInv /\ SteamStarts => IInv'
<1> SUFFICES ASSUME IInv, SteamStarts
             PROVE  IInv'
  OBVIOUS
<1>1. Sane'
  BY SetOfAppend, OnceAppended DEF IInv, Sane, SteamStarts, Tasks
<1>2. Opening'
  BY DEF IInv, Opening, SteamStarts
<1>3. Stages'
  BY DEF IInv, Stages, SteamStarts
<1>4. Queue'
  BY SetOfAppend, OnceAppended DEF IInv, Queue, SteamStarts, Sane, Tasks, Webs, Services
<1>5. FailedSteam'
  <2>1. setUp = "failed" => ready = <<"closer">> /\ closing = "none" /\ work = {}
    BY DEF IInv, FailedSteam, SteamStarts
  <2>2. Append(<<"closer">>, "poller") = <<"closer", "poller">>
    BY InLine
  <2>3. QED
    BY <2>1, <2>2 DEF FailedSteam, SteamStarts
<1>6. Database'
  BY DEF IInv, Database, SteamStarts, Sane, Opening, Stages, Alive, Releasing,
         DatabaseTasks, Webs, Services
<1>7. Releases'
  BY DEF IInv, Releases, SteamStarts
<1>8. QED
  BY <1>1, <1>2, <1>3, <1>4, <1>5, <1>6, <1>7 DEF IInv

LEMMA StepUtilsStarts == IInv /\ UtilsStarts => IInv'
<1> SUFFICES ASSUME IInv, UtilsStarts
             PROVE  IInv'
  OBVIOUS
<1>1. Sane'
  BY DEF IInv, Sane, UtilsStarts
<1>2. Opening'
  BY DEF IInv, Opening, UtilsStarts
<1>3. Stages'
  BY DEF IInv, Stages, UtilsStarts
<1>4. Queue'
  BY DEF IInv, Queue, UtilsStarts
<1>5. FailedSteam'
  BY DEF IInv, FailedSteam, UtilsStarts
<1>6. Database'
  BY DEF IInv, Database, UtilsStarts, Alive, Releasing, DatabaseTasks
<1>7. Releases'
  BY DEF IInv, Releases, UtilsStarts
<1>8. QED
  BY <1>1, <1>2, <1>3, <1>4, <1>5, <1>6, <1>7 DEF IInv

LEMMA StepDumperStarts == IInv /\ DumperStarts => IInv'
<1> SUFFICES ASSUME IInv, DumperStarts
             PROVE  IInv'
  OBVIOUS
<1>1. Sane'
  BY SetOfAppend, OnceAppended DEF IInv, Sane, DumperStarts, Tasks
<1>2. Opening'
  BY DEF IInv, Opening, DumperStarts
<1>3. Stages'
  BY DEF IInv, Stages, DumperStarts
<1>4. Queue'
  BY SetOfAppend, OnceAppended
     DEF IInv, Queue, DumperStarts, Sane, Tasks, Webs, Services
<1>5. FailedSteam'
  BY DEF IInv, FailedSteam, DumperStarts
<1>6. Database'
  BY SetOfAppend, OnceAppended
     DEF IInv, Database, DumperStarts, Sane, Tasks, Alive, Releasing, DatabaseTasks
<1>7. Releases'
  BY DEF IInv, Releases, DumperStarts
<1>8. QED
  BY <1>1, <1>2, <1>3, <1>4, <1>5, <1>6, <1>7 DEF IInv

LEMMA StepTaskBegins == IInv /\ TaskBegins => IInv'
<1> SUFFICES ASSUME IInv, TaskBegins
             PROVE  IInv'
  OBVIOUS
<1>1. Sane'
  <2>1. Head(ready) \in Tasks \ {"closer"} /\ Tail(ready) \in Seq(Tasks)
    BY DEF IInv, Sane, TaskBegins, LoopTurns
  <2>2. QED
    BY <2>1 DEF IInv, Sane, TaskBegins
<1>2. Opening'
  BY SetOfTail, OnceTaken
     DEF IInv, Opening, TaskBegins, LoopTurns, Sane, Tasks, Services
<1>3. Stages'
  BY DEF IInv, Stages, TaskBegins, LoopTurns
<1>4. Queue'
  BY SetOfTail, OnceTaken
     DEF IInv, Queue, TaskBegins, LoopTurns, Sane, Tasks, Webs, Services
<1>5. FailedSteam'
  BY DEF IInv, FailedSteam, TaskBegins, LoopTurns
<1>6. Database'
  BY SetOfTail, OnceTaken
     DEF IInv, Database, TaskBegins, LoopTurns, Sane, Tasks, Alive, Releasing,
         DatabaseTasks
<1>7. Releases'
  BY DEF IInv, Releases, TaskBegins, LoopTurns
<1>8. QED
  BY <1>1, <1>2, <1>3, <1>4, <1>5, <1>6, <1>7 DEF IInv

LEMMA StepCloserBegins == IInv /\ CloserBegins => IInv'
<1> SUFFICES ASSUME IInv, CloserBegins
             PROVE  IInv'
  OBVIOUS
<1>a. /\ ready \in Seq(Tasks) /\ ready # <<>> /\ Head(ready) = "closer"
      /\ kind \in Kinds /\ init \notin {"start", "exited"}
  BY DEF IInv, Sane, CloserBegins, LoopTurns
<1>b. ToSet(ready) = {"closer"} \cup ToSet(Tail(ready)) /\ Tail(ready) \in Seq(Tasks)
  BY <1>a, SetOfTail
<1>c. setUp = "failed" /\ kind \in {"discord", "steam", "utils"} /\ closing = "none"
  BY <1>b DEF IInv, Queue
<1>d. kind = "steam" => /\ ready = <<"closer", "poller">> /\ init = "done" /\ work = {}
                        /\ "poller" \in ToSet(ready) /\ Tail(ready) = <<"poller">>
  <2>1. Head(<<"poller">>) # "closer"
    OBVIOUS
  <2>2. kind = "steam" => ready = <<"closer", "poller">> /\ init = "done" /\ work = {}
    BY <1>a, <1>c, <2>1 DEF IInv, FailedSteam
  <2>3. Tail(<<"closer", "poller">>) = <<"poller">>
    OBVIOUS
  <2>4. "poller" \in ToSet(<<"closer", "poller">>)
    BY DEF ToSet
  <2>5. QED
    BY <2>2, <2>3, <2>4
<1>e. /\ kind = "discord" => closing' = "raised" /\ todo' = <<>>
      /\ kind = "steam" => closing' = "awaiting" /\ todo' = <<>>
      /\ kind = "utils" => closing' = "going" /\ todo' = UtilsCloses
      /\ ready' = Tail(ready) /\ UNCHANGED <<kind, held, setUp, init, stopping, work>>
  BY <1>c, <1>d DEF CloserBegins, Closes
<1>f. UtilsCloses \in Seq(Parts) /\ <<>> \in Seq(Parts) /\ IsRest(UtilsCloses, UtilsCloses)
  BY DEF UtilsCloses, Parts, IsRest
<1>1. Sane'
  BY <1>b, <1>c, <1>e, <1>f DEF IInv, Sane
<1>2. Opening'
  BY SetOfTail, OnceTaken
     DEF IInv, Opening, CloserBegins, LoopTurns, Sane, Stages, Queue, Tasks, Services
<1>3. Stages'
  BY <1>c, <1>e DEF IInv, Stages, Webs, Services, Releasing
<1>4. Queue'
  BY SetOfTail, OnceTaken
     DEF IInv, Queue, CloserBegins, LoopTurns, Sane, Tasks, Webs, Services
<1>5. FailedSteam'
  BY <1>c, <1>d, <1>e DEF FailedSteam
<1>6. Database'
  BY SetOfTail, OnceTaken
     DEF IInv, Database, CloserBegins, LoopTurns, Sane, Tasks, Alive, Releasing,
         DatabaseTasks
<1>7. Releases'
  BY <1>c, <1>e, <1>f DEF IInv, Database, Releases, Closes, Releasing
<1>8. QED
  BY <1>1, <1>2, <1>3, <1>4, <1>5, <1>6, <1>7 DEF IInv

LEMMA StepPollerCancelled == IInv /\ PollerCancelled => IInv'
<1> SUFFICES ASSUME IInv, PollerCancelled
             PROVE  IInv'
  OBVIOUS
<1>1. Sane'
  BY DEF IInv, Sane, PollerCancelled, LoopTurns
<1>2. Opening'
  BY DEF IInv, Opening, PollerCancelled, LoopTurns
<1>3. Stages'
  BY DEF IInv, Stages, PollerCancelled, LoopTurns
<1>4. Queue'
  BY SetOfTail, OnceTaken
     DEF IInv, Queue, PollerCancelled, LoopTurns, Sane, Tasks, Webs, Services
<1>5. FailedSteam'
  BY DEF IInv, FailedSteam, PollerCancelled, LoopTurns
<1>6. Database'
  BY DEF IInv, Database, PollerCancelled, LoopTurns, Sane, Opening, Stages, Alive,
         Releasing, DatabaseTasks, Webs, Services
<1>7. Releases'
  BY DEF IInv, Releases, PollerCancelled, LoopTurns
<1>8. QED
  BY <1>1, <1>2, <1>3, <1>4, <1>5, <1>6, <1>7 DEF IInv

LEMMA StepExit == IInv /\ Exit => IInv'
<1> SUFFICES ASSUME IInv, Exit
             PROVE  IInv'
  OBVIOUS
<1>1. Sane'
  BY DEF IInv, Sane, Exit
<1>2. Opening'
  BY DEF IInv, Opening, Exit
<1>3. Stages'
  BY DEF IInv, Stages, Exit
<1>4. Queue'
  BY DEF IInv, Queue, Exit
<1>5. FailedSteam'
  BY DEF IInv, FailedSteam, Exit
<1>6. Database'
  BY DEF IInv, Database, Exit, Sane, Opening, Stages, Alive, Releasing, DatabaseTasks,
         Webs, Services
<1>7. Releases'
  BY DEF IInv, Releases, Exit
<1>8. QED
  BY <1>1, <1>2, <1>3, <1>4, <1>5, <1>6, <1>7 DEF IInv

LEMMA StepAllocateVk == IInv /\ AllocateVk => IInv'
<1> SUFFICES ASSUME IInv, AllocateVk
             PROVE  IInv'
  OBVIOUS
<1>1. Sane'
  BY DEF IInv, Sane, AllocateVk
<1>2. Opening'
  BY DEF IInv, Opening, AllocateVk
<1>3. Stages'
  BY DEF IInv, Stages, AllocateVk
<1>4. Queue'
  BY DEF IInv, Queue, AllocateVk
<1>5. FailedSteam'
  BY DEF IInv, FailedSteam, AllocateVk
<1>6. Database'
  BY DEF IInv, Database, AllocateVk, Sane, Stages, Queue, Tasks, Alive, Releasing,
         DatabaseTasks
<1>7. Releases'
  BY DEF IInv, Releases, AllocateVk, Sane, Stages, Queue, Tasks, Releasing
<1>8. QED
  BY <1>1, <1>2, <1>3, <1>4, <1>5, <1>6, <1>7 DEF IInv

LEMMA StepReleaseVk == IInv /\ ReleaseVk => IInv'
<1> SUFFICES ASSUME IInv, ReleaseVk
             PROVE  IInv'
  OBVIOUS
<1>a. init # "setup"
  <2>1. "client_vk" \notin ToSet(Opens[kind])
    <3>1. Opens[kind] \in Seq(Parts)
      BY OpenLists DEF IInv, Sane
    <3>2. ToSet(Opens[kind]) \subseteq Parts
      BY <3>1 DEF ToSet
    <3>3. QED
      BY <3>2 DEF Parts
  <2>2. QED
    BY <2>1, OpenLists, OpenSome DEF IInv, Sane, Opening, ReleaseVk
<1>1. Sane'
  BY DEF IInv, Sane, ReleaseVk, Alive
<1>2. Opening'
  BY <1>a DEF Opening, ReleaseVk
<1>3. Stages'
  BY DEF IInv, Stages, ReleaseVk, Alive
<1>4. Queue'
  BY DEF IInv, Queue, ReleaseVk, Alive
<1>5. FailedSteam'
  BY DEF IInv, FailedSteam, ReleaseVk, Alive
<1>6. Database'
  BY DEF IInv, Database, ReleaseVk, Alive
<1>7. Releases'
  BY DEF IInv, Releases, ReleaseVk, Alive
<1>8. QED
  BY <1>1, <1>2, <1>3, <1>4, <1>5, <1>6, <1>7 DEF IInv

LEMMA StepShutdown == IInv /\ Shutdown => IInv'
<1> SUFFICES ASSUME IInv, Shutdown
             PROVE  IInv'
  OBVIOUS
<1>a. kind \in Webs /\ kind \in Kinds /\ init = "serving" /\ closing = "none"
  BY DEF IInv, Sane, Stages, Shutdown
<1>b. Closes[kind] \in Seq(Parts) /\ IsRest(Closes[kind], Closes[kind])
  BY <1>a, CloseLists, WebLists DEF Webs, Releasing
<1>c. held \subseteq ToSet(Closes[kind]) \cup Unconnected
  <2>1. CASE kind = "rest"
    <3>1. ToSet(RestOpens) \subseteq ToSet(RestCloses) \cup Unconnected
      BY DEF RestOpens, RestCloses, ToSet, Unconnected
    <3>2. QED
      BY <2>1, <3>1 DEF IInv, Database, Opens, Closes
  <2>2. CASE kind = "web"
    <3>1. ToSet(WebOpens) \subseteq ToSet(WebCloses) \cup Unconnected
      BY DEF WebOpens, WebCloses, ToSet, Unconnected
    <3>2. QED
      BY <2>2, <3>1 DEF IInv, Database, Opens, Closes
  <2>3. QED
    BY <2>1, <2>2, <1>a DEF Webs
<1>1. Sane'
  BY <1>b DEF IInv, Sane, Shutdown
<1>2. Opening'
  BY DEF IInv, Opening, Shutdown
<1>3. Stages'
  BY DEF IInv, Stages, Shutdown, Services, Webs, Releasing
<1>4. Queue'
  BY DEF IInv, Queue, Shutdown, Sane, Opening, Stages, Webs, Services
<1>5. FailedSteam'
  BY DEF IInv, FailedSteam, Shutdown
<1>6. Database'
  BY DEF IInv, Database, Shutdown
<1>7. Releases'
  BY <1>b, <1>c DEF Releases, Shutdown
<1>8. QED
  BY <1>1, <1>2, <1>3, <1>4, <1>5, <1>6, <1>7 DEF IInv

LEMMA StepCloseNext == IInv /\ CloseNext => IInv'
<1> SUFFICES ASSUME IInv, CloseNext
             PROVE  IInv'
  OBVIOUS
<1>a. /\ kind \in Releasing /\ closing = "going" /\ todo # <<>> /\ todo \in Seq(Parts)
      /\ held' = held \ {Head(todo)} /\ todo' = Tail(todo)
      /\ UNCHANGED <<kind, setUp, init, stopping, ready, work, closing>>
  BY DEF IInv, Sane, Stages, CloseNext
<1>b. /\ IsRest(Tail(todo), Closes[kind])
      /\ ToSet(todo) = {Head(todo)} \cup ToSet(Tail(todo))
  BY <1>a, CloseLists, RestOn, SetOfTail DEF IInv, Releases
<1>c. init \in {"setup", "start", "done", "leaving"} /\ init # "setup"
  BY <1>a DEF IInv, Stages, Opening, Releasing, Webs, Services
<1>1. Sane'
  BY DEF IInv, Sane, CloseNext
<1>2. Opening'
  BY DEF IInv, Opening, CloseNext
<1>3. Stages'
  BY DEF IInv, Stages, CloseNext
<1>4. Queue'
  BY DEF IInv, Queue, CloseNext
<1>5. FailedSteam'
  BY DEF IInv, FailedSteam, CloseNext
<1>6. Database'
  <2>1. (ToSet(ready) \cup work) \cap DatabaseTasks = {}
    <3>1. ToSet(<<>>) = {}
      BY DEF ToSet
    <3>2. QED
      BY <3>1, <1>a DEF IInv, Queue, Releasing, DatabaseTasks, Webs
  <2>2. QED
    BY <2>1, <1>a, <1>c DEF IInv, Database, Alive, Webs, Releasing
<1>7. Releases'
  BY <1>a, <1>b DEF IInv, Releases
<1>8. QED
  BY <1>1, <1>2, <1>3, <1>4, <1>5, <1>6, <1>7 DEF IInv

LEMMA StepCloseRaises == IInv /\ CloseRaises => IInv'
<1> SUFFICES ASSUME IInv, CloseRaises
             PROVE  IInv'
  OBVIOUS
<1>1. Sane'
  BY DEF IInv, Sane, CloseRaises
<1>2. Opening'
  BY DEF IInv, Opening, CloseRaises
<1>3. Stages'
  BY DEF IInv, Stages, CloseRaises
<1>4. Queue'
  BY DEF IInv, Queue, CloseRaises
<1>5. FailedSteam'
  BY DEF IInv, FailedSteam, CloseRaises
<1>6. Database'
  BY DEF IInv, Database, CloseRaises, Alive, Releasing, DatabaseTasks
<1>7. Releases'
  BY DEF IInv, Releases, CloseRaises
<1>8. QED
  BY <1>1, <1>2, <1>3, <1>4, <1>5, <1>6, <1>7 DEF IInv

LEMMA StepCloseEnds == IInv /\ CloseEnds => IInv'
<1> SUFFICES ASSUME IInv, CloseEnds
             PROVE  IInv'
  OBVIOUS
<1>1. Sane'
  BY DEF IInv, Sane, CloseEnds
<1>2. Opening'
  BY DEF IInv, Opening, CloseEnds
<1>3. Stages'
  BY DEF IInv, Stages, CloseEnds
<1>4. Queue'
  BY DEF IInv, Queue, CloseEnds
<1>5. FailedSteam'
  BY DEF IInv, FailedSteam, CloseEnds
<1>6. Database'
  BY DEF IInv, Database, CloseEnds, Alive, Releasing, DatabaseTasks
<1>7. Releases'
  BY DEF IInv, Releases, CloseEnds
<1>8. QED
  BY <1>1, <1>2, <1>3, <1>4, <1>5, <1>6, <1>7 DEF IInv

LEMMA InitInv == Init => IInv
<1> SUFFICES ASSUME Init
             PROVE  IInv
  OBVIOUS
<1>1. kind \in Kinds /\ Opens[kind] \in Seq(Parts)
  BY OpenLists DEF Init
<1>2. ToSet(<<>>) = {} /\ IsInjective(<<>>) /\ <<>> \in Seq(Tasks)
  BY DEF ToSet, IsInjective
<1>3. IsRest(todo, Opens[kind]) /\ held = AllBut(Opens[kind], Len(todo))
  BY <1>1, RestAll DEF Init
<1>4. Sane
  BY <1>1, <1>2 DEF Init, Sane
<1>5. Opening
  BY <1>2, <1>3 DEF Init, Opening
<1>6. Stages
  BY DEF Init, Stages
<1>7. Queue
  BY <1>2 DEF Init, Queue
<1>8. FailedSteam /\ Releases
  BY DEF Init, FailedSteam, Releases
<1>9. Database
  BY <1>2 DEF Init, Database
<1>10. QED
  BY <1>4, <1>5, <1>6, <1>7, <1>8, <1>9 DEF IInv

LEMMA StepInv == IInv /\ [Next]_vars => IInv'
<1> SUFFICES ASSUME IInv, [Next]_vars
             PROVE  IInv'
  OBVIOUS
<1>1. CASE SetUp
  BY <1>1, StepOpen, StepSetUpEnds, StepOpenFails DEF SetUp
<1>2. CASE Starts
  BY <1>2, StepVkStarts, StepDiscordStarts, StepSteamStarts, StepUtilsStarts,
     StepDumperStarts DEF Starts
<1>3. CASE SchedulesRead \/ StartRaises \/ OnReadyReturns
  BY <1>3, StepSchedulesRead, StepStartRaises, StepOnReadyReturns
<1>4. CASE BotIsReady \/ BotEnds
  BY <1>4, StepBotIsReady, StepBotEnds
<1>5. CASE Loop
  BY <1>5, StepTaskBegins, StepCloserBegins, StepPollerCancelled, StepExit DEF Loop
<1>6. CASE AllocateVk \/ ReleaseVk
  BY <1>6, StepAllocateVk, StepReleaseVk
<1>7. CASE Shutdown \/ Close
  BY <1>7, StepShutdown, StepCloseNext, StepCloseRaises, StepCloseEnds DEF Close
<1>8. CASE UNCHANGED vars
  BY <1>8
     DEF vars, IInv, Sane, Opening, Stages, Queue, FailedSteam, Database, Releases, Alive
<1>9. QED
  BY <1>1, <1>2, <1>3, <1>4, <1>5, <1>6, <1>7, <1>8 DEF Next, Start

-----------------------------------------------------------------------------

\* A task waits or works, once, among those there are; what is held is something the
\* process opens; and it never leaves the stages of main.py and of safe_close.
THEOREM TypeCorrect == Spec => []TypeOK
<1>1. IInv => TypeOK
  <2> SUFFICES ASSUME IInv
               PROVE  TypeOK
    OBVIOUS
  <2>1. ToSet(Opens[kind]) \subseteq UNION {ToSet(Opens[k]) : k \in Kinds}
    BY DEF IInv, Sane
  <2>2. ToSet(ready) \subseteq Tasks
    BY DEF IInv, Sane, ToSet
  <2>3. held \subseteq (UNION {ToSet(Opens[k]) : k \in Kinds}) \cup {"client_vk"}
    <3>1. held \subseteq ToSet(Opens[kind]) \cup {"client_vk"}
      BY DEF IInv, Database
    <3> DEFINE opened == UNION {ToSet(Opens[k]) : k \in Kinds}
    <3>2. ToSet(Opens[kind]) \subseteq opened
      BY <2>1
    <3> HIDE DEF opened
    <3>3. held \subseteq opened \cup {"client_vk"}
      BY <3>1, <3>2
    <3>4. QED
      BY <3>3 DEF opened
  <2>4. QED
    BY <2>2, <2>3 DEF IInv, Sane, Queue, TypeOK, Tasks
<1>2. QED
  BY InitInv, StepInv, <1>1, PTL DEF Spec

\* Nothing that runs on the database runs without it, in any process, however its
\* set-up failed and however far its close has come; and a steam or utils process
\* whose set-up failed runs nothing.
THEOREM DatabaseOutlivesWork == Spec => []WorkHasItsDatabase
<1>1. IInv => WorkHasItsDatabase
  <2> SUFFICES ASSUME IInv
               PROVE  WorkHasItsDatabase
    OBVIOUS
  <2>1. "worker" \notin ToSet(UtilsCloses) /\ "worker" \notin ToSet(RestOpens)
        /\ "worker" \notin ToSet(WebOpens)
    BY DEF UtilsCloses, RestOpens, WebOpens, ToSet
  <2>2. setUp = "failed" /\ kind \in {"steam", "utils"} =>
          work = {} /\ "worker" \notin held
    <3>1. "worker" \notin ToSet(SteamOpens)
      BY DEF SteamOpens, ToSet
    <3>2. QED
      BY <2>1, <3>1 DEF IInv, FailedSteam, Queue, Database, Opens
  <2>3. Alive /\ work \cap DatabaseTasks # {} => "db" \in held
    BY <2>2 DEF IInv, Database
  <2>4. kind \in Webs => "worker" \notin held
    BY <2>1 DEF IInv, Database, Opens, Webs
  <2>5. kind = "utils" /\ closing # "none" => "worker" \notin held
    BY <2>2 DEF IInv, Stages, Services
  <2>6. Alive /\ {"worker", "amqp"} \subseteq held => "db" \in held
    BY <2>4, <2>5 DEF IInv, Database, Releasing, Webs
  <2>7. init = "serving" => "db" \in held
    BY DEF IInv, Database
  <2>8. QED
    BY <2>2, <2>3, <2>6, <2>7 DEF WorkHasItsDatabase, UsesDatabase, DatabaseTasks
<1>2. QED
  BY InitInv, StepInv, <1>1, PTL DEF Spec

\* A service or a web application that says it was stopped is connected to nothing,
\* and so is the REST API when the shutdown crashes at a client of the RPC.
THEOREM SuccessMeansReleased == Spec => []SuccessReleasesAll
<1>1. IInv => SuccessReleasesAll
  <2> SUFFICES ASSUME IInv, \/ closing = "stopped"
                            \/ closing = "raised" /\ todo # <<>> /\ Head(todo) \in Channels
               PROVE  Connected = {}
    BY DEF SuccessReleasesAll
  <2>1. kind \in Releasing
    BY KindsAssumption DEF IInv, Sane, Stages, FailedSteam, Services, Webs, Releasing
  <2>2. /\ IsRest(todo, Closes[kind]) /\ todo \in Seq(Parts)
        /\ held \subseteq ToSet(todo) \cup Unconnected
    BY <2>1 DEF IInv, Sane, Releases
  <2>3. CASE closing = "stopped"
    <3>1. ToSet(todo) = {}
      BY <2>1, <2>3 DEF IInv, Releases, ToSet
    <3>2. QED
      BY <2>2, <3>1 DEF Connected, Channels, Unconnected
  <2>4. CASE todo # <<>> /\ Head(todo) \in Channels
    <3>1. /\ Len(todo) \in 1..Len(Closes[kind])
          /\ Head(todo) = Closes[kind][Len(Closes[kind]) - Len(todo) + 1]
      BY <2>1, <2>2, <2>4, CloseLists, RestOn
    <3>2. kind = "rest" /\ Len(todo) \in {1, 2}
      <4>1. CASE kind = "rest"
        <5>1. Len(RestCloses) = 5 /\ Closes[kind] = RestCloses
          BY <4>1 DEF Closes, RestCloses
        <5>2. \A j \in 1..3 : RestCloses[j] \notin Channels
          BY DEF RestCloses, Channels
        <5>3. Len(todo) \in 1..5 /\ RestCloses[5 - Len(todo) + 1] \in Channels
          BY <2>4, <3>1, <5>1
        <5>4. 5 - Len(todo) + 1 \notin 1..3
          BY <5>2, <5>3
        <5>5. QED
          <6>1. \A l \in 1..5 : 5 - l + 1 \notin 1..3 => l \in {1, 2}
            OBVIOUS
          <6>2. QED
            BY <4>1, <5>3, <5>4, <6>1
      <4>2. CASE kind = "utils"
        BY <2>4, <3>1, <4>2 DEF Closes, UtilsCloses, Channels
      <4>3. CASE kind = "web"
        BY <2>4, <3>1, <4>3 DEF Closes, WebCloses, Channels
      <4>4. QED
        BY <2>1, <4>1, <4>2, <4>3 DEF Releasing
    <3>3. \A j \in 1..Len(todo) : todo[j] \in {"vk_bot_client", "utils_client"}
      BY <2>2, <3>2 DEF IsRest, Closes, RestCloses
    <3>4. ToSet(todo) \subseteq {"vk_bot_client", "utils_client"}
      BY <2>2, <3>3 DEF ToSet
    <3>5. QED
      BY <2>2, <3>4 DEF Connected, Channels, Unconnected
  <2>5. QED
    BY <2>3, <2>4
<1>2. QED
  BY InitInv, StepInv, <1>1, PTL DEF Spec
=============================================================================
