------------------------ MODULE MessageHandlers_proofs ------------------------
(***************************************************************************)
(* Proofs about MessageHandlers and the ChatHistory it uses, for any        *)
(* events, calls, users, retries and deliveries.                           *)
(***************************************************************************)
EXTENDS MessageHandlers, TLAPS

Places == Running \cup Ends \cup {"new", "queued"}

Taking == [event : Events, run : Nat, text : Texts, id : Nat]

Base ==
  /\ about \in [Events -> Shapes]
  /\ pc \in [Events -> Places]
  /\ tries \in [Events -> Nat]
  /\ broken \in [Events -> BOOLEAN]
  /\ sends \in [Events -> Nat]
  /\ vk \subseteq Taking
  /\ stored \in [Events -> Nat]
  /\ polls \in [Events -> Nat]

LEMMA InitBase == Init => Base
  BY DEF Init, Base, Places

(***************************************************************************)
(* Where the handlers go.                                                  *)
(***************************************************************************)
LEMMA Ways ==
  ASSUME Base, NEW e \in Events
  PROVE  /\ FirstStep(e) \in {"saving", "deleting", "voting"}
         /\ AfterGpt(e) \in {"memes", "ended"}
         /\ AfterAnswer(e) \in {"asking", "memes", "ended"}
         /\ AfterSave(e) \in {"ended", "helping", "tagging", "finding"}
         /\ \A some : AfterTags(e, some) \in {"sending_tags", "finding"}
<1>1. about[e].kind \in {"message", "reply", "callback", "vote"}
  BY EventsAssumption DEF Base
<1>2. QED
  BY <1>1 DEF FirstStep, AfterGpt, AfterAnswer, AfterSave, AfterTags

LEMMA Calls ==
  ASSUME Base, NEW e \in Events, pc[e] \in Calling
  PROVE  /\ pc[e] = "sending_tags" => AfterCall(e) = "finding"
         /\ pc[e] = "answering" => AfterCall(e) = "recording"
         /\ pc[e] = "telling" => AfterCall(e) \in {"memes", "ended"}
         /\ pc[e] \notin {"sending_tags", "answering", "telling"} =>
              AfterCall(e) \in {"caching", "remembering", "ended"}
  BY Ways DEF AfterCall, Calling, Sending

\* What VK takes is a text of the run at hand, and the one the run is sending.
LEMMA TakenIs ==
  ASSUME Base, NEW e \in Events, pc[e] \in Calling
  PROVE  /\ vk \subseteq Taken(e) /\ Taken(e) \subseteq Taking
         /\ \A x \in Taken(e) \ vk :
              /\ pc[e] \in Sending /\ x.text = Text(e) /\ x.id = sends[e]
              /\ x.event = e /\ x.run = tries[e]
              /\ x.text = "answer" => pc[e] = "answering"
              /\ x.text = "gpt" => pc[e] = "telling"
         /\ pc[e] = "answering" =>
              \E x \in Taken(e) : x.event = e /\ x.run = tries[e] /\ x.text = "answer"
<1>1. CASE pc[e] \in Sending
  <2> DEFINE x == [event |-> e, run |-> tries[e], text |-> Text(e), id |-> RandomId(e)]
  <2>1. /\ Text(e) \in Texts
        /\ Text(e) = "answer" => pc[e] = "answering"
        /\ pc[e] = "answering" => Text(e) = "answer"
        /\ Text(e) = "gpt" => pc[e] = "telling"
    BY <1>1 DEF Text, Texts, Sending
  <2>2. /\ x \in Taking /\ x.event = e /\ x.run = tries[e] /\ x.text = Text(e)
        /\ x.id = sends[e]
    BY <2>1 DEF Base, Taking, RandomId
  <2>3. Taken(e) = vk \cup {x}
    BY <1>1 DEF Taken
  <2> HIDE DEF x
  <2>4. QED
    BY <1>1, <2>1, <2>2, <2>3 DEF Base
<1>2. CASE pc[e] \notin Sending
  BY <1>2 DEF Taken, Sending, Base
<1>3. QED
  BY <1>1, <1>2

(***************************************************************************)
(* The steps, by what they do to the tables and to VK.                     *)
(***************************************************************************)
Steps(e) == Accept(e) \/ Begin(e) \/ WorkerCancelled(e) \/ HandlerSteps(e)

Out == {"queued", "failed", "denied", "lost", "done"}

Begins(e) ==
  /\ pc[e] = "queued"
  /\ \E s \in {"saving", "deleting", "voting", "ended", "queued", "failed"} :
       pc' = [pc EXCEPT ![e] = s]
  /\ tries' = [tries EXCEPT ![e] = @ + 1]
  /\ broken' = [broken EXCEPT ![e] = FALSE]
  /\ UNCHANGED <<vk, stored, recorded, polls, bucket>>

Saves(e) ==
  /\ pc[e] = "saving"
  /\ \E s \in {"ended", "helping", "tagging", "finding"} : pc' = [pc EXCEPT ![e] = s]
  /\ \/ stored' = [stored EXCEPT ![e] = @ + 1] /\ UNCHANGED broken
     \/ broken' = [broken EXCEPT ![e] = TRUE] /\ UNCHANGED stored
  /\ UNCHANGED <<tries, vk, recorded, polls, bucket>>

Records(e) ==
  /\ pc[e] = "recording"
  /\ \E s \in {"asking", "memes", "ended"} : pc' = [pc EXCEPT ![e] = s]
  /\ recorded' = recorded \cup {<<e, tries[e]>>}
  /\ UNCHANGED <<tries, broken, vk, stored, polls, bucket>>

Keeps(e) ==
  /\ pc[e] = "memes"
  /\ \E s \in {"memes", "polling", "ended"} : pc' = [pc EXCEPT ![e] = s]
  /\ \A p \in bucket' \ bucket : p[1] = e
  /\ polls' \in {polls, [polls EXCEPT ![e] = @ + 1]}
  /\ UNCHANGED <<tries, broken, vk, stored, recorded>>

Sends(e) ==
  /\ pc[e] \in Calling
  /\ \/ vk' = Taken(e) /\ pc' = [pc EXCEPT ![e] = AfterCall(e)]
     \/ /\ vk' \in {vk, Taken(e)}
        /\ \/ pc' = pc /\ sends' = sends
           \/ \E s \in Out : pc' = [pc EXCEPT ![e] = s]
           \/ /\ pc[e] = "telling"
              /\ \E s \in {"memes", "ended"} : pc' = [pc EXCEPT ![e] = s]
  /\ UNCHANGED <<tries, broken, stored, recorded, polls, bucket>>

\* From one place to another, and nothing else.
Moves(e) ==
  /\ \E s \in Places : pc' = [pc EXCEPT ![e] = s]
  /\ \/ pc'[e] \in Out
     \/ pc[e] = "tagging" /\ pc'[e] \in {"tagging", "sending_tags", "finding"}
     \/ pc[e] = "finding" /\ ~broken[e] /\ pc'[e] \in {"answering", "asking", "memes", "ended"}
     \/ pc[e] = "asking" /\ pc'[e] = "waiting"
     \/ pc[e] = "waiting" /\ pc'[e] \in {"telling", "memes", "ended"}
     \/ pc[e] \in {"caching", "remembering"} /\ pc'[e] \in {"greeting", "uploading"}
  /\ UNCHANGED <<tries, broken, vk, stored, recorded, polls, bucket>>

LEMMA StepIs ==
  ASSUME Base, NEW e \in Events, Steps(e)
  PROVE  Begins(e) \/ Saves(e) \/ Records(e) \/ Keeps(e) \/ Sends(e) \/ Moves(e)
<1> USE DEF Base, Go, taskVars, runVars, dbVars, chatVars
<1>0. pc[e] \in Places
  OBVIOUS
<1>1. CASE Begin(e)
  BY <1>1, Ways DEF Begin, PutBack, Begins
<1>2. CASE SaveMessage(e)
  BY <1>2, Ways DEF SaveMessage, Inserted, Saves
<1>3. CASE RecordAnswer(e)
  BY <1>3, Ways DEF RecordAnswer, Records
<1>4. CASE StorePhoto(e) \/ CreatePollRow(e)
  BY <1>4 DEF StorePhoto, CreatePollRow, Keeps
<1>5. CASE VkAnswers(e)
  BY <1>5 DEF VkAnswers, Sends
<1>6. CASE VkFails(e) \/ NoClient(e)
  <2>1. ASSUME CallRaises(e) \/ (pc[e] # "telling" /\ Go(e, "denied"))
        PROVE  \/ \E s \in Out : pc' = [pc EXCEPT ![e] = s]
               \/ /\ pc[e] = "telling"
                  /\ \E s \in {"memes", "ended"} : pc' = [pc EXCEPT ![e] = s]
    BY <2>1, Ways DEF CallRaises, Raise, PutBack, Out
  <2>2. /\ pc[e] \in Calling
        /\ vk' \in {vk, Taken(e)}
        /\ UNCHANGED <<tries, broken, stored, recorded, polls, bucket>>
        /\ \/ pc' = pc /\ sends' = sends
           \/ CallRaises(e) \/ (pc[e] # "telling" /\ Go(e, "denied"))
    BY <1>6 DEF VkFails, NoClient
  <2>3. QED
    BY <2>1, <2>2 DEF Sends
<1>7. CASE Accept(e) \/ WorkerCancelled(e) \/ HandlerRaises(e) \/ PollRaises(e) \/ SaveTask(e)
  BY <1>7 DEF Accept, WorkerCancelled, HandlerRaises, PollRaises, SaveTask, Raise, PutBack, Moves,
              Out, Places, Ends
<1>8. CASE TagPicture(e) \/ FindTriggers(e)
  <2>1. CASE TagPicture(e)
    <3>1. \E s \in {"tagging", "sending_tags", "finding"} : pc' = [pc EXCEPT ![e] = s]
      BY <2>1, Ways DEF TagPicture
    <3>2. pc[e] = "tagging" /\ UNCHANGED <<tries, broken, vk, stored, recorded, polls, bucket>>
      BY <2>1 DEF TagPicture
    <3>3. QED
      BY <3>1, <3>2 DEF Moves, Places, Running, Calling, Sending
  <2>2. CASE FindTriggers(e)
    BY <2>2, Ways DEF FindTriggers, Moves, Places, Running, Calling, Sending
  <2>3. QED
    BY <1>8, <2>1, <2>2
<1>9. CASE AskGpt(e) \/ GptEnds(e) \/ ReadCache(e) \/ WriteCache(e)
  BY <1>9, Ways DEF AskGpt, GptEnds, ReadCache, WriteCache, Moves, Places, Running, Calling,
                    Sending
<1>10. QED
  BY <1>1, <1>2, <1>3, <1>4, <1>5, <1>6, <1>7, <1>8, <1>9 DEF Steps, HandlerSteps

LEMMA SendsVk ==
  ASSUME Base, NEW e \in Events, Sends(e)
  PROVE  /\ vk \subseteq vk' /\ vk' \subseteq Taking
         /\ \A x \in vk' \ vk : x.event = e
<1>1. pc[e] \in Calling /\ vk' \in {vk, Taken(e)} /\ vk \subseteq Taking
  BY DEF Sends, Base
<1>2. /\ vk \subseteq Taken(e) /\ Taken(e) \subseteq Taking
      /\ \A x \in Taken(e) \ vk : x.event = e
  BY <1>1, TakenIs
<1>3. QED
  BY <1>1, <1>2

\* A step of e is nobody else's.
LEMMA StepFrame ==
  ASSUME Base, NEW e \in Events, Steps(e)
  PROVE  /\ \E s \in Places : pc' = [pc EXCEPT ![e] = s]
         /\ tries' = tries \/ (tries' = [tries EXCEPT ![e] = @ + 1] /\ pc[e] = "queued")
         /\ \E b \in BOOLEAN : broken' = [broken EXCEPT ![e] = b]
         /\ \E n \in Nat : stored' = [stored EXCEPT ![e] = n]
         /\ \E n \in Nat : polls' = [polls EXCEPT ![e] = n]
         /\ vk \subseteq vk' /\ vk' \subseteq Taking /\ \A x \in vk' \ vk : x.event = e
         /\ \A p \in bucket' \ bucket : p[1] = e
         /\ recorded \subseteq recorded' /\ recorded' \subseteq recorded \cup {<<e, tries[e]>>}
<1> USE DEF Base
<1>0. /\ pc = [pc EXCEPT ![e] = pc[e]] /\ pc[e] \in Places
      /\ broken = [broken EXCEPT ![e] = broken[e]]
      /\ stored = [stored EXCEPT ![e] = stored[e]] /\ stored[e] + 1 \in Nat
      /\ polls = [polls EXCEPT ![e] = polls[e]] /\ polls[e] + 1 \in Nat
  OBVIOUS
<1> USE DEF Places, Running, Calling, Sending, Ends, Out
<1>1. CASE Begins(e)
  BY <1>0, <1>1 DEF Begins
<1>2. CASE Saves(e)
  BY <1>0, <1>2 DEF Saves
<1>3. CASE Records(e)
  BY <1>0, <1>3 DEF Records
<1>4. CASE Keeps(e)
  BY <1>0, <1>4 DEF Keeps
<1>5. CASE Sends(e)
  <2>1. /\ vk \subseteq vk' /\ vk' \subseteq Taking /\ \A x \in vk' \ vk : x.event = e
    BY <1>5, SendsVk
  <2>2. AfterCall(e) \in Places
    BY <1>5, Calls DEF Sends
  <2>3. \E s \in Places : pc' = [pc EXCEPT ![e] = s]
    BY <1>0, <1>5, <2>2 DEF Sends
  <2>4. QED
    BY <1>0, <1>5, <2>1, <2>3 DEF Sends
<1>6. CASE Moves(e)
  BY <1>0, <1>6 DEF Moves
<1>7. QED
  BY <1>1, <1>2, <1>3, <1>4, <1>5, <1>6, StepIs

LEMMA ChatFrame == ASSUME UtilsServiceSteps
                   PROVE  UNCHANGED <<about, pc, tries, broken, sends, vk, stored, recorded, polls,
                                      bucket>>
  BY DEF UtilsServiceSteps, taskVars, runVars, dbVars

LEMMA StepSends ==
  ASSUME Base, NEW e \in Events, Steps(e)
  PROVE  \E n \in Nat : sends' = [sends EXCEPT ![e] = n]
<1>1. sends[e] \in Nat /\ sends[e] + 1 \in Nat /\ sends = [sends EXCEPT ![e] = sends[e]]
  BY DEF Base
<1>2. CASE Begin(e)
  BY <1>2 DEF Begin
<1>3. CASE VkAnswers(e) \/ VkFails(e)
  <2>1. sends' = sends \/ sends' = [sends EXCEPT ![e] = sends[e] + 1]
    BY <1>3 DEF VkAnswers, VkFails, CallEnds
  <2>2. QED
    BY <1>1, <2>1
<1>4. CASE ~Begin(e) /\ ~VkAnswers(e) /\ ~VkFails(e)
  <2>1. sends' = sends
    BY <1>4 DEF Steps, HandlerSteps, Accept, WorkerCancelled, SaveMessage, TagPicture,
         FindTriggers, RecordAnswer, AskGpt, GptEnds, StorePhoto, CreatePollRow, PollRaises,
         ReadCache, WriteCache, NoClient, HandlerRaises, SaveTask, runVars
  <2>2. QED
    BY <1>1, <2>1
<1>5. QED
  BY <1>2, <1>3, <1>4

LEMMA AboutStays == ASSUME NEW e \in Events, Steps(e)
                    PROVE  about' = about
  BY DEF Steps, HandlerSteps, Accept, Begin, WorkerCancelled, SaveMessage, TagPicture,
         FindTriggers, RecordAnswer, AskGpt, GptEnds, StorePhoto, CreatePollRow, PollRaises,
         ReadCache, WriteCache, VkAnswers, VkFails, NoClient, HandlerRaises, SaveTask

LEMMA NextBase == ASSUME Base, [Next]_vars
                  PROVE  Base'
<1>1. CASE UNCHANGED vars
  BY <1>1 DEF vars, taskVars, runVars, dbVars, Base
<1>2. CASE UtilsServiceSteps
  BY <1>2, ChatFrame DEF Base
<1>3. ASSUME NEW e \in Events, Steps(e)
      PROVE  Base'
  <2>1. /\ about' = about
        /\ \E s \in Places : pc' = [pc EXCEPT ![e] = s]
        /\ tries' = tries \/ tries' = [tries EXCEPT ![e] = @ + 1]
        /\ \E b \in BOOLEAN : broken' = [broken EXCEPT ![e] = b]
        /\ \E n \in Nat : sends' = [sends EXCEPT ![e] = n]
    BY <1>3, StepFrame, StepSends, AboutStays
  <2>2. /\ vk' \subseteq Taking
        /\ \E n \in Nat : stored' = [stored EXCEPT ![e] = n]
        /\ \E n \in Nat : polls' = [polls EXCEPT ![e] = n]
    BY <1>3, StepFrame
  <2>3. QED
    BY <2>1, <2>2 DEF Base
<1>4. QED
  BY <1>1, <1>2, <1>3 DEF Next, Steps

(***************************************************************************)
(* AnsweredIsSaved.  Between the save and the first statement after it a   *)
(* run has its row or a session that is broken; past that statement it has *)
(* its row.                                                                *)
(***************************************************************************)
Unasked == {"tagging", "sending_tags", "finding"}

Asked == {"answering", "recording", "asking", "waiting", "telling", "memes", "polling"}

Kept(e) ==
  \/ \E x \in vk : x.event = e /\ x.text \in {"answer", "gpt"}
  \/ polls[e] > 0
  \/ \E b \in bucket : b[1] = e

Saved ==
  \A e \in Events :
    /\ pc[e] \in Unasked => stored[e] > 0 \/ broken[e]
    /\ pc[e] \in Asked \/ Kept(e) => stored[e] > 0

LEMMA StepSaved ==
  ASSUME Base, Saved, NEW e \in Events, Steps(e)
  PROVE  Saved'
<1> USE DEF Base
<1>1. ASSUME NEW i \in Events \ {e}
      PROVE  /\ pc'[i] = pc[i] /\ stored'[i] = stored[i] /\ broken'[i] = broken[i]
             /\ Kept(i)' => Kept(i)
  BY <1>1, StepFrame DEF Kept
<1>2. /\ pc'[e] \in Unasked => stored'[e] > 0 \/ broken'[e]
      /\ pc'[e] \in Asked \/ Kept(e)' => stored'[e] > 0
  <2>0. /\ pc[e] \in Unasked => stored[e] > 0 \/ broken[e]
        /\ pc[e] \in Asked \/ Kept(e) => stored[e] > 0
    BY DEF Saved
  <2> USE DEF Unasked, Asked, Out
  <2>1. CASE Begins(e)
    BY <2>0, <2>1 DEF Begins, Kept
  <2>2. CASE Saves(e)
    <3>1. /\ Kept(e)' => Kept(e)
          /\ pc'[e] \notin Asked /\ pc[e] = "saving"
      BY <2>2 DEF Saves, Kept
    <3>2. CASE stored' = [stored EXCEPT ![e] = @ + 1]
      <4>1. stored'[e] > 0
        BY <3>2
      <4>2. QED
        BY <4>1
    <3>3. CASE broken' = [broken EXCEPT ![e] = TRUE] /\ UNCHANGED stored
      <4>1. broken'[e] /\ stored'[e] = stored[e]
        BY <3>3
      <4>2. QED
        BY <2>0, <3>1, <4>1
    <3>4. QED
      BY <2>2, <3>2, <3>3 DEF Saves
  <2>3. CASE Records(e)
    BY <2>0, <2>3 DEF Records, Kept
  <2>4. CASE Keeps(e)
    BY <2>0, <2>4 DEF Keeps
  <2>5. CASE Sends(e)
    <3>1. Kept(e)' => Kept(e) \/ pc[e] \in {"answering", "telling"}
      BY <2>5, TakenIs DEF Sends, Kept
    <3>2. /\ UNCHANGED <<stored, broken>>
          /\ pc'[e] \in Unasked => pc[e] \in Unasked
          /\ pc'[e] \in Asked => pc[e] \in Asked
      BY <2>5, Calls DEF Sends, Calling, Sending
    <3>3. QED
      BY <2>0, <3>1, <3>2
  <2>6. CASE Moves(e)
    <3>1. Kept(e)' => Kept(e)
      BY <2>6 DEF Moves, Kept
    <3>2. QED
      BY <2>0, <2>6, <3>1 DEF Moves
  <2>7. QED
    BY <2>1, <2>2, <2>3, <2>4, <2>5, <2>6, StepIs
<1>3. QED
  BY <1>1, <1>2 DEF Saved

\* For any events and retries: a message that was answered, discussed or kept is saved.
THEOREM AnsweredSaved == Spec => []AnsweredIsSaved
<1>1. Init => Saved
  BY DEF Init, Saved, Kept, Unasked, Asked
<1>2. ASSUME Base, Saved, [Next]_vars
      PROVE  Saved'
  <2>1. CASE UNCHANGED vars
    BY <1>2, <2>1 DEF vars, taskVars, runVars, dbVars, Saved, Kept
  <2>2. CASE UtilsServiceSteps
    BY <1>2, <2>2, ChatFrame DEF Saved, Kept
  <2>3. QED
    BY <1>2, <2>1, <2>2, StepSaved DEF Next, Steps
<1>3. Saved => AnsweredIsSaved
  BY DEF Saved, Kept, AnsweredIsSaved
<1>4. QED
  BY <1>1, <1>2, <1>3, InitBase, NextBase, PTL DEF Spec

(***************************************************************************)
(* HistoryIsTrue.  Before its answer a run has shown none; while it        *)
(* records it has shown it; afterwards what it has shown is recorded.      *)
(***************************************************************************)
Shown(e, r) == \E x \in vk : x.event = e /\ x.run = r /\ x.text = "answer"

Before == {"saving", "tagging", "sending_tags", "finding", "helping", "deleting", "caching",
           "uploading", "remembering", "greeting", "voting"}

After == {"asking", "waiting", "telling", "memes", "polling", "ended"}

History ==
  /\ \A x \in vk : x.run <= tries[x.event]
  /\ \A e \in Events, r \in Nat : <<e, r>> \in recorded => Shown(e, r)
  /\ \A e \in Events :
       /\ pc[e] \in Before => ~Shown(e, tries[e])
       /\ pc[e] = "recording" => Shown(e, tries[e])
       /\ pc[e] \in After /\ Shown(e, tries[e]) => <<e, tries[e]>> \in recorded

\* Only a run that sends its answer shows one.
LEMMA StepShows ==
  ASSUME Base, NEW e \in Events, Steps(e)
  PROVE  /\ \A x \in vk' \ vk : /\ x.event = e /\ x.run = tries[e]
                                /\ x.text = "answer" => pc[e] = "answering"
         /\ \A i \in Events, r \in Nat : Shown(i, r) => Shown(i, r)'
         /\ \A i \in Events, r \in Nat :
              Shown(i, r)' => Shown(i, r) \/ (i = e /\ r = tries[e] /\ pc[e] = "answering")
<1>1. CASE Sends(e)
  <2>1. pc[e] \in Calling /\ vk' \in {vk, Taken(e)}
    BY <1>1 DEF Sends
  <2>2. /\ vk \subseteq vk'
        /\ \A x \in vk' \ vk : /\ x.event = e /\ x.run = tries[e]
                               /\ x.text = "answer" => pc[e] = "answering"
    BY <2>1, TakenIs
  <2>3. ASSUME NEW i \in Events, NEW r \in Nat, Shown(i, r)
        PROVE  Shown(i, r)'
    BY <2>2, <2>3 DEF Shown
  <2>4. ASSUME NEW i \in Events, NEW r \in Nat, Shown(i, r)', ~Shown(i, r)
        PROVE  i = e /\ r = tries[e] /\ pc[e] = "answering"
    <3>1. PICK x \in vk' : x.event = i /\ x.run = r /\ x.text = "answer"
      BY <2>4 DEF Shown
    <3>2. x \notin vk
      BY <2>4, <3>1 DEF Shown
    <3>3. x.event = e /\ x.run = tries[e] /\ pc[e] = "answering"
      <4>1. x \in vk' \ vk
        BY <3>1, <3>2
      <4>2. QED
        BY <2>2, <3>1, <4>1
    <3>4. QED
      BY <3>1, <3>3
  <2>5. QED
    BY <2>2, <2>3, <2>4
<1>2. CASE vk' = vk
  BY <1>2 DEF Shown
<1>3. QED
  BY <1>1, <1>2, StepIs DEF Begins, Saves, Records, Keeps, Moves

LEMMA StepRuns ==
  ASSUME Base, History, NEW e \in Events, Steps(e)
  PROVE  \A x \in vk' : x.run <= tries'[x.event]
<1>1. SUFFICES ASSUME NEW x \in vk'
               PROVE  x.run <= tries'[x.event]
  OBVIOUS
<1>2. x \in Taking
  BY StepFrame
<1>3. x.event \in Events /\ x.run \in Nat
  BY <1>2 DEF Taking
<1>4. x.run <= tries[x.event]
  <2>1. CASE x \in vk
    BY <2>1 DEF History
  <2>2. CASE x \notin vk
    <3>1. x.run = tries[x.event]
      BY <2>2, StepShows
    <3>2. QED
      BY <1>3, <3>1
  <2>3. QED
    BY <2>1, <2>2
<1>5. tries[x.event] <= tries'[x.event] /\ tries[x.event] \in Nat /\ tries'[x.event] \in Nat
  BY <1>3, StepFrame DEF Base
<1>6. QED
  BY <1>3, <1>4, <1>5

LEMMA StepHistory ==
  ASSUME Base, History, NEW e \in Events, Steps(e)
  PROVE  History'
<1>1. ASSUME NEW i \in Events, NEW r \in Nat, <<i, r>> \in recorded'
      PROVE  Shown(i, r)'
  <2>1. CASE <<i, r>> \in recorded
    BY <2>1, StepShows DEF History
  <2>2. CASE <<i, r>> \notin recorded
    <3>1. i = e /\ r = tries[e]
      BY <1>1, <2>2, StepFrame
    <3>2. Records(e)
      BY <1>1, <2>2, StepIs DEF Begins, Saves, Keeps, Sends, Moves
    <3>3. Shown(e, tries[e])
      BY <3>2 DEF Records, History
    <3>4. QED
      BY <3>1, <3>3, StepShows DEF Base
  <2>3. QED
    BY <2>1, <2>2
<1>2. ASSUME NEW i \in Events \ {e}
      PROVE  /\ pc'[i] = pc[i] /\ tries'[i] = tries[i] /\ tries[i] \in Nat
             /\ Shown(i, tries[i])' => Shown(i, tries[i])
             /\ Shown(i, tries[i]) => Shown(i, tries[i])'
             /\ recorded \subseteq recorded'
  BY <1>2, StepFrame, StepShows DEF Base
<1>3. /\ pc'[e] \in Before => ~Shown(e, tries[e])'
      /\ pc'[e] = "recording" => Shown(e, tries[e])'
      /\ pc'[e] \in After /\ Shown(e, tries[e])' => <<e, tries'[e]>> \in recorded'
  <2>0. /\ pc[e] \in Before => ~Shown(e, tries[e])
        /\ pc[e] = "recording" => Shown(e, tries[e])
        /\ pc[e] \in After /\ Shown(e, tries[e]) => <<e, tries[e]>> \in recorded
        /\ pc \in [Events -> Places] /\ tries[e] \in Nat
    BY DEF History, Base
  <2> USE DEF Before, After, Out
  <2>1. CASE Begins(e)
    <3>1. tries'[e] = tries[e] + 1 /\ vk' = vk /\ pc'[e] # "recording"
      BY <2>0, <2>1 DEF Begins, Base
    <3>2. ~Shown(e, tries[e])'
      <4>1. SUFFICES ASSUME NEW x \in vk, x.event = e, x.run = tries[e] + 1
                     PROVE  FALSE
        BY <3>1 DEF Shown
      <4>2. x.run <= tries[x.event]
        BY <4>1 DEF History
      <4>3. tries[e] + 1 <= tries[e]
        BY <4>1, <4>2
      <4>4. tries[e] \in Nat
        BY DEF Base
      <4>5. QED
        BY <4>3, <4>4
    <3>3. QED
      BY <3>1, <3>2
  <2>2. CASE Saves(e)
    BY <2>0, <2>2 DEF Saves, Shown
  <2>3. CASE Records(e)
    BY <2>0, <2>3 DEF Records
  <2>4. CASE Keeps(e)
    BY <2>0, <2>4 DEF Keeps, Shown
  <2>5. CASE Sends(e)
    <3>1. tries' = tries /\ recorded' = recorded /\ pc[e] \in Calling
      BY <2>5 DEF Sends
    <3>2. Shown(e, tries[e])' => Shown(e, tries[e]) \/ pc[e] = "answering"
      <4>1. SUFFICES ASSUME NEW x \in vk', x.event = e, x.run = tries[e], x.text = "answer"
                     PROVE  Shown(e, tries[e]) \/ pc[e] = "answering"
        BY <3>1 DEF Shown
      <4>2. CASE x \in vk
        BY <4>1, <4>2 DEF Shown
      <4>3. CASE x \notin vk
        BY <4>1, <4>3, StepShows
      <4>4. QED
        BY <4>2, <4>3
    <3>3. /\ pc'[e] \in Before => pc[e] \in Before
          /\ pc'[e] \in After => pc[e] \in Before \cup After
          /\ pc[e] # "recording"
      BY <2>0, <2>5, Calls DEF Sends, Calling, Sending
    <3>4. pc'[e] = "recording" => Shown(e, tries[e])'
      <4>1. ASSUME pc'[e] = "recording"
            PROVE  pc[e] = "answering" /\ vk' = Taken(e)
        BY <2>0, <2>5, <4>1, Calls DEF Sends, Calling, Sending
      <4>2. QED
        BY <3>1, <4>1, TakenIs DEF Shown
    <3>5. QED
      BY <2>0, <3>1, <3>2, <3>3, <3>4
  <2>6. CASE Moves(e)
    BY <2>0, <2>6 DEF Moves, Shown
  <2>7. QED
    BY <2>1, <2>2, <2>3, <2>4, <2>5, <2>6, StepIs
<1>4. QED
  BY <1>1, <1>2, <1>3, StepRuns DEF History

\* For any events and retries: the history of triggers says what was answered.
THEOREM HistoryTrue == Spec => []HistoryIsTrue
<1>1. Init => History
  BY DEF Init, History, Shown, Before, After
<1>2. ASSUME Base, History, [Next]_vars
      PROVE  History'
  <2>1. CASE UNCHANGED vars
    BY <1>2, <2>1 DEF vars, taskVars, runVars, dbVars, History, Shown
  <2>2. CASE UtilsServiceSteps
    BY <1>2, <2>2, ChatFrame DEF History, Shown
  <2>3. QED
    BY <1>2, <2>1, <2>2, StepHistory DEF Next, Steps
<1>3. History => HistoryIsTrue
  <2>1. Runs \subseteq Nat
    BY RunsAssumption DEF Runs
  <2>2. HistoryIsTrue <=> \A e \in Events, r \in Runs :
          /\ <<e, r>> \in recorded => Shown(e, r)
          /\ Shown(e, r) /\ pc[e] = "ended" /\ tries[e] = r => <<e, r>> \in recorded
    BY DEF HistoryIsTrue, Shown
  <2>3. QED
    BY <2>1, <2>2 DEF History, After
<1>4. QED
  BY <1>1, <1>2, <1>3, InitBase, NextBase, PTL DEF Spec

(***************************************************************************)
(* OncePerRun.  A run leads from text to text and never back: of what it   *)
(* may yet send VK has nothing, but for the message of the call at hand,    *)
(* which a failed try may have brought there under the call's own id.       *)
(***************************************************************************)
Ahead(s) ==
  CASE s = "saving" -> {"help", "tags", "answer", "gpt"}
    [] s = "helping" -> {"help"}
    [] s \in {"tagging", "sending_tags"} -> {"tags", "answer", "gpt"}
    [] s \in {"finding", "answering"} -> {"answer", "gpt"}
    [] s \in {"recording", "asking", "waiting", "telling"} -> {"gpt"}
    [] s \in {"deleting", "caching", "uploading", "remembering", "greeting"} -> {"greeting"}
    [] OTHER -> {}

Of(e, x) == x.event = e /\ x.run = tries[e] /\ x.text \in Ahead(pc[e])

\* Only the call at hand may have brought a text that is ahead.
Fresh(e) ==
  \A x \in vk : Of(e, x) => pc[e] \in Sending /\ x.text = Text(e) /\ x.id = sends[e]

Unsent == \A e \in Events : Fresh(e)

\* A call that ends leaves its text behind.
LEMMA CallLeadsOn ==
  ASSUME Base, NEW e \in Events, pc[e] \in Calling
  PROVE  /\ Ahead(AfterCall(e)) \subseteq Ahead(pc[e])
         /\ pc[e] \in Sending => Text(e) \in Ahead(pc[e]) \ Ahead(AfterCall(e))
<1>1. CASE pc[e] \in {"sending_tags", "answering", "telling"}
  BY <1>1, Calls DEF Ahead, Text
<1>2. CASE pc[e] \in {"helping", "greeting"}
  <2>1. AfterCall(e) = "ended"
    BY <1>2 DEF AfterCall
  <2>2. QED
    BY <1>2, <2>1 DEF Ahead, Text
<1>3. CASE pc[e] \in {"deleting", "uploading"}
  <2>1. AfterCall(e) \in {"caching", "remembering"}
    BY <1>3 DEF AfterCall
  <2>2. QED
    BY <1>3, <2>1 DEF Ahead, Sending
<1>4. QED
  BY <1>1, <1>2, <1>3 DEF Calling, Sending

\* A step of a run other than a call's leads on, from where nothing ahead is sent.
LEMMA StepLeadsOn ==
  ASSUME Base, Unsent, NEW e \in Events, Saves(e) \/ Records(e) \/ Keeps(e) \/ Moves(e)
  PROVE  /\ vk' = vk /\ tries' = tries
         /\ \A x \in vk : ~Of(e, x)'
<1>1. vk' = vk /\ tries' = tries
  BY DEF Saves, Records, Keeps, Moves
<1>2. pc \in [Events -> Places]
  BY DEF Base
<1>3. \/ Ahead(pc'[e]) = {}
      \/ pc[e] \notin Sending /\ Ahead(pc'[e]) \subseteq Ahead(pc[e])
  <2>1. CASE Saves(e)
    BY <1>2, <2>1 DEF Saves, Ahead, Sending
  <2>2. CASE Records(e)
    BY <1>2, <2>2 DEF Records, Ahead, Sending
  <2>3. CASE Keeps(e)
    BY <1>2, <2>3 DEF Keeps, Ahead, Sending
  <2>4. CASE Moves(e)
    BY <1>2, <2>4 DEF Moves, Ahead, Sending, Out
  <2>5. QED
    BY <2>1, <2>2, <2>3, <2>4
<1>4. QED
  BY <1>1, <1>3 DEF Unsent, Fresh, Of

\* What VK takes from a call is not there yet, unless the call's own try brought it.
LEMMA SendsOnce ==
  ASSUME Base, Unsent, OncePerRun, NEW e \in Events, Sends(e)
  PROVE  OncePerRun' /\ Fresh(e)'
<1>1. /\ pc[e] \in Calling /\ tries' = tries /\ vk \subseteq vk' /\ vk' \subseteq Taking
      /\ \A x \in vk' \ vk :
           /\ pc[e] \in Sending /\ x.text = Text(e) /\ x.id = sends[e]
           /\ x.event = e /\ x.run = tries[e]
  BY TakenIs, SendsVk DEF Sends
<1>2. pc[e] \in Sending => Text(e) \in Ahead(pc[e])
  BY <1>1, CallLeadsOn
<1>3. OncePerRun'
  <2>1. SUFFICES ASSUME NEW x \in vk', NEW y \in vk',
                        x.event = y.event, x.run = y.run, x.text = y.text
                 PROVE  x = y
    BY DEF OncePerRun
  <2>2. ASSUME NEW m \in vk', NEW n \in vk', m \notin vk,
               m.event = n.event, m.run = n.run, m.text = n.text
        PROVE  m = n
    <3>1. m.id = sends[e] /\ m.text = Text(e) /\ pc[e] \in Sending
      BY <1>1, <2>2
    <3>2. n.event = e /\ n.run = tries[e] /\ n.text = Text(e)
      BY <1>1, <2>2
    <3>3. n.id = sends[e]
      <4>1. CASE n \in vk
        BY <1>2, <3>1, <3>2, <4>1 DEF Unsent, Fresh, Of
      <4>2. CASE n \notin vk
        BY <1>1, <4>2
      <4>3. QED
        BY <4>1, <4>2
    <3>4. m \in Taking /\ n \in Taking
      BY <1>1, <2>2
    <3>5. m.id = n.id /\ m.event = n.event /\ m.run = n.run /\ m.text = n.text
      BY <2>2, <3>1, <3>3
    <3>6. QED
      BY <3>4, <3>5 DEF Taking
  <2>3. CASE x \in vk /\ y \in vk
    BY <2>1, <2>3 DEF OncePerRun
  <2>4. QED
    BY <2>1, <2>2, <2>3
<1>4. Fresh(e)'
  <2>1. CASE pc' = pc /\ sends' = sends
    <3>1. SUFFICES ASSUME NEW x \in vk', Of(e, x)
                   PROVE  pc[e] \in Sending /\ x.text = Text(e) /\ x.id = sends[e]
      BY <1>1, <2>1 DEF Fresh, Of, Text
    <3>2. CASE x \in vk
      BY <3>1, <3>2 DEF Unsent, Fresh
    <3>3. CASE x \notin vk
      BY <1>1, <3>3
    <3>4. QED
      BY <3>2, <3>3
  <2>2. CASE ~(pc' = pc /\ sends' = sends)
    <3>1. /\ Ahead(pc'[e]) \subseteq Ahead(pc[e])
          /\ pc[e] \in Sending => Text(e) \notin Ahead(pc'[e])
      <4>1. pc \in [Events -> Places]
        BY DEF Base
      <4>2. CASE pc' = [pc EXCEPT ![e] = AfterCall(e)]
        BY <1>1, <4>1, <4>2, CallLeadsOn
      <4>3. CASE \E s \in Out \cup {"memes", "ended"} : pc' = [pc EXCEPT ![e] = s]
        BY <4>1, <4>3 DEF Ahead, Out
      <4>4. QED
        BY <2>2, <4>2, <4>3 DEF Sends
    <3>2. ASSUME NEW x \in vk'
          PROVE  ~Of(e, x)'
      <4>1. CASE x \in vk
        BY <1>1, <3>1, <4>1 DEF Unsent, Fresh, Of
      <4>2. CASE x \notin vk
        BY <1>1, <3>1, <4>2 DEF Of
      <4>3. QED
        BY <4>1, <4>2
    <3>3. QED
      BY <3>2 DEF Fresh
  <2>3. QED
    BY <2>1, <2>2
<1>5. QED
  BY <1>3, <1>4

LEMMA StepOnce ==
  ASSUME Base, History, Unsent, OncePerRun, NEW e \in Events, Steps(e)
  PROVE  Unsent' /\ OncePerRun'
<1>1. OncePerRun' /\ Fresh(e)'
  <2>1. CASE Begins(e)
    <3>1. /\ vk' = vk /\ vk \subseteq Taking
          /\ tries'[e] = tries[e] + 1 /\ tries[e] \in Nat
      BY <2>1 DEF Begins, Base
    <3>2. ASSUME NEW x \in vk
          PROVE  ~Of(e, x)'
      <4>1. x.event = e => x.run <= tries[e] /\ x.run \in Nat
        BY <3>1 DEF History, Taking
      <4>2. QED
        BY <3>1, <4>1 DEF Of
    <3>3. QED
      BY <3>1, <3>2 DEF Fresh, OncePerRun
  <2>2. CASE Saves(e) \/ Records(e) \/ Keeps(e) \/ Moves(e)
    BY <2>2, StepLeadsOn DEF Fresh, OncePerRun
  <2>3. CASE Sends(e)
    BY <2>3, SendsOnce
  <2>4. QED
    BY <2>1, <2>2, <2>3, StepIs
<1>2. ASSUME NEW i \in Events, i # e
      PROVE  Fresh(i)'
  <2>1. pc'[i] = pc[i] /\ tries'[i] = tries[i]
    BY <1>2, StepFrame DEF Base
  <2>2. sends'[i] = sends[i]
    BY <1>2, StepSends DEF Base
  <2>3. \A x \in vk' : x.event = i => x \in vk
    BY <1>2, StepShows
  <2>4. QED
    BY <2>1, <2>2, <2>3 DEF Unsent, Fresh, Of, Text
<1>3. QED
  BY <1>1, <1>2 DEF Unsent

\* For any tries of a call and any events: a run puts each of its texts before the user
\* at most once, by whichever calls it sends them.
THEOREM TextsOnce == Spec => []OncePerRun
<1>1. Init => History /\ Unsent /\ OncePerRun
  BY DEF Init, History, Shown, Before, After, Unsent, Fresh, OncePerRun
<1>2. ASSUME Base, History, Unsent, OncePerRun, [Next]_vars
      PROVE  History' /\ Unsent' /\ OncePerRun'
  <2>1. CASE UNCHANGED vars \/ UtilsServiceSteps
    <3>1. UNCHANGED <<pc, tries, sends, vk, recorded>>
      BY <2>1, ChatFrame DEF vars, taskVars, runVars, dbVars
    <3>2. History'
      BY <1>2, <3>1 DEF History, Shown
    <3>3. Unsent' /\ OncePerRun'
      BY <1>2, <3>1 DEF Unsent, Fresh, Of, Text, OncePerRun
    <3>4. QED
      BY <3>2, <3>3
  <2>2. QED
    BY <1>2, <2>1, StepHistory, StepOnce DEF Next, Steps
<1>3. QED
  BY <1>1, <1>2, InitBase, NextBase, PTL DEF Spec

(***************************************************************************)
(* ConversationHolds.  The table of the conversations only grows, so what  *)
(* a delivery has found or put there stays where it was.                   *)
(***************************************************************************)
HasAsked(a, d) == \E q \in DOMAIN chat : chat[q] = Row(a, d, "user")

InContext(a, d) ==
  /\ payload[a][d] \subseteq DOMAIN chat
  /\ \A i \in payload[a][d] : chat[i].user = UserOf[a]
  /\ \E q \in payload[a][d] :
       /\ chat[q] = Row(a, d, "user")
       /\ \A i \in 1..q : chat[i].user = UserOf[a] => i \in payload[a][d]

HasAnswered(a, d) ==
  \E i, j \in DOMAIN chat :
    i < j /\ chat[i] = Row(a, d, "user") /\ chat[j] = Row(a, d, "assistant")

Talk ==
  \A a \in Asks, d \in Deliveries :
    /\ job[a][d] \in {"reading", "thinking"} => HasAsked(a, d)
    /\ job[a][d] = "thinking" => InContext(a, d)
    /\ job[a][d] = "replying" \/ told[a] = d => HasAnswered(a, d)

LEMMA RowType == ASSUME NEW a \in Asks, NEW d \in Deliveries,
                        NEW role \in {"user", "assistant", "system"}
                 PROVE  Row(a, d, role) \in Rows /\ Row(a, d, role).user = UserOf[a]
  BY DEF Row, Rows, Users

\* What a commit does to the table.
LEMMA Committing ==
  ASSUME ChatTypeOK, NEW a \in Asks, NEW d \in Deliveries,
         NEW role \in {"user", "assistant", "system"}, Committed(a, d, role)
  PROVE  /\ chat' \in Seq(Rows)
         /\ DOMAIN chat = 1..Len(chat) /\ Len(chat) \in Nat
         /\ DOMAIN chat' = 1..Len(chat) + 1
         /\ \A i \in DOMAIN chat : chat'[i] = chat[i]
         /\ chat'[Len(chat) + 1] = Row(a, d, role)
  BY RowType DEF ChatTypeOK, Committed

LEMMA StepTalk ==
  ASSUME ChatTypeOK, Talk, NEW a \in Asks, NEW d \in Deliveries, ChatSteps(a, d)
  PROVE  ChatTypeOK' /\ Talk'
<1> DEFINE Roles == {"user", "assistant", "system"}
<1> DEFINE States == {"none", "asking", "reading", "thinking", "replying", "done"}
<1>1. ASSUME NEW s \in States, GoesTo(a, d, s)
      PROVE  /\ job' \in [Asks -> [Deliveries -> States]]
             /\ job'[a][d] = s
             /\ \A b \in Asks, c \in Deliveries :
                  b # a \/ c # d => job'[b][c] = job[b][c]
  BY <1>1 DEF GoesTo, ChatTypeOK
\* What holds for a delivery goes on to hold when the table grows.
<1>2. ASSUME NEW role \in Roles, Committed(a, d, role),
             NEW b \in Asks, NEW c \in Deliveries
      PROVE  /\ HasAsked(b, c) => HasAsked(b, c)'
             /\ HasAnswered(b, c) => HasAnswered(b, c)'
             /\ payload'[b][c] = payload[b][c] /\ InContext(b, c) => InContext(b, c)'
  <2>1. /\ DOMAIN chat = 1..Len(chat) /\ Len(chat) \in Nat
        /\ DOMAIN chat \subseteq DOMAIN chat'
        /\ \A i \in DOMAIN chat : chat'[i] = chat[i]
    BY <1>2, Committing
  <2>2. HasAsked(b, c) => HasAsked(b, c)'
    BY <2>1 DEF HasAsked, Row
  <2>3. HasAnswered(b, c) => HasAnswered(b, c)'
    BY <2>1 DEF HasAnswered, Row
  <2>4. ASSUME payload'[b][c] = payload[b][c], InContext(b, c)
        PROVE  InContext(b, c)'
    <3>1. PICK q \in payload[b][c] :
            /\ chat[q] = Row(b, c, "user")
            /\ \A i \in 1..q : chat[i].user = UserOf[b] => i \in payload[b][c]
      BY <2>4 DEF InContext
    <3>2. payload[b][c] \subseteq DOMAIN chat
      BY <2>4 DEF InContext
    <3>3. \A i \in 1..q : i \in DOMAIN chat
      BY <2>1, <3>1, <3>2
    <3>4. \A i \in payload[b][c] : chat[i].user = UserOf[b]
      BY <2>4 DEF InContext
    <3>5. QED
      BY <2>1, <2>4, <3>1, <3>2, <3>3, <3>4 DEF InContext, Row
  <2>5. QED
    BY <2>2, <2>3, <2>4
<1>3. CASE Handle(a, d) \/ HandlerGivesUp(a, d)
  <2>1. PICK s \in {"asking", "done"} : GoesTo(a, d, s)
    BY <1>3 DEF Handle, HandlerGivesUp
  <2>2. UNCHANGED <<chat, payload, call, told>>
    BY <1>3 DEF Handle, HandlerGivesUp
  <2>3. ChatTypeOK'
    BY <1>1, <2>1, <2>2 DEF ChatTypeOK
  <2>4. ASSUME NEW b \in Asks, NEW c \in Deliveries
        PROVE  /\ HasAsked(b, c)' <=> HasAsked(b, c)
               /\ InContext(b, c)' <=> InContext(b, c)
               /\ HasAnswered(b, c)' <=> HasAnswered(b, c)
    BY <2>2 DEF HasAsked, InContext, HasAnswered, Row
  <2>5. Talk'
    BY <1>1, <2>1, <2>2, <2>4 DEF Talk
  <2>6. QED
    BY <2>3, <2>5
<1>4. CASE QuestionCommits(a, d)
  <2>1. /\ Committed(a, d, "user") /\ GoesTo(a, d, "reading")
        /\ UNCHANGED <<payload, call, told>>
    BY <1>4 DEF QuestionCommits
  <2>2. ChatTypeOK'
    BY <1>1, <2>1, Committing DEF ChatTypeOK
  <2>3. HasAsked(a, d)'
    <3>1. Len(chat) + 1 \in DOMAIN chat' /\ chat'[Len(chat) + 1] = Row(a, d, "user")
      BY <2>1, Committing
    <3>2. QED
      BY <3>1 DEF HasAsked, Row
  <2>4. Talk'
    BY <1>1, <1>2, <2>1, <2>3 DEF Talk
  <2>5. QED
    BY <2>2, <2>4
<1>5. CASE GetPayload(a, d)
  <2>1. RowsOf(UserOf[a]) # {}
    BY <1>5, RowType DEF GetPayload, Talk, HasAsked, RowsOf
  <2>2. /\ payload' = [payload EXCEPT ![a][d] = RowsOf(UserOf[a])]
        /\ GoesTo(a, d, "thinking")
        /\ UNCHANGED <<chat, call, told>>
    BY <1>5, <2>1 DEF GetPayload
  <2>3. /\ DOMAIN chat = 1..Len(chat) /\ Len(chat) \in Nat
        /\ RowsOf(UserOf[a]) \subseteq DOMAIN chat
    BY DEF ChatTypeOK, RowsOf
  <2>4. /\ payload' \in [Asks -> [Deliveries -> SUBSET Nat]]
        /\ payload'[a][d] = RowsOf(UserOf[a])
        /\ \A b \in Asks, c \in Deliveries :
             b # a \/ c # d => payload'[b][c] = payload[b][c]
    BY <2>2, <2>3 DEF ChatTypeOK
  <2>5. ChatTypeOK'
    BY <1>1, <2>2, <2>4 DEF ChatTypeOK
  <2>6. HasAsked(a, d)
    BY <1>5 DEF GetPayload, Talk
  <2>7. InContext(a, d)'
    <3>1. PICK q \in DOMAIN chat : chat[q] = Row(a, d, "user")
      BY <2>6 DEF HasAsked
    <3>2. q \in RowsOf(UserOf[a])
      BY <3>1, RowType DEF RowsOf
    <3>3. \A i \in 1..q : i \in DOMAIN chat
      BY <2>3, <3>1
    <3>4. QED
      BY <2>2, <2>3, <2>4, <3>1, <3>2, <3>3 DEF InContext, RowsOf, Row
  <2>8. ASSUME NEW b \in Asks, NEW c \in Deliveries
        PROVE  /\ HasAsked(b, c)' <=> HasAsked(b, c)
               /\ HasAnswered(b, c)' <=> HasAnswered(b, c)
               /\ payload'[b][c] = payload[b][c] => (InContext(b, c)' <=> InContext(b, c))
    BY <2>2 DEF HasAsked, InContext, HasAnswered, Row
  <2>9. Talk'
    BY <1>1, <2>2, <2>4, <2>6, <2>7, <2>8 DEF Talk
  <2>10. QED
    BY <2>5, <2>9
<1>6. CASE AnswerCommits(a, d)
  <2>1. /\ Committed(a, d, "assistant") /\ GoesTo(a, d, "replying")
        /\ UNCHANGED <<payload, call, told>>
    BY <1>6 DEF AnswerCommits
  <2>2. ChatTypeOK'
    BY <1>1, <2>1, Committing DEF ChatTypeOK
  <2>3. HasAnswered(a, d)'
    <3>1. PICK q \in DOMAIN chat : chat[q] = Row(a, d, "user")
      BY <1>6 DEF AnswerCommits, Talk, HasAsked
    <3>2. /\ Len(chat) + 1 \in DOMAIN chat' /\ q \in DOMAIN chat' /\ q < Len(chat) + 1
          /\ chat'[Len(chat) + 1] = Row(a, d, "assistant") /\ chat'[q] = chat[q]
      BY <2>1, <3>1, Committing
    <3>3. QED
      BY <3>1, <3>2 DEF HasAnswered, Row
  <2>4. Talk'
    BY <1>1, <1>2, <2>1, <2>3 DEF Talk
  <2>5. QED
    BY <2>2, <2>4
<1>7. CASE Reply(a, d)
  <2>1. /\ job[a][d] = "replying" /\ GoesTo(a, d, "done")
        /\ UNCHANGED <<chat, payload>>
        /\ call' = call \/ call' = [call EXCEPT ![a] = "answered"]
        /\ told' = told \/ told' = [told EXCEPT ![a] = d]
    BY <1>7 DEF Reply
  <2>2. ChatTypeOK'
    <3>1. d \in 0..MaxDeliver
      BY DeliverAssumption DEF Deliveries
    <3>2. told' \in [Asks -> 0..MaxDeliver]
          /\ call' \in [Asks -> {"idle", "open", "answered", "failed"}]
      BY <2>1, <3>1 DEF ChatTypeOK
    <3>3. QED
      BY <1>1, <2>1, <3>2 DEF ChatTypeOK
  <2>3. ASSUME NEW b \in Asks, NEW c \in Deliveries
        PROVE  /\ HasAsked(b, c)' <=> HasAsked(b, c)
               /\ InContext(b, c)' <=> InContext(b, c)
               /\ HasAnswered(b, c)' <=> HasAnswered(b, c)
    BY <2>1 DEF HasAsked, InContext, HasAnswered, Row
  <2>4. HasAnswered(a, d)
    BY <2>1 DEF Talk
  <2>5. \A b \in Asks, c \in Deliveries : told'[b] = c => told[b] = c \/ (b = a /\ c = d)
    BY <2>1 DEF ChatTypeOK
  <2>6. Talk'
    BY <1>1, <2>1, <2>3, <2>4, <2>5 DEF Talk
  <2>7. QED
    BY <2>2, <2>6
<1>8. QED
  BY <1>3, <1>4, <1>5, <1>6, <1>7 DEF ChatSteps

\* The other steps leave the deliveries alone.
LEMMA CallsTalk ==
  ASSUME ChatTypeOK, Talk, UNCHANGED <<chat, job, payload, told>>,
         \/ UNCHANGED call
         \/ \E a, s : s \in {"open", "failed"} /\ call' = [call EXCEPT ![a] = s]
  PROVE  ChatTypeOK' /\ Talk'
<1>1. ChatTypeOK'
  BY DEF ChatTypeOK
<1>2. Talk'
  BY DEF Talk, HasAsked, InContext, HasAnswered, Row
<1>3. QED
  BY <1>1, <1>2

LEMMA EventsCall ==
  ASSUME NEW e \in Events, Steps(e)
  PROVE  /\ UNCHANGED <<chat, job, payload, told>>
         /\ \/ UNCHANGED call
            \/ \E a, s : s \in {"open", "failed"} /\ call' = [call EXCEPT ![a] = s]
<1>1. CASE AskGpt(e)
  BY <1>1 DEF AskGpt, Ask
<1>2. CASE UNCHANGED chatVars
  BY <1>2 DEF chatVars
<1>3. QED
  BY <1>1, <1>2
     DEF Steps, HandlerSteps, Accept, Begin, WorkerCancelled, SaveMessage, TagPicture,
         FindTriggers, RecordAnswer, GptEnds, StorePhoto, CreatePollRow, PollRaises,
         ReadCache, WriteCache, VkAnswers, VkFails, NoClient, HandlerRaises, SaveTask

LEMMA NextTalk == ASSUME ChatTypeOK, Talk, [Next]_vars
                  PROVE  ChatTypeOK' /\ Talk'
<1>1. CASE UNCHANGED vars
  BY <1>1, CallsTalk DEF vars, chatVars
<1>2. ASSUME NEW e \in Events, Steps(e)
      PROVE  ChatTypeOK' /\ Talk'
  BY <1>2, EventsCall, CallsTalk
<1>3. ASSUME NEW a \in Asks, Ask(a) \/ AskFails(a)
      PROVE  ChatTypeOK' /\ Talk'
  BY <1>3, CallsTalk DEF Ask, AskFails
<1>4. QED
  BY <1>1, <1>2, <1>3, StepTalk DEF Next, Steps, UtilsServiceSteps, OthersAsk, ChatNext

LEMMA TalkHolds == ChatTypeOK /\ Talk => ConversationHolds
<1> SUFFICES ASSUME ChatTypeOK, Talk
             PROVE  ConversationHolds
  OBVIOUS
<1>1. AskedInContext
  BY DEF Talk, InContext, AskedInContext
<1>2. \A a \in Asks : told[a] # 0 => told[a] \in Deliveries
  BY DeliverAssumption DEF ChatTypeOK, Deliveries
<1>3. ToldIsKept
  BY <1>2 DEF Talk, HasAnswered, ToldIsKept
<1>4. QED
  BY <1>1, <1>3 DEF ConversationHolds

\* For any calls, users and deliveries: the model is asked in the context of its user,
\* and what a caller was told stays in the conversation.
THEOREM ConversationsHold == Spec => []ConversationHolds
<1>1. Init => ChatTypeOK /\ Talk
  BY DeliverAssumption DEF Init, ChatInit, ChatTypeOK, Talk, Deliveries
<1>2. QED
  BY <1>1, NextTalk, TalkHolds, PTL DEF Spec

(***************************************************************************)
(* TypeOK.  Each run saves its message and makes a row of polls at most    *)
(* once, so that the runs bound both; and the loops over pictures and       *)
(* attachments begin at the first one and leave before they pass the last. *)
(***************************************************************************)
Counts ==
  \A e \in Events :
    /\ tries[e] <= MaxRetries + 1
    /\ pc[e] = "new" => tries[e] = 0
    /\ pc[e] = "queued" => tries[e] <= MaxRetries
    /\ pc[e] \in Running => tries[e] > 0
    /\ stored[e] <= tries[e]
    /\ pc[e] = "saving" => stored[e] < tries[e]
    /\ polls[e] <= tries[e]
    /\ pc[e] \in Running \ {"polling"} => polls[e] < tries[e]

\* Stages at which no loop was begun yet.
Unlooped == Running \ {"tagging", "memes", "polling", "ended"}

LoopAt(e) ==
  /\ pc[e] \in Unlooped => at[e] = 0
  /\ pc[e] = "tagging" => at[e] < about[e].images
  /\ pc[e] \in {"memes", "polling"} => at[e] < Len(about[e].media)

Loops == at \in [Events -> Nat] /\ \A e \in Events : LoopAt(e)

Rest ==
  /\ found \in [Events -> BOOLEAN]
  /\ attempt \in [Events -> 0..MaxCalls - 1]
  /\ \A x \in vk : x.run \in Runs
  /\ recorded \subseteq Events \X Runs
  /\ bucket \subseteq Events \X Runs \X Nat
  /\ cached \in BOOLEAN

\* A task is put back only after one of its first MaxRetries runs.
LEMMA PutBackEarly ==
  ASSUME Base, Counts, NEW e \in Events, Steps(e), pc'[e] = "queued"
  PROVE  tries'[e] <= MaxRetries
<1> USE DEF Go, Raise, PutBack, Base
<1>1. CASE Accept(e)
  BY <1>1, RunsAssumption DEF Accept, Counts
<1>2. CASE Begin(e)
  BY <1>2, Ways DEF Begin
<1>3. CASE SaveTask(e) \/ HandlerRaises(e) \/ PollRaises(e)
  BY <1>3 DEF SaveTask, HandlerRaises, PollRaises
<1>4. CASE VkAnswers(e)
  BY <1>4, Calls DEF VkAnswers, Calling, Sending
<1>5. CASE VkFails(e) \/ NoClient(e)
  <2>1. tries' = tries /\ pc[e] \in Calling
    BY <1>5 DEF VkFails, NoClient
  <2>2. \/ pc' = pc
        \/ pc[e] = "telling" /\ pc' = [pc EXCEPT ![e] = AfterGpt(e)]
        \/ pc' = [pc EXCEPT ![e] = IF tries[e] <= MaxRetries THEN "queued" ELSE "failed"]
        \/ pc' = [pc EXCEPT ![e] = "denied"]
    BY <1>5 DEF VkFails, NoClient, CallRaises
  <2>3. QED
    BY <2>1, <2>2, Ways DEF Calling, Sending
<1>6. CASE \/ WorkerCancelled(e) \/ SaveMessage(e) \/ TagPicture(e) \/ FindTriggers(e)
           \/ RecordAnswer(e) \/ AskGpt(e) \/ GptEnds(e) \/ StorePhoto(e)
           \/ CreatePollRow(e) \/ ReadCache(e) \/ WriteCache(e)
  <2>1. \E s \in Places \ {"queued"} : pc' = [pc EXCEPT ![e] = s]
    <3> USE DEF Places, Running, Calling, Sending, Ends
    <3>1. CASE WorkerCancelled(e) \/ SaveMessage(e) \/ TagPicture(e) \/ FindTriggers(e)
      BY <3>1, Ways DEF WorkerCancelled, SaveMessage, TagPicture, FindTriggers
    <3>2. CASE RecordAnswer(e) \/ AskGpt(e) \/ GptEnds(e) \/ StorePhoto(e)
      BY <3>2, Ways DEF RecordAnswer, AskGpt, GptEnds, StorePhoto
    <3>3. CASE CreatePollRow(e) \/ ReadCache(e) \/ WriteCache(e)
      BY <3>3 DEF CreatePollRow, ReadCache, WriteCache
    <3>4. QED
      BY <1>6, <3>1, <3>2, <3>3
  <2>2. QED
    BY <2>1
<1>7. QED
  BY <1>1, <1>2, <1>3, <1>4, <1>5, <1>6 DEF Steps, HandlerSteps

LEMMA StepCounts ==
  ASSUME Base, Counts, NEW e \in Events, Steps(e)
  PROVE  Counts'
<1>1. /\ tries \in [Events -> Nat] /\ stored \in [Events -> Nat]
      /\ polls \in [Events -> Nat] /\ pc \in [Events -> Places] /\ MaxRetries \in Nat
  BY RunsAssumption DEF Base
<1>2. ASSUME NEW i \in Events, i # e
      PROVE  /\ pc'[i] = pc[i] /\ tries'[i] = tries[i]
             /\ stored'[i] = stored[i] /\ polls'[i] = polls[i]
  BY <1>1, <1>2, StepFrame
<1>3. pc'[e] = "queued" => tries'[e] <= MaxRetries
  BY PutBackEarly
<1>4. /\ tries'[e] <= MaxRetries + 1
      /\ pc'[e] = "new" => tries'[e] = 0
      /\ pc'[e] \in Running => tries'[e] > 0
      /\ stored'[e] <= tries'[e]
      /\ pc'[e] = "saving" => stored'[e] < tries'[e]
      /\ polls'[e] <= tries'[e]
      /\ pc'[e] \in Running \ {"polling"} => polls'[e] < tries'[e]
  <2>0. /\ tries[e] \in Nat /\ stored[e] \in Nat /\ polls[e] \in Nat
        /\ tries[e] <= MaxRetries + 1
        /\ pc[e] = "new" => tries[e] = 0
        /\ pc[e] = "queued" => tries[e] <= MaxRetries
        /\ pc[e] \in Running => tries[e] > 0
        /\ stored[e] <= tries[e] /\ (pc[e] = "saving" => stored[e] < tries[e])
        /\ polls[e] <= tries[e]
        /\ pc[e] \in Running \ {"polling"} => polls[e] < tries[e]
    BY <1>1 DEF Counts
  <2>1. CASE Begins(e)
    <3>1. /\ tries'[e] = tries[e] + 1 /\ pc[e] = "queued" /\ pc'[e] # "new"
          /\ stored' = stored /\ polls' = polls
      BY <1>1, <2>1 DEF Begins
    <3>2. QED
      BY <1>1, <2>0, <3>1
  <2>2. CASE Saves(e)
    <3>1. /\ pc[e] = "saving" /\ tries' = tries /\ polls' = polls
          /\ pc'[e] \in {"ended", "helping", "tagging", "finding"}
      BY <1>1, <2>2 DEF Saves
    <3>2. stored'[e] \in {stored[e], stored[e] + 1}
      BY <1>1, <2>2 DEF Saves
    <3>3. pc[e] \in Running \ {"polling"}
      BY <3>1 DEF Running
    <3>4. stored'[e] <= tries[e]
      BY <2>0, <3>1, <3>2
    <3>5. QED
      BY <2>0, <3>1, <3>3, <3>4
  <2>3. CASE Keeps(e)
    <3>1. /\ pc[e] = "memes" /\ tries' = tries /\ stored' = stored
          /\ pc'[e] \in {"memes", "polling", "ended"}
          /\ polls'[e] \in {polls[e], polls[e] + 1}
      BY <1>1, <2>3 DEF Keeps
    <3>2. polls'[e] = polls[e] + 1 => pc'[e] = "polling"
      <4>1. CASE StorePhoto(e) \/ ~CreatePollRow(e)
        <5>1. polls' = polls
          BY <3>1, <4>1 DEF Steps, HandlerSteps, Accept, Begin, WorkerCancelled, SaveMessage,
               TagPicture, FindTriggers, RecordAnswer, AskGpt, GptEnds, StorePhoto, PollRaises,
               ReadCache, WriteCache, VkAnswers, VkFails, NoClient, HandlerRaises, SaveTask,
               dbVars
        <5>2. QED
          BY <2>0, <5>1
      <4>2. CASE CreatePollRow(e)
        BY <1>1, <4>2 DEF CreatePollRow, Go
      <4>3. QED
        BY <4>1, <4>2
    <3>3. pc[e] \in Running \ {"polling"}
      BY <3>1 DEF Running
    <3>4. polls'[e] <= tries[e] /\ (pc'[e] # "polling" => polls'[e] < tries[e])
      BY <2>0, <3>1, <3>2, <3>3
    <3>5. QED
      BY <2>0, <3>1, <3>3, <3>4
  <2>4. CASE Records(e) \/ Sends(e) \/ Moves(e)
    <3>1. tries' = tries /\ stored' = stored /\ polls' = polls
      BY <2>4 DEF Records, Sends, Moves
    <3>2. /\ pc'[e] \notin {"new", "saving"}
          /\ pc'[e] \in Running => pc[e] \in Running \ {"polling"}
      <4> USE DEF Running, Calling, Sending, Out
      <4>1. CASE Records(e)
        BY <1>1, <4>1 DEF Records
      <4>2. CASE Sends(e)
        BY <1>1, <4>2, Calls DEF Sends
      <4>3. CASE Moves(e)
        BY <1>1, <4>3 DEF Moves
      <4>4. QED
        BY <2>4, <4>1, <4>2, <4>3
    <3>3. QED
      BY <2>0, <3>1, <3>2
  <2>5. QED
    BY <2>1, <2>2, <2>3, <2>4, StepIs
<1>5. QED
  BY <1>2, <1>3, <1>4 DEF Counts

\* Where a step may lead that is not one of a loop: into a loop it enters at its first
\* round, and only if there is one.
LEMMA EntersLoops ==
  ASSUME Base, NEW e \in Events
  PROVE  /\ AfterGpt(e) = "memes" => Len(about[e].media) > 0
         /\ AfterAnswer(e) = "memes" => Len(about[e].media) > 0
         /\ AfterSave(e) = "tagging" => about[e].images > 0
         /\ pc[e] \in Calling /\ AfterCall(e) = "memes" => Len(about[e].media) > 0
         /\ about[e].images \in Nat /\ Len(about[e].media) \in Nat
<1>1. /\ about[e].media \in Seq({"photo", "video"}) /\ about[e].images \in Nat
      /\ about[e].kind \in {"message", "reply", "callback", "vote"}
  BY EventsAssumption DEF Base
<1>2. about[e].media # <<>> => Len(about[e].media) > 0
  BY <1>1
<1>3. /\ AfterGpt(e) = "memes" => Len(about[e].media) > 0
      /\ AfterAnswer(e) = "memes" => Len(about[e].media) > 0
  BY <1>2 DEF AfterGpt, AfterAnswer
<1>4. AfterSave(e) = "tagging" => about[e].images > 0
  BY <1>1 DEF AfterSave
<1>5. pc[e] \in Calling /\ AfterCall(e) = "memes" => Len(about[e].media) > 0
  BY <1>3 DEF AfterCall, Calling, Sending
<1>6. QED
  BY <1>1, <1>3, <1>4, <1>5

Looping(e) == TagPicture(e) \/ StorePhoto(e) \/ CreatePollRow(e)

\* The other steps of a handler either leave it where it is, or out of it, or lead from
\* outside of the loops on to their first rounds.
LEMMA StraightOn ==
  ASSUME Base, NEW e \in Events, Steps(e), ~Looping(e), ~Begin(e)
  PROVE  /\ at' = at
         /\ \/ pc' = pc
            \/ \E s \in Out \cup {"queued"} : pc' = [pc EXCEPT ![e] = s]
            \/ /\ pc[e] \in Unlooped
               /\ \E s \in Places \ {"polling"} :
                    /\ pc' = [pc EXCEPT ![e] = s]
                    /\ s = "tagging" => about[e].images > 0
                    /\ s = "memes" => Len(about[e].media) > 0
<1> USE DEF Go, Raise, PutBack, Looping
<1>1. at' = at
  BY DEF Steps, HandlerSteps, Accept, WorkerCancelled, SaveMessage, FindTriggers,
         RecordAnswer, AskGpt, GptEnds, PollRaises, ReadCache, WriteCache, VkAnswers,
         VkFails, NoClient, HandlerRaises, SaveTask, runVars
<1> DEFINE Leads(s) == /\ pc[e] \in Unlooped
                       /\ s \in Places \ {"polling"}
                       /\ s = "tagging" => about[e].images > 0
                       /\ s = "memes" => Len(about[e].media) > 0
<1> USE DEF Unlooped, Places, Running, Calling, Sending, Ends, Out
<1>2. CASE \/ Accept(e) \/ WorkerCancelled(e) \/ SaveTask(e) \/ HandlerRaises(e)
           \/ PollRaises(e)
  BY <1>1, <1>2 DEF Accept, WorkerCancelled, SaveTask, HandlerRaises, PollRaises
<1>3. CASE SaveMessage(e) \/ FindTriggers(e) \/ RecordAnswer(e) \/ AskGpt(e)
  <2>1. CASE SaveMessage(e)
    <3>1. Leads(AfterSave(e)) /\ pc' = [pc EXCEPT ![e] = AfterSave(e)]
      BY <2>1, Ways, EntersLoops DEF SaveMessage
    <3>2. QED
      BY <1>1, <3>1
  <2>2. CASE FindTriggers(e)
    <3>1. PICK s \in {"answering", AfterAnswer(e)} : pc' = [pc EXCEPT ![e] = s]
      BY <2>2 DEF FindTriggers
    <3>2. Leads(s)
      BY <2>2, <3>1, Ways, EntersLoops DEF FindTriggers
    <3>3. QED
      BY <1>1, <3>1, <3>2
  <2>3. CASE RecordAnswer(e)
    <3>1. Leads(AfterAnswer(e)) /\ pc' = [pc EXCEPT ![e] = AfterAnswer(e)]
      BY <2>3, Ways, EntersLoops DEF RecordAnswer
    <3>2. QED
      BY <1>1, <3>1
  <2>4. CASE AskGpt(e)
    <3>1. Leads("waiting") /\ pc' = [pc EXCEPT ![e] = "waiting"]
      BY <2>4 DEF AskGpt
    <3>2. QED
      BY <1>1, <3>1
  <2>5. QED
    BY <1>3, <2>1, <2>2, <2>3, <2>4
<1>4. CASE GptEnds(e) \/ ReadCache(e) \/ WriteCache(e)
  <2>1. CASE GptEnds(e)
    <3>1. PICK s \in {"telling", AfterGpt(e)} : pc' = [pc EXCEPT ![e] = s]
      BY <2>1 DEF GptEnds
    <3>2. Leads(s)
      BY <2>1, <3>1, Ways, EntersLoops DEF GptEnds
    <3>3. QED
      BY <1>1, <3>1, <3>2
  <2>2. CASE ReadCache(e) \/ WriteCache(e)
    <3>1. pc[e] \in {"caching", "remembering"}
      BY <2>2 DEF ReadCache, WriteCache
    <3>2. \E s \in {"greeting", "uploading"} : pc' = [pc EXCEPT ![e] = s]
      BY <2>2 DEF ReadCache, WriteCache
    <3>3. QED
      BY <1>1, <3>1, <3>2
  <2>3. QED
    BY <1>4, <2>1, <2>2
<1>5. CASE VkAnswers(e)
  <2>1. pc[e] \in Calling /\ pc' = [pc EXCEPT ![e] = AfterCall(e)]
    BY <1>5 DEF VkAnswers
  <2>2. Leads(AfterCall(e))
    BY <2>1, Calls, EntersLoops
  <2>3. QED
    BY <1>1, <2>1, <2>2
<1>6. CASE VkFails(e) \/ NoClient(e)
  <2>1. pc[e] \in Calling
    BY <1>6 DEF VkFails, NoClient
  <2>2. \/ pc' = pc
        \/ pc[e] = "telling" /\ pc' = [pc EXCEPT ![e] = AfterGpt(e)]
        \/ \E s \in {"queued", "failed", "denied"} : pc' = [pc EXCEPT ![e] = s]
    BY <1>6 DEF VkFails, NoClient, CallRaises
  <2>3. pc[e] = "telling" => Leads(AfterGpt(e))
    BY Ways, EntersLoops
  <2>4. QED
    BY <1>1, <2>1, <2>2, <2>3
<1>7. QED
  BY <1>2, <1>3, <1>4, <1>5, <1>6 DEF Steps, HandlerSteps

LEMMA StepLoops ==
  ASSUME Base, Loops, NEW e \in Events, Steps(e)
  PROVE  Loops'
<1>1. /\ about' = about /\ at \in [Events -> Nat] /\ pc \in [Events -> Places]
      /\ LoopAt(e)
  BY AboutStays DEF Base, Loops
<1>2. about[e].images \in Nat /\ Len(about[e].media) \in Nat
  BY EntersLoops
<1>3. (\E n \in Nat : at' = [at EXCEPT ![e] = n]) /\ LoopAt(e)'
  <2> USE DEF LoopAt, Unlooped, Running, Calling, Sending
  <2>1. CASE Begin(e)
    <3>1. at' = [at EXCEPT ![e] = 0]
      BY <2>1 DEF Begin
    <3>2. pc'[e] \in {"saving", "deleting", "voting", "ended", "queued", "failed"}
      BY <1>1, <2>1, Ways DEF Begin, PutBack, Go
    <3>3. QED
      BY <1>1, <3>1, <3>2
  <2>2. CASE TagPicture(e)
    <3>1. PICK some : \/ /\ at[e] + 1 = about[e].images
                         /\ at' = [at EXCEPT ![e] = 0]
                         /\ pc' = [pc EXCEPT ![e] = AfterTags(e, some)]
                      \/ /\ at[e] + 1 # about[e].images
                         /\ at' = [at EXCEPT ![e] = at[e] + 1]
                         /\ pc' = [pc EXCEPT ![e] = "tagging"]
      BY <2>2 DEF TagPicture, Go
    <3>2. at[e] < about[e].images
      BY <1>1, <2>2 DEF TagPicture
    <3>3. CASE at[e] + 1 = about[e].images
      <4>1. at' = [at EXCEPT ![e] = 0] /\ pc'[e] \in {"sending_tags", "finding"}
        BY <1>1, <3>1, <3>3, Ways
      <4>2. QED
        BY <1>1, <4>1
    <3>4. CASE at[e] + 1 # about[e].images
      <4>1. at' = [at EXCEPT ![e] = at[e] + 1] /\ pc'[e] = "tagging"
        BY <1>1, <3>1, <3>4
      <4>2. at[e] + 1 \in Nat /\ at[e] + 1 < about[e].images
        BY <1>1, <1>2, <3>2, <3>4
      <4>3. QED
        BY <1>1, <4>1, <4>2
    <3>5. QED
      BY <3>3, <3>4
  <2>3. CASE StorePhoto(e)
    <3>1. /\ pc[e] = "memes" /\ at' = [at EXCEPT ![e] = at[e] + 1]
          /\ pc' = [pc EXCEPT ![e] = IF at[e] + 1 = Len(about[e].media)
                                     THEN "ended" ELSE "memes"]
      BY <2>3 DEF StorePhoto, Go
    <3>2. at[e] < Len(about[e].media)
      BY <1>1, <3>1
    <3>3. at'[e] = at[e] + 1 /\ at[e] + 1 \in Nat
      BY <1>1, <3>1
    <3>4. pc'[e] = "ended" \/ (pc'[e] = "memes" /\ at[e] + 1 # Len(about[e].media))
      BY <1>1, <3>1
    <3>5. at[e] + 1 # Len(about[e].media) => at[e] + 1 < Len(about[e].media)
      BY <1>1, <1>2, <3>2
    <3>6. QED
      BY <1>1, <3>1, <3>3, <3>4, <3>5
  <2>4. CASE CreatePollRow(e)
    BY <1>1, <2>4 DEF CreatePollRow, Go, runVars
  <2>5. CASE ~Looping(e) /\ ~Begin(e)
    <3>1. at' = at /\ at = [at EXCEPT ![e] = at[e]] /\ at[e] \in Nat
      BY <1>1, <2>5, StraightOn
    <3>2. CASE pc' = pc
      BY <1>1, <3>1, <3>2
    <3>3. CASE \E s \in Out \cup {"queued"} : pc' = [pc EXCEPT ![e] = s]
      BY <1>1, <3>1, <3>3 DEF Out
    <3>4. CASE /\ pc[e] \in Unlooped
               /\ \E s \in Places \ {"polling"} :
                    /\ pc' = [pc EXCEPT ![e] = s]
                    /\ s = "tagging" => about[e].images > 0
                    /\ s = "memes" => Len(about[e].media) > 0
      <4>1. at'[e] = 0
        BY <1>1, <3>1, <3>4
      <4>2. /\ pc'[e] # "polling"
            /\ pc'[e] = "tagging" => 0 < about[e].images
            /\ pc'[e] = "memes" => 0 < Len(about[e].media)
        BY <1>1, <1>2, <3>4
      <4>3. QED
        BY <1>1, <3>1, <4>1, <4>2
    <3>5. QED
      BY <2>5, <3>2, <3>3, <3>4, StraightOn
  <2>6. QED
    BY <2>1, <2>2, <2>3, <2>4, <2>5 DEF Looping
<1>4. ASSUME NEW i \in Events, i # e
      PROVE  LoopAt(i)'
  <2>1. pc'[i] = pc[i] /\ at'[i] = at[i] /\ about' = about
    BY <1>1, <1>3, <1>4, StepFrame
  <2>2. QED
    BY <2>1 DEF Loops, LoopAt
<1>5. at' \in [Events -> Nat]
  BY <1>1, <1>3
<1>6. QED
  BY <1>3, <1>4, <1>5 DEF Loops

LEMMA RunIsOne ==
  ASSUME Base, Counts, NEW e \in Events, pc[e] \in Running
  PROVE  tries[e] \in Runs
<1>1. tries[e] \in Nat /\ tries[e] > 0 /\ tries[e] <= MaxRetries + 1 /\ MaxRetries \in Nat
  BY RunsAssumption DEF Base, Counts
<1>2. QED
  BY <1>1 DEF Runs

LEMMA StepRest ==
  ASSUME Base, Counts, Loops, Rest, NEW e \in Events, Steps(e)
  PROVE  Rest'
<1>0. pc[e] \in Running => tries[e] \in Runs
  BY RunIsOne
<1>1. found' \in [Events -> BOOLEAN]
  <2>1. found' = found \/ \E b \in BOOLEAN : found' = [found EXCEPT ![e] = b]
    <3>1. CASE Begin(e)
      BY <3>1 DEF Begin
    <3>2. CASE TagPicture(e)
      BY <3>2 DEF TagPicture
    <3>3. CASE ~Begin(e) /\ ~TagPicture(e)
      BY <3>3 DEF Steps, HandlerSteps, Accept, WorkerCancelled, SaveMessage, FindTriggers,
           RecordAnswer, AskGpt, GptEnds, StorePhoto, CreatePollRow, PollRaises, ReadCache,
           WriteCache, VkAnswers, VkFails, NoClient, HandlerRaises, SaveTask, runVars
    <3>4. QED
      BY <3>1, <3>2, <3>3
  <2>2. QED
    BY <2>1 DEF Rest
<1>2. attempt' \in [Events -> 0..MaxCalls - 1]
  <2>0. attempt \in [Events -> 0..MaxCalls - 1] /\ MaxCalls \in Nat \ {0}
    BY RunsAssumption DEF Rest
  <2>1. CASE Begin(e) \/ VkAnswers(e)
    <3>1. attempt' = [attempt EXCEPT ![e] = 0]
      BY <2>1 DEF Begin, VkAnswers, CallEnds
    <3>2. QED
      BY <2>0, <3>1
  <2>2. CASE VkFails(e)
    <3>1. \/ /\ attempt[e] < MaxCalls - 1
             /\ attempt' = [attempt EXCEPT ![e] = attempt[e] + 1]
          \/ attempt' = [attempt EXCEPT ![e] = 0]
      BY <2>2 DEF VkFails, CallEnds
    <3>2. attempt[e] < MaxCalls - 1 => attempt[e] + 1 \in 0..MaxCalls - 1
      BY <2>0
    <3>3. QED
      BY <2>0, <3>1, <3>2
  <2>3. CASE ~Begin(e) /\ ~VkAnswers(e) /\ ~VkFails(e)
    <3>1. attempt' = attempt
      BY <2>3 DEF Steps, HandlerSteps, Accept, WorkerCancelled, SaveMessage, TagPicture,
           FindTriggers, RecordAnswer, AskGpt, GptEnds, StorePhoto, CreatePollRow,
           PollRaises, ReadCache, WriteCache, NoClient, HandlerRaises, SaveTask, runVars
    <3>2. QED
      BY <2>0, <3>1
  <2>4. QED
    BY <2>1, <2>2, <2>3
<1>3. \A x \in vk' : x.run \in Runs
  <2>1. ASSUME NEW x \in vk', x \notin vk
        PROVE  x.run = tries[e] /\ pc[e] \in Running
    <3>1. x.run = tries[e]
      BY <2>1, StepShows
    <3>2. pc[e] \in Calling
      BY <2>1, StepIs DEF Begins, Saves, Records, Keeps, Moves, Sends
    <3>3. QED
      BY <3>1, <3>2 DEF Running
  <2>2. QED
    BY <1>0, <2>1 DEF Rest
<1>4. recorded' \subseteq Events \X Runs
  <2>1. \/ recorded' = recorded
        \/ pc[e] = "recording" /\ recorded' = recorded \cup {<<e, tries[e]>>}
    BY StepIs DEF Begins, Saves, Records, Keeps, Moves, Sends
  <2>2. QED
    BY <1>0, <2>1 DEF Rest, Running
<1>5. bucket' \subseteq Events \X Runs \X Nat
  <2>1. \/ bucket' = bucket
        \/ pc[e] = "memes" /\ bucket' = bucket \cup {<<e, tries[e], at[e]>>}
    <3>1. CASE StorePhoto(e)
      BY <3>1 DEF StorePhoto
    <3>2. CASE ~StorePhoto(e)
      BY <3>2 DEF Steps, HandlerSteps, Accept, Begin, WorkerCancelled, SaveMessage,
           TagPicture, FindTriggers, RecordAnswer, AskGpt, GptEnds, CreatePollRow,
           PollRaises, ReadCache, WriteCache, VkAnswers, VkFails, NoClient, HandlerRaises,
           SaveTask, dbVars
    <3>3. QED
      BY <3>1, <3>2
  <2>2. at[e] \in Nat
    BY DEF Loops
  <2>3. QED
    BY <1>0, <2>1, <2>2 DEF Rest, Running
<1>6. cached' \in BOOLEAN
  <2>1. cached' = TRUE \/ cached' = cached
    BY DEF Steps, HandlerSteps, Accept, Begin, WorkerCancelled, SaveMessage, TagPicture,
           FindTriggers, RecordAnswer, AskGpt, GptEnds, StorePhoto, CreatePollRow,
           PollRaises, ReadCache, WriteCache, VkAnswers, VkFails, NoClient, HandlerRaises,
           SaveTask, dbVars
  <2>2. QED
    BY <2>1 DEF Rest
<1>7. QED
  BY <1>1, <1>2, <1>3, <1>4, <1>5, <1>6 DEF Rest

TypeInv == Base /\ Counts /\ Loops /\ Rest

LEMMA InitTypeInv == Init => TypeInv
<1> SUFFICES ASSUME Init
             PROVE  TypeInv
  OBVIOUS
<1>1. MaxRetries \in Nat /\ MaxCalls \in Nat \ {0}
  BY RunsAssumption
<1>2. Counts
  BY <1>1 DEF Init, Counts, Running, Calling, Sending
<1>3. Loops
  BY DEF Init, Loops, LoopAt, Unlooped, Running, Calling, Sending
<1>4. Rest
  <2>1. 0 \in 0..MaxCalls - 1
    BY <1>1
  <2>2. /\ found \in [Events -> BOOLEAN] /\ cached \in BOOLEAN
        /\ vk = {} /\ recorded = {} /\ bucket = {}
    BY DEF Init
  <2>3. attempt \in [Events -> 0..MaxCalls - 1]
    BY <2>1 DEF Init
  <2>4. QED
    BY <2>2, <2>3 DEF Rest
<1>5. QED
  BY <1>2, <1>3, <1>4, InitBase DEF TypeInv

LEMMA NextTypeInv == ASSUME TypeInv, [Next]_vars
                     PROVE  TypeInv'
<1>1. CASE UNCHANGED vars \/ UtilsServiceSteps
  <2>1. UNCHANGED <<taskVars, runVars, vk, dbVars>>
    BY <1>1 DEF vars, UtilsServiceSteps
  <2>2. QED
    BY <2>1 DEF taskVars, runVars, dbVars, TypeInv, Base, Counts, Loops, LoopAt, Rest
<1>2. ASSUME NEW e \in Events, Steps(e)
      PROVE  TypeInv'
  BY <1>2, NextBase, StepCounts, StepLoops, StepRest DEF TypeInv, Next, Steps
<1>3. QED
  BY <1>1, <1>2 DEF Next, Steps

LEMMA TypeInvTypes ==
  ASSUME TypeInv, ChatTypeOK
  PROVE  TypeOK
<1> USE DEF TypeInv
<1>1. /\ MaxRetries \in Nat /\ MaxCalls \in Nat \ {0}
      /\ tries \in [Events -> Nat] /\ stored \in [Events -> Nat]
      /\ polls \in [Events -> Nat]
  BY RunsAssumption DEF Base
<1>2. ASSUME NEW e \in Events
      PROVE  /\ tries[e] \in 0..MaxRetries + 1 /\ stored[e] \in 0..MaxRetries + 1
             /\ polls[e] \in 0..MaxRetries + 1
  <2>1. /\ tries[e] \in Nat /\ stored[e] \in Nat /\ polls[e] \in Nat
        /\ tries[e] <= MaxRetries + 1 /\ stored[e] <= tries[e] /\ polls[e] <= tries[e]
    BY <1>1 DEF Counts
  <2>2. QED
    BY <1>1, <2>1
<1>3. /\ tries \in [Events -> 0..MaxRetries + 1]
      /\ stored \in [Events -> 0..MaxRetries + 1]
      /\ polls \in [Events -> 0..MaxRetries + 1]
  BY <1>1, <1>2
<1>4. vk \subseteq [event : Events, run : Runs, text : Texts, id : Nat]
  <2>1. ASSUME NEW x \in vk
        PROVE  x \in [event : Events, run : Runs, text : Texts, id : Nat]
    <3>1. x \in [event : Events, run : Nat, text : Texts, id : Nat] /\ x.run \in Runs
      BY <2>1 DEF Base, Taking, Rest
    <3>2. QED
      BY <3>1
  <2>2. QED
    BY <2>1
<1>5. /\ at \in [Events -> Nat]
      /\ \A e \in Events :
           /\ pc[e] = "tagging" => at[e] < about[e].images
           /\ pc[e] \in {"memes", "polling"} => at[e] < Len(about[e].media)
  BY DEF Loops, LoopAt
<1>6. /\ about \in [Events -> Shapes]
      /\ pc \in [Events -> Running \cup Ends \cup {"new", "queued"}]
      /\ broken \in [Events -> BOOLEAN] /\ sends \in [Events -> Nat]
  BY DEF Base, Places
<1>7. /\ found \in [Events -> BOOLEAN] /\ attempt \in [Events -> 0..MaxCalls - 1]
      /\ recorded \subseteq Events \X Runs /\ bucket \subseteq Events \X Runs \X Nat
      /\ cached \in BOOLEAN
  BY DEF Rest
<1> HIDE DEF TypeInv
<1>8. QED
  BY <1>3, <1>4, <1>5, <1>6, <1>7 DEF TypeOK

\* For any events, shapes and retries: the state keeps its types.  Among them are that
\* no loop passes the last picture or attachment, that no task is run more often than
\* _worker puts it back, and that no run saves a message or a poll twice.
THEOREM TypeCorrect == Spec => []TypeOK
<1>1. Init => ChatTypeOK /\ Talk
  BY DeliverAssumption DEF Init, ChatInit, ChatTypeOK, Talk, Deliveries
<1>2. QED
  BY <1>1, NextTalk, InitTypeInv, NextTypeInv, TypeInvTypes, PTL DEF Spec
=============================================================================
