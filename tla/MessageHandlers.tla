--------------------------- MODULE MessageHandlers ---------------------------
(***************************************************************************)
(* The handlers of VkBotService for the events of VK, services/vk_bot/vk:   *)
(* what a run of on_new_message, on_message_reply, on_callback_event or     *)
(* on_poll_vote does at each of its awaits, and what is left of it when the *)
(* run fails and _worker puts the task back.  Its calls of gpt_chat are the *)
(* ones of module ChatHistory; the queue and the workers themselves are in  *)
(* module VkBotService.                                                    *)
(*                                                                         *)
(* What a message says is left out: whether it has tags, or words that      *)
(* trigger an answer, is left open at the step that asks.                  *)
(***************************************************************************)
EXTENDS ChatHistory

CONSTANTS Events,       \* the events of VK that have a handler
          Shapes,       \* what an event can be, as far as the handlers ask
          MaxCalls,     \* tries of with_retries; 3 in the code
          Workers,      \* bound: handlers at work at a time
          MaxRetries    \* runs after which a failed task is put back; 3 in the code

Runs == 1..MaxRetries + 1

\* What a run sends to VK.
Texts == {"help", "tags", "answer", "gpt", "greeting"}

ASSUME EventsAssumption ==
  Shapes \subseteq
    [kind : {"message", "reply", "callback", "vote"},
     command : BOOLEAN,               \* the text begins with /help
     images : Nat,                    \* pictures that can be tagged
     addressed : BOOLEAN,             \* to the bot, in a chat or privately
     media : Seq({"photo", "video"})]  \* attachments, if sent to the memes chat

ASSUME RunsAssumption ==
  /\ MaxRetries \in Nat
  /\ MaxCalls \in Nat \ {0}
  /\ Workers \in Nat
  /\ Events \X Runs \subseteq Asks

VARIABLES
  about,      \* about[e]: what e is
  pc,         \* pc[e]: the await at which the handler of e is, or how its task ended
  tries,      \* tries[e]: Task.tries
  at,         \* at[e]: pictures or attachments done with in the loop at hand
  found,      \* found[e]: tags were found
  broken,     \* broken[e]: the session of the database refuses further statements
  attempt,    \* attempt[e]: failed tries of the call of VK at hand
  sends,      \* sends[e]: calls of send the run is through with
  vk,         \* the messages VK has taken
  stored,     \* stored[e]: rows of table vk_messages
  recorded,   \* rows of table triggers_history
  polls,      \* polls[e]: rows of table polls
  bucket,     \* files in the bucket memes
  cached      \* redis knows the attachment of the help callback

taskVars == <<about, pc, tries>>
runVars  == <<at, found, broken, attempt, sends>>
dbVars   == <<stored, recorded, polls, bucket, cached>>
vars     == <<chatVars, taskVars, runVars, vk, dbVars>>

Sending == {"helping", "sending_tags", "answering", "telling", "greeting"}

\* The calls of VK that with_retries repeats.
Calling == Sending \cup {"deleting", "uploading"}

Running == Calling \cup
  {"saving", "tagging", "finding", "recording", "asking", "waiting", "memes",
   "polling", "voting", "caching", "remembering", "ended"}

Ends == {"done", "failed", "denied", "lost"}

TypeOK ==
  /\ ChatTypeOK
  /\ about \in [Events -> Shapes]
  /\ pc \in [Events -> Running \cup Ends \cup {"new", "queued"}]
  /\ tries \in [Events -> 0..MaxRetries + 1]
  /\ at \in [Events -> Nat]
  /\ \A e \in Events :
       /\ pc[e] = "tagging" => at[e] < about[e].images
       /\ pc[e] \in {"memes", "polling"} => at[e] < Len(about[e].media)
  /\ found \in [Events -> BOOLEAN]
  /\ broken \in [Events -> BOOLEAN]
  /\ attempt \in [Events -> 0..MaxCalls - 1]
  /\ sends \in [Events -> Nat]
  /\ vk \subseteq [event : Events, run : Runs, text : Texts, id : Nat]
  /\ stored \in [Events -> 0..MaxRetries + 1]
  /\ recorded \subseteq Events \X Runs
  /\ polls \in [Events -> 0..MaxRetries + 1]
  /\ bucket \subseteq Events \X Runs \X Nat
  /\ cached \in BOOLEAN

Init ==
  /\ ChatInit
  /\ about \in [Events -> Shapes]
  /\ pc = [e \in Events |-> "new"]
  /\ tries = [e \in Events |-> 0]
  /\ at = [e \in Events |-> 0]
  /\ found = [e \in Events |-> FALSE]
  /\ broken = [e \in Events |-> FALSE]
  /\ attempt = [e \in Events |-> 0]
  /\ sends = [e \in Events |-> 0]
  /\ vk = {}
  /\ stored = [e \in Events |-> 0]
  /\ recorded = {}
  /\ polls = [e \in Events |-> 0]
  /\ bucket = {}
  /\ cached = FALSE

-----------------------------------------------------------------------------
(* The task of a handler *)

Go(e, s) == pc' = [pc EXCEPT ![e] = s]

\* execute_in_worker
Accept(e) ==
  /\ pc[e] = "new"
  /\ Go(e, "queued")
  /\ UNCHANGED <<chatVars, about, tries, runVars, vk, dbVars>>

FirstStep(e) ==
  CASE about[e].kind \in {"message", "reply"} -> "saving"
    [] about[e].kind = "callback" -> "deleting"
    [] about[e].kind = "vote" -> "voting"

\* _worker puts the task back after its n-th run, or saves its errors.
PutBack(e, n) == Go(e, IF n <= MaxRetries THEN "queued" ELSE "failed")

\* execute_task: a run begins, with a session and counters of its own.  An event
\* that does not validate, an unknown callback or an incomplete vote is dropped; a
\* callback raises before its first await if its event lacks a field.
Begin(e) ==
  /\ pc[e] = "queued"
  /\ Cardinality({f \in Events : pc[f] \in Running}) < Workers
  /\ \/ \E s \in {FirstStep(e), "ended"} : Go(e, s)
     \/ about[e].kind = "callback" /\ PutBack(e, tries[e] + 1)
  /\ tries' = [tries EXCEPT ![e] = @ + 1]
  /\ at' = [at EXCEPT ![e] = 0]
  /\ found' = [found EXCEPT ![e] = FALSE]
  /\ broken' = [broken EXCEPT ![e] = FALSE]
  /\ attempt' = [attempt EXCEPT ![e] = 0]
  /\ sends' = [sends EXCEPT ![e] = 0]
  /\ UNCHANGED <<chatVars, about, vk, dbVars>>

Raise(e) == PutBack(e, tries[e])

\* _save_task after a run that came to its end: a failure has it run once more.
SaveTask(e) ==
  /\ pc[e] = "ended"
  /\ Go(e, "done") \/ Raise(e)
  /\ UNCHANGED <<chatVars, about, tries, runVars, vk, dbVars>>

\* The worker is cancelled, whatever its handler waits for.
WorkerCancelled(e) ==
  /\ pc[e] \in Running
  /\ Go(e, "lost")
  /\ UNCHANGED <<chatVars, about, tries, runVars, vk, dbVars>>

\* An exception of a picture's RPC, of the database, redis, S3 or a download.
HandlerRaises(e) ==
  /\ pc[e] \in {"tagging", "finding", "recording", "memes", "caching", "remembering"}
  /\ Raise(e)
  /\ UNCHANGED <<chatVars, about, tries, runVars, vk, dbVars>>

-----------------------------------------------------------------------------
(* on_new_message: where a step leads *)

\* The loop over the attachments, if they came to the memes chat.
AfterGpt(e) == IF about[e].media # <<>> THEN "memes" ELSE "ended"

AfterAnswer(e) == IF about[e].addressed THEN "asking" ELSE AfterGpt(e)

AfterTags(e, some) == IF some THEN "sending_tags" ELSE "finding"

AfterSave(e) ==
  CASE about[e].kind = "reply" -> "ended"
    [] about[e].command -> "helping"
    [] OTHER -> IF about[e].images > 0 THEN "tagging" ELSE "finding"

AfterCall(e) ==
  CASE pc[e] = "sending_tags" -> "finding"
    [] pc[e] = "answering" -> "recording"
    [] pc[e] = "telling" -> AfterGpt(e)
    [] pc[e] = "deleting" -> "caching"
    [] pc[e] = "uploading" -> "remembering"
    [] OTHER -> "ended"

-----------------------------------------------------------------------------
(* Calls of VK *)

Text(e) == CASE pc[e] = "helping" -> "help"
             [] pc[e] = "sending_tags" -> "tags"
             [] pc[e] = "answering" -> "answer"
             [] pc[e] = "telling" -> "gpt"
             [] pc[e] = "greeting" -> "greeting"

\* Mutant: each try of a call draws an id.
IdPerTry(e) == sends[e] + attempt[e]

\* send draws random_id, and with_retries begins then: a call has an id of its own,
\* which each of its tries carries.
RandomId(e) == sends[e]

\* What VK has when the call arrives: it takes a message with a known id as the
\* one it has.
Taken(e) ==
  IF pc[e] \in Sending
  THEN vk \cup {[event |-> e, run |-> tries[e], text |-> Text(e), id |-> RandomId(e)]}
  ELSE vk

\* The call at hand comes to its end.
CallEnds(e) ==
  /\ attempt' = [attempt EXCEPT ![e] = 0]
  /\ sends' = IF pc[e] \in Sending THEN [sends EXCEPT ![e] = @ + 1] ELSE sends

VkAnswers(e) ==
  /\ pc[e] \in Calling
  /\ vk' = Taken(e)
  /\ CallEnds(e)
  /\ Go(e, AfterCall(e))
  /\ UNCHANGED <<chatVars, about, tries, at, found, broken, dbVars>>

\* Mutant: the answer of the gpt is sent by a call of its own after a failure.
TellsAgain(e) == IF pc[e] = "telling" THEN Go(e, "telling") ELSE Raise(e)

\* An exception out of the call; the answer of the gpt is sent inside a try.
CallRaises(e) == IF pc[e] = "telling" THEN Go(e, AfterGpt(e)) ELSE Raise(e)

\* The call fails, which may be the loss of its answer; the last of MaxCalls
\* failures is raised, and ends the task if it says "Access denied".
VkFails(e) ==
  /\ pc[e] \in Calling
  /\ vk' \in {vk, Taken(e)}
  /\ IF attempt[e] < MaxCalls - 1
     THEN attempt' = [attempt EXCEPT ![e] = @ + 1] /\ UNCHANGED <<pc, sends>>
     ELSE /\ CallEnds(e)
          /\ CallRaises(e) \/ (pc[e] # "telling" /\ Go(e, "denied"))
  /\ UNCHANGED <<chatVars, about, tries, at, found, broken, dbVars>>

\* client_vk is None.
NoClient(e) ==
  /\ pc[e] \in Calling
  /\ attempt[e] = 0
  /\ CallRaises(e)
  /\ UNCHANGED <<chatVars, about, tries, runVars, vk, dbVars>>

-----------------------------------------------------------------------------
(* on_new_message and on_message_reply *)

Inserted(e) == stored' = [stored EXCEPT ![e] = @ + 1]

\* Mutant: a failure to save is rolled back.
SavesOrRollsBack(e) ==
  /\ pc[e] = "saving"
  /\ Inserted(e) \/ UNCHANGED stored
  /\ Go(e, AfterSave(e))
  /\ UNCHANGED <<chatVars, about, tries, runVars, vk, recorded, polls, bucket, cached>>

\* _save_vk_message swallows its failure, which leaves the session in a
\* transaction nobody rolls back.
SaveMessage(e) ==
  /\ pc[e] = "saving"
  /\ \/ Inserted(e) /\ UNCHANGED broken
     \/ broken' = [broken EXCEPT ![e] = TRUE] /\ UNCHANGED stored
  /\ Go(e, AfterSave(e))
  /\ UNCHANGED <<chatVars, about, tries, at, found, attempt, sends, vk, recorded, polls,
                 bucket, cached>>

\* get_image_tags reads a page: what it cannot find there is left out, so that any
\* picture may come back without tags and description.
ImageHasTags == BOOLEAN

\* Mutant: one picture too many.
TagOneMore(e) ==
  /\ pc[e] = "tagging"
  /\ \E tags \in ImageHasTags :
       LET some == found[e] \/ tags
           last == at[e] = about[e].images
       IN /\ found' = [found EXCEPT ![e] = some /\ ~last]
          /\ at' = [at EXCEPT ![e] = IF last THEN 0 ELSE @ + 1]
          /\ Go(e, IF last THEN AfterTags(e, some) ELSE "tagging")
  /\ UNCHANGED <<chatVars, about, tries, broken, attempt, sends, vk, dbVars>>

\* _parse_attachments_tags: one call of get_image_tags after the other.
TagPicture(e) ==
  /\ pc[e] = "tagging"
  /\ \E tags \in ImageHasTags :
       LET some == found[e] \/ tags
           last == at[e] + 1 = about[e].images
       IN /\ found' = [found EXCEPT ![e] = some /\ ~last]
          /\ at' = [at EXCEPT ![e] = IF last THEN 0 ELSE @ + 1]
          /\ Go(e, IF last THEN AfterTags(e, some) ELSE "tagging")
  /\ UNCHANGED <<chatVars, about, tries, broken, attempt, sends, vk, dbVars>>

\* get_for_like and get_by_vk_id, the first statements after the save.
FindTriggers(e) ==
  /\ pc[e] = "finding"
  /\ ~broken[e]
  /\ \E s \in {"answering", AfterAnswer(e)} : Go(e, s)
  /\ UNCHANGED <<chatVars, about, tries, runVars, vk, dbVars>>

\* Mutant: the answer is recorded, then sent.
RecordEarly(e) ==
  /\ pc[e] = "answering"
  /\ recorded' = recorded \cup {<<e, tries[e]>>}
  /\ UNCHANGED <<chatVars, taskVars, runVars, vk, stored, polls, bucket, cached>>

RecordAnswer(e) ==
  /\ pc[e] = "recording"
  /\ recorded' = recorded \cup {<<e, tries[e]>>}
  /\ Go(e, AfterAnswer(e))
  /\ UNCHANGED <<chatVars, about, tries, runVars, vk, stored, polls, bucket, cached>>

AskGpt(e) ==
  /\ pc[e] = "asking"
  /\ Ask(<<e, tries[e]>>)
  /\ Go(e, "waiting")
  /\ UNCHANGED <<about, tries, runVars, vk, dbVars>>

\* Without an answer the handler goes on.
GptEnds(e) ==
  /\ pc[e] = "waiting"
  /\ \/ call[<<e, tries[e]>>] = "answered" /\ Go(e, "telling")
     \/ call[<<e, tries[e]>>] = "failed" /\ Go(e, AfterGpt(e))
  /\ UNCHANGED <<chatVars, about, tries, runVars, vk, dbVars>>

Meme(e) == about[e].media[at[e] + 1]

\* A photo goes to the bucket, unless its download is refused or S3 declines.
StorePhoto(e) ==
  /\ pc[e] = "memes"
  /\ Meme(e) = "photo"
  /\ bucket' \in {bucket, bucket \cup {<<e, tries[e], at[e]>>}}
  /\ at' = [at EXCEPT ![e] = @ + 1]
  /\ Go(e, IF at[e] + 1 = Len(about[e].media) THEN "ended" ELSE "memes")
  /\ UNCHANGED <<chatVars, about, tries, found, broken, attempt, sends, vk, stored,
                 recorded, polls, cached>>

\* A video gets a row of table polls ...
CreatePollRow(e) ==
  /\ pc[e] = "memes"
  /\ Meme(e) = "video"
  /\ polls' = [polls EXCEPT ![e] = @ + 1]
  /\ Go(e, "polling")
  /\ UNCHANGED <<chatVars, about, tries, runVars, vk, stored, recorded, bucket, cached>>

\* ... but no poll, nor can one be looked up: _call_user is disabled and returns 1,
\* of which Polls.create and get_by_id can make no Poll.
NoPoll == {"polling", "voting"}

\* on_new_message after the row, on_poll_vote at its first await.
PollRaises(e) ==
  /\ pc[e] \in NoPoll
  /\ Raise(e)
  /\ UNCHANGED <<chatVars, about, tries, runVars, vk, dbVars>>

-----------------------------------------------------------------------------
(* help_callback *)

ReadCache(e) ==
  /\ pc[e] = "caching"
  /\ Go(e, IF cached THEN "greeting" ELSE "uploading")
  /\ UNCHANGED <<chatVars, about, tries, runVars, vk, dbVars>>

WriteCache(e) ==
  /\ pc[e] = "remembering"
  /\ cached' = TRUE
  /\ Go(e, "greeting")
  /\ UNCHANGED <<chatVars, about, tries, runVars, vk, stored, recorded, polls, bucket>>

-----------------------------------------------------------------------------

HandlerSteps(e) ==
  \/ SaveMessage(e) \/ TagPicture(e) \/ FindTriggers(e) \/ RecordAnswer(e)
  \/ AskGpt(e) \/ GptEnds(e) \/ StorePhoto(e) \/ CreatePollRow(e) \/ PollRaises(e)
  \/ ReadCache(e) \/ WriteCache(e)
  \/ VkAnswers(e) \/ VkFails(e) \/ NoClient(e) \/ HandlerRaises(e)
  \/ SaveTask(e)

\* The bot of Discord and the REST API ask in the names of their own users.
OthersAsk == \E a \in Asks \ (Events \X Runs) : Ask(a)

UtilsServiceSteps == (OthersAsk \/ ChatNext) /\ UNCHANGED <<taskVars, runVars, vk, dbVars>>

Next ==
  \/ \E e \in Events : Accept(e) \/ Begin(e) \/ WorkerCancelled(e) \/ HandlerSteps(e)
  \/ UtilsServiceSteps

Spec == Init /\ [][Next]_vars

-----------------------------------------------------------------------------
(* Properties *)

\* A message that was answered, discussed or kept as a meme is in vk_messages,
\* although the failure to save it is swallowed: the broken session stops the run
\* at its next statement, and each run saves again (handlers.py 314-332, 80).
\* Tags come before that statement and may be sent for a message nobody saved.
AnsweredIsSaved ==
  \A e \in Events :
    \/ \E x \in vk : x.event = e /\ x.text \in {"answer", "gpt"}
    \/ polls[e] > 0
    \/ \E b \in bucket : b[1] = e
    => stored[e] > 0

\* A run puts each of its texts before the user at most once, however often its
\* call of VK is repeated after a lost answer, and whatever steps it goes on to: no
\* text is sent by two calls (vk_client.py 19-30, 75-85, handlers.py 62-155).
OncePerRun ==
  \A x, y \in vk :
    x.event = y.event /\ x.run = y.run /\ x.text = y.text => x = y

\* The history of triggers names only answers that were sent, and all those of
\* runs that came to their end (handlers.py 87-103).
HistoryIsTrue ==
  \A e \in Events, r \in Runs :
    LET shown == \E x \in vk : x.event = e /\ x.run = r /\ x.text = "answer" IN
      /\ <<e, r>> \in recorded => shown
      /\ shown /\ pc[e] = "ended" /\ tries[e] = r => <<e, r>> \in recorded
=============================================================================
