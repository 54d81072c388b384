----------------------------- MODULE ChatHistory -----------------------------
(***************************************************************************)
(* What becomes of a gpt_chat call in the process of UtilsService: the      *)
(* question is committed, the conversation of the user is read, the model  *)
(* is asked with it, and its answer is committed before it is replied       *)
(* (GigachatClient.chat under UtilsService.on_gpt_chat).  Requests are      *)
(* handled concurrently, by one coroutine for each delivery.               *)
(*                                                                         *)
(* The RPC is what module RpcCall promises of it: a request may be          *)
(* delivered again, a call may end without its answer while the handler    *)
(* works on, and only the first reply counts.                              *)
(***************************************************************************)
EXTENDS Naturals, Sequences, FiniteSets

CONSTANTS Asks,         \* the calls of gpt_chat
          UserOf,       \* UserOf[a]: the user in whose name a is made
          MaxDeliver,   \* bound: deliveries of one request
          MaxHandled    \* bound: deliveries of all requests

ASSUME DeliverAssumption == MaxDeliver \in Nat \ {0} /\ MaxHandled \in Nat

VARIABLES
  chat,       \* table gigachat_messages, in the order of the commits
  job,        \* job[a][d]: on_gpt_chat for the d-th delivery of a
  payload,    \* payload[a][d]: the rows the model is asked with
  call,       \* call[a]: the call as its caller sees it
  told        \* told[a]: the delivery whose answer the caller got, or 0

chatVars == <<chat, job, payload, call, told>>

Deliveries == 1..MaxDeliver

Users == {UserOf[a] : a \in Asks}

\* A row says whose conversation it is in, who speaks, and for which delivery.
Rows == [user : Users, role : {"user", "assistant", "system"},
         ask : Asks, try : Deliveries]

Row(a, d, role) == [user |-> UserOf[a], role |-> role, ask |-> a, try |-> d]

ChatTypeOK ==
  /\ chat \in Seq(Rows)
  /\ job \in [Asks -> [Deliveries ->
       {"none", "asking", "reading", "thinking", "replying", "done"}]]
  /\ payload \in [Asks -> [Deliveries -> SUBSET Nat]]
  /\ call \in [Asks -> {"idle", "open", "answered", "failed"}]
  /\ told \in [Asks -> 0..MaxDeliver]

ChatInit ==
  /\ chat = <<>>
  /\ job = [a \in Asks |-> [d \in Deliveries |-> "none"]]
  /\ payload = [a \in Asks |-> [d \in Deliveries |-> {}]]
  /\ call = [a \in Asks |-> "idle"]
  /\ told = [a \in Asks |-> 0]

-----------------------------------------------------------------------------
(* The caller *)

\* UtilsClient.gpt_chat
Ask(a) ==
  /\ call[a] = "idle"
  /\ call' = [call EXCEPT ![a] = "open"]
  /\ UNCHANGED <<chat, job, payload, told>>

\* The 30 seconds are over, the channel is lost, or an error is replied: at once,
\* if the text is empty.
AskFails(a) ==
  /\ call[a] = "open"
  /\ call' = [call EXCEPT ![a] = "failed"]
  /\ UNCHANGED <<chat, job, payload, told>>

-----------------------------------------------------------------------------
(* on_gpt_chat *)

GoesTo(a, d, s) == job' = [job EXCEPT ![a][d] = s]

\* A delivery, or another one after the channel was lost.
Handle(a, d) ==
  /\ call[a] # "idle"
  /\ job[a][d] = "none"
  /\ d > 1 => job[a][d - 1] # "none"
  /\ Cardinality({h \in Asks \X Deliveries : job[h[1]][h[2]] # "none"}) < MaxHandled
  /\ GoesTo(a, d, "asking")
  /\ UNCHANGED <<chat, payload, call, told>>

Committed(a, d, role) == chat' = Append(chat, Row(a, d, role))

\* The question is committed before anything else is done with it.
QuestionCommits(a, d) ==
  /\ job[a][d] = "asking"
  /\ Committed(a, d, "user")
  /\ GoesTo(a, d, "reading")
  /\ UNCHANGED <<payload, call, told>>

\* get_by_user: the rows of one user, in no stated order.
RowsOf(u) == {i \in DOMAIN chat : chat[i].user = u}

\* Mutant: the question is not yet committed when the conversation is read.
ReadFirst(a, d) ==
  /\ job[a][d] = "asking"
  /\ payload' = [payload EXCEPT ![a][d] = RowsOf(UserOf[a])]
  /\ Committed(a, d, "user")
  /\ GoesTo(a, d, "thinking")
  /\ UNCHANGED <<call, told>>

\* _get_payload, in a session of its own; a conversation nobody has begun would
\* get its first row here.
GetPayload(a, d) ==
  /\ job[a][d] = "reading"
  /\ LET rows == RowsOf(UserOf[a]) IN
       IF rows # {}
       THEN payload' = [payload EXCEPT ![a][d] = rows] /\ UNCHANGED chat
       ELSE /\ Committed(a, d, "system")
            /\ payload' = [payload EXCEPT ![a][d] = {Len(chat) + 1}]
  /\ GoesTo(a, d, "thinking")
  /\ UNCHANGED <<call, told>>

\* Mutant: the answer is replied before it is committed.
AnswerFirst(a, d) ==
  /\ job[a][d] = "thinking"
  /\ GoesTo(a, d, "replying")
  /\ UNCHANGED <<chat, payload, call, told>>

\* achat has answered.
AnswerCommits(a, d) ==
  /\ job[a][d] = "thinking"
  /\ Committed(a, d, "assistant")
  /\ GoesTo(a, d, "replying")
  /\ UNCHANGED <<payload, call, told>>

\* ctx.success: the caller gets it if he still waits.
Reply(a, d) ==
  /\ job[a][d] = "replying"
  /\ GoesTo(a, d, "done")
  /\ IF call[a] = "open"
     THEN /\ call' = [call EXCEPT ![a] = "answered"]
          /\ told' = [told EXCEPT ![a] = d]
     ELSE UNCHANGED <<call, told>>
  /\ UNCHANGED <<chat, payload>>

\* Whatever raises, the handler logs it and returns without a reply.
HandlerGivesUp(a, d) ==
  /\ job[a][d] \in {"asking", "reading", "thinking", "replying"}
  /\ GoesTo(a, d, "done")
  /\ UNCHANGED <<chat, payload, call, told>>

ChatSteps(a, d) ==
  \/ Handle(a, d) \/ QuestionCommits(a, d) \/ GetPayload(a, d)
  \/ AnswerCommits(a, d) \/ Reply(a, d)
  \/ HandlerGivesUp(a, d)

ChatNext == \E a \in Asks : AskFails(a) \/ \E d \in Deliveries : ChatSteps(a, d)

-----------------------------------------------------------------------------
(* Properties *)

\* The model is asked with the question at hand and all that its user and the
\* model had said before it, and with nothing of another user: two requests of
\* one user, or two deliveries of one, cannot take rows from each other
\* (gigachat_client.py 53-63).
AskedInContext ==
  \A a \in Asks, d \in Deliveries :
    job[a][d] = "thinking" =>
      /\ \A i \in payload[a][d] : chat[i].user = UserOf[a]
      /\ \E q \in payload[a][d] :
           /\ chat[q] = Row(a, d, "user")
           /\ \A i \in 1..q : chat[i].user = UserOf[a] => i \in payload[a][d]

\* What a caller was told is in the conversation, after its question: the model
\* will know it the next time, also if the call was delivered twice or the first
\* answer came too late (gigachat_client.py 61-64, service.py 66-75).
ToldIsKept ==
  \A a \in Asks :
    told[a] # 0 =>
      \E i, j \in DOMAIN chat :
        /\ i < j
        /\ chat[i] = Row(a, told[a], "user")
        /\ chat[j] = Row(a, told[a], "assistant")

\* The conversation of a user is one that could have been had: the model answers what
\* it was asked, in its context, and what it has answered stands.
ConversationHolds == AskedInContext /\ ToldIsKept
=============================================================================
