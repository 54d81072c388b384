-------------------------- MODULE AsyncTask_proofs --------------------------
(***************************************************************************)
(* Proofs about AsyncTask, for any number of calls, any prefetch and any   *)
(* number of deliveries, with every fault.                                 *)
(***************************************************************************)
EXTENDS AsyncTask, TLAPS

(***************************************************************************)
(* The type invariant.                                                     *)
(***************************************************************************)
LEMMA InitTypeOK == Init => TypeOK
<1> SUFFICES ASSUME Init
             PROVE  TypeOK
  OBVIOUS
<1>1. mail \in [Calls -> Seq(ReplyTypes)]
  <2>1. <<>> \in Seq(ReplyTypes)
    OBVIOUS
  <2>2. QED
    BY <2>1 DEF Init
<1>2. job \in [Calls -> [Deliveries -> Running \cup {"none", "done"}]]
  BY DEF Init
<1>3. /\ replied \in [Calls -> [Deliveries -> BOOLEAN]]
      /\ sent \in [Calls -> [Deliveries -> Nat]]
      /\ deliv \in [Calls -> 0..MaxDeliver]
  BY BoundsAssumption DEF Init
<1>4. QED
  BY <1>1, <1>2, <1>3 DEF Init, TypeOK

LEMMA CompleteType ==
  ASSUME TypeOK, NEW S, NEW f \in Completions, Complete(S, f)
  PROVE  fut' \in [Calls -> Completions \cup {"pending"}]
  BY DEF Complete, TypeOK

LEMMA EndedType ==
  ASSUME TypeOK, NEW c \in Calls, NEW e \in Ends, Ended(c, e)
  PROVE  /\ cpc' \in [Calls -> {"idle", "publishing", "confirming", "waiting", "done"}]
         /\ end' \in [Calls -> Ends \cup {"none"}]
  BY DEF Ended, TypeOK

LEMMA StageType ==
  ASSUME TypeOK, NEW c \in Calls, NEW d \in Deliveries,
         NEW s \in Running \cup {"none", "done"}, Stage(c, d, s)
  PROVE  job' \in [Calls -> [Deliveries -> Running \cup {"none", "done"}]]
  BY DEF Stage, TypeOK

LEMMA PostType ==
  ASSUME TypeOK, NEW c \in Calls, NEW d \in Deliveries,
         NEW t \in ReplyTypes, Post(c, d, t)
  PROVE  /\ mail' \in [Calls -> Seq(ReplyTypes)]
         /\ sent' \in [Calls -> [Deliveries -> Nat]]
<1>1. mail[c] \in Seq(ReplyTypes) /\ Append(mail[c], t) \in Seq(ReplyTypes)
  BY DEF TypeOK
<1>2. mail' \in [Calls -> Seq(ReplyTypes)]
  BY <1>1 DEF Post, TypeOK
<1>3. sent[c] \in [Deliveries -> Nat] /\ sent[c][d] + 1 \in Nat
  BY DEF TypeOK
<1>4. sent' \in [Calls -> [Deliveries -> Nat]]
  BY <1>3 DEF Post, TypeOK
<1>5. QED
  BY <1>2, <1>4

LEMMA MeaningType ==
  ASSUME NEW t, NEW f \in Meaning(t)
  PROVE  f \in Completions /\ (f = "result" => t = "SUCCESS")
  BY DEF Meaning, Completions

LEMMA CallerTypeOK ==
  ASSUME TypeOK, NEW c \in Calls, ClientSteps(c)
  PROVE  TypeOK'
<1>1. CASE Call(c)
  <2>1. /\ tasks' \subseteq Calls
        /\ cpc' \in [Calls -> {"idle", "publishing", "confirming", "waiting", "done"}]
        /\ end' \in [Calls -> Ends \cup {"none"}]
    BY <1>1 DEF Call, Ended, Ends, TypeOK
  <2>2. QED
    BY <1>1, <2>1 DEF Call, TypeOK, brokerVars, workerVars
<1>2. CASE Route(c) \/ Confirm(c)
  <2>1. cpc' \in [Calls -> {"idle", "publishing", "confirming", "waiting", "done"}]
    BY <1>2 DEF Route, Confirm, TypeOK
  <2>2. ready' \subseteq Calls /\ returned' \subseteq Calls
    BY <1>2 DEF Route, Confirm, TypeOK, brokerVars
  <2>3. QED
    BY <1>2, <2>1, <2>2 DEF Route, Confirm, TypeOK, brokerVars, workerVars
<1>3. CASE PublishFails(c) \/ Resume(c)
  <2>1. \E e \in Ends : Ended(c, e)
    BY <1>3 DEF PublishFails, Resume, Ends, TypeOK
  <2>2. QED
    BY <1>3, <2>1, EndedType DEF PublishFails, Resume, TypeOK, brokerVars, workerVars
<1>4. CASE Timeout(c) \/ CallerCancelled(c)
  <2>1. \E e \in Ends : Ended(c, e)
    BY <1>4 DEF Timeout, CallerCancelled, Ends, Completions
  <2>2. fut' \in [Calls -> Completions \cup {"pending"}]
    <3>1. "cancelled" \in Completions
      BY DEF Completions
    <3>2. Complete({c}, "cancelled") \/ fut' = fut
      BY <1>4 DEF Timeout, CallerCancelled
    <3>3. QED
      BY <3>1, <3>2, CompleteType DEF TypeOK
  <2>3. QED
    BY <1>4, <2>1, <2>2, EndedType
       DEF Timeout, CallerCancelled, TypeOK, brokerVars, workerVars
<1>5. CASE OnMessage(c)
  <2>1. fut' \in [Calls -> Completions \cup {"pending"}]
    BY <1>5, MeaningType, CompleteType DEF OnMessage, TypeOK
  <2>2. mail' \in [Calls -> Seq(ReplyTypes)]
    <3>1. mail[c] \in Seq(ReplyTypes) /\ mail[c] # <<>>
      BY <1>5 DEF OnMessage, TypeOK
    <3>2. Tail(mail[c]) \in Seq(ReplyTypes)
      BY <3>1
    <3>3. QED
      BY <1>5, <3>2 DEF OnMessage, TypeOK
  <2>3. QED
    BY <1>5, <2>1, <2>2 DEF OnMessage, TypeOK, brokerVars, workerVars
<1>6. CASE OnMessageReturned(c)
  <2>1. fut' \in [Calls -> Completions \cup {"pending"}]
    BY <1>6, CompleteType DEF OnMessageReturned, Completions
  <2>2. QED
    BY <1>6, <2>1 DEF OnMessageReturned, TypeOK, workerVars
<1>7. QED
  BY <1>1, <1>2, <1>3, <1>4, <1>5, <1>6 DEF ClientSteps

LEMMA ClientTypeOK ==
  ASSUME TypeOK, ClientClose \/ ClientChannelLost
  PROVE  TypeOK'
<1>1. fut' \in [Calls -> Completions \cup {"pending"}]
  BY CompleteType DEF ClientClose, CloseCancels, CloseDrains, CloseEnds,
                      ClientChannelLost, Completions, TypeOK
<1>2. mail' \in [Calls -> Seq(ReplyTypes)]
  <2>1. mail' = mail \/ mail' = [c \in Calls |-> <<>>]
    BY DEF ClientClose, CloseCancels, CloseDrains, CloseEnds, ClientChannelLost
  <2>2. <<>> \in Seq(ReplyTypes)
    OBVIOUS
  <2>3. QED
    BY <2>1, <2>2 DEF TypeOK
<1>3. QED
  BY <1>1, <1>2 DEF ClientClose, CloseCancels, CloseDrains, CloseEnds,
                    ClientChannelLost, TypeOK, brokerVars, workerVars

LEMMA JobTypeOK ==
  ASSUME TypeOK, NEW c \in Calls, NEW d \in Deliveries, JobSteps(c, d)
  PROVE  TypeOK'
<1>1. job' \in [Calls -> [Deliveries -> Running \cup {"none", "done"}]]
  <2>1. \E s \in Running \cup {"none", "done"} : Stage(c, d, s)
    BY DEF JobSteps, Reject, Handle, HandlerReplies, HandlerReplied, HandlerReturns,
           HandlerRaises, FailureReplied, FailureReplyFails, Ack, Running, Publishing,
           Failing
  <2>2. QED
    BY <2>1, StageType
<1>2. CASE HandlerReplied(c, d) \/ FailureReplied(c, d)
  <2>1. \E t \in ReplyTypes : Post(c, d, t)
    BY <1>2 DEF HandlerReplied, FailureReplied, ReplyTypes
  <2>2. /\ mail' \in [Calls -> Seq(ReplyTypes)]
        /\ sent' \in [Calls -> [Deliveries -> Nat]]
    BY <2>1, PostType
  <2>3. QED
    BY <1>1, <1>2, <2>2 DEF HandlerReplied, FailureReplied, TypeOK, clientVars,
                            brokerVars
<1>3. CASE HandlerReplies(c, d)
  <2>1. replied' \in [Calls -> [Deliveries -> BOOLEAN]] /\ worked' \subseteq Calls
    BY <1>3 DEF HandlerReplies, TypeOK
  <2>2. QED
    BY <1>1, <1>3, <2>1 DEF HandlerReplies, TypeOK, clientVars, brokerVars
<1>4. CASE Reject(c, d) \/ Ack(c, d)
  BY <1>1, <1>4 DEF Reject, Ack, TypeOK, clientVars
<1>5. CASE \/ Handle(c, d) \/ HandlerReturns(c, d) \/ HandlerRaises(c, d)
           \/ FailureReplyFails(c, d)
  BY <1>1, <1>5 DEF Handle, HandlerReturns, HandlerRaises, FailureReplyFails, TypeOK,
                    clientVars, brokerVars
<1>6. QED
  BY <1>2, <1>3, <1>4, <1>5 DEF JobSteps

LEMMA WorkerTypeOK ==
  ASSUME TypeOK, WorkerLife
  PROVE  TypeOK'
<1>1. CASE WorkerCrash
  <2>1. job' \in [Calls -> [Deliveries -> Running \cup {"none", "done"}]]
    BY <1>1 DEF WorkerCrash, TypeOK
  <2>2. QED
    BY <1>1, <2>1 DEF WorkerCrash, Requeue, TypeOK, clientVars
<1>2. CASE WorkerInit \/ Register
  BY <1>2 DEF WorkerInit, Register, TypeOK, clientVars, brokerVars
<1>3. CASE \/ WorkerChannelLost \/ WorkerCloseBegins \/ WorkerCloseForgets
           \/ WorkerCloseEnds
  BY <1>3 DEF WorkerChannelLost, WorkerCloseBegins, WorkerCloseForgets,
              WorkerCloseEnds, Requeue, TypeOK, clientVars, brokerVars, workerVars
<1>4. QED
  BY <1>1, <1>2, <1>3 DEF WorkerLife

LEMMA BrokerTypeOK ==
  ASSUME TypeOK, NEW c \in Calls, Deliver(c) \/ Expire(c)
  PROVE  TypeOK'
<1>1. CASE Deliver(c)
  <2>1. /\ deliv[c] \in 0..MaxDeliver /\ deliv[c] < MaxDeliver
        /\ deliv[c] + 1 \in Deliveries /\ deliv[c] + 1 \in 0..MaxDeliver
    BY <1>1, BoundsAssumption DEF Deliver, TypeOK, Deliveries
  <2>2. job' \in [Calls -> [Deliveries -> Running \cup {"none", "done"}]]
    BY <1>1, <2>1, StageType DEF Deliver, Running
  <2>3. deliv' \in [Calls -> 0..MaxDeliver]
    BY <1>1, <2>1 DEF Deliver, TypeOK
  <2>4. QED
    BY <1>1, <2>2, <2>3 DEF Deliver, TypeOK, clientVars
<1>2. CASE Expire(c)
  BY <1>2 DEF Expire, TypeOK, clientVars, workerVars
<1>3. QED
  BY <1>1, <1>2

LEMMA NextTypeOK ==
  ASSUME TypeOK, [Next]_vars
  PROVE  TypeOK'
<1>1. CASE UNCHANGED vars
  BY <1>1 DEF vars, clientVars, brokerVars, workerVars, TypeOK
<1>2. QED
  BY <1>1, CallerTypeOK, ClientTypeOK, JobTypeOK, WorkerTypeOK, BrokerTypeOK DEF Next

\* The states of client, broker and worker are what their declarations say.
THEOREM TypeCorrect == Spec => []TypeOK
  BY InitTypeOK, NextTypeOK, PTL DEF Spec

(***************************************************************************)
(* A result comes from a success.  Its way is followed backwards: from what *)
(* the call returned to the future, the queue of the client, the handler.  *)
(***************************************************************************)
FutureWorked == \A c \in Calls : fut[c] = "result" => c \in worked
MailWorked == \A c \in Calls :
                \A i \in DOMAIN mail[c] : mail[c][i] = "SUCCESS" => c \in worked
JobWorked == \A c \in Calls, d \in Deliveries :
               job[c][d] = "replying_SUCCESS" => c \in worked

SuccessInv == ResultMeansWorked /\ FutureWorked /\ MailWorked /\ JobWorked

\* Whatever a future is completed with but a result.
LEMMA FailureCompletes ==
  ASSUME TypeOK, SuccessInv, NEW S, NEW f, f # "result", Complete(S, f),
         worked' = worked
  PROVE  FutureWorked'
  BY DEF Complete, TypeOK, SuccessInv, FutureWorked

LEMMA StageKeeps ==
  ASSUME TypeOK, SuccessInv, NEW c \in Calls, NEW d \in Deliveries,
         NEW s, Stage(c, d, s), s = "replying_SUCCESS" => c \in worked',
         worked \subseteq worked'
  PROVE  JobWorked'
<1> SUFFICES ASSUME NEW b \in Calls, NEW e \in Deliveries,
                    job'[b][e] = "replying_SUCCESS"
             PROVE  b \in worked'
  BY DEF JobWorked
<1>1. job' = [job EXCEPT ![c][d] = s] /\ job \in [Calls -> [Deliveries -> Running \cup {"none", "done"}]]
  BY DEF Stage, TypeOK
<1>2. CASE b = c /\ e = d
  BY <1>1, <1>2
<1>3. CASE ~(b = c /\ e = d)
  <2>1. job'[b][e] = job[b][e]
    BY <1>1, <1>3
  <2>2. QED
    BY <2>1 DEF SuccessInv, JobWorked
<1>4. QED
  BY <1>2, <1>3

LEMMA PostKeeps ==
  ASSUME TypeOK, SuccessInv, NEW c \in Calls, NEW d \in Deliveries,
         NEW t \in ReplyTypes, Post(c, d, t), t = "SUCCESS" => c \in worked,
         worked' = worked
  PROVE  MailWorked'
<1>1. CASE mail' = mail
  BY <1>1 DEF SuccessInv, MailWorked
<1>2. CASE mail' = [mail EXCEPT ![c] = Append(mail[c], t)]
  <2>1. mail \in [Calls -> Seq(ReplyTypes)] /\ mail[c] \in Seq(ReplyTypes)
    BY DEF TypeOK
  <2>2. \A i \in DOMAIN Append(mail[c], t) :
          \/ i \in DOMAIN mail[c] /\ Append(mail[c], t)[i] = mail[c][i]
          \/ Append(mail[c], t)[i] = t
    BY <2>1
  <2>3. QED
    BY <1>2, <2>1, <2>2 DEF SuccessInv, MailWorked
<1>3. QED
  BY <1>1, <1>2 DEF Post

LEMMA SuccessStep ==
  ASSUME TypeOK, SuccessInv, [Next]_vars
  PROVE  SuccessInv'
<1> USE DEF SuccessInv
<1>0. ASSUME UNCHANGED <<fut, end, mail, job, worked>>
      PROVE  SuccessInv'
  BY <1>0 DEF ResultMeansWorked, FutureWorked, MailWorked, JobWorked
<1>1. ASSUME NEW c \in Calls, ClientSteps(c)
      PROVE  SuccessInv'
  <2>1. worked' = worked /\ job' = job /\ JobWorked'
    BY <1>1 DEF ClientSteps, Call, Route, Confirm, PublishFails, Resume, Timeout,
                CallerCancelled, OnMessage, OnMessageReturned, workerVars, JobWorked
  <2>2. CASE OnMessage(c)
    <3>1. mail[c] \in Seq(ReplyTypes) /\ mail[c] # <<>>
      BY <2>2 DEF OnMessage, TypeOK
    <3>2. 1 \in DOMAIN mail[c] /\ Head(mail[c]) = mail[c][1]
      BY <3>1
    <3>3. \A i \in DOMAIN Tail(mail[c]) :
            i + 1 \in DOMAIN mail[c] /\ Tail(mail[c])[i] = mail[c][i + 1]
      BY <3>1
    <3>4. MailWorked'
      BY <2>1, <2>2, <3>3 DEF OnMessage, MailWorked, TypeOK
    <3>5. FutureWorked'
      <4>1. CASE c \notin tasks
        BY <2>1, <2>2, <4>1 DEF OnMessage, FutureWorked
      <4>2. CASE c \in tasks
        <5>1. PICK f \in Meaning(Head(mail[c])) : Complete({c}, f)
          BY <2>2, <4>2 DEF OnMessage
        <5>2. f = "result" => c \in worked
          BY <3>2, <5>1, MeaningType DEF MailWorked
        <5>3. QED
          BY <2>1, <5>1, <5>2 DEF Complete, FutureWorked, TypeOK
      <4>3. QED
        BY <4>1, <4>2
    <3>6. QED
      BY <2>1, <2>2, <3>4, <3>5 DEF OnMessage, ResultMeansWorked
  <2>3. CASE Resume(c)
    BY <2>1, <2>3 DEF Resume, Ended, TypeOK, ResultMeansWorked, FutureWorked, MailWorked
  <2>4. CASE Call(c) \/ PublishFails(c) \/ Route(c) \/ Confirm(c)
    BY <2>1, <2>4 DEF Call, PublishFails, Route, Confirm, Ended, TypeOK,
                      ResultMeansWorked, FutureWorked, MailWorked
  <2>5. CASE Timeout(c) \/ CallerCancelled(c) \/ OnMessageReturned(c)
    <3>1. FutureWorked'
      BY <2>1, <2>5, FailureCompletes DEF Timeout, CallerCancelled, OnMessageReturned,
                                          FutureWorked
    <3>2. QED
      BY <2>1, <2>5, <3>1 DEF Timeout, CallerCancelled, OnMessageReturned, Ended,
                              TypeOK, ResultMeansWorked, MailWorked
  <2>6. QED
    BY <1>1, <2>2, <2>3, <2>4, <2>5 DEF ClientSteps
<1>2. CASE ClientClose \/ ClientChannelLost
  <2>1. worked' = worked /\ job' = job /\ end' = end
    BY <1>2 DEF ClientClose, CloseCancels, CloseDrains, CloseEnds, ClientChannelLost,
                workerVars
  <2>2. FutureWorked'
    BY <1>2, <2>1, FailureCompletes DEF ClientClose, CloseCancels, CloseDrains,
                                       CloseEnds, ClientChannelLost, FutureWorked
  <2>3. MailWorked'
    <3>1. mail' = mail \/ mail' = [c \in Calls |-> <<>>]
      BY <1>2 DEF ClientClose, CloseCancels, CloseDrains, CloseEnds, ClientChannelLost
    <3>2. QED
      BY <2>1, <3>1 DEF MailWorked
  <2>4. QED
    BY <2>1, <2>2, <2>3 DEF ResultMeansWorked, JobWorked
<1>3. ASSUME NEW c \in Calls, NEW d \in Deliveries, JobSteps(c, d)
      PROVE  SuccessInv'
  <2>1. fut' = fut /\ end' = end /\ worked \subseteq worked'
    BY <1>3 DEF JobSteps, Reject, Handle, HandlerReplies, HandlerReplied, HandlerReturns,
                HandlerRaises, FailureReplied, FailureReplyFails, Ack, clientVars
  <2>2. ResultMeansWorked' /\ FutureWorked'
    BY <2>1 DEF ResultMeansWorked, FutureWorked
  <2>3. JobWorked'
    <3>1. CASE HandlerReplies(c, d)
      <4>1. \/ Stage(c, d, "replying_SUCCESS") /\ c \in worked'
            \/ Stage(c, d, "replying_FAILURE")
        BY <3>1 DEF HandlerReplies
      <4>2. QED
        BY <2>1, <4>1, StageKeeps
    <3>2. CASE Handle(c, d)
      <4>1. PICK s \in {"no_handler", "handling", "raised"} : Stage(c, d, s)
        BY <3>2 DEF Handle
      <4>2. QED
        BY <2>1, <4>1, StageKeeps
    <3>3. CASE FailureReplyFails(c, d)
      <4>1. PICK s \in {"raised", "acking"} : Stage(c, d, s)
        BY <3>3 DEF FailureReplyFails
      <4>2. QED
        BY <2>1, <4>1, StageKeeps
    <3>4. CASE \/ Reject(c, d) \/ HandlerReplied(c, d) \/ HandlerReturns(c, d)
               \/ HandlerRaises(c, d) \/ FailureReplied(c, d) \/ Ack(c, d)
      BY <2>1, <3>4, StageKeeps DEF Reject, HandlerReplied, HandlerReturns,
                                    HandlerRaises, FailureReplied, Ack
    <3>5. QED
      BY <1>3, <3>1, <3>2, <3>3, <3>4 DEF JobSteps
  <2>4. CASE HandlerReplied(c, d)
    <3>1. job[c][d] = "replying_SUCCESS" => c \in worked
      BY DEF JobWorked
    <3>2. MailWorked'
      BY <2>4, <3>1, PostKeeps DEF HandlerReplied, ReplyTypes
    <3>3. QED
      BY <2>2, <2>3, <3>2
  <2>5. CASE FailureReplied(c, d)
    BY <2>2, <2>3, <2>5, PostKeeps DEF FailureReplied, ReplyTypes
  <2>6. CASE mail' = mail
    BY <2>1, <2>2, <2>3, <2>6 DEF MailWorked
  <2>7. QED
    BY <1>3, <2>4, <2>5, <2>6
       DEF JobSteps, Reject, Handle, HandlerReplies, HandlerReturns, HandlerRaises,
           FailureReplyFails, Ack
<1>4. CASE WorkerLife
  <2>1. CASE WorkerCrash
    <3>1. UNCHANGED <<fut, end, mail, worked>>
      BY <2>1 DEF WorkerCrash, clientVars
    <3>2. JobWorked'
      BY <2>1, <3>1 DEF WorkerCrash, JobWorked
    <3>3. QED
      BY <3>1, <3>2 DEF ResultMeansWorked, FutureWorked, MailWorked
  <2>2. CASE ~WorkerCrash
    <3>1. UNCHANGED <<fut, end, mail, job, worked>>
      BY <1>4, <2>2
         DEF WorkerLife, WorkerInit, Register, WorkerChannelLost, WorkerCloseBegins,
             WorkerCloseForgets, WorkerCloseEnds, clientVars, workerVars
    <3>2. QED
      BY <1>0, <3>1
  <2>3. QED
    BY <2>1, <2>2
<1>5. ASSUME NEW c \in Calls, Deliver(c)
      PROVE  SuccessInv'
  <2>1. deliv[c] + 1 \in Deliveries
    BY <1>5, BoundsAssumption DEF Deliver, TypeOK, Deliveries
  <2>2. JobWorked'
    <3>1. PICK d \in Deliveries : Stage(c, d, "got") /\ worked' = worked
      BY <1>5, <2>1 DEF Deliver
    <3>2. QED
      BY <3>1, StageKeeps
  <2>3. QED
    BY <1>5, <2>2 DEF Deliver, clientVars, ResultMeansWorked, FutureWorked, MailWorked
<1>6. ASSUME NEW c \in Calls, Expire(c)
      PROVE  SuccessInv'
  BY <1>0, <1>6 DEF Expire, clientVars, workerVars
<1>7. CASE UNCHANGED vars
  BY <1>0, <1>7 DEF vars, clientVars, workerVars
<1>8. QED
  BY <1>1, <1>2, <1>3, <1>4, <1>5, <1>6, <1>7 DEF Next

LEMMA SuccessInvariant == Spec => []SuccessInv
<1>1. Init => SuccessInv
  BY DEF Init, SuccessInv, ResultMeansWorked, FutureWorked, MailWorked, JobWorked
<1>2. TypeOK /\ SuccessInv /\ [Next]_vars => SuccessInv'
  BY SuccessStep
<1>3. QED
  BY <1>1, <1>2, TypeCorrect, PTL DEF Spec

\* A caller is never handed a result that no handler of its call has given,
\* whatever is redelivered, returned, late or lost.
THEOREM ResultIsEarned == Spec => []ResultMeansWorked
  BY SuccessInvariant, PTL DEF SuccessInv

(***************************************************************************)
(* The refinement of RpcCall.                                              *)
(***************************************************************************)
\* Nothing is on its way for a call that has not begun.
BegunInv ==
  /\ \A c \in ready \cup returned \cup unacked : cpc[c] # "idle"
  /\ \A c \in Calls, d \in Deliveries : job[c][d] # "none" => cpc[c] # "idle"

\* A call that has begun stays so, and only its own steps move it.
LEMMA CallsGoOn ==
  ASSUME TypeOK, [Next]_vars
  PROVE  \A c \in Calls : cpc[c] # "idle" => cpc'[c] # "idle"
<1>1. ASSUME NEW c \in Calls, ClientSteps(c)
      PROVE  cpc' = cpc \/ \E x \in {"publishing", "confirming", "waiting", "done"} :
                             cpc' = [cpc EXCEPT ![c] = x]
  BY <1>1 DEF ClientSteps, Call, Ended, Route, Confirm, PublishFails, Resume, Timeout,
              CallerCancelled, OnMessage, OnMessageReturned
<1>2. CASE \E c \in Calls : ClientSteps(c)
  BY <1>1, <1>2 DEF TypeOK
<1>3. CASE ClientClose \/ ClientChannelLost
  BY <1>3 DEF ClientClose, CloseCancels, CloseDrains, CloseEnds, ClientChannelLost
<1>4. ASSUME NEW c \in Calls, NEW d \in Deliveries, JobSteps(c, d)
      PROVE  cpc' = cpc
  BY <1>4 DEF JobSteps, Reject, Handle, HandlerReplies, HandlerReplied, HandlerReturns,
              HandlerRaises, FailureReplied, FailureReplyFails, Ack, clientVars
<1>5. CASE WorkerLife
  BY <1>5 DEF WorkerLife, WorkerInit, Register, WorkerChannelLost, WorkerCrash,
              WorkerCloseBegins, WorkerCloseForgets, WorkerCloseEnds, clientVars
<1>6. CASE \/ \E c \in Calls : Deliver(c) \/ Expire(c)
           \/ UNCHANGED vars
  BY <1>6 DEF Deliver, Expire, vars, clientVars
<1>7. QED
  BY <1>2, <1>3, <1>4, <1>5, <1>6 DEF Next

LEMMA BegunStep ==
  ASSUME TypeOK, BegunInv, [Next]_vars
  PROVE  BegunInv'
<1> DEFINE OnItsWay == ready \cup returned \cup unacked
           Begun == \A c \in Calls : cpc[c] # "idle" => cpc'[c] # "idle"
<1>0. Begun
  BY CallsGoOn
<1>1. OnItsWay \subseteq Calls
  BY DEF TypeOK
<1>2. ASSUME OnItsWay' \subseteq OnItsWay, job' = job
      PROVE  BegunInv'
  BY <1>0, <1>1, <1>2 DEF BegunInv
<1>3. ASSUME NEW c \in Calls, ClientSteps(c)
      PROVE  BegunInv'
  <2>1. job' = job
    BY <1>3 DEF ClientSteps, Call, Route, Confirm, PublishFails, Resume, Timeout,
                CallerCancelled, OnMessage, OnMessageReturned, workerVars
  <2>2. CASE Route(c)
    <3>1. cpc[c] # "idle" /\ OnItsWay' \subseteq OnItsWay \cup {c}
      BY <2>2 DEF Route
    <3>2. QED
      BY <1>0, <1>1, <2>1, <3>1 DEF BegunInv
  <2>3. CASE ~Route(c)
    <3>1. OnItsWay' \subseteq OnItsWay
      BY <1>3, <2>3 DEF ClientSteps, Call, Confirm, PublishFails, Resume, Timeout,
                        CallerCancelled, OnMessage, OnMessageReturned, brokerVars
    <3>2. QED
      BY <1>2, <2>1, <3>1
  <2>4. QED
    BY <2>2, <2>3
<1>4. CASE ClientClose \/ ClientChannelLost
  <2>1. job' = job /\ OnItsWay' \subseteq OnItsWay
    BY <1>4 DEF ClientClose, CloseCancels, CloseDrains, CloseEnds, ClientChannelLost,
                brokerVars, workerVars
  <2>2. QED
    BY <1>2, <2>1
<1>5. ASSUME NEW c \in Calls, NEW d \in Deliveries, NEW s, Stage(c, d, s),
             cpc[c] # "idle", OnItsWay' \subseteq OnItsWay \cup {c}
      PROVE  BegunInv'
  <2>1. job' = [job EXCEPT ![c][d] = s]
        /\ job \in [Calls -> [Deliveries -> Running \cup {"none", "done"}]]
    BY <1>5 DEF Stage, TypeOK
  <2>2. \A b \in Calls, e \in Deliveries : b # c => job'[b][e] = job[b][e]
    BY <2>1
  <2>3. QED
    BY <1>0, <1>1, <1>5, <2>2 DEF BegunInv
<1>6. ASSUME NEW c \in Calls, NEW d \in Deliveries, JobSteps(c, d)
      PROVE  BegunInv'
  <2>1. \E s : Stage(c, d, s)
    BY <1>6 DEF JobSteps, Reject, Handle, HandlerReplies, HandlerReplied,
                HandlerReturns, HandlerRaises, FailureReplied, FailureReplyFails, Ack
  <2>2. job[c][d] # "none"
    BY <1>6 DEF JobSteps, Reject, Handle, HandlerReplies, HandlerReplied,
                HandlerReturns, HandlerRaises, FailureReplied, FailureReplyFails, Ack,
                Publishing, Failing
  <2>3. OnItsWay' \subseteq OnItsWay \cup {c}
    BY <1>6 DEF JobSteps, Reject, Handle, HandlerReplies, HandlerReplied,
                HandlerReturns, HandlerRaises, FailureReplied, FailureReplyFails, Ack,
                brokerVars
  <2>4. cpc[c] # "idle"
    BY <2>2 DEF BegunInv
  <2>5. QED
    BY <1>5, <2>1, <2>3, <2>4
<1>7. ASSUME NEW c \in Calls, Deliver(c)
      PROVE  BegunInv'
  <2>1. /\ cpc[c] # "idle" /\ OnItsWay' \subseteq OnItsWay \cup {c}
        /\ deliv[c] + 1 \in Deliveries
    BY <1>7, BoundsAssumption DEF Deliver, BegunInv, TypeOK, Deliveries
  <2>2. PICK d \in Deliveries : Stage(c, d, "got")
    BY <1>7, <2>1 DEF Deliver
  <2>3. QED
    BY <1>5, <2>1, <2>2
<1>8. CASE WorkerLife
  <2>1. OnItsWay' \subseteq OnItsWay
    BY <1>8 DEF WorkerLife, WorkerInit, Register, WorkerChannelLost, WorkerCrash,
                WorkerCloseBegins, WorkerCloseForgets, WorkerCloseEnds, Requeue,
                brokerVars
  <2>2. CASE WorkerCrash
    <3>1. \A c \in Calls, d \in Deliveries :
            job'[c][d] # "none" => job[c][d] # "none"
      BY <2>2 DEF WorkerCrash, Running, Publishing, Failing
    <3>2. QED
      BY <1>0, <1>1, <2>1, <3>1 DEF BegunInv
  <2>3. CASE ~WorkerCrash
    <3>1. job' = job
      BY <1>8, <2>3 DEF WorkerLife, WorkerInit, Register, WorkerChannelLost,
                        WorkerCloseBegins, WorkerCloseForgets, WorkerCloseEnds,
                        workerVars
    <3>2. QED
      BY <1>2, <2>1, <3>1
  <2>4. QED
    BY <2>2, <2>3
<1>9. CASE \/ \E c \in Calls : Expire(c)
           \/ UNCHANGED vars
  BY <1>2, <1>9 DEF Expire, vars, workerVars, brokerVars
<1>10. QED
  BY <1>3, <1>4, <1>6, <1>7, <1>8, <1>9 DEF Next

LEMMA BegunInvariant == Spec => []BegunInv
<1>1. Init => BegunInv
  BY DEF Init, BegunInv
<1>2. TypeOK /\ BegunInv /\ [Next]_vars => BegunInv'
  BY BegunStep
<1>3. QED
  BY <1>1, <1>2, TypeCorrect, PTL DEF Spec

\* The variables of RpcCall, as AsyncTask keeps them.
LEMMA SameCalls ==
  ASSUME UNCHANGED <<cpc, end, worked>>
  PROVE  UNCHANGED RC!vars
  BY DEF RC!vars, Phase, AbstractEnd

LEMMA EndRefines ==
  ASSUME TypeOK, NEW c \in Calls, NEW e \in Ends, Ended(c, e), worked' = worked,
         cpc[c] # "done", e = "result" => c \in worked
  PROVE  RC!Next
<1> DEFINE r == IF e = "result" THEN "result" ELSE "failure"
<1>1. /\ cpc' = [cpc EXCEPT ![c] = "done"] /\ end' = [end EXCEPT ![c] = e]
      /\ cpc \in [Calls -> {"idle", "publishing", "confirming", "waiting", "done"}]
      /\ end \in [Calls -> Ends \cup {"none"}]
      /\ e # "none"
  BY DEF Ended, TypeOK, Ends, Completions
<1>2. [b \in Calls |-> Phase(b)]' = [[b \in Calls |-> Phase(b)] EXCEPT ![c] = "ended"]
  BY <1>1 DEF Phase
<1>3. [b \in Calls |-> AbstractEnd(b)]' = [[b \in Calls |-> AbstractEnd(b)] EXCEPT ![c] = r]
  BY <1>1 DEF AbstractEnd
<1>4. Phase(c) # "ended"
  BY DEF Phase
<1>5. RC!End(c, r)
  BY <1>2, <1>3, <1>4 DEF RC!End
<1>6. QED
  BY <1>5 DEF RC!Next

LEMMA NextRefines ==
  ASSUME TypeOK, SuccessInv, BegunInv, [Next]_vars
  PROVE  [RC!Next]_(RC!vars)
<1>1. ASSUME NEW c \in Calls, ClientSteps(c)
      PROVE  [RC!Next]_(RC!vars)
  <2>1. worked' = worked
    BY <1>1 DEF ClientSteps, Call, Route, Confirm, PublishFails, Resume, Timeout,
                CallerCancelled, OnMessage, OnMessageReturned, workerVars
  <2>2. CASE Call(c) /\ cstate # "closed"
    <3>1. /\ cpc[c] = "idle" /\ cpc' = [cpc EXCEPT ![c] = "publishing"] /\ end' = end
          /\ cpc \in [Calls -> {"idle", "publishing", "confirming", "waiting", "done"}]
      BY <2>2 DEF Call, TypeOK
    <3>2. [b \in Calls |-> Phase(b)]' = [[b \in Calls |-> Phase(b)] EXCEPT ![c] = "open"]
      BY <3>1 DEF Phase
    <3>3. Phase(c) = "idle" /\ [b \in Calls |-> AbstractEnd(b)]' = [b \in Calls |-> AbstractEnd(b)]
      BY <3>1 DEF Phase, AbstractEnd
    <3>4. RC!Begin(c)
      BY <2>1, <3>2, <3>3 DEF RC!Begin
    <3>5. QED
      BY <3>4 DEF RC!Next
  <2>3. CASE \/ Call(c) /\ cstate = "closed"
             \/ PublishFails(c) \/ Resume(c) \/ Timeout(c) \/ CallerCancelled(c)
    <3>1. cpc[c] # "done"
      BY <2>3 DEF Call, PublishFails, Resume, Timeout, CallerCancelled
    <3>2. CASE Call(c) /\ cstate = "closed"
      <4>1. Ended(c, "client_closed")
        BY <3>2 DEF Call
      <4>2. QED
        BY <2>1, <3>1, <4>1, EndRefines DEF Ends
    <3>3. CASE PublishFails(c)
      <4>1. Ended(c, "publish_failed")
        BY <3>3 DEF PublishFails
      <4>2. QED
        BY <2>1, <3>1, <4>1, EndRefines DEF Ends
    <3>4. CASE Resume(c)
      <4>1. Ended(c, fut[c]) /\ fut[c] # "pending"
        BY <3>4 DEF Resume
      <4>2. fut[c] \in Ends
        BY <4>1 DEF Ends, TypeOK
      <4>3. fut[c] = "result" => c \in worked
        BY DEF SuccessInv, FutureWorked
      <4>4. QED
        BY <2>1, <3>1, <4>1, <4>2, <4>3, EndRefines
    <3>5. CASE Timeout(c)
      <4>1. Ended(c, "timeout")
        BY <3>5 DEF Timeout
      <4>2. QED
        BY <2>1, <3>1, <4>1, EndRefines DEF Ends
    <3>6. CASE CallerCancelled(c)
      <4>1. Ended(c, "cancelled")
        BY <3>6 DEF CallerCancelled
      <4>2. QED
        BY <2>1, <3>1, <4>1, EndRefines DEF Ends, Completions
    <3>7. QED
      BY <2>3, <3>2, <3>3, <3>4, <3>5, <3>6
  <2>4. CASE Route(c) \/ Confirm(c)
    <3>1. /\ end' = end
          /\ cpc \in [Calls -> {"idle", "publishing", "confirming", "waiting", "done"}]
          /\ cpc[c] \in {"publishing", "confirming"}
          /\ \E x \in {"confirming", "waiting"} : cpc' = [cpc EXCEPT ![c] = x]
      BY <2>4 DEF Route, Confirm, TypeOK
    <3>2. \A b \in Calls : Phase(b)' = Phase(b)
      BY <3>1 DEF Phase
    <3>3. [b \in Calls |-> Phase(b)]' = [b \in Calls |-> Phase(b)]
      BY <3>2
    <3>4. [b \in Calls |-> AbstractEnd(b)]' = [b \in Calls |-> AbstractEnd(b)]
      BY <3>1 DEF AbstractEnd
    <3>5. QED
      BY <2>1, <3>3, <3>4 DEF RC!vars
  <2>5. CASE OnMessage(c) \/ OnMessageReturned(c)
    <3>1. cpc' = cpc /\ end' = end
      BY <2>5 DEF OnMessage, OnMessageReturned
    <3>2. QED
      BY <2>1, <3>1, SameCalls
  <2>6. QED
    BY <1>1, <2>2, <2>3, <2>4, <2>5 DEF ClientSteps
<1>2. ASSUME NEW c \in Calls, NEW d \in Deliveries, JobSteps(c, d)
      PROVE  [RC!Next]_(RC!vars)
  <2>1. cpc' = cpc /\ end' = end
    BY <1>2 DEF JobSteps, Reject, Handle, HandlerReplies, HandlerReplied,
                HandlerReturns, HandlerRaises, FailureReplied, FailureReplyFails, Ack,
                clientVars
  <2>2. CASE worked' = worked
    BY <2>1, <2>2, SameCalls
  <2>3. CASE worked' # worked
    <3>1. HandlerReplies(c, d)
      BY <1>2, <2>3 DEF JobSteps, Reject, Handle, HandlerReplied, HandlerReturns,
                        HandlerRaises, FailureReplied, FailureReplyFails, Ack
    <3>2. worked' = worked \cup {c} /\ cpc[c] # "idle"
      BY <2>3, <3>1 DEF HandlerReplies, BegunInv
    <3>3. Phase(c) # "idle"
      BY <3>2 DEF Phase
    <3>4. /\ [b \in Calls |-> Phase(b)]' = [b \in Calls |-> Phase(b)]
          /\ [b \in Calls |-> AbstractEnd(b)]' = [b \in Calls |-> AbstractEnd(b)]
      BY <2>1 DEF Phase, AbstractEnd
    <3>5. RC!Work(c)
      BY <3>2, <3>3, <3>4 DEF RC!Work
    <3>6. QED
      BY <3>5 DEF RC!Next
  <2>4. QED
    BY <2>2, <2>3
<1>3. CASE ClientClose \/ ClientChannelLost
  <2>1. UNCHANGED <<cpc, end, worked>>
    BY <1>3 DEF ClientClose, CloseCancels, CloseDrains, CloseEnds, ClientChannelLost,
                workerVars
  <2>2. QED
    BY <2>1, SameCalls
<1>4. CASE WorkerLife
  <2>1. UNCHANGED <<cpc, end, worked>>
    BY <1>4 DEF WorkerLife, WorkerInit, Register, WorkerChannelLost, WorkerCrash,
                WorkerCloseBegins, WorkerCloseForgets, WorkerCloseEnds, clientVars,
                workerVars
  <2>2. QED
    BY <2>1, SameCalls
<1>5. CASE \/ \E c \in Calls : Deliver(c) \/ Expire(c)
           \/ UNCHANGED vars
  <2>1. UNCHANGED <<cpc, end, worked>>
    BY <1>5 DEF Deliver, Expire, vars, clientVars, workerVars
  <2>2. QED
    BY <2>1, SameCalls
<1>6. QED
  BY <1>1, <1>2, <1>3, <1>4, <1>5 DEF Next

\* Client, broker and worker together keep the promise of RpcCall.
THEOREM Refinement == Spec => ImplementsRpcCall
<1>1. Init => RC!Init
  BY DEF Init, RC!Init, Phase, AbstractEnd
<1>2. QED
  BY <1>1, NextRefines, TypeCorrect, SuccessInvariant, BegunInvariant, PTL
     DEF Spec, ImplementsRpcCall, RC!Spec

(***************************************************************************)
(* The table of the client.                                                *)
(***************************************************************************)
\* What on_message and on_message_returned complete a future with.
Answered == {"result", "error", "returned"}

\* A task in the table has no answer yet; one that has not begun has nothing.
TableInv ==
  /\ TableServesCalls
  /\ \A c \in tasks : fut[c] \notin Answered
  /\ \A c \in Calls : /\ cpc[c] = "idle" => fut[c] = "pending" /\ c \notin tasks
                      /\ cpc[c] = "done" => end[c] # "none"

\* A step completes pending futures only, and those of calls in the table or of a
\* call that is given up; an answer takes its call out of the table.
LEMMA Completed ==
  ASSUME TypeOK, [Next]_vars
  PROVE  \A c \in Calls :
           /\ fut[c] # "pending" => fut'[c] = fut[c]
           /\ fut'[c] # fut[c] => cpc[c] = "waiting" \/ c \in tasks
           /\ fut'[c] # fut[c] /\ fut'[c] \in Answered => c \notin tasks'
<1> DEFINE P == \A c \in Calls :
                  /\ fut[c] # "pending" => fut'[c] = fut[c]
                  /\ fut'[c] # fut[c] => cpc[c] = "waiting" \/ c \in tasks
                  /\ fut'[c] # fut[c] /\ fut'[c] \in Answered => c \notin tasks'
<1>0. ASSUME NEW S, NEW f, Complete(S, f),
             \A c \in S \cap Calls : cpc[c] = "waiting" \/ c \in tasks,
             f \in Answered => S \cap tasks' = {}
      PROVE  P
  BY <1>0 DEF Complete, TypeOK
<1>1. ASSUME NEW c \in Calls, ClientSteps(c)
      PROVE  P
  <2>1. CASE OnMessage(c)
    <3>1. CASE c \in tasks
      <4>1. PICK f \in Meaning(Head(mail[c])) : Complete({c}, f)
        BY <2>1, <3>1 DEF OnMessage
      <4>2. QED
        BY <1>0, <2>1, <3>1, <4>1 DEF OnMessage
    <3>2. CASE c \notin tasks
      BY <2>1, <3>2 DEF OnMessage
    <3>3. QED
      BY <3>1, <3>2
  <2>2. CASE OnMessageReturned(c)
    <3>1. Complete({c} \cap tasks, "returned") /\ tasks' = tasks \ {c}
      BY <2>2 DEF OnMessageReturned
    <3>2. QED
      BY <1>0, <3>1
  <2>3. CASE Timeout(c) \/ CallerCancelled(c)
    <3>1. \/ Complete({c}, "cancelled") /\ cpc[c] = "waiting"
          \/ fut' = fut
      BY <2>3 DEF Timeout, CallerCancelled
    <3>2. QED
      BY <1>0, <3>1 DEF Answered
  <2>4. CASE Call(c) \/ Route(c) \/ Confirm(c) \/ PublishFails(c) \/ Resume(c)
    BY <2>4 DEF Call, Route, Confirm, PublishFails, Resume
  <2>5. QED
    BY <1>1, <2>1, <2>2, <2>3, <2>4 DEF ClientSteps
<1>2. CASE ClientClose \/ ClientChannelLost
  <2>1. \/ fut' = fut
        \/ \E f \in {"channel_closed", "cancelled"} : Complete(tasks, f)
    BY <1>2 DEF ClientClose, CloseCancels, CloseDrains, CloseEnds, ClientChannelLost
  <2>2. QED
    BY <1>0, <2>1 DEF Answered
<1>3. CASE \/ \E c \in Calls, d \in Deliveries : JobSteps(c, d)
           \/ WorkerLife
           \/ \E c \in Calls : Deliver(c) \/ Expire(c)
           \/ UNCHANGED vars
  <2>1. fut' = fut
    BY <1>3 DEF JobSteps, Reject, Handle, HandlerReplies, HandlerReplied,
                HandlerReturns, HandlerRaises, FailureReplied, FailureReplyFails, Ack,
                WorkerLife, WorkerInit, Register, WorkerChannelLost, WorkerCrash,
                WorkerCloseBegins, WorkerCloseForgets, WorkerCloseEnds, Deliver,
                Expire, vars, clientVars
  <2>2. QED
    BY <2>1
<1>4. QED
  BY <1>1, <1>2, <1>3 DEF Next

\* Only the steps of the client touch a call or the table.
LEMMA OthersLeaveCalls ==
  ASSUME [Next]_vars,
         ~(\E c \in Calls : ClientSteps(c)), ~ClientClose, ~ClientChannelLost
  PROVE  UNCHANGED clientVars
  BY DEF Next, JobSteps, Reject, Handle, HandlerReplies, HandlerReplied,
         HandlerReturns, HandlerRaises, FailureReplied, FailureReplyFails, Ack,
         WorkerLife, WorkerInit, Register, WorkerChannelLost, WorkerCrash,
         WorkerCloseBegins, WorkerCloseForgets, WorkerCloseEnds, Deliver, Expire, vars

LEMMA TableStep ==
  ASSUME TypeOK, TableInv, [Next]_vars
  PROVE  TableInv'
<1> USE DEF TableInv, TableServesCalls
<1>0. /\ TypeOK'
      /\ \A c \in Calls :
           /\ fut[c] # "pending" => fut'[c] = fut[c]
           /\ fut'[c] # fut[c] => cpc[c] = "waiting" \/ c \in tasks
           /\ fut'[c] # fut[c] /\ fut'[c] \in Answered => c \notin tasks'
  BY NextTypeOK, Completed
<1>1. ASSUME NEW c \in Calls, ClientSteps(c)
      PROVE  TableInv'
  <2>1. CASE Call(c)
    <3>1. /\ cpc[c] = "idle" /\ tasks' = tasks \cup {c} /\ fut' = fut
          /\ cstate' = cstate /\ c \notin tasks /\ fut[c] = "pending"
          /\ \/ cpc' = [cpc EXCEPT ![c] = "publishing"] /\ end' = end
             \/ /\ cpc' = [cpc EXCEPT ![c] = "done"]
                /\ end' = [end EXCEPT ![c] = "client_closed"]
      BY <2>1 DEF Call, Ended
    <3>2. OpenCallIsReachable'
      <4>1. \A b \in Calls : b # c => cpc'[b] = cpc[b]
        BY <3>1 DEF TypeOK
      <4>2. QED
        BY <3>1, <4>1 DEF OpenCallIsReachable
    <3>3. AnsweredTaskIsForgotten'
      <4>1. \A b \in Calls : b # c => cpc'[b] = cpc[b] /\ end'[b] = end[b]
        BY <3>1 DEF TypeOK
      <4>2. cpc'[c] = "done" => end'[c] = "client_closed"
        BY <3>1 DEF TypeOK
      <4>3. QED
        BY <3>1, <4>1, <4>2 DEF TypeOK, AnsweredTaskIsForgotten
    <3>4. \A b \in tasks' : fut'[b] \notin Answered
      BY <3>1 DEF TypeOK, Answered
    <3>5. QED
      BY <3>1, <3>2, <3>3, <3>4 DEF TypeOK
  <2>2. CASE Route(c) \/ Confirm(c)
    BY <2>2 DEF Route, Confirm, TypeOK, OpenCallIsReachable, AnsweredTaskIsForgotten
  <2>3. CASE PublishFails(c)
    BY <2>3 DEF PublishFails, Ended, TypeOK, OpenCallIsReachable, AnsweredTaskIsForgotten
  <2>4. CASE Resume(c)
    <3>1. c \in tasks => fut[c] \in {"cancelled", "channel_closed"}
      BY <2>4 DEF Resume, TypeOK, Completions, Answered
    <3>2. fut[c] # "none"
      BY DEF TypeOK, Completions
    <3>3. QED
      BY <2>4, <3>1, <3>2 DEF Resume, Ended, TypeOK, OpenCallIsReachable,
                              AnsweredTaskIsForgotten
  <2>5. CASE Timeout(c) \/ CallerCancelled(c)
    <3>1. /\ tasks' = tasks /\ cstate' = cstate /\ cpc[c] # "idle"
          /\ cpc' = [cpc EXCEPT ![c] = "done"]
          /\ \E e \in {"timeout", "cancelled"} : end' = [end EXCEPT ![c] = e]
      BY <2>5 DEF Timeout, CallerCancelled, Ended
    <3>2. \A b \in Calls : cpc[b] = "idle" => fut'[b] = fut[b]
      BY <1>0
    <3>3. \A b \in tasks : fut'[b] \notin Answered
      BY <1>0, <3>1 DEF TypeOK
    <3>4. OpenCallIsReachable'
      BY <1>0, <3>1 DEF TypeOK, OpenCallIsReachable
    <3>5. AnsweredTaskIsForgotten'
      BY <3>1 DEF TypeOK, AnsweredTaskIsForgotten
    <3>6. QED
      BY <3>1, <3>2, <3>3, <3>4, <3>5 DEF TypeOK
  <2>6. CASE OnMessage(c) \/ OnMessageReturned(c)
    <3>1. /\ tasks' = tasks \ {c} /\ UNCHANGED <<cstate, cpc, end>>
          /\ c \in tasks => fut'[c] # "pending"
      <4>1. CASE OnMessage(c)
        BY <4>1, MeaningType DEF OnMessage, Complete, Completions
      <4>2. CASE OnMessageReturned(c)
        BY <4>2 DEF OnMessageReturned, Complete
      <4>3. QED
        BY <2>6, <4>1, <4>2
    <3>2. QED
      BY <1>0, <3>1 DEF TypeOK, OpenCallIsReachable, AnsweredTaskIsForgotten
  <2>7. QED
    BY <1>1, <2>1, <2>2, <2>3, <2>4, <2>5, <2>6 DEF ClientSteps
<1>2. CASE ClientClose \/ ClientChannelLost
  <2>1. /\ cpc' = cpc /\ end' = end
        /\ \/ tasks' = tasks /\ (cstate' = "open" => cstate = "open")
           \/ tasks' = {} /\ cstate' # "open"
    BY <1>2 DEF ClientClose, CloseCancels, CloseDrains, CloseEnds, ClientChannelLost
  <2>2. QED
    BY <1>0, <2>1 DEF TypeOK, OpenCallIsReachable, AnsweredTaskIsForgotten
<1>3. CASE /\ ~(\E c \in Calls : ClientSteps(c))
           /\ ~ClientClose /\ ~ClientChannelLost
  BY <1>3, OthersLeaveCalls
     DEF clientVars, OpenCallIsReachable, AnsweredTaskIsForgotten
<1>4. QED
  BY <1>1, <1>2, <1>3

\* While the client is open whoever waits can be completed, and the table holds no
\* task of a call that was answered, whatever crosses the end of the call.
THEOREM TableServes == Spec => []TableServesCalls
<1>1. Init => TableInv
  BY DEF Init, TableInv, TableServesCalls, OpenCallIsReachable, AnsweredTaskIsForgotten
<1>2. TypeOK /\ TableInv /\ [Next]_vars => TableInv'
  BY TableStep
<1>3. TableInv => TableServesCalls
  BY DEF TableInv
<1>4. QED
  BY <1>1, <1>2, <1>3, TypeCorrect, PTL DEF Spec

(***************************************************************************)
(* The deliveries.  How many replies a delivery may have had is told by its *)
(* stage; a request is in the queue, unacked or on its way back, and only  *)
(* once its call has published it.                                         *)
(***************************************************************************)
Unbegun == {"none", "got", "no_handler"}

\* Replies n of a delivery at stage j, whose context was replied to if r.
Counted(j, n, r) ==
  /\ n <= 2 /\ (n = 2 => r)
  /\ j \in Unbegun => n = 0 /\ ~r
  /\ j \in Publishing => n = 0 /\ r
  /\ j \in {"handling", "raised"} => n <= 1 /\ (n = 1 => r)

\* The same where every publish succeeds and every handler replies.
Certain(j, n, r) ==
  /\ j \in {"acking", "done"} => n >= 1
  /\ j = "handling" /\ r => n >= 1

RepliesCounted ==
  \A c \in Calls, d \in Deliveries : Counted(job[c][d], sent[c][d], replied[c][d])

NotYet == \A c \in Calls, d \in Deliveries : d > deliv[c] => job[c][d] = "none"

Unrouted == \A c \in Calls :
              cpc[c] \in {"idle", "publishing"} =>
                c \notin ready \cup returned \cup unacked

AllCertain ==
  ~Faults /\ ~Silent =>
    /\ wstate \in {"off", "consuming", "ready"}
    /\ wstate = "off" =>
         \A c \in Calls, d \in Deliveries : job[c][d] = "none"
    /\ \A c \in Calls, d \in Deliveries :
         Certain(job[c][d], sent[c][d], replied[c][d])

DeliveryInv ==
  UnackedIsHandled /\ RepliesCounted /\ NotYet /\ Unrouted /\ AllCertain

\* A step of a delivery touches no other one.
LEMMA OneJob ==
  ASSUME TypeOK, NEW c \in Calls, NEW d \in Deliveries, JobSteps(c, d)
  PROVE  /\ \A b \in Calls, e \in Deliveries : b # c \/ e # d =>
              /\ job'[b][e] = job[b][e]
              /\ sent'[b][e] = sent[b][e]
              /\ replied'[b][e] = replied[b][e]
         /\ UNCHANGED <<clientVars, returned, wstate, deliv>>
<1>1. UNCHANGED <<clientVars, returned, wstate, deliv>>
  BY DEF JobSteps, Reject, Handle, HandlerReplies, HandlerReplied, HandlerReturns,
         HandlerRaises, FailureReplied, FailureReplyFails, Ack, brokerVars
<1>2. \E s : Stage(c, d, s)
  BY DEF JobSteps, Reject, Handle, HandlerReplies, HandlerReplied, HandlerReturns,
         HandlerRaises, FailureReplied, FailureReplyFails, Ack
<1>3. sent' = sent \/ sent' = [sent EXCEPT ![c][d] = sent[c][d] + 1]
  BY DEF JobSteps, Reject, Handle, HandlerReplies, HandlerReplied, HandlerReturns,
         HandlerRaises, FailureReplied, FailureReplyFails, Ack, Post
<1>4. replied' = replied \/ replied' = [replied EXCEPT ![c][d] = TRUE]
  BY DEF JobSteps, Reject, Handle, HandlerReplies, HandlerReplied, HandlerReturns,
         HandlerRaises, FailureReplied, FailureReplyFails, Ack
<1>5. ASSUME NEW b \in Calls, NEW e \in Deliveries, b # c \/ e # d
      PROVE  /\ job'[b][e] = job[b][e]
             /\ sent'[b][e] = sent[b][e]
             /\ replied'[b][e] = replied[b][e]
  <2>1. job'[b][e] = job[b][e]
    BY <1>2, <1>5 DEF Stage, TypeOK
  <2>2. sent'[b][e] = sent[b][e]
    BY <1>3, <1>5 DEF TypeOK
  <2>3. replied'[b][e] = replied[b][e]
    BY <1>4, <1>5 DEF TypeOK
  <2>4. QED
    BY <2>1, <2>2, <2>3
<1>6. QED
  BY <1>1, <1>5

\* What a step does to its own delivery.
LEMMA OwnStage ==
  ASSUME TypeOK, NEW c \in Calls, NEW d \in Deliveries, NEW s, Stage(c, d, s)
  PROVE  job'[c][d] = s
  BY DEF Stage, TypeOK

LEMMA OwnPost ==
  ASSUME TypeOK, NEW c \in Calls, NEW d \in Deliveries, NEW t, Post(c, d, t)
  PROVE  sent'[c][d] = sent[c][d] + 1
  BY DEF Post, TypeOK

\* The count of a delivery goes with its stage.
LEMMA JobCounts ==
  ASSUME TypeOK, RepliesCounted, NEW c \in Calls, NEW d \in Deliveries,
         JobSteps(c, d)
  PROVE  Counted(job'[c][d], sent'[c][d], replied'[c][d])
<1> DEFINE stage == job[c][d]
           count == sent[c][d]
           given == replied[c][d]
<1>0. /\ count \in Nat /\ given \in BOOLEAN
      /\ Counted(stage, count, given)
  BY DEF TypeOK, RepliesCounted
<1>1. CASE Reject(c, d) \/ Handle(c, d)
  <2>1. /\ stage = "got" /\ sent' = sent /\ replied' = replied
        /\ \E s \in {"done", "no_handler", "handling", "raised"} : Stage(c, d, s)
    BY <1>1 DEF Reject, Handle
  <2>2. job'[c][d] \in {"done", "no_handler", "handling", "raised"}
    BY <2>1, OwnStage
  <2>3. sent'[c][d] = 0 /\ replied'[c][d] = given /\ ~given
    BY <1>0, <2>1 DEF Counted, Unbegun
  <2>4. QED
    BY <2>2, <2>3 DEF Counted, Unbegun, Publishing
<1>2. CASE HandlerReplies(c, d)
  <2>1. stage = "handling" /\ ~given /\ sent' = sent /\ replied'[c][d] = TRUE
    BY <1>2 DEF HandlerReplies, ContextReplies, TypeOK
  <2>2. \E s \in Publishing : Stage(c, d, s)
    BY <1>2 DEF HandlerReplies, Publishing
  <2>3. count = 0 /\ job'[c][d] \in Publishing
    BY <1>0, <2>1, <2>2, OwnStage DEF Counted
  <2>4. QED
    BY <2>1, <2>3 DEF Counted, Unbegun, Publishing
<1>3. CASE HandlerReplied(c, d)
  <2>1. /\ stage \in Publishing /\ replied' = replied
        /\ job'[c][d] = "handling" /\ sent'[c][d] = count + 1
    BY <1>3, OwnStage, OwnPost DEF HandlerReplied
  <2>2. count = 0 /\ given
    BY <1>0, <2>1 DEF Counted
  <2>3. QED
    BY <1>0, <2>1, <2>2 DEF Counted, Unbegun, Publishing
<1>4. CASE HandlerReturns(c, d) \/ HandlerRaises(c, d)
  <2>1. /\ stage \in {"handling"} \cup Publishing /\ sent' = sent /\ replied' = replied
        /\ \E s \in {"acking", "raised"} : Stage(c, d, s)
    BY <1>4 DEF HandlerReturns, HandlerRaises
  <2>2. QED
    BY <1>0, <2>1, OwnStage DEF Counted, Unbegun, Publishing
<1>5. CASE FailureReplied(c, d)
  <2>1. /\ stage \in Failing /\ replied' = replied
        /\ job'[c][d] = "acking" /\ sent'[c][d] = count + 1
    BY <1>5, OwnStage, OwnPost DEF FailureReplied
  <2>2. QED
    BY <1>0, <2>1 DEF Counted, Unbegun, Publishing, Failing
<1>6. CASE FailureReplyFails(c, d) \/ Ack(c, d)
  <2>1. /\ stage \in Failing \cup {"acking"} /\ sent' = sent /\ replied' = replied
        /\ \/ stage = "no_handler" /\ Stage(c, d, "raised")
           \/ stage # "no_handler" /\ \E s \in {"acking", "done"} : Stage(c, d, s)
    BY <1>6 DEF FailureReplyFails, Ack, Failing
  <2>2. QED
    BY <1>0, <2>1, OwnStage DEF Counted, Unbegun, Publishing, Failing
<1>7. QED
  BY <1>1, <1>2, <1>3, <1>4, <1>5, <1>6 DEF JobSteps
-----------------------------------------------------------------------------
\* Without faults nothing is acked before it was answered.
LEMMA JobCertain ==
  ASSUME TypeOK, RepliesCounted, AllCertain, ~Faults, ~Silent,
         NEW c \in Calls, NEW d \in Deliveries, JobSteps(c, d)
  PROVE  Certain(job'[c][d], sent'[c][d], replied'[c][d])
<1> DEFINE stage == job[c][d]
           count == sent[c][d]
           given == replied[c][d]
<1>0. /\ count \in Nat /\ given \in BOOLEAN
      /\ Counted(stage, count, given)
      /\ Certain(stage, count, given)
  BY DEF TypeOK, RepliesCounted, AllCertain
<1>1. CASE Reject(c, d)
  <2>1. stage = "got" /\ wstate \in {"closing", "off"}
    BY <1>1 DEF Reject
  <2>2. QED
    BY <2>1 DEF AllCertain
<1>2. CASE Handle(c, d)
  <2>1. /\ stage = "got" /\ replied' = replied
        /\ \E s \in {"no_handler", "handling", "raised"} : Stage(c, d, s)
    BY <1>2 DEF Handle
  <2>2. job'[c][d] \in {"no_handler", "handling", "raised"}
    BY <2>1, OwnStage
  <2>3. replied'[c][d] = given /\ ~given
    BY <1>0, <2>1 DEF Counted, Unbegun
  <2>4. QED
    BY <2>2, <2>3 DEF Certain
<1>3. CASE HandlerReplies(c, d)
  <2>1. \E s \in Publishing : Stage(c, d, s)
    BY <1>3 DEF HandlerReplies, Publishing
  <2>2. job'[c][d] \in Publishing
    BY <2>1, OwnStage
  <2>3. QED
    BY <2>2 DEF Certain, Publishing
<1>4. CASE HandlerReplied(c, d) \/ FailureReplied(c, d)
  <2>1. sent'[c][d] = count + 1
    BY <1>4, OwnPost DEF HandlerReplied, FailureReplied
  <2>2. sent'[c][d] >= 1
    BY <1>0, <2>1
  <2>3. QED
    BY <2>2 DEF Certain
<1>5. CASE HandlerReturns(c, d) \/ Ack(c, d)
  <2>1. /\ sent' = sent
        /\ stage \in {"acking", "done"} \/ (stage = "handling" /\ given)
    BY <1>5 DEF HandlerReturns, Ack
  <2>2. QED
    BY <1>0, <2>1 DEF Certain
<1>6. CASE HandlerRaises(c, d)
  <2>1. job'[c][d] = "raised"
    BY <1>6, OwnStage DEF HandlerRaises
  <2>2. QED
    BY <2>1 DEF Certain
<1>7. CASE FailureReplyFails(c, d)
  BY <1>7 DEF FailureReplyFails
<1>8. QED
  BY <1>1, <1>2, <1>3, <1>4, <1>5, <1>6, <1>7 DEF JobSteps

\* A delivery leaves its stages and the unacked requests in one step.
LEMMA JobPlaces ==
  ASSUME TypeOK, UnackedIsHandled, NotYet, Unrouted,
         NEW c \in Calls, NEW d \in Deliveries, JobSteps(c, d)
  PROVE  UnackedIsHandled' /\ NotYet' /\ Unrouted'
<1>0. /\ deliv' = deliv /\ returned' = returned /\ cpc' = cpc
      /\ \A b \in Calls, e \in Deliveries : b # c \/ e # d => job'[b][e] = job[b][e]
      /\ \A b \in Calls : deliv[b] \in Nat /\ (deliv[b] > 0 => deliv[b] \in Deliveries)
  <2>1. \A b \in Calls : deliv[b] \in 0..MaxDeliver
    BY DEF TypeOK
  <2>2. QED
    BY <2>1, OneJob, BoundsAssumption DEF clientVars, Deliveries
<1>1. job[c][d] # "none"
  BY DEF JobSteps, Reject, Handle, HandlerReplies, HandlerReplied, HandlerReturns,
         HandlerRaises, FailureReplied, FailureReplyFails, Ack, Publishing, Failing
<1>2. NotYet'
  BY <1>0, <1>1 DEF NotYet
<1>3. CASE Reject(c, d) \/ Ack(c, d)
  <2>1. \/ /\ c \in unacked /\ d = deliv[c] /\ unacked' = unacked \ {c}
           /\ ready' \in {ready, ready \cup {c}}
        \/ ~Current(c, d) /\ unacked' = unacked /\ ready' = ready
    BY <1>3 DEF Reject, Ack, Current
  <2>2. \A b \in unacked' : b # c \/ deliv[b] # d
    BY <2>1 DEF Current
  <2>3. UnackedIsHandled'
    <3>1. ASSUME NEW b \in unacked'
          PROVE  deliv'[b] > 0 /\ job'[b][deliv'[b]] \in Running
      <4>1. /\ b \in unacked /\ b \in Calls
            /\ deliv[b] > 0 /\ job[b][deliv[b]] \in Running
        BY <2>1 DEF UnackedIsHandled, TypeOK
      <4>2. job'[b][deliv[b]] = job[b][deliv[b]]
        BY <1>0, <2>2, <4>1
      <4>3. QED
        BY <1>0, <4>1, <4>2
    <3>2. ready' \cap unacked' = {} /\ returned' \cap (ready' \cup unacked') = {}
      BY <1>0, <2>1 DEF UnackedIsHandled
    <3>3. QED
      BY <3>1, <3>2 DEF UnackedIsHandled
  <2>4. Unrouted'
    BY <1>0, <2>1 DEF Unrouted
  <2>5. QED
    BY <1>2, <2>3, <2>4
<1>4. CASE ~Reject(c, d) /\ ~Ack(c, d)
  <2>1. unacked' = unacked /\ ready' = ready
    BY <1>4 DEF JobSteps, Handle, HandlerReplies, HandlerReplied, HandlerReturns,
                HandlerRaises, FailureReplied, FailureReplyFails, brokerVars
  <2>2. \E s \in Running : Stage(c, d, s)
    BY <1>4 DEF JobSteps, Handle, HandlerReplies, HandlerReplied, HandlerReturns,
                HandlerRaises, FailureReplied, FailureReplyFails, Running,
                Publishing, Failing
  <2>3. job'[c][d] \in Running
    BY <2>2, OwnStage
  <2>4. UnackedIsHandled'
    <3>1. ASSUME NEW b \in unacked'
          PROVE  deliv'[b] > 0 /\ job'[b][deliv'[b]] \in Running
      <4>1. /\ b \in Calls
            /\ deliv[b] > 0 /\ job[b][deliv[b]] \in Running
        BY <2>1 DEF UnackedIsHandled, TypeOK
      <4>2. job'[b][deliv[b]] \in Running
        BY <1>0, <2>3, <4>1
      <4>3. QED
        BY <1>0, <4>1, <4>2
    <3>2. QED
      BY <1>0, <2>1, <3>1 DEF UnackedIsHandled
  <2>5. QED
    BY <1>0, <1>2, <2>1, <2>4 DEF Unrouted
<1>5. QED
  BY <1>3, <1>4
-----------------------------------------------------------------------------
\* Where the worker does nothing, only the places of the requests can change.
LEMMA ClientPlaces ==
  ASSUME TypeOK, DeliveryInv, UNCHANGED <<workerVars, unacked>>,
         UnackedIsHandled', Unrouted'
  PROVE  DeliveryInv'
  BY DEF DeliveryInv, workerVars, RepliesCounted, NotYet, AllCertain

\* What is lost or waits no more leaves its place, nothing enters.
LEMMA OnlyLost ==
  ASSUME TypeOK, DeliveryInv, UNCHANGED <<workerVars, unacked>>,
         ready' \subseteq ready, returned' \subseteq returned,
         \A c \in Calls : cpc'[c] \in {"idle", "publishing"} =>
                            cpc[c] \in {"idle", "publishing"}
  PROVE  DeliveryInv'
<1>1. UnackedIsHandled'
  BY DEF DeliveryInv, UnackedIsHandled, workerVars
<1>2. Unrouted'
  BY DEF DeliveryInv, Unrouted
<1>3. QED
  BY <1>1, <1>2, ClientPlaces

LEMMA ClientDelivers ==
  ASSUME TypeOK, DeliveryInv, NEW c \in Calls, ClientSteps(c) \/ Expire(c)
  PROVE  DeliveryInv'
<1>1. CASE Route(c)
  <2>1. /\ cpc[c] = "publishing" /\ cpc' = [cpc EXCEPT ![c] = "confirming"]
        /\ UNCHANGED <<workerVars, unacked>>
        /\ \/ ready' = ready \cup {c} /\ returned' = returned
           \/ ready' = ready /\ returned' = returned \cup {c}
    BY <1>1 DEF Route
  <2>2. c \notin ready \cup returned \cup unacked
    BY <2>1 DEF DeliveryInv, Unrouted
  <2>3. UnackedIsHandled'
    BY <2>1, <2>2 DEF DeliveryInv, UnackedIsHandled, workerVars
  <2>4. Unrouted'
    <3>1. cpc'[c] = "confirming" /\ \A b \in Calls : b # c => cpc'[b] = cpc[b]
      BY <2>1 DEF TypeOK
    <3>2. QED
      BY <2>1, <3>1 DEF DeliveryInv, Unrouted
  <2>5. QED
    BY <2>1, <2>3, <2>4, ClientPlaces
<1>2. CASE ~Route(c)
  <2>1. /\ UNCHANGED <<workerVars, unacked>>
        /\ ready' \subseteq ready /\ returned' \subseteq returned
    BY <1>2 DEF ClientSteps, Call, Confirm, PublishFails, Resume, Timeout,
                CallerCancelled, OnMessage, OnMessageReturned, Expire, brokerVars
  <2>2. ASSUME NEW b \in Calls, cpc'[b] \in {"idle", "publishing"}
        PROVE  cpc[b] \in {"idle", "publishing"}
    <3>1. \/ cpc' = cpc
          \/ cpc[c] = "idle"
          \/ cpc' = [cpc EXCEPT ![c] = "waiting"]
          \/ cpc' = [cpc EXCEPT ![c] = "done"]
      BY <1>2 DEF ClientSteps, Call, Confirm, PublishFails, Resume, Timeout, Ended,
                  CallerCancelled, OnMessage, OnMessageReturned, Expire, clientVars
    <3>2. CASE cpc[c] = "idle"
      <4>1. \A a \in Calls : a # c => cpc'[a] = cpc[a]
        BY <1>2, <3>2 DEF ClientSteps, Call, Confirm, PublishFails, Resume, Timeout,
                     Ended, CallerCancelled, OnMessage, OnMessageReturned, Expire,
                     clientVars, TypeOK
      <4>2. QED
        BY <2>2, <3>2, <4>1
    <3>3. CASE cpc[c] # "idle"
      BY <2>2, <3>1, <3>3 DEF TypeOK
    <3>4. QED
      BY <3>2, <3>3
  <2>3. QED
    BY <2>1, <2>2, OnlyLost
<1>3. QED
  BY <1>1, <1>2

LEMMA DeliverDelivers ==
  ASSUME TypeOK, DeliveryInv, NEW c \in Calls, Deliver(c)
  PROVE  DeliveryInv'
<1> DEFINE next == deliv[c] + 1
<1>0. /\ deliv[c] \in Nat /\ next \in Deliveries /\ next > deliv[c]
  <2>1. deliv[c] \in 0..MaxDeliver /\ deliv[c] < MaxDeliver
    BY DEF TypeOK, Deliver
  <2>2. QED
    BY <2>1, BoundsAssumption DEF Deliveries
<1>1. /\ c \in ready /\ ready' = ready \ {c} /\ unacked' = unacked \cup {c}
      /\ wstate \in {"consuming", "ready"}
      /\ job' = [job EXCEPT ![c][next] = "got"]
      /\ deliv' = [deliv EXCEPT ![c] = next]
      /\ UNCHANGED <<returned, cpc, wstate, replied, sent>>
  BY DEF Deliver, Stage, clientVars
<1>2. deliv'[c] = next /\ \A b \in Calls : b # c => deliv'[b] = deliv[b]
  BY <1>1 DEF TypeOK
<1>3. job'[c][next] = "got"
  BY <1>0, <1>1 DEF TypeOK
<1>4. \A b \in Calls, e \in Deliveries : b # c \/ e # next => job'[b][e] = job[b][e]
  BY <1>1 DEF TypeOK
<1>5. job[c][next] = "none"
  BY <1>0 DEF DeliveryInv, NotYet
<1>6. UnackedIsHandled'
  <2>1. ASSUME NEW b \in unacked'
        PROVE  deliv'[b] > 0 /\ job'[b][deliv'[b]] \in Running
    <3>1. CASE b = c
      BY <1>0, <1>2, <1>3, <3>1 DEF Running
    <3>2. CASE b # c
      <4>1. /\ b \in Calls /\ deliv[b] > 0 /\ job[b][deliv[b]] \in Running
            /\ deliv[b] \in 0..MaxDeliver
        BY <1>1, <3>2 DEF DeliveryInv, UnackedIsHandled, TypeOK
      <4>2. deliv[b] \in Deliveries
        BY <4>1, BoundsAssumption DEF Deliveries
      <4>3. QED
        BY <1>2, <1>4, <3>2, <4>1, <4>2
    <3>3. QED
      BY <3>1, <3>2
  <2>2. ready' \cap unacked' = {} /\ returned' \cap (ready' \cup unacked') = {}
    BY <1>1 DEF DeliveryInv, UnackedIsHandled
  <2>3. QED
    BY <2>1, <2>2 DEF UnackedIsHandled
<1>7. RepliesCounted'
  <2>1. ASSUME NEW b \in Calls, NEW e \in Deliveries
        PROVE  Counted(job[b][e], sent'[b][e], replied'[b][e])
    BY <1>1 DEF DeliveryInv, RepliesCounted
  <2>2. Counted("none", sent'[c][next], replied'[c][next])
    BY <1>0, <1>5, <2>1
  <2>3. Counted("got", sent'[c][next], replied'[c][next])
    BY <2>2 DEF Counted, Unbegun, Publishing
  <2>4. ASSUME NEW b \in Calls, NEW e \in Deliveries
        PROVE  Counted(job'[b][e], sent'[b][e], replied'[b][e])
    BY <1>3, <1>4, <2>1, <2>3
  <2>5. QED
    BY <2>4 DEF RepliesCounted
<1>8. NotYet'
  <2>1. ASSUME NEW b \in Calls, NEW e \in Deliveries, e > deliv'[b]
        PROVE  job'[b][e] = "none"
    <3>1. CASE b = c
      <4>1. e \in Nat /\ e > next /\ e # next /\ e > deliv[c]
        BY <1>0, <1>2, <2>1, <3>1, BoundsAssumption DEF Deliveries
      <4>2. job[c][e] = "none"
        BY <4>1 DEF DeliveryInv, NotYet
      <4>3. QED
        BY <1>4, <3>1, <4>1, <4>2
    <3>2. CASE b # c
      BY <1>2, <1>4, <2>1, <3>2 DEF DeliveryInv, NotYet
    <3>3. QED
      BY <3>1, <3>2
  <2>2. QED
    BY <2>1 DEF NotYet
<1>9. Unrouted'
  BY <1>1 DEF DeliveryInv, Unrouted
<1>10. AllCertain'
  <2>1. ASSUME ~Faults, ~Silent, NEW b \in Calls, NEW e \in Deliveries
        PROVE  Certain(job'[b][e], sent'[b][e], replied'[b][e])
    <3>1. CASE b = c /\ e = next
      BY <1>3, <3>1 DEF Certain
    <3>2. CASE b # c \/ e # next
      BY <1>1, <1>4, <2>1, <3>2 DEF DeliveryInv, AllCertain
    <3>3. QED
      BY <3>1, <3>2
  <2>2. QED
    BY <1>1, <2>1 DEF AllCertain
<1>11. QED
  BY <1>6, <1>7, <1>8, <1>9, <1>10 DEF DeliveryInv
-----------------------------------------------------------------------------
LEMMA JobDelivers ==
  ASSUME TypeOK, DeliveryInv, NEW c \in Calls, NEW d \in Deliveries, JobSteps(c, d)
  PROVE  DeliveryInv'
<1>0. /\ wstate' = wstate
      /\ \A b \in Calls, e \in Deliveries : b # c \/ e # d =>
           /\ job'[b][e] = job[b][e]
           /\ sent'[b][e] = sent[b][e]
           /\ replied'[b][e] = replied[b][e]
  BY OneJob
<1>1. UnackedIsHandled' /\ NotYet' /\ Unrouted'
  BY JobPlaces DEF DeliveryInv
<1>2. RepliesCounted'
  <2>1. Counted(job'[c][d], sent'[c][d], replied'[c][d])
    BY JobCounts DEF DeliveryInv
  <2>2. ASSUME NEW b \in Calls, NEW e \in Deliveries
        PROVE  Counted(job'[b][e], sent'[b][e], replied'[b][e])
    <3>1. CASE b = c /\ e = d
      BY <2>1, <3>1
    <3>2. CASE b # c \/ e # d
      BY <1>0, <3>2 DEF DeliveryInv, RepliesCounted
    <3>3. QED
      BY <3>1, <3>2
  <2>3. QED
    BY <2>2 DEF RepliesCounted
<1>3. AllCertain'
  <2>1. ASSUME ~Faults, ~Silent, NEW b \in Calls, NEW e \in Deliveries
        PROVE  Certain(job'[b][e], sent'[b][e], replied'[b][e])
    <3>1. CASE b = c /\ e = d
      BY <2>1, <3>1, JobCertain DEF DeliveryInv
    <3>2. CASE b # c \/ e # d
      BY <1>0, <2>1, <3>2 DEF DeliveryInv, AllCertain
    <3>3. QED
      BY <3>1, <3>2
  <2>2. job[c][d] # "none"
    BY DEF JobSteps, Reject, Handle, HandlerReplies, HandlerReplied, HandlerReturns,
           HandlerRaises, FailureReplied, FailureReplyFails, Ack, Publishing, Failing
  <2>3. ~Faults /\ ~Silent =>
          wstate' \in {"consuming", "ready"}
    BY <1>0, <2>2 DEF DeliveryInv, AllCertain
  <2>4. QED
    BY <2>1, <2>3 DEF AllCertain
<1>4. QED
  BY <1>1, <1>2, <1>3 DEF DeliveryInv

\* The worker as a whole: what was unacked goes back, and the stages are left alone
\* or end all together.
LEMMA WorkerDelivers ==
  ASSUME TypeOK, DeliveryInv, WorkerLife
  PROVE  DeliveryInv'
<1>0. /\ UNCHANGED <<returned, cpc, deliv, replied, sent>>
      /\ \/ ready' = ready /\ unacked' = unacked
         \/ ready' = ready \cup unacked /\ unacked' = {}
  BY DEF WorkerLife, WorkerInit, Register, WorkerChannelLost, WorkerCrash, Requeue,
         WorkerCloseBegins, WorkerCloseForgets, WorkerCloseEnds, clientVars,
         brokerVars, workerVars
<1>1. Unrouted'
  BY <1>0 DEF DeliveryInv, Unrouted
<1>2. CASE WorkerCrash
  <2>1. Faults /\ unacked' = {}
    BY <1>2 DEF WorkerCrash, Requeue
  <2>2. ASSUME NEW c \in Calls, NEW d \in Deliveries
        PROVE  \/ job[c][d] \notin Running /\ job'[c][d] = job[c][d]
               \/ job[c][d] \in Running /\ job'[c][d] = "done"
    BY <1>2 DEF WorkerCrash
  <2>3. UnackedIsHandled'
    BY <1>0, <2>1 DEF DeliveryInv, UnackedIsHandled
  <2>4. NotYet'
    BY <1>0, <2>2 DEF DeliveryInv, NotYet, Running, Publishing, Failing
  <2>5. RepliesCounted'
    <3>1. ASSUME NEW c \in Calls, NEW d \in Deliveries
          PROVE  Counted(job'[c][d], sent'[c][d], replied'[c][d])
      <4>1. Counted(job[c][d], sent'[c][d], replied'[c][d])
        BY <1>0 DEF DeliveryInv, RepliesCounted
      <4>2. Counted("done", sent'[c][d], replied'[c][d])
        BY <4>1 DEF Counted, Unbegun, Publishing
      <4>3. QED
        BY <2>2, <4>1, <4>2
    <3>2. QED
      BY <3>1 DEF RepliesCounted
  <2>6. AllCertain'
    BY <2>1 DEF AllCertain
  <2>7. QED
    BY <1>1, <2>3, <2>4, <2>5, <2>6 DEF DeliveryInv
<1>3. CASE ~WorkerCrash
  <2>1. job' = job
    BY <1>3 DEF WorkerLife, WorkerInit, Register, WorkerChannelLost, workerVars,
                WorkerCloseBegins, WorkerCloseForgets, WorkerCloseEnds
  <2>2. UnackedIsHandled'
    BY <1>0, <2>1 DEF DeliveryInv, UnackedIsHandled
  <2>3. NotYet' /\ RepliesCounted'
    BY <1>0, <2>1 DEF DeliveryInv, NotYet, RepliesCounted
  <2>4. AllCertain'
    <3>1. \/ Faults
          \/ wstate = "cancelling"
          \/ wstate = "closing"
          \/ wstate' \in {"consuming", "ready"}
      BY <1>3 DEF WorkerLife, WorkerInit, Register, WorkerChannelLost,
                  WorkerCloseBegins, WorkerCloseForgets, WorkerCloseEnds
    <3>2. QED
      BY <1>0, <2>1, <3>1 DEF DeliveryInv, AllCertain
  <2>5. QED
    BY <1>1, <2>2, <2>3, <2>4 DEF DeliveryInv
<1>4. QED
  BY <1>2, <1>3

LEMMA DeliveryStep ==
  ASSUME TypeOK, DeliveryInv, [Next]_vars
  PROVE  DeliveryInv'
<1>1. CASE \E c \in Calls : ClientSteps(c) \/ Deliver(c) \/ Expire(c)
  BY <1>1, ClientDelivers, DeliverDelivers
<1>2. CASE \E c \in Calls, d \in Deliveries : JobSteps(c, d)
  BY <1>2, JobDelivers
<1>3. CASE WorkerLife
  BY <1>3, WorkerDelivers
<1>4. CASE ClientChannelLost \/ ClientClose \/ UNCHANGED vars
  <2>1. /\ UNCHANGED <<workerVars, unacked, cpc>>
        /\ ready' \subseteq ready /\ returned' \subseteq returned
    BY <1>4 DEF ClientChannelLost, ClientClose, CloseCancels, CloseDrains, CloseEnds,
                brokerVars, clientVars, vars
  <2>2. QED
    BY <2>1, OnlyLost
<1>5. QED
  BY <1>1, <1>2, <1>3, <1>4 DEF Next

LEMMA DeliveryInvariant == Spec => []DeliveryInv
<1>1. ASSUME Init
      PROVE  DeliveryInv
  <2>1. /\ ready = {} /\ returned = {} /\ unacked = {} /\ wstate = "off"
        /\ \A c \in Calls, d \in Deliveries :
             job[c][d] = "none" /\ sent[c][d] = 0 /\ replied[c][d] = FALSE
    BY <1>1 DEF Init
  <2>2. UnackedIsHandled /\ NotYet /\ Unrouted
    BY <2>1 DEF UnackedIsHandled, NotYet, Unrouted
  <2>3. RepliesCounted
    <3>1. ASSUME NEW c \in Calls, NEW d \in Deliveries
          PROVE  Counted(job[c][d], sent[c][d], replied[c][d])
      <4>1. Counted("none", 0, FALSE)
        BY DEF Counted, Unbegun, Publishing
      <4>2. /\ job[c][d] = "none" /\ sent[c][d] = 0 /\ replied[c][d] = FALSE
        BY <2>1
      <4>3. QED
        BY <4>1, <4>2
    <3>2. QED
      BY <3>1 DEF RepliesCounted
  <2>4. AllCertain
    <3>1. ASSUME NEW c \in Calls, NEW d \in Deliveries
          PROVE  Certain(job[c][d], sent[c][d], replied[c][d])
      BY <2>1 DEF Certain
    <3>2. QED
      BY <2>1, <3>1 DEF AllCertain
  <2>5. QED
    BY <2>2, <2>3, <2>4 DEF DeliveryInv
<1>2. TypeOK /\ DeliveryInv /\ [Next]_vars => DeliveryInv'
  BY DeliveryStep
<1>3. QED
  BY <1>1, <1>2, TypeCorrect, PTL DEF Spec

\* However often a request comes back, no slot of the prefetch is held by a delivery
\* nobody handles, and no delivery answers more than twice.
THEOREM DeliveriesDoEnd == Spec => []DeliveriesEnd
<1>1. DeliveryInv => DeliveriesEnd
  BY DEF DeliveryInv, DeliveriesEnd, RepliesCounted, Counted, AtMostTwoReplies
<1>2. QED
  BY <1>1, DeliveryInvariant, PTL

\* Where connections hold and every handler replies or raises, no request is acked
\* in silence: not one for which there was no handler yet, nor one whose handler
\* raised.
THEOREM NoSilentAck == Spec => []AckedIsAnswered
<1>1. DeliveryInv => AckedIsAnswered
  BY DEF DeliveryInv, AllCertain, Certain, AckedIsAnswered
<1>2. QED
  BY <1>1, DeliveryInvariant, PTL
=============================================================================
