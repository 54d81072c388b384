------------------------------ MODULE AsyncTask ------------------------------
(***************************************************************************)
(* RPC over RabbitMQ, src/app/utils/asynctask: one Client with its table   *)
(* of open tasks, the broker with the queue of the workers, and one Worker. *)
(* Client and Worker run in different processes.  An action is the code of *)
(* one of them between two awaits, or a step of the broker.                *)
(*                                                                         *)
(* The broker is modelled by what the code asks of it: a mandatory publish *)
(* to a queue nobody has declared comes back; a delivery stays unacked     *)
(* until it is acked or rejected, and is delivered again when its channel  *)
(* is lost; a request that waits longer than its expiration is dropped.    *)
(***************************************************************************)
EXTENDS Naturals, Sequences, FiniteSets

CONSTANTS Calls,
          Prefetch,         \* prefetch_count
          MaxDeliver,       \* bound: deliveries of one request
          Faults,           \* may connections be lost, publishes fail, workers stop?
          Timeouts,         \* may a call time out, or its caller be cancelled?
          Silent            \* may a handler return without a reply?

ASSUME BoundsAssumption == Prefetch \in Nat \ {0} /\ MaxDeliver \in Nat \ {0}
ASSUME TogglesAssumption == {Faults, Timeouts, Silent} \subseteq BOOLEAN

VARIABLES
  cstate,     \* Client: "open", and the stages of close()
  tasks,      \* Client.tasks: the calls whose Task is in the table
  cpc,        \* cpc[c]: where Client.call for c stands
  fut,        \* fut[c]: Task.future
  end,        \* end[c]: what call returned or raised
  declared,   \* the queue of the workers exists
  ready,      \* requests waiting in it
  returned,   \* requests on their way back to the client
  unacked,    \* requests delivered and not yet acked
  mail,       \* mail[c]: replies to c in the queue of the client
  wstate,     \* Worker: "off", "consuming", "ready", and the stages of close()
  deliv,      \* deliv[c]: deliveries of c so far
  job,        \* job[c][d]: Worker.on_message for the d-th delivery of c
  replied,    \* replied[c][d]: Context.replied
  sent,       \* sent[c][d]: replies published for that delivery
  worked      \* the calls a handler has replied to with success

clientVars == <<cstate, tasks, cpc, fut, end>>
brokerVars == <<declared, ready, returned, unacked>>
workerVars == <<wstate, deliv, job, replied, sent, worked>>
vars == <<clientVars, brokerVars, mail, workerVars>>

Deliveries == 1..MaxDeliver

\* MessageType of a reply: SUCCESS, or one of ERROR, EXCEPTION, CANCELED and
\* NO_HANDLER, which all make the call raise.
ReplyTypes == {"SUCCESS", "FAILURE"}

\* What a future is completed with: by a reply, by a returned message, by the
\* loss of the channel, or by cancel().
Completions == {"result", "error", "returned", "channel_closed", "cancelled"}

\* A call may also end without looking at its future.
Ends == Completions \cup {"timeout", "publish_failed", "client_closed"}

\* The stages of on_message: its start; the handler at work, or publishing a
\* reply through its context; on_message publishing a reply of its own, for want
\* of a handler or for an exception or cancellation of it; the finally clause.
Publishing == {"replying_SUCCESS", "replying_FAILURE"}
Failing == {"no_handler", "raised"}
Running == {"got", "handling", "acking"} \cup Publishing \cup Failing

TypeOK ==
  /\ cstate \in {"open", "cancelling", "draining", "closed"}
  /\ tasks \subseteq Calls
  /\ cpc \in [Calls -> {"idle", "publishing", "confirming", "waiting", "done"}]
  /\ fut \in [Calls -> Completions \cup {"pending"}]
  /\ end \in [Calls -> Ends \cup {"none"}]
  /\ declared \in BOOLEAN
  /\ ready \subseteq Calls
  /\ returned \subseteq Calls
  /\ unacked \subseteq Calls
  /\ mail \in [Calls -> Seq(ReplyTypes)]
  /\ wstate \in {"off", "consuming", "ready", "cancelling", "closing"}
  /\ deliv \in [Calls -> 0..MaxDeliver]
  /\ job \in [Calls -> [Deliveries -> Running \cup {"none", "done"}]]
  /\ replied \in [Calls -> [Deliveries -> BOOLEAN]]
  /\ sent \in [Calls -> [Deliveries -> Nat]]
  /\ worked \subseteq Calls

Init ==
  /\ cstate = "open"
  /\ tasks = {}
  /\ cpc = [c \in Calls |-> "idle"]
  /\ fut = [c \in Calls |-> "pending"]
  /\ end = [c \in Calls |-> "none"]
  /\ declared = FALSE
  /\ ready = {}
  /\ returned = {}
  /\ unacked = {}
  /\ mail = [c \in Calls |-> <<>>]
  /\ wstate = "off"
  /\ deliv = [c \in Calls |-> 0]
  /\ job = [c \in Calls |-> [d \in Deliveries |-> "none"]]
  /\ replied = [c \in Calls |-> [d \in Deliveries |-> FALSE]]
  /\ sent = [c \in Calls |-> [d \in Deliveries |-> 0]]
  /\ worked = {}

-----------------------------------------------------------------------------
(* Client.call *)

Ended(c, e) == /\ cpc' = [cpc EXCEPT ![c] = "done"]
               /\ end' = [end EXCEPT ![c] = e]

\* set_result, set_exception and cancel leave a completed future alone.
Complete(S, f) ==
  fut' = [c \in Calls |-> IF c \in S /\ fut[c] = "pending" THEN f ELSE fut[c]]

\* The task enters the table first; self.queue is None once close() has deleted
\* it, and then the call raises with its task left behind.
Call(c) ==
  /\ cpc[c] = "idle"
  /\ tasks' = tasks \cup {c}
  /\ IF cstate = "closed"
     THEN Ended(c, "client_closed")
     ELSE cpc' = [cpc EXCEPT ![c] = "publishing"] /\ UNCHANGED end
  /\ UNCHANGED <<cstate, fut, brokerVars, mail, workerVars>>

\* The request reaches the broker, which routes or returns it ...
Route(c) ==
  /\ cpc[c] = "publishing"
  /\ cpc' = [cpc EXCEPT ![c] = "confirming"]
  /\ IF declared
     THEN ready' = ready \cup {c} /\ UNCHANGED returned
     ELSE returned' = returned \cup {c} /\ UNCHANGED ready
  /\ UNCHANGED <<cstate, tasks, fut, end, declared, unacked, mail, workerVars>>

\* ... and confirms it: from here wait_for counts.
Confirm(c) ==
  /\ cpc[c] = "confirming"
  /\ cpc' = [cpc EXCEPT ![c] = "waiting"]
  /\ UNCHANGED <<cstate, tasks, fut, end, brokerVars, mail, workerVars>>

PublishFails(c) ==
  /\ Faults
  /\ cpc[c] \in {"publishing", "confirming"}
  /\ Ended(c, "publish_failed")
  /\ UNCHANGED <<cstate, tasks, fut, brokerVars, mail, workerVars>>

\* wait_for hands on what the future was completed with.
Resume(c) ==
  /\ cpc[c] = "waiting"
  /\ fut[c] # "pending"
  /\ Ended(c, fut[c])
  /\ UNCHANGED <<cstate, tasks, fut, brokerVars, mail, workerVars>>

\* Mutant: the timers die with the client.
TimeoutWhileOpen(c) ==
  /\ Timeouts
  /\ cpc[c] = "waiting"
  /\ cstate = "open"
  /\ fut[c] = "pending"
  /\ Complete({c}, "cancelled")
  /\ Ended(c, "timeout")
  /\ UNCHANGED <<cstate, tasks, brokerVars, mail, workerVars>>

\* wait_for cancels the future; the task stays in the table.
Timeout(c) ==
  /\ Timeouts
  /\ cpc[c] = "waiting"
  /\ fut[c] = "pending"
  /\ Complete({c}, "cancelled")
  /\ Ended(c, "timeout")
  /\ UNCHANGED <<cstate, tasks, brokerVars, mail, workerVars>>

\* The coroutine that made the call is cancelled, at the publish or the wait.
CallerCancelled(c) ==
  /\ Timeouts
  /\ cpc[c] \in {"publishing", "confirming", "waiting"}
  /\ IF cpc[c] = "waiting" THEN Complete({c}, "cancelled") ELSE UNCHANGED fut
  /\ Ended(c, "cancelled")
  /\ UNCHANGED <<cstate, tasks, brokerVars, mail, workerVars>>

-----------------------------------------------------------------------------
(* Client callbacks *)

\* Mutant: the type of the reply is not looked at.
AnyMeaning(type) == {"result", "error"}

\* What on_message makes of a reply; the body of a result may not unpack.
Meaning(type) == IF type = "SUCCESS" THEN {"result", "error"} ELSE {"error"}

\* Mutant: the task is looked up, not popped.
OnMessageKeeps(c) ==
  /\ cstate # "closed"
  /\ mail[c] # <<>>
  /\ mail' = [mail EXCEPT ![c] = Tail(@)]
  /\ IF c \in tasks
     THEN \E f \in Meaning(Head(mail[c])) : Complete({c}, f)
     ELSE UNCHANGED fut
  /\ UNCHANGED <<cstate, tasks, cpc, end, brokerVars, workerVars>>

\* on_message: the first reply takes the task out of the table, the ones after
\* it find none there.
OnMessage(c) ==
  /\ cstate # "closed"
  /\ mail[c] # <<>>
  /\ mail' = [mail EXCEPT ![c] = Tail(@)]
  /\ IF c \in tasks
     THEN \E f \in Meaning(Head(mail[c])) : Complete({c}, f)
     ELSE UNCHANGED fut
  /\ tasks' = tasks \ {c}
  /\ UNCHANGED <<cstate, cpc, end, brokerVars, workerVars>>

\* Mutant: the task of a returned message is popped and forgotten.
ReturnedForgotten(c) ==
  /\ c \in returned
  /\ cstate # "closed"
  /\ returned' = returned \ {c}
  /\ tasks' = tasks \ {c}
  /\ UNCHANGED <<cstate, fut, cpc, end, declared, ready, unacked, mail, workerVars>>

\* on_message_returned
OnMessageReturned(c) ==
  /\ c \in returned
  /\ cstate # "closed"
  /\ returned' = returned \ {c}
  /\ Complete({c} \cap tasks, "returned")
  /\ tasks' = tasks \ {c}
  /\ UNCHANGED <<cstate, cpc, end, declared, ready, unacked, mail, workerVars>>

\* The channel of the client is lost: on_close completes what is open, with the
\* exception of the channel or by a cancel, and leaves the table as it is.  The
\* queue of the client is auto_delete and goes with its consumer.
ClientChannelLost ==
  /\ Faults
  /\ cstate # "closed"
  /\ \E f \in {"channel_closed", "cancelled"} : Complete(tasks, f)
  /\ mail' = [c \in Calls |-> <<>>]
  /\ returned' = {}
  /\ UNCHANGED <<cstate, tasks, cpc, end, declared, ready, unacked, workerVars>>

\* close(): cancel the open tasks and wait for them, if there are any; ...
CloseCancels ==
  /\ cstate = "open"
  /\ Complete(tasks, "cancelled")
  /\ cstate' = IF tasks = {} THEN "draining" ELSE "cancelling"
  /\ UNCHANGED <<tasks, cpc, end, brokerVars, mail, workerVars>>

\* ... empty the table, with what was called meanwhile, and cancel the consumer,
\* which gets what was sent before; ...
CloseDrains ==
  /\ cstate = "cancelling"
  /\ tasks' = {}
  /\ cstate' = "draining"
  /\ UNCHANGED <<cpc, fut, end, brokerVars, mail, workerVars>>

\* ... delete the queue and close the channel, which calls on_close.
CloseEnds ==
  /\ cstate = "draining"
  /\ Complete(tasks, "cancelled")
  /\ mail' = [c \in Calls |-> <<>>]
  /\ returned' = {}
  /\ cstate' = "closed"
  /\ UNCHANGED <<tasks, cpc, end, declared, ready, unacked, workerVars>>

ClientSteps(c) ==
  \/ Call(c) \/ Route(c) \/ Confirm(c) \/ PublishFails(c) \/ Resume(c)
  \/ Timeout(c) \/ CallerCancelled(c) \/ OnMessage(c) \/ OnMessageReturned(c)

ClientClose == CloseCancels \/ CloseDrains \/ CloseEnds

-----------------------------------------------------------------------------
(* Worker *)

\* init declares the queue and consumes from it; the handlers come later.  A new
\* Worker is created by a new process.
WorkerInit ==
  /\ wstate = "off"
  /\ \A c \in Calls, d \in Deliveries : job[c][d] \notin Running
  /\ wstate' = "consuming"
  /\ declared' = TRUE
  /\ UNCHANGED <<clientVars, ready, returned, unacked, mail,
                 deliv, job, replied, sent, worked>>

Register ==
  /\ wstate = "consuming"
  /\ wstate' = "ready"
  /\ UNCHANGED <<clientVars, brokerVars, mail,
                 deliv, job, replied, sent, worked>>

Stage(c, d, s) == job' = [job EXCEPT ![c][d] = s]

\* reply_to puts a reply in the queue of the client; the publish is not
\* mandatory, so without the queue it is dropped in silence.
Post(c, d, type) ==
  /\ wstate # "off"
  /\ sent' = [sent EXCEPT ![c][d] = @ + 1]
  /\ mail' = IF cstate = "closed" THEN mail
             ELSE [mail EXCEPT ![c] = Append(@, type)]

\* The broker hands a request to the worker if it has credit.
Deliver(c) ==
  /\ wstate \in {"consuming", "ready"}
  /\ c \in ready
  /\ Cardinality(unacked) < Prefetch
  /\ deliv[c] < MaxDeliver
  /\ ready' = ready \ {c}
  /\ unacked' = unacked \cup {c}
  /\ deliv' = [deliv EXCEPT ![c] = @ + 1]
  /\ Stage(c, deliv[c] + 1, "got")
  /\ UNCHANGED <<clientVars, declared, returned, mail,
                 wstate, replied, sent, worked>>

\* The delivery that is unacked now.
Current(c, d) == c \in unacked /\ d = deliv[c]

\* on_message for a closing worker: the request is rejected back to its queue,
\* and the ack of the finally clause then raises, as the rejection does if its
\* channel is gone.
Reject(c, d) ==
  /\ job[c][d] = "got"
  /\ wstate \in {"closing", "off"}
  /\ Stage(c, d, "done")
  /\ IF Current(c, d)
     THEN unacked' = unacked \ {c} /\ ready' = ready \cup {c}
     ELSE UNCHANGED <<unacked, ready>>
  /\ UNCHANGED <<clientVars, declared, returned, mail,
                 wstate, deliv, replied, sent, worked>>

\* Mutant: a missing handler is only logged.
HandleMute(c, d) ==
  /\ job[c][d] = "got"
  /\ \/ wstate = "consuming" /\ Stage(c, d, "acking")
     \/ /\ wstate \in {"ready", "cancelling"}
        /\ \E s \in {"handling", "raised"} : Stage(c, d, s)
  /\ UNCHANGED <<clientVars, brokerVars, mail,
                 wstate, deliv, replied, sent, worked>>

\* on_message and handle: find the handler, unpack the data, start it.
Handle(c, d) ==
  /\ job[c][d] = "got"
  /\ \/ wstate = "consuming" /\ Stage(c, d, "no_handler")
     \/ /\ wstate \in {"ready", "cancelling"}
        /\ \E s \in {"handling", "raised"} : Stage(c, d, s)
  /\ UNCHANGED <<clientVars, brokerVars, mail,
                 wstate, deliv, replied, sent, worked>>

\* Mutant: a context may be replied to again.
RepliesAgain(c, d) == TRUE

\* Context.reply_to: only the first reply of a context is published.
ContextReplies(c, d) == ~replied[c][d]

\* The handler calls ctx.success, or ctx.error.
HandlerReplies(c, d) ==
  /\ job[c][d] = "handling"
  /\ ContextReplies(c, d)
  /\ replied' = [replied EXCEPT ![c][d] = TRUE]
  /\ \/ worked' = worked \cup {c} /\ Stage(c, d, "replying_SUCCESS")
     \/ UNCHANGED worked /\ Stage(c, d, "replying_FAILURE")
  /\ UNCHANGED <<clientVars, brokerVars, mail, wstate, deliv, sent>>

HandlerReplied(c, d) ==
  /\ job[c][d] \in Publishing
  /\ Post(c, d, IF job[c][d] = "replying_SUCCESS" THEN "SUCCESS" ELSE "FAILURE")
  /\ Stage(c, d, "handling")
  /\ UNCHANGED <<clientVars, brokerVars, wstate, deliv, replied, worked>>

\* The handler returns.
HandlerReturns(c, d) ==
  /\ job[c][d] = "handling"
  /\ replied[c][d] \/ Silent
  /\ Stage(c, d, "acking")
  /\ UNCHANGED <<clientVars, brokerVars, mail,
                 wstate, deliv, replied, sent, worked>>

\* The handler raises, before or after its reply, is cancelled, or its publish
\* fails.
HandlerRaises(c, d) ==
  /\ job[c][d] \in {"handling"} \cup Publishing
  /\ Stage(c, d, "raised")
  /\ UNCHANGED <<clientVars, brokerVars, mail,
                 wstate, deliv, replied, sent, worked>>

\* Worker.reply_to called past the context: it does not look at replied.
FailureReplied(c, d) ==
  /\ job[c][d] \in Failing
  /\ Post(c, d, "FAILURE")
  /\ Stage(c, d, "acking")
  /\ UNCHANGED <<clientVars, brokerVars, wstate, deliv, replied, worked>>

\* A NO_HANDLER that cannot be published raises inside handle.
FailureReplyFails(c, d) ==
  /\ Faults
  /\ job[c][d] \in Failing
  /\ Stage(c, d, IF job[c][d] = "no_handler" THEN "raised" ELSE "acking")
  /\ UNCHANGED <<clientVars, brokerVars, mail,
                 wstate, deliv, replied, sent, worked>>

\* Mutant: only what was replied to is acked.
AckIfReplied(c, d) ==
  /\ job[c][d] = "acking"
  /\ Stage(c, d, "done")
  /\ unacked' = IF Current(c, d) /\ replied[c][d] THEN unacked \ {c} ELSE unacked
  /\ UNCHANGED <<clientVars, declared, ready, returned, mail,
                 wstate, deliv, replied, sent, worked>>

\* The finally clause.  The ack of a delivery whose channel is gone raises.
Ack(c, d) ==
  /\ job[c][d] = "acking"
  /\ Stage(c, d, "done")
  /\ unacked' = IF Current(c, d) THEN unacked \ {c} ELSE unacked
  /\ UNCHANGED <<clientVars, declared, ready, returned, mail,
                 wstate, deliv, replied, sent, worked>>

Requeue == /\ ready' = ready \cup unacked
           /\ unacked' = {}

\* The channel of the worker is lost and comes back: what was unacked will be
\* delivered again, while the handlers that had it go on.
WorkerChannelLost ==
  /\ Faults
  /\ wstate \in {"consuming", "ready"}
  /\ Requeue
  /\ UNCHANGED <<clientVars, declared, returned, mail, workerVars>>

\* The process of the worker dies.
WorkerCrash ==
  /\ Faults
  /\ wstate # "off"
  /\ wstate' = "off"
  /\ job' = [c \in Calls |-> [d \in Deliveries |->
               IF job[c][d] \in Running THEN "done" ELSE job[c][d]]]
  /\ Requeue
  /\ UNCHANGED <<clientVars, declared, returned, mail,
                 deliv, replied, sent, worked>>

\* close(): cancel the consumer; set queue to None; close the channel.
WorkerCloseBegins ==
  /\ Faults
  /\ wstate = "ready"
  /\ wstate' = "cancelling"
  /\ UNCHANGED <<clientVars, brokerVars, mail,
                 deliv, job, replied, sent, worked>>

WorkerCloseForgets ==
  /\ wstate = "cancelling"
  /\ wstate' = "closing"
  /\ UNCHANGED <<clientVars, brokerVars, mail,
                 deliv, job, replied, sent, worked>>

WorkerCloseEnds ==
  /\ wstate = "closing"
  /\ wstate' = "off"
  /\ Requeue
  /\ UNCHANGED <<clientVars, declared, returned, mail,
                 deliv, job, replied, sent, worked>>

WorkerLife == \/ WorkerInit \/ Register \/ WorkerChannelLost \/ WorkerCrash
              \/ WorkerCloseBegins \/ WorkerCloseForgets \/ WorkerCloseEnds

JobSteps(c, d) ==
  \/ Reject(c, d) \/ Handle(c, d)
  \/ HandlerReplies(c, d) \/ HandlerReplied(c, d)
  \/ HandlerReturns(c, d) \/ HandlerRaises(c, d)
  \/ FailureReplied(c, d) \/ FailureReplyFails(c, d) \/ Ack(c, d)

-----------------------------------------------------------------------------
\* The expiration of a request has passed while it was waiting in the queue.
Expire(c) ==
  /\ Timeouts
  /\ c \in ready
  /\ ready' = ready \ {c}
  /\ UNCHANGED <<clientVars, declared, returned, unacked, mail, workerVars>>

Next ==
  \/ \E c \in Calls : ClientSteps(c) \/ Deliver(c) \/ Expire(c)
  \/ \E c \in Calls, d \in Deliveries : JobSteps(c, d)
  \/ ClientChannelLost
  \/ ClientClose
  \/ WorkerLife

Spec == Init /\ [][Next]_vars

-----------------------------------------------------------------------------
(* Properties *)

\* A caller is given a result only if a handler working for its call replied
\* with success, however replies of several deliveries cross each other.
ResultMeansWorked == \A c \in Calls : end[c] = "result" => c \in worked

\* While the client is open, a call that waits can be reached: its task is in
\* the table that on_message, on_message_returned and on_close look it up in.
OpenCallIsReachable ==
  \A c \in Calls :
    /\ cstate = "open"
    /\ cpc[c] \in {"publishing", "confirming", "waiting"}
    /\ fut[c] = "pending"
    => c \in tasks

\* The table keeps no task of a call that was answered; what stays behind are
\* calls that ended without hearing from the worker.
AnsweredTaskIsForgotten ==
  \A c \in tasks :
    cpc[c] = "done" => end[c] \in {"timeout", "cancelled", "channel_closed",
                                  "publish_failed", "client_closed"}

\* The table holds the calls that can still be answered, all of them, and of the
\* others only those that were given up.
TableServesCalls == OpenCallIsReachable /\ AnsweredTaskIsForgotten

\* A delivery that holds a slot of the prefetch is at some stage of on_message,
\* so that the slot comes back; and no request is in two places.
UnackedIsHandled ==
  /\ ready \cap unacked = {}
  /\ returned \cap (ready \cup unacked) = {}
  /\ \A c \in unacked : deliv[c] > 0 /\ job[c][deliv[c]] \in Running

\* A delivery is answered at most twice: by its context, and by on_message for a
\* handler that raised or was cancelled after that.
AtMostTwoReplies ==
  \A c \in Calls, d \in Deliveries :
    /\ sent[c][d] <= 2
    /\ sent[c][d] = 2 => replied[c][d]

\* Neither a redelivery nor a fault in mid-answer leaves a delivery stuck, nor makes
\* it answer over and over.
DeliveriesEnd == UnackedIsHandled /\ AtMostTwoReplies

\* Without faults, and with handlers that always reply or raise, a request is
\* acked only after a reply to it was published.
AckedIsAnswered ==
  ~Faults /\ ~Silent =>
    \A c \in Calls, d \in Deliveries : job[c][d] = "done" => sent[c][d] >= 1

\* The component keeps the promise of RpcCall.
Phase(c) == CASE cpc[c] = "idle" -> "idle"
              [] cpc[c] = "done" -> "ended"
              [] OTHER           -> "open"
AbstractEnd(c) == IF end[c] \in {"none", "result"} THEN end[c] ELSE "failure"
RC == INSTANCE RpcCall WITH phase <- [c \in Calls |-> Phase(c)],
                            end <- [c \in Calls |-> AbstractEnd(c)]
ImplementsRpcCall == RC!Spec
=============================================================================
