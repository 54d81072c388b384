----------------------------- MODULE MCAsyncTask -----------------------------
(* Instances of AsyncTask for TLC, and the fairness of the parts of the RPC. *)
EXTENDS AsyncTask

\* The loops of both processes run what is ready, the broker moves what it has,
\* and handlers come to an end; no call, close or fault has to happen.
FairClient ==
  \A c \in Calls :
    /\ WF_vars(Route(c)) /\ WF_vars(Confirm(c)) /\ WF_vars(Resume(c))
    /\ WF_vars(OnMessage(c)) /\ WF_vars(OnMessageReturned(c))

FairWorker ==
  /\ WF_vars(Register)
  /\ \A c \in Calls : SF_vars(Deliver(c))
  /\ \A c \in Calls, d \in Deliveries : WF_vars(JobSteps(c, d))

\* The timer fires and the caller runs again; the broker and the worker may do
\* nothing at all.
FairTimer == \A c \in Calls : WF_vars(Timeout(c)) /\ WF_vars(Resume(c))

AnswerSpec  == Spec /\ FairClient /\ FairWorker
TimeoutSpec == Spec /\ FairTimer

\* Where nothing fails and handlers reply or raise, no call depends on its
\* timeout: a missing queue, a missing handler and a failing handler all answer.
EveryCallIsAnswered ==
  \A c \in Calls : cpc[c] = "waiting" ~> cpc[c] = "done" \/ cstate # "open"

\* With timeouts every call ends, whatever the worker and the channels do, and
\* also if it was made while the client was closing.
EveryCallEnds ==
  \A c \in Calls : cpc[c] = "waiting" ~> cpc[c] = "done"
=============================================================================
