------------------------- MODULE MCDiscordSessions -------------------------
(* Instances of DiscordSessions for TLC, and the fairness of its loop. *)
EXTENDS DiscordSessions

\* The loop runs what is ready, hours pass, and night falls.
FairLoop ==
  /\ \A h \in Handlers : WF_vars(Handle(h))
  /\ WF_vars(Ages)
  /\ WF_vars(JobReads)
  /\ WF_vars(JobDeletes)

LiveSpec == Spec /\ FairLoop

\* Whatever events have raced for it and failed, no game is left open in the table:
\* it is finished or dropped, unless the database and the process go on failing.
NoGameStaysOpen ==
  <>[][~Fault]_vars =>
    \A u \in Users, g \in Games : \A i \in 1..Copies * MaxChanges :
      []<>(i \in DOMAIN acts[u][g] => acts[u][g][i].state \in {"done", "gone"})
=============================================================================
