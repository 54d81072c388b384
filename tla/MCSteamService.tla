--------------------------- MODULE MCSteamService ---------------------------
(* An instance of SteamService for TLC, and the fairness of its loop. *)
EXTENDS SteamService

CONSTANTS u1, u2

\* A list that names a user twice, which the configuration does not exclude.
MCOrder == <<u1, u2, u1>>

FairLoop == WF_vars(Progress)

LiveSpec == Spec /\ FairLoop

\* Once Steam's answer for a listed user stands and nothing fails any more, the
\* database comes to say what Steam says, whatever the passes before have left.
FollowsSteam ==
  <>[][~(NoAnswer \/ PassFails \/ Crash)]_vars =>
    \A i \in DOMAIN Order : \A a \in Answers :
      <>[](steam[Order[i]] = a) =>
        <>[](/\ Tells(playing[Order[i]], a.game)
             /\ Tells(being[Order[i]], a.status))
=============================================================================
