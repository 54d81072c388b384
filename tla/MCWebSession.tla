---------------------------- MODULE MCWebSession ----------------------------
(* An instance of WebSession for TLC. *)
EXTENDS WebSession, TLC

CONSTANTS r1, r2, r3, k1, k2, k3, browser, hasty, clerk

\* A browser that waits; a client that does not, with a cookie and a token; and one
\* that creates accounts, to whose creations a session makes no difference.
MCKeeps ==
  [c \in Clients |-> CASE c = browser -> {"cookie"} [] c = hasty -> Ways [] c = clerk -> {}]

\* Accounts are created by the clerk, who asks for nothing else, and apart: all requests
\* that come are creations, with or without credentials, or none is.
CreationsApart ==
  LET came == {r \in Requests : pc[r] # "new"}
      creations == {r \in came : req[r].kind = "create"}
  IN /\ creations \in {{}, came}
     /\ \A r \in came : pc[r] \in Asked => (r \in creations) = (req[r].client = clerk)

\* Which key a session gets makes no difference, nor which request comes first.
Symmetry == Permutations(Keys) \cup Permutations(Requests)
=============================================================================
