------------------------------- MODULE RpcCall -------------------------------
(***************************************************************************)
(* What a caller of asynctask.Client.call may rely on.  A call ends once.  *)
(* It ends with a result only if a handler that worked for this very call  *)
(* replied with success; any other end says nothing of what was done: the  *)
(* handler may have worked before, may be at it, or may never start.       *)
(***************************************************************************)
CONSTANTS Calls

VARIABLES phase,    \* phase[c]: the call has not begun, is open, or has ended
          worked,   \* the calls whose handler has replied with success
          end       \* end[c]: "result", "failure", or "none" before the end

vars == <<phase, worked, end>>

Init == /\ phase = [c \in Calls |-> "idle"]
        /\ worked = {}
        /\ end = [c \in Calls |-> "none"]

Begin(c) == /\ phase[c] = "idle"
            /\ phase' = [phase EXCEPT ![c] = "open"]
            /\ UNCHANGED <<worked, end>>

\* A handler may reply for a call nobody waits for any more.
Work(c) == /\ phase[c] # "idle"
           /\ worked' = worked \cup {c}
           /\ UNCHANGED <<phase, end>>

\* A call may fail without having been opened.
End(c, e) == /\ phase[c] # "ended"
             /\ e = "result" => c \in worked
             /\ phase' = [phase EXCEPT ![c] = "ended"]
             /\ end' = [end EXCEPT ![c] = e]
             /\ UNCHANGED worked

Next == \E c \in Calls : Begin(c) \/ Work(c) \/ \E e \in {"result", "failure"} : End(c, e)

Spec == Init /\ [][Next]_vars
=============================================================================
