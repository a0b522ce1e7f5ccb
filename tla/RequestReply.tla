---------------------------- MODULE RequestReply ----------------------------
(***************************************************************************)
(* What a caller of the relay may rely on (proxy_http): a call ends, once, *)
(* and it ends with a response only if the target device answered it while *)
(* it was open.  Every other way to end tells the caller that there is no  *)
(* response.                                                               *)
(***************************************************************************)
CONSTANTS Request

VARIABLES call, answered

vars == <<call, answered>>

NoResponse == {"offline", "busy", "disconnected", "timeout", "gone"}

Init ==
  /\ call = [r \in Request |-> "idle"]
  /\ answered = {}

\* A device that is not registered is reported at once.
Begin(r) ==
  /\ call[r] = "idle"
  /\ \E c \in {"open", "offline"} : call' = [call EXCEPT ![r] = c]
  /\ UNCHANGED answered

Answer(r) ==
  /\ call[r] # "idle"
  /\ answered' = answered \cup {r}
  /\ UNCHANGED call

End(r) ==
  /\ call[r] = "open"
  /\ \E o \in NoResponse \cup (IF r \in answered THEN {"response"} ELSE {}) :
       call' = [call EXCEPT ![r] = o]
  /\ UNCHANGED answered

Next == \E r \in Request : Begin(r) \/ Answer(r) \/ End(r)

Spec ==
  /\ Init
  /\ [][Next]_vars
  /\ \A r \in Request : WF_vars(End(r))

=============================================================================
