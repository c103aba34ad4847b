------------------------ MODULE OpenSearchHttpClient ------------------------
(***************************************************************************)
(* OpenSearchHttpClient.wait_until_available: ask the cluster for its info *)
(* until it answers, the answer says that asking again is pointless, or    *)
(* the attempts run out.                                                   *)
(***************************************************************************)
EXTENDS Naturals

CONSTANT max_attempts

ASSUME MaxAttemptsAssumption == max_attempts \in Nat \ {0}

VARIABLES
  link,      \* idle, asking or sleeping; then ready or down for good
  attempt,   \* attempts begun
  refusal    \* how the last attempt failed, "none" if none has

clientVars == <<link, attempt, refusal>>

\* 401, 403 and every other 4xx (axios codes them ERR_BAD_REQUEST), and a
\* certificate that cannot be verified.
Fatal == {"unauthorized", "forbidden", "bad_request", "unverifiable"}

\* No connection, a 5xx, or a body that is not JSON, if the client parses it.
Passing == {"unreachable", "server_error", "garbled"}

ClientInit == link = "idle" /\ attempt = 0 /\ refusal = "none"

Ask == link' = "asking" /\ attempt' = attempt + 1 /\ UNCHANGED refusal

wait_until_available == link = "idle" /\ Ask

Available == link = "asking" /\ link' = "ready" /\ UNCHANGED <<attempt, refusal>>

\* Mistake: asking again whatever the refusal.
RefusedStubbornly(kind) ==
  /\ link = "asking"
  /\ refusal' = kind
  /\ link' = IF attempt >= max_attempts THEN "down" ELSE "sleeping"
  /\ UNCHANGED attempt

\* The attempt failed: throw, or sleep before the next one.
Refused(kind) ==
  /\ link = "asking"
  /\ refusal' = kind
  /\ link' = IF kind \in Fatal \/ attempt >= max_attempts THEN "down" ELSE "sleeping"
  /\ UNCHANGED attempt

\* Mistake: only the first attempt is counted.
AskUncounted == link = "sleeping" /\ link' = "asking" /\ UNCHANGED <<attempt, refusal>>

AskAgain == link = "sleeping" /\ Ask

ClientNext ==
  \/ wait_until_available \/ Available \/ AskAgain
  \/ \E kind \in Fatal \cup Passing : Refused(kind)

\* Every question is answered or its connection breaks.
ClientSpec == ClientInit /\ [][ClientNext]_clientVars /\ WF_clientVars(ClientNext)

-----------------------------------------------------------------------------
ClientTypeOK ==
  /\ link \in {"idle", "asking", "sleeping", "ready", "down"}
  /\ attempt \in 0 .. max_attempts
  /\ refusal \in Fatal \cup Passing \cup {"none"}

(***************************************************************************)
(* The wait is given up exactly when it should be: at the last attempt,    *)
(* with attempts left only on a fatal refusal, and never asking again      *)
(* after one.                                                              *)
(***************************************************************************)
GivesUpInTime ==
  /\ attempt <= max_attempts
  /\ link = "down" => refusal \in Fatal \/ attempt = max_attempts
  /\ link \in {"sleeping", "asking"} => refusal \notin Fatal
=============================================================================
