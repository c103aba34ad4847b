--------------------------- MODULE StoryLifecycle ---------------------------
(***************************************************************************)
(* What the evaluation of a story promises, without requests, retries or   *)
(* output values: the steps get their verdicts one after the other, a      *)
(* verdict is never taken back, a chapter after an error gets none of its  *)
(* own, and the result is the overall result of all the verdicts.          *)
(***************************************************************************)
EXTENDS Naturals, Sequences, Results

VARIABLES
  part,      \* the part of the story every step belongs to, never changed
  verdict,   \* the verdicts given so far
  over,      \* the evaluation has ended
  result     \* the result of the story, if it got one

vars == <<part, verdict, over, result>>

Open == "unevaluated"

Parts == {"prologue", "chapter", "epilogue"}

Steps == DOMAIN verdict

Init ==
  /\ part \in Seq(Parts)
  /\ verdict = [p \in DOMAIN part |-> Open]
  /\ over = FALSE
  /\ result = Open

Stopped(p) ==
  \E q \in 1 .. p - 1 :
    \/ part[q] = "prologue" /\ verdict[q] \notin {"PASSED", "SKIPPED"}
    \/ part[q] = "chapter" /\ verdict[q] = "ERROR"

Judge(p, v) ==
  /\ ~over
  /\ verdict[p] = Open /\ \A q \in 1 .. p - 1 : verdict[q] # Open
  /\ part[p] = "chapter" /\ Stopped(p) => v \in {"SKIPPED", "IGNORED"}
  /\ verdict' = [verdict EXCEPT ![p] = v]
  /\ UNCHANGED <<part, over, result>>

\* The story is turned away before its first step.
TurnAway ==
  /\ ~over /\ \A p \in Steps : verdict[p] = Open
  /\ result' \in {"SKIPPED", "ERROR"} /\ over' = TRUE
  /\ UNCHANGED <<part, verdict>>

Conclude ==
  /\ ~over /\ \A p \in Steps : verdict[p] # Open
  /\ result' = overall_result({verdict[p] : p \in Steps}) /\ over' = TRUE
  /\ UNCHANGED <<part, verdict>>

\* An exception ends the evaluation without a result.
GiveUp ==
  /\ ~over /\ over' = TRUE
  /\ UNCHANGED <<part, verdict, result>>

Next ==
  \/ \E p \in Steps, v \in Result : Judge(p, v)
  \/ TurnAway \/ Conclude \/ GiveUp

Spec == Init /\ [][Next]_vars /\ WF_vars(Next)
=============================================================================
