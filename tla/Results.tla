------------------------------ MODULE Results ------------------------------
(***************************************************************************)
(* The verdicts of the story tester and the rule that folds the verdicts   *)
(* of the parts into the verdict of the whole (tester/helpers.ts).  The    *)
(* rule looks only at which verdicts occur, so it is stated on sets.       *)
(***************************************************************************)

Result == {"PASSED", "IGNORED", "FAILED", "SKIPPED", "ERROR"}

\* The verdicts that make a run of the tester fail.
Bad == {"ERROR", "FAILED"}

\* Mistake: a FAILED part among passed ones is overlooked.
overall_of_errors(results) ==
  CASE "ERROR" \in results     -> "ERROR"
    [] results = {"SKIPPED"}   -> "SKIPPED"
    [] OTHER                   -> "PASSED"

overall_result(results) ==
  CASE results = {}           -> "PASSED"
    [] "ERROR" \in results    -> "ERROR"
    [] "FAILED" \in results /\ "ERROR" \notin results -> "FAILED"
    [] results = {"SKIPPED"}  -> "SKIPPED"
    [] OTHER                  -> "PASSED"
=============================================================================
