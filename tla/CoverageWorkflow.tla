-------------------------- MODULE CoverageWorkflow --------------------------
(***************************************************************************)
(* The commands of the coverage workflow, in its order: dump-cluster-spec  *)
(* waits for a cluster and writes what it says it provides, merge writes   *)
(* the specification, and coverage compares the two files.  The files are  *)
(* all that passes from one command to the next.                           *)
(***************************************************************************)
EXTENDS OpenSearchHttpClient, CoverageCalculator

VARIABLES
  job,    \* the command that runs: dump, merge or coverage; passed or failed
  files   \* what each file is of: none, an earlier job, or now

vars == <<clientVars, calculatorVars, job, files>>

Files == {"cluster", "specification", "report"}

\* A fresh checkout, or a folder that a job ran in before.
Init ==
  /\ ClientInit /\ CalculatorInit
  /\ job = "dump"
  /\ \E age \in {"none", "earlier"} : files = [f \in Files |-> age]

Write(f) == files' = [files EXCEPT ![f] = "now"]

Wait ==
  /\ job = "dump" /\ ClientNext
  /\ UNCHANGED <<calculatorVars, job, files>>

\* The answer of the plugin is written, whatever it is; then the container is
\* stopped, which may fail.
Dump ==
  /\ job = "dump" /\ link = "ready"
  /\ Write("cluster") /\ job' \in {"merge", "failed"}
  /\ UNCHANGED <<clientVars, calculatorVars>>

\* Mistake: the error is printed, and the command exits with 0.
DumpPrintsError ==
  /\ job = "dump" /\ link \in {"ready", "down"}
  /\ job' = "merge"
  /\ UNCHANGED <<clientVars, calculatorVars, files>>

\* The wait or the request throws, and main exits with 1.
DumpFails ==
  /\ job = "dump" /\ link \in {"ready", "down"}
  /\ job' = "failed"
  /\ UNCHANGED <<clientVars, calculatorVars, files>>

\* The merger writes at its end, and nothing if it throws before.
Merge ==
  /\ job = "merge"
  /\ \/ Write("specification") /\ job' = "coverage"
     \/ job' = "failed" /\ UNCHANGED files
  /\ UNCHANGED <<clientVars, calculatorVars>>

Calculate ==
  /\ job = "coverage"
  /\ calculate \/ (\E t \in paths : Skip(t) \/ Cover(t))
  /\ UNCHANGED <<clientVars, job, files>>

\* A file holds no document, as when the plugin answered with nothing.
CalculateFails ==
  /\ job = "coverage" /\ state = "idle"
  /\ job' = "failed"
  /\ UNCHANGED <<clientVars, calculatorVars, files>>

Report ==
  /\ job = "coverage" /\ Finish
  /\ Write("report") /\ job' = "passed"
  /\ UNCHANGED clientVars

Next == Wait \/ Dump \/ DumpFails \/ Merge \/ Calculate \/ CalculateFails \/ Report

\* The commands run one after the other, and every request is answered or its
\* connection breaks.
Spec == Init /\ [][Next]_vars /\ WF_vars(Next)

-----------------------------------------------------------------------------
TypeOK ==
  /\ ClientTypeOK /\ CalculatorTypeOK
  /\ job \in {"dump", "merge", "coverage", "passed", "failed"}
  /\ files \in [Files -> {"none", "earlier", "now"}]

(***************************************************************************)
(* A report is made of what this job dumped and merged, never of a file    *)
(* that an earlier one left.                                               *)
(***************************************************************************)
ReportOfThisCluster ==
  job = "passed" \/ state # "idle" =>
    link = "ready" /\ files["cluster"] = "now" /\ files["specification"] = "now"

\* Whatever the cluster answers and wherever a command throws, the job ends.
JobEnds == <>(job \in {"passed", "failed"})
=============================================================================
