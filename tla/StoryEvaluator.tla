--------------------------- MODULE StoryEvaluator ---------------------------
(***************************************************************************)
(* One test story being evaluated against a cluster: StoryEvaluator with   *)
(* the two evaluators it drives, ChapterEvaluator and                      *)
(* SupplementalChapterEvaluator, and the ChapterReader they send requests  *)
(* through.  The process is single threaded; it gives up control only at   *)
(* the two awaits of the retry loop, the request (pc = "waiting") and the  *)
(* pause before the next try (pc = "sleeping").  What the cluster answers  *)
(* is chosen by the environment.                                           *)
(***************************************************************************)
EXTENDS Story

CONSTANT Stories       \* the stories a behaviour may be given

ASSUME StoriesAssumption == \A s \in Stories : IsStory(s)

\* No evaluation yet.
Unevaluated == "unevaluated"

VARIABLES
  story,       \* the story, never changed
  dry_run,     \* the --dry-run option, never changed
  pc,          \* where the evaluation is
  at,          \* the step it is at
  has_errors,  \* prologue and chapter errors so far
  outputs,     \* StoryOutputs: for every id the step whose values it holds, 0 if none
  tries,       \* tries left of the step, the one in flight included
  verdict,     \* the evaluation of every step
  sent,        \* history: requests sent for every step
  result       \* the result of the story

vars == <<story, dry_run, pc, at, has_errors, outputs, tries, verdict, sent, result>>

Control == {"start", "step", "waiting", "sleeping", "done", "aborted"}

step == story.steps[at]

-----------------------------------------------------------------------------
(***************************************************************************)
(* What ChapterReader.read hands back.  The status is one the step accepts *)
(* or another, or none when the connection failed.  An error is set when   *)
(* there was no response, and also when the body of a good response could  *)
(* not be parsed; neither leaves a payload, so no output value is found.   *)
(* `faults` names the checks that what was sent and received do not pass:  *)
(* of the parameters and the request body against the spec, of the payload *)
(* against the spec, of the payload against the payload the step expects.  *)
(***************************************************************************)
Response ==
  {r \in [status: {"accepted", "other", "none"}, error: BOOLEAN,
          values: BOOLEAN, faults: SUBSET {"request", "schema", "body"}] :
     /\ r.status = "none" => r.error
     /\ r.error => ~r.values}

evaluate_request(r) == IF "request" \in r.faults THEN "FAILED" ELSE "PASSED"

evaluate_payload_schema(r) == IF "schema" \in r.faults THEN "FAILED" ELSE "PASSED"

evaluate_payload_body(r) == IF "body" \in r.faults THEN "FAILED" ELSE "PASSED"

\* An empty output asks nothing of the response.
extract_output_values(st, r) ==
  IF ~st.stores THEN "SKIPPED" ELSE IF st.output = {} \/ r.values THEN "PASSED" ELSE "ERROR"

evaluate_status(r) == IF r.status = "accepted" /\ ~r.error THEN "PASSED" ELSE "ERROR"

\* One try of a chapter: a wrong status leaves the payload unchecked and the
\* output unread, not the request.
ChapterTry(st, r) ==
  LET passed == evaluate_status(r) = "PASSED"
      output == IF passed THEN extract_output_values(st, r) ELSE "SKIPPED"
      payload == IF passed THEN {evaluate_payload_schema(r), evaluate_payload_body(r)}
                           ELSE {"SKIPPED"}
  IN  [result |-> overall_result({evaluate_request(r), evaluate_status(r), output} \cup payload),
       output |-> output = "PASSED"]

\* One try of a prologue or epilogue: nothing is held against the spec, the
\* output is read whatever the status, and the error plays no part.
SupplementalTry(st, r) ==
  LET passed == r.status = "accepted"
      output == extract_output_values(st, r)
  IN  [result |-> overall_result({IF passed THEN "PASSED" ELSE "ERROR",
                                  IF passed THEN evaluate_payload_body(r) ELSE "SKIPPED",
                                  output}),
       output |-> output = "PASSED"]

Try(st, r) == IF st.part = "chapter" THEN ChapterTry(st, r) ELSE SupplementalTry(st, r)

\* The verdicts that end the retry loop.
Final(st) == IF st.part = "chapter" THEN {"PASSED", "SKIPPED"} ELSE {"PASSED"}

\* Mistakes: a FAILED prologue stops nothing; a chapter stops nothing.
StoppingOnErrorOnly(st) == IF st.part = "epilogue" THEN {} ELSE {"ERROR"}

StoppingByPrologue(st) ==
  IF st.part = "prologue" THEN Result \ {"PASSED", "SKIPPED"} ELSE {}

\* The verdicts of a step that keep the chapters after it from running.
Stopping(st) ==
  CASE st.part = "prologue" -> Result \ {"PASSED", "SKIPPED"}
    [] st.part = "chapter"  -> {"ERROR"}
    [] OTHER                -> {}

\* The step whose value replaces a reference when a request is put together,
\* 0 when the id holds no value of that name (get_output_value is undefined).
resolve_string(ref) ==
  LET q == outputs[ref[1]]
  IN  IF q # 0 /\ ref[2] \in story.steps[q].output THEN q ELSE 0

\* What resolve_params and resolve_value replace in the request of a step: the
\* references in parameters and payload values, and those in payload keys.
resolved(st) == st.uses \cup st.keys

set_chapter_output(st, stored) ==
  outputs' = IF stored /\ st.id # NoId THEN [outputs EXCEPT ![st.id] = at] ELSE outputs

-----------------------------------------------------------------------------
Init ==
  /\ story \in Stories
  /\ dry_run \in BOOLEAN
  /\ pc = "start" /\ at = 1
  /\ has_errors = FALSE
  /\ outputs = [id \in Ids |-> 0]
  /\ tries = 0
  /\ verdict = [p \in Positions(story) |-> Unevaluated]
  /\ sent = [p \in Positions(story) |-> 0]
  /\ result = Unevaluated

\* The distribution lists or the version range of the story rule it out.
SkipStory ==
  /\ pc = "start" /\ story.gate = "excluded"
  /\ pc' = "done" /\ result' = "SKIPPED"
  /\ UNCHANGED <<story, dry_run, at, has_errors, outputs, tries, verdict, sent>>

\* check_story_variables refuses the story.
RefuseStory ==
  /\ pc = "start" /\ story.gate = "runs" /\ ~WellDefined(story)
  /\ pc' = "done" /\ result' = "ERROR"
  /\ UNCHANGED <<story, dry_run, at, has_errors, outputs, tries, verdict, sent>>

\* Mistake: the verdict of check_story_variables is not looked at.
BeginUnchecked ==
  /\ pc = "start" /\ story.gate = "runs"
  /\ pc' = "step"
  /\ UNCHANGED <<story, dry_run, at, has_errors, outputs, tries, verdict, sent, result>>

BeginStory ==
  /\ pc = "start" /\ story.gate = "runs" /\ WellDefined(story)
  /\ pc' = "step"
  /\ UNCHANGED <<story, dry_run, at, has_errors, outputs, tries, verdict, sent, result>>

\* The step is given its verdict and the loop goes to the next one.
Settle(v) ==
  /\ verdict' = [verdict EXCEPT ![at] = v]
  /\ at' = at + 1
  /\ pc' = "step"
  /\ UNCHANGED <<story, dry_run, sent, result>>

SettleUnsent(v) == Settle(v) /\ UNCHANGED <<has_errors, outputs, tries>>

AtStep == pc = "step" /\ at \in Positions(story)

DryRunStep == AtStep /\ dry_run /\ SettleUnsent("SKIPPED")

AtChapter == AtStep /\ ~dry_run /\ step.part = "chapter"

\* The conditions of a chapter, in the order the code tries them.
SkipExcluded == AtChapter /\ step.gate = "excluded" /\ SettleUnsent("SKIPPED")

AtOpenChapter == AtChapter /\ step.gate = "runs"

IgnorePending == AtOpenChapter /\ step.pending /\ SettleUnsent("IGNORED")

\* Mistake: prologues and epilogues are skipped after an error too.
SkipAnyAfterError == AtStep /\ ~dry_run /\ has_errors /\ SettleUnsent("SKIPPED")

SkipAfterError ==
  AtOpenChapter /\ ~step.pending /\ has_errors /\ SettleUnsent("SKIPPED")

FailUnlocated ==
  AtOpenChapter /\ ~step.pending /\ ~has_errors /\ ~step.located /\ SettleUnsent("FAILED")

\* Prologues and epilogues are sent whatever their conditions say.
Sendable ==
  \/ AtStep /\ ~dry_run /\ step.part # "chapter"
  \/ AtOpenChapter /\ ~step.pending /\ ~has_errors /\ step.located

Request ==
  /\ pc' = "waiting"
  /\ sent' = [sent EXCEPT ![at] = @ + 1]
  /\ UNCHANGED <<story, dry_run, at, has_errors, outputs, verdict, result>>

\* Mistake: the first try is taken for a retry.
SendOneTryShort == Sendable /\ tries' = step.retry /\ Request

Send == Sendable /\ tries' = step.retry + 1 /\ Request

\* The response settles the step: it is final, or there is no try left.
Conclude(r) ==
  LET e == Try(step, r)
  IN  /\ pc = "waiting"
      /\ e.result \in Final(step) \/ tries = 1
      /\ Settle(e.result)
      /\ tries' = 0
      /\ has_errors' = (has_errors \/ e.result \in Stopping(step))
      /\ set_chapter_output(step, e.output)

\* Mistake: the loop does not see that no try is left.
RetryUnguarded(r) ==
  /\ pc = "waiting"
  /\ Try(step, r).result \notin Final(step)
  /\ tries' = tries - 1
  /\ pc' = "sleeping"
  /\ UNCHANGED <<story, dry_run, at, has_errors, outputs, verdict, sent, result>>

Retry(r) ==
  /\ pc = "waiting"
  /\ Try(step, r).result \notin Final(step) /\ tries > 1
  /\ tries' = tries - 1
  /\ pc' = "sleeping"
  /\ UNCHANGED <<story, dry_run, at, has_errors, outputs, verdict, sent, result>>

Wake == pc = "sleeping" /\ Request /\ UNCHANGED tries

\* Mistakes: the loop over the steps does not end after the last one; the
\* verdicts of the prologues and the epilogues are left out.
FinishLate ==
  /\ pc = "step" /\ at > Len(story.steps) + 1
  /\ result' = overall_result({verdict[p] : p \in Positions(story)})
  /\ pc' = "done"
  /\ UNCHANGED <<story, dry_run, at, has_errors, outputs, tries, verdict, sent>>

FinishWithChapters ==
  /\ pc = "step" /\ at = Len(story.steps) + 1
  /\ result' = overall_result({verdict[p] : p \in
                   {q \in Positions(story) : story.steps[q].part = "chapter"}})
  /\ pc' = "done"
  /\ UNCHANGED <<story, dry_run, at, has_errors, outputs, tries, verdict, sent>>

Finish ==
  /\ pc = "step" /\ at = Len(story.steps) + 1
  /\ result' = overall_result({verdict[p] : p \in Positions(story)})
  /\ pc' = "done"
  /\ UNCHANGED <<story, dry_run, at, has_errors, outputs, tries, verdict, sent>>

\* An exception leaves evaluate and nothing above it catches it.
Abort ==
  /\ pc' = "aborted"
  /\ UNCHANGED <<story, dry_run, at, has_errors, outputs, tries, verdict, sent, result>>

\* semver.satisfies throws on a range it cannot parse.
InvalidRange ==
  /\ \/ pc = "start" /\ story.gate = "invalid_range"
     \/ AtChapter /\ step.gate = "invalid_range"
  /\ Abort

\* Object.entries throws on a null inside a request payload.
NullPayload == pc = "start" /\ story.gate = "null_payload" /\ Abort

\* The reader's catch parses the body of an error response, and throws if it
\* cannot; the schema validator throws on a $ref the spec does not resolve.
ReadThrows == pc = "waiting" /\ Abort

-----------------------------------------------------------------------------
\* What the evaluators do on their own, and what the cluster has to do.
Local ==
  \/ SkipStory \/ RefuseStory \/ BeginStory
  \/ DryRunStep \/ SkipExcluded \/ IgnorePending \/ SkipAfterError \/ FailUnlocated
  \/ Send \/ Wake \/ Finish \/ InvalidRange \/ NullPayload

Answer == ReadThrows \/ \E r \in Response : Conclude(r) \/ Retry(r)

Next == Local \/ Answer

\* The event loop runs the process on; the cluster answers every request or
\* its connection breaks.
Fairness == WF_vars(Local) /\ WF_vars(Answer)

Spec == Init /\ [][Next]_vars /\ Fairness

-----------------------------------------------------------------------------
\* A reference stands for a value of an earlier step that was sent, or for
\* nothing; of the step that supplies it, if that one was sent.
ResolvesCurrently(ref) ==
  /\ resolve_string(ref) # 0 =>
       \E q \in Positions(story) :
         /\ resolve_string(ref) = q /\ q < at /\ sent[q] > 0
         /\ Declares(story, q, ref[1]) /\ ref[2] \in story.steps[q].output
  /\ \A q \in Positions(story) : Supplies(story, q, at, ref[1]) /\ sent[q] > 0 =>
       resolve_string(ref) = IF ref[2] \in story.steps[q].output THEN q ELSE 0

TypeOK ==
  /\ IsStory(story)
  /\ dry_run \in BOOLEAN
  /\ pc \in Control
  /\ at \in 1 .. Len(story.steps) + 1
  /\ has_errors \in BOOLEAN
  /\ outputs \in [Ids -> 0 .. Len(story.steps)]
  /\ tries \in Nat
  /\ verdict \in [Positions(story) -> Result \cup {Unevaluated}]
  /\ sent \in [Positions(story) -> Nat]
  /\ result \in Result \cup {Unevaluated}

(***************************************************************************)
(* A step is requested at most retry.count + 1 times, and it is given up   *)
(* as ERROR or FAILED only after exactly that many requests: no retry is   *)
(* lost and none is added, whichever of the two retry loops runs.          *)
(***************************************************************************)
RetriesExhausted ==
  \A p \in Positions(story) :
    LET count == story.steps[p].retry
    IN  /\ sent[p] <= count + 1
        /\ verdict[p] \in Bad /\ sent[p] > 0 => sent[p] = count + 1

(***************************************************************************)
(* The references of a chapter that is on its way to the cluster.  Those   *)
(* in parameters and payload values were matched with an earlier step by   *)
(* check_story_variables; those in payload keys are replaced all the same  *)
(* and were matched with nothing.  Either kind stands for a value of an    *)
(* earlier step that sent a request and has that id and that output, or    *)
(* for nothing; and when the last earlier step with an output under the id *)
(* did send one, it stands for the value of that step.  So a checked       *)
(* reference goes wrong in one way only: the step it was matched with was  *)
(* excluded, pending, skipped or not in the spec.                          *)
(***************************************************************************)
ReferencesCurrent ==
  pc = "waiting" /\ step.part = "chapter" =>
    /\ \A ref \in step.uses : ResolvesAt(story, at, ref)
    /\ \A ref \in resolved(step) : ResolvesCurrently(ref)

(***************************************************************************)
(* A story that is not reported as a failure left nothing unchecked: every *)
(* prologue and epilogue passed, and every chapter meant to run was in the *)
(* spec, was sent and passed.  In particular no chapter was skipped for an *)
(* earlier error.                                                          *)
(***************************************************************************)
GreenMeansChecked ==
  pc = "done" /\ result \notin Bad /\ story.gate = "runs" /\ ~dry_run =>
    \A p \in Positions(story) :
      \/ verdict[p] = "PASSED" /\ sent[p] > 0
      \/ /\ story.steps[p].part = "chapter"
         /\ story.steps[p].gate = "excluded" \/ story.steps[p].pending

(***************************************************************************)
(* Nothing reaches the cluster in a dry run, for a story that is ruled out *)
(* or for one with an output without an id or a reference, in a parameter  *)
(* or a payload value, that no earlier step supplies.                      *)
(***************************************************************************)
QuietWhenRefused ==
  (\E p \in Positions(story) : sent[p] > 0) =>
    ~dry_run /\ story.gate = "runs" /\ WellDefined(story)

(***************************************************************************)
(* No chapter is requested once a prologue has not passed or a chapter has *)
(* ended in ERROR, however many steps ago; a FAILED chapter stops nothing. *)
(***************************************************************************)
NoRequestAfterError ==
  [][\A p \in Positions(story) :
       sent'[p] # sent[p] /\ story.steps[p].part = "chapter" =>
         \A q \in 1 .. p - 1 :
           IF story.steps[q].part = "prologue"
           THEN verdict[q] = "PASSED"
           ELSE verdict[q] # "ERROR"]_vars

(***************************************************************************)
(* Whatever the verdicts of the other steps, a story that has sent a       *)
(* request goes on to request every epilogue, unless an exception ends it. *)
(***************************************************************************)
CleansUp ==
  (\E p \in Positions(story) : sent[p] > 0) ~>
    \/ pc = "aborted"
    \/ \A p \in Positions(story) : story.steps[p].part = "epilogue" => sent[p] > 0

(***************************************************************************)
(* What the testing guide says and the code does not do.  "epilogues:      *)
(* These are the operations that are executed after the test story is run. *)
(* They are used to clean up the environment after the test story"         *)
(* (TESTING_GUIDE.md): once a story that sent a request is over, each      *)
(* epilogue has been sent.                                                 *)
(***************************************************************************)
CleanedUpAtEnd ==
  pc \in {"done", "aborted"} /\ (\E p \in Positions(story) : sent[p] > 0) =>
    \A p \in Positions(story) : story.steps[p].part = "epilogue" => sent[p] > 0

\* Every story comes to an end.
Terminates == <>(pc \in {"done", "aborted"})

\* The evaluation implements the lifecycle: requests, retries and outputs are
\* stuttering steps of it.
Lifecycle == INSTANCE StoryLifecycle WITH
               part <- [p \in Positions(story) |-> story.steps[p].part],
               over <- pc \in {"done", "aborted"}

ImplementsLifecycle == Lifecycle!Spec

LifecycleSafety == Lifecycle!Init /\ [][Lifecycle!Next]_Lifecycle!vars
=============================================================================
