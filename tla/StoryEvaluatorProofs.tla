----------------------- MODULE StoryEvaluatorProofs -----------------------
(***************************************************************************)
(* Proofs about StoryEvaluator, for every set of stories, ids and names.   *)
(***************************************************************************)
EXTENDS StoryEvaluator, TLAPS

\* The verdict of the whole is ERROR or FAILED if and only if that of a part is.
LEMMA OverallBad ==
  ASSUME NEW S \in SUBSET Result
  PROVE  /\ overall_result(S) \in Result
         /\ overall_result(S) \in Bad <=> \E v \in S : v \in Bad
         /\ overall_result(S) = "ERROR" <=> "ERROR" \in S
BY DEF overall_result, Result, Bad

LEMMA StepIsStep ==
  ASSUME NEW s, IsStory(s), NEW p \in Positions(s)
  PROVE  s.steps[p] \in Step
BY DEF IsStory, Positions

\* The steps of an earlier part come first.
LEMMA PartsInOrder ==
  ASSUME NEW s, IsStory(s), NEW p \in Positions(s), NEW q \in Positions(s), q < p,
         s.steps[p].part = "chapter"
  PROVE  s.steps[q].part \in {"prologue", "chapter"}
<1>1. PartOrder[s.steps[q].part] <= PartOrder[s.steps[p].part]
  BY DEF IsStory, Positions
<1>2. s.steps[q].part \in Parts
  BY StepIsStep DEF Step
<1> QED
  BY <1>1, <1>2 DEF PartOrder, Parts

\* What one try of a step can come to.
LEMMA TryResult ==
  ASSUME NEW st \in Step, NEW r \in Response
  PROVE  /\ Try(st, r).result \in {"PASSED", "FAILED", "ERROR"}
         /\ Try(st, r).output \in BOOLEAN
         /\ Try(st, r).output => st.stores
         /\ /\ st.stores /\ st.part # "epilogue"
            /\ Try(st, r).result \notin Stopping(st)
            => Try(st, r).output
<1>1. CASE st.part = "chapter"
  <2> DEFINE passed == evaluate_status(r) = "PASSED"
             output == IF passed THEN extract_output_values(st, r) ELSE "SKIPPED"
             payload == IF passed THEN {evaluate_payload_schema(r), evaluate_payload_body(r)}
                                  ELSE {"SKIPPED"}
             S == {evaluate_request(r), evaluate_status(r), output} \cup payload
  <2> USE DEF evaluate_status
  <2>1. Try(st, r) = [result |-> overall_result(S), output |-> output = "PASSED"]
    BY <1>1 DEF Try, ChapterTry
  <2>2. output \in {"SKIPPED", "PASSED", "ERROR"} /\ S \in SUBSET Result
    BY DEF extract_output_values, evaluate_request, evaluate_payload_schema,
           evaluate_payload_body, Result
  <2>3. overall_result(S) \in {"PASSED", "FAILED", "ERROR"}
    <3>1. overall_result(S) \in Result /\ "IGNORED" \notin S /\ S # {"SKIPPED"}
      BY <2>2, OverallBad
      DEF extract_output_values, evaluate_request, evaluate_payload_schema, evaluate_payload_body
    <3> QED
      BY <2>2, <3>1 DEF overall_result
  <2>4. output = "PASSED" => st.stores
    BY DEF extract_output_values
  <2>5. st.stores /\ overall_result(S) # "ERROR" => output = "PASSED"
    BY <2>2, OverallBad DEF extract_output_values
  <2>6. Stopping(st) = {"ERROR"}
    BY <1>1 DEF Stopping
  <2> HIDE DEF output, S
  <2>7. Try(st, r).result = overall_result(S)
    BY <2>1
  <2>8. Try(st, r).output = (output = "PASSED")
    BY <2>1
  <2> QED
    BY <2>3, <2>4, <2>5, <2>6, <2>7, <2>8
<1>2. CASE st.part # "chapter"
  <2> DEFINE passed == r.status = "accepted"
             output == extract_output_values(st, r)
             S == {IF passed THEN "PASSED" ELSE "ERROR",
                   IF passed THEN evaluate_payload_body(r) ELSE "SKIPPED", output}
  <2>1. Try(st, r) = [result |-> overall_result(S), output |-> output = "PASSED"]
    BY <1>2 DEF Try, SupplementalTry
  <2>2. output \in {"SKIPPED", "PASSED", "ERROR"} /\ S \in SUBSET Result
    BY DEF extract_output_values, evaluate_payload_body, Result
  <2>3. overall_result(S) \in {"PASSED", "FAILED", "ERROR"}
    BY <2>2 DEF overall_result, evaluate_payload_body, Result
  <2>4. output = "PASSED" => st.stores
    BY DEF extract_output_values
  <2>5. st.stores /\ overall_result(S) # "ERROR" => output = "PASSED"
    BY <2>2, OverallBad DEF extract_output_values
  <2>6. st.part # "epilogue" => "ERROR" \in Stopping(st)
    BY <1>2 DEF Stopping, Step, Parts, Result
  <2> HIDE DEF output, S
  <2>7. Try(st, r).result = overall_result(S)
    BY <2>1
  <2>8. Try(st, r).output = (output = "PASSED")
    BY <2>1
  <2> QED
    BY <2>3, <2>4, <2>5, <2>6, <2>7, <2>8
<1> QED
  BY <1>1, <1>2

-----------------------------------------------------------------------------
(***************************************************************************)
(* The inductive invariant: TypeOK and what is known about the loop.       *)
(***************************************************************************)

\* Steps before `at` have a verdict, steps after it have not been touched.
ProgressInv ==
  \A p \in Positions(story) :
    /\ p < at => verdict[p] \in Result
    /\ at <= p => verdict[p] = Unevaluated
    /\ at < p => sent[p] = 0
    /\ at = p /\ pc \in {"start", "step", "done"} => sent[p] = 0

\* Requests made and tries left add up to the tries of the step.
TriesInv ==
  /\ pc \in {"waiting", "sleeping"} =>
       /\ at \in Positions(story) /\ ~dry_run
       /\ step.part = "chapter" =>
            step.gate = "runs" /\ ~step.pending /\ ~has_errors /\ step.located
       /\ tries > 0 /\ sent[at] > 0
  /\ pc = "waiting" => sent[at] + tries = step.retry + 2
  /\ pc = "sleeping" => sent[at] + tries = step.retry + 1

\* Only a story that is not ruled out and whose variables are right gets past
\* the start.
BegunInv ==
  /\ pc = "start" => at = 1
  /\ at # 1 \/ pc \in {"step", "waiting", "sleeping"} =>
       story.gate = "runs" /\ WellDefined(story)
  /\ (\E p \in Positions(story) : sent[p] > 0) =>
       ~dry_run /\ story.gate = "runs" /\ WellDefined(story)

\* has_errors says whether a verdict so far stops the chapters.
ErrorsInv ==
  has_errors <=>
    \E p \in Positions(story) :
      p < at /\ story.steps[p].part # "epilogue" /\ verdict[p] \in Stopping(story.steps[p])

\* What a verdict says of the step that got it.
VerdictInv ==
  ~dry_run => \A p \in Positions(story) : p < at =>
    \/ sent[p] > 0 /\ verdict[p] \in {"PASSED", "FAILED", "ERROR"}
    \/ /\ story.steps[p].part = "chapter" /\ sent[p] = 0
       /\ \/ story.steps[p].gate = "excluded"
          \/ story.steps[p].pending
          \/ verdict[p] = "SKIPPED" /\ has_errors
          \/ verdict[p] = "FAILED"
       /\ verdict[p] # "ERROR"

\* Without errors, what an id holds is what its last requested step stored.
OutputsInv ==
  ~has_errors =>
    \A q \in Positions(story), id \in Ids :
      /\ story.steps[q].part # "epilogue" /\ q < at /\ sent[q] > 0
      /\ Supplies(story, q, at, id)
      => outputs[id] = q

\* A story that is done was turned away, or got the result of its verdicts.
DoneInv ==
  pc = "done" /\ story.gate = "runs" /\ result \notin Bad =>
    /\ at = Len(story.steps) + 1
    /\ \A p \in Positions(story) : verdict[p] \notin Bad

IInv ==
  /\ TypeOK /\ ProgressInv /\ TriesInv /\ BegunInv /\ RetriesExhausted
  /\ ErrorsInv /\ VerdictInv /\ OutputsInv /\ DoneInv

\* Every story starts with nothing sent, judged or stored.
LEMMA InitInv == Init => IInv
<1> SUFFICES ASSUME Init PROVE IInv
  OBVIOUS
<1>1. IsStory(story)
  BY StoriesAssumption DEF Init
<1>2. Len(story.steps) \in Nat
  BY <1>1 DEF IsStory
<1>3. TypeOK
  <2>1. /\ pc \in Control /\ at \in 1 .. Len(story.steps) + 1 /\ tries \in Nat
        /\ outputs \in [Ids -> 0 .. Len(story.steps)]
    BY <1>2 DEF Init, Control
  <2>2. /\ verdict \in [Positions(story) -> Result \cup {Unevaluated}]
        /\ sent \in [Positions(story) -> Nat]
    BY DEF Init
  <2>3. dry_run \in BOOLEAN /\ has_errors \in BOOLEAN /\ result = Unevaluated
    BY DEF Init
  <2> QED
    BY <1>1, <2>1, <2>2, <2>3 DEF TypeOK
<1>4. ProgressInv /\ TriesInv /\ BegunInv
  BY <1>2 DEF Init, ProgressInv, TriesInv, BegunInv, Positions
<1>5. RetriesExhausted
  <2> SUFFICES ASSUME NEW p \in Positions(story)
               PROVE  0 <= story.steps[p].retry + 1
    BY DEF Init, RetriesExhausted, Bad, Unevaluated
  <2> QED
    BY <1>1, StepIsStep DEF Step
<1>6. ErrorsInv /\ VerdictInv /\ OutputsInv /\ DoneInv
  BY <1>2 DEF Init, ErrorsInv, VerdictInv, OutputsInv, DoneInv, Positions
<1> QED
  BY <1>3, <1>4, <1>5, <1>6 DEF IInv

\* The facts about the current step that every case below starts from.
LEMMA AtStepFacts ==
  ASSUME TypeOK, at \in Positions(story)
  PROVE  /\ step \in Step
         /\ Len(story.steps) \in Nat
         /\ at \in Nat /\ at + 1 \in 1 .. Len(story.steps) + 1
BY StepIsStep DEF TypeOK, IsStory, Positions, step

\* A step that gets its verdict without a request.
LEMMA UnsentStep ==
  ASSUME IInv, AtStep, NEW v \in Result, SettleUnsent(v), v \notin Stopping(step),
         ~dry_run =>
           /\ step.part = "chapter" /\ v # "ERROR"
           /\ \/ step.gate = "excluded"
              \/ step.pending
              \/ v = "SKIPPED" /\ has_errors
              \/ v = "FAILED"
  PROVE  IInv'
<1> USE DEF IInv, SettleUnsent, Settle, AtStep
<1>1. /\ step \in Step /\ Len(story.steps) \in Nat
      /\ at \in Nat /\ at + 1 \in 1 .. Len(story.steps) + 1
  BY AtStepFacts
<1>2. TypeOK'
  BY <1>1 DEF TypeOK, Control, Positions
<1>3. ProgressInv'
  BY <1>1 DEF TypeOK, ProgressInv, Positions
<1>4. TriesInv' /\ BegunInv'
  BY <1>1 DEF TriesInv, BegunInv
<1>5. RetriesExhausted'
  <2> SUFFICES ASSUME NEW p \in Positions(story)
               PROVE  /\ sent[p] <= story.steps[p].retry + 1
                      /\ verdict'[p] \in Bad /\ sent[p] > 0
                           => sent[p] = story.steps[p].retry + 1
    BY DEF RetriesExhausted, Positions
  <2>1. sent[at] = 0
    BY DEF ProgressInv
  <2>2. p # at => verdict'[p] = verdict[p]
    BY DEF TypeOK
  <2> QED
    BY <2>1, <2>2 DEF RetriesExhausted
<1>6. ErrorsInv'
  <2>1. \A p \in Positions(story) :
          p < at' /\ verdict'[p] \in Stopping(story.steps[p])
            <=> p < at /\ verdict[p] \in Stopping(story.steps[p])
    BY <1>1 DEF TypeOK, step, Positions
  <2> QED
    BY <2>1 DEF ErrorsInv
<1>7. VerdictInv'
  BY <1>1 DEF TypeOK, VerdictInv, ProgressInv, step, Positions
<1>8. OutputsInv'
  BY <1>1 DEF OutputsInv, ProgressInv, Supplies, Positions
<1>9. DoneInv'
  BY DEF DoneInv
<1> QED
  BY <1>2, <1>3, <1>4, <1>5, <1>6, <1>7, <1>8, <1>9

\* The story is turned away or begun; the loop has not started.
LEMMA StartStep ==
  ASSUME IInv, SkipStory \/ RefuseStory \/ BeginStory
  PROVE  IInv'
<1> USE DEF IInv, SkipStory, RefuseStory, BeginStory
<1>1. TypeOK'
  BY DEF TypeOK, Control, Result, Positions
<1>2. ProgressInv' /\ TriesInv' /\ BegunInv'
  BY DEF ProgressInv, TriesInv, BegunInv, Positions
<1>3. UNCHANGED <<story, dry_run, at, has_errors, outputs, tries, verdict, sent>>
  OBVIOUS
<1>4. RetriesExhausted' /\ ErrorsInv'
  BY <1>3 DEF RetriesExhausted, ErrorsInv, Positions
<1>5. VerdictInv' /\ OutputsInv'
  BY <1>3 DEF VerdictInv, OutputsInv, Positions
<1>6. DoneInv'
  BY DEF DoneInv, Bad
<1> QED
  BY <1>1, <1>2, <1>4, <1>5, <1>6

\* With a try left, a step was not requested more often than it may be.
LEMMA RequestsAndTries ==
  ASSUME NEW s \in Nat, NEW t \in Nat, NEW n \in Nat, t > 0, s + t = n + 2
  PROVE  s <= n + 1 /\ (t = 1 => s = n + 1)
OBVIOUS

\* A request goes out, the first of a step or a retry.
LEMMA RequestStep ==
  ASSUME IInv, Send \/ Wake
  PROVE  IInv'
<1> USE DEF IInv, Request
<1>1. at \in Positions(story)
  BY DEF Send, Sendable, AtOpenChapter, AtChapter, AtStep, Wake, TriesInv
<1>2. /\ step \in Step /\ Len(story.steps) \in Nat /\ at \in Nat
      /\ step.retry \in Nat /\ sent[at] \in Nat
  BY <1>1, AtStepFacts DEF Step, TypeOK
<1>3. /\ sent' = [sent EXCEPT ![at] = sent[at] + 1] /\ sent'[at] = sent[at] + 1
      /\ \A p \in Positions(story) : p # at => sent'[p] = sent[p]
  BY <1>1 DEF Send, Wake, TypeOK
<1>4. /\ tries' \in Nat /\ tries' > 0 /\ ~dry_run
      /\ sent'[at] + tries' = step.retry + 2
      /\ step.part = "chapter" =>
           step.gate = "runs" /\ ~step.pending /\ ~has_errors /\ step.located
  <2>1. CASE Send
    BY <2>1, <1>1, <1>2, <1>3
    DEF Send, Sendable, AtOpenChapter, AtChapter, AtStep, ProgressInv
  <2>2. CASE Wake
    BY <2>2, <1>1, <1>2, <1>3 DEF Wake, TriesInv, TypeOK
  <2> QED
    BY <2>1, <2>2
<1>5. /\ UNCHANGED <<story, dry_run, at, has_errors, outputs, verdict, result>>
      /\ pc' = "waiting" /\ pc \in {"step", "sleeping"}
  BY DEF Send, Wake, Sendable, AtOpenChapter, AtChapter, AtStep
<1>6. TypeOK'
  BY <1>1, <1>2, <1>3, <1>4, <1>5 DEF TypeOK, Control, Positions
<1>7. ProgressInv' /\ TriesInv'
  BY <1>1, <1>2, <1>3, <1>4, <1>5 DEF ProgressInv, TriesInv, Positions, step
<1>8. BegunInv'
  BY <1>4, <1>5 DEF BegunInv
<1>9. RetriesExhausted'
  <2> SUFFICES ASSUME NEW p \in Positions(story)
               PROVE  /\ sent'[p] <= story.steps[p].retry + 1
                      /\ verdict[p] \in Bad /\ sent'[p] > 0 => sent'[p] = story.steps[p].retry + 1
    BY <1>5 DEF RetriesExhausted, Positions
  <2>1. CASE p = at
    <3>1. verdict[at] \notin Bad
      BY <1>1, <1>2 DEF ProgressInv, Unevaluated, Bad
    <3> HIDE DEF IInv
    <3>2. sent'[at] \in Nat
      BY <1>2, <1>3
    <3>3. sent'[at] <= step.retry + 1
      BY <1>2, <1>4, <3>2, RequestsAndTries
    <3> QED
      BY <2>1, <3>1, <3>3 DEF step
  <2>2. CASE p # at
    BY <2>2, <1>3 DEF RetriesExhausted
  <2> QED
    BY <2>1, <2>2
<1>10. ErrorsInv' /\ VerdictInv' /\ OutputsInv' /\ DoneInv'
  BY <1>1, <1>2, <1>3, <1>5 DEF ErrorsInv, VerdictInv, OutputsInv, DoneInv, Positions
<1> QED
  BY <1>6, <1>7, <1>8, <1>9, <1>10

\* A response that leaves a try.
LEMMA RetryStep ==
  ASSUME IInv, NEW r \in Response, Retry(r)
  PROVE  IInv'
<1> USE DEF IInv, Retry
<1>1. /\ at \in Positions(story) /\ step \in Step /\ step.retry \in Nat
      /\ sent[at] \in Nat /\ tries \in Nat /\ tries > 1
  BY AtStepFacts DEF TriesInv, TypeOK, Step
<1>2. TypeOK'
  BY <1>1 DEF TypeOK, Control, Positions
<1>3. ProgressInv' /\ BegunInv'
  BY DEF ProgressInv, BegunInv, Positions
<1>4. TriesInv'
  <2>1. tries' > 0 /\ sent[at] + tries' = step.retry + 1
    BY <1>1 DEF TriesInv
  <2>2. pc' = "sleeping" /\ UNCHANGED <<story, dry_run, at, has_errors, sent>>
    OBVIOUS
  <2> QED
    BY <1>1, <2>1, <2>2 DEF TriesInv, Positions, step
<1>5. RetriesExhausted' /\ ErrorsInv' /\ VerdictInv' /\ OutputsInv' /\ DoneInv'
  BY DEF RetriesExhausted, ErrorsInv, VerdictInv, OutputsInv, DoneInv, Positions
<1> QED
  BY <1>2, <1>3, <1>4, <1>5

\* The end of the story.
LEMMA FinishStep ==
  ASSUME IInv, Finish
  PROVE  IInv'
<1> USE DEF IInv, Finish
<1> DEFINE verdicts == {verdict[p] : p \in Positions(story)}
<1>1. Len(story.steps) \in Nat
  BY DEF TypeOK, IsStory
<1>2. verdicts \in SUBSET Result
  BY <1>1 DEF ProgressInv, Positions
<1>3. result' \in Result /\ (result' \notin Bad => \A v \in verdicts : v \notin Bad)
  BY <1>2, OverallBad
<1>4. TypeOK'
  BY <1>3 DEF TypeOK, Control, Positions
<1>5. ProgressInv' /\ TriesInv' /\ BegunInv'
  BY DEF ProgressInv, TriesInv, BegunInv, Positions
<1>6. RetriesExhausted' /\ ErrorsInv' /\ VerdictInv' /\ OutputsInv'
  BY DEF RetriesExhausted, ErrorsInv, VerdictInv, OutputsInv, Positions
<1>7. DoneInv'
  BY <1>3 DEF DoneInv, Positions
<1> QED
  BY <1>4, <1>5, <1>6, <1>7

\* An exception.
LEMMA AbortStep ==
  ASSUME IInv, InvalidRange \/ NullPayload \/ ReadThrows
  PROVE  IInv'
<1> USE DEF IInv, InvalidRange, NullPayload, ReadThrows, Abort, AtChapter, AtStep
<1>1. TypeOK'
  BY DEF TypeOK, Control, Positions
<1>2. ProgressInv' /\ TriesInv' /\ BegunInv'
  BY DEF ProgressInv, TriesInv, BegunInv, Positions
<1>3. RetriesExhausted' /\ ErrorsInv' /\ VerdictInv' /\ OutputsInv' /\ DoneInv'
  BY DEF RetriesExhausted, ErrorsInv, VerdictInv, OutputsInv, DoneInv, Positions
<1> QED
  BY <1>1, <1>2, <1>3

\* A response that settles the step.
LEMMA ConcludeStep ==
  ASSUME IInv, NEW r \in Response, Conclude(r)
  PROVE  IInv'
<1> DEFINE e == Try(step, r)
<1> USE DEF IInv
<1>1. /\ at \in Positions(story) /\ ~dry_run /\ at \in Nat
      /\ step \in Step /\ step.retry \in Nat /\ step.id \in Ids \cup {NoId}
      /\ Len(story.steps) \in Nat /\ at + 1 \in 1 .. Len(story.steps) + 1
      /\ tries \in Nat /\ sent[at] \in Nat
      /\ tries > 0 /\ sent[at] + tries = step.retry + 2
      /\ step.part = "chapter" => ~has_errors
  <2>1. at \in Positions(story)
    BY DEF Conclude, TriesInv
  <2> QED
    BY <2>1, AtStepFacts DEF Conclude, TriesInv, TypeOK, Step
<1>2. /\ e.result \in {"PASSED", "FAILED", "ERROR"}
      /\ e.output \in BOOLEAN
      /\ e.output => step.stores
      /\ /\ step.stores /\ step.part # "epilogue"
         /\ e.result \notin Stopping(step)
         => e.output
  BY <1>1, TryResult
<1> HIDE DEF e
<1>3. /\ pc = "waiting" /\ pc' = "step" /\ at' = at + 1 /\ tries' = 0
      /\ e.result \in Final(step) \/ tries = 1
      /\ verdict' = [verdict EXCEPT ![at] = e.result]
      /\ has_errors' = (has_errors \/ e.result \in Stopping(step))
      /\ outputs' = IF e.output /\ step.id # NoId THEN [outputs EXCEPT ![step.id] = at]
                                                  ELSE outputs
      /\ UNCHANGED <<story, dry_run, sent, result>>
  BY DEF Conclude, Settle, set_chapter_output, e
<1>4. /\ verdict'[at] = e.result
      /\ \A p \in Positions(story) : p # at => verdict'[p] = verdict[p]
  BY <1>1, <1>3 DEF TypeOK
<1>5. has_errors \in BOOLEAN /\ has_errors' \in BOOLEAN
  BY <1>3 DEF TypeOK
<1>6. TypeOK'
  <2>1. outputs' \in [Ids -> 0 .. Len(story.steps)]
    BY <1>1, <1>3 DEF TypeOK, Positions
  <2>2. verdict' \in [Positions(story) -> Result \cup {Unevaluated}]
    BY <1>1, <1>2, <1>3 DEF TypeOK, Result
  <2> QED
    BY <1>1, <1>3, <1>5, <2>1, <2>2 DEF TypeOK, Control, Positions
<1>7. ProgressInv'
  BY <1>1, <1>2, <1>3, <1>4 DEF TypeOK, ProgressInv, Positions, Result
<1>8. TriesInv' /\ BegunInv'
  BY <1>1, <1>3 DEF TriesInv, BegunInv, Positions
<1>9. RetriesExhausted'
  <2> SUFFICES ASSUME NEW p \in Positions(story)
               PROVE  /\ sent[p] <= story.steps[p].retry + 1
                      /\ verdict'[p] \in Bad /\ sent[p] > 0
                           => sent[p] = story.steps[p].retry + 1
    BY <1>3 DEF RetriesExhausted, Positions
  <2>1. CASE p = at
    <3>1. e.result \in Bad => tries = 1
      BY <1>3 DEF Final, Bad
    <3> HIDE DEF IInv
    <3>2. /\ sent[at] <= step.retry + 1
          /\ e.result \in Bad => sent[at] = step.retry + 1
      BY <3>1, <1>1, RequestsAndTries
    <3> QED
      BY <2>1, <3>2, <1>1, <1>4 DEF step
  <2>2. CASE p # at
    BY <2>2, <1>4 DEF RetriesExhausted
  <2> QED
    BY <2>1, <2>2
<1>10. ErrorsInv'
  <2>1. \A p \in Positions(story) : p < at' <=> p < at \/ p = at
    BY <1>1, <1>3 DEF Positions
  <2>2. step.part = "epilogue" => Stopping(step) = {}
    BY DEF Stopping
  <2> DEFINE Stops(p, v) == /\ story.steps[p].part # "epilogue"
                            /\ v \in Stopping(story.steps[p])
  <2>3. has_errors <=> \E p \in Positions(story) : p < at /\ Stops(p, verdict[p])
    BY DEF ErrorsInv
  <2>4. \A p \in Positions(story) : p < at => verdict'[p] = verdict[p]
    BY <1>1, <1>4 DEF Positions
  <2>5. Stops(at, e.result) <=> e.result \in Stopping(step)
    BY <2>2 DEF step
  <2>6. has_errors' <=> has_errors \/ e.result \in Stopping(step)
    BY <1>3
  <2> HIDE DEF Stops
  <2>7. has_errors' <=> \E p \in Positions(story) : p < at' /\ Stops(p, verdict'[p])
    BY <2>1, <2>3, <2>4, <2>5, <2>6, <1>1, <1>4
  <2>8. story' = story
    BY <1>3
  <2> QED
    BY <2>7, <2>8, Zenon DEF ErrorsInv, Stops, Positions
<1>11. VerdictInv'
  <2>1. sent[at] > 0
    BY <1>3 DEF TriesInv
  <2>2. \A p \in Positions(story) : p < at' <=> p < at \/ p = at
    BY <1>1, <1>3 DEF Positions
  <2> DEFINE Sent(p, v) == sent[p] > 0 /\ v \in {"PASSED", "FAILED", "ERROR"}
             Unsent(p, v) == /\ story.steps[p].part = "chapter" /\ sent[p] = 0
                             /\ \/ story.steps[p].gate = "excluded"
                                \/ story.steps[p].pending
                                \/ v = "SKIPPED" /\ has_errors
                                \/ v = "FAILED"
                             /\ v # "ERROR"
  <2>3. \A p \in Positions(story) : p < at => Sent(p, verdict[p]) \/ Unsent(p, verdict[p])
    BY <1>1 DEF VerdictInv
  <2>4. Sent(at, e.result)
    BY <2>1, <1>2
  <2> HIDE DEF Sent
  <2>5. \A p \in Positions(story) : p < at' => Sent(p, verdict'[p]) \/ Unsent(p, verdict'[p])
    BY <2>2, <2>3, <2>4, <1>1, <1>4
  <2>6. has_errors => has_errors'
    BY <1>3
  <2> QED
    BY <2>5, <2>6, <1>3 DEF VerdictInv, Sent, Positions
<1>12. OutputsInv'
  <2> SUFFICES ASSUME ~has_errors', NEW q \in Positions(story), NEW id \in Ids,
                      story.steps[q].part # "epilogue", q < at + 1, sent[q] > 0,
                      Supplies(story, q, at + 1, id)
               PROVE  outputs'[id] = q
    BY <1>3 DEF OutputsInv, Positions, Supplies, Declares
  <2>1. ~has_errors /\ e.result \notin Stopping(step)
    BY <1>3
  <2>2. CASE q = at
    <3>1. step.id = id /\ step.stores
      BY <2>2 DEF Supplies, Declares, step
    <3>2. e.output /\ id # NoId
      BY <3>1, <2>1, <2>2, <1>2, NoIdAssumption DEF step
    <3> QED
      BY <3>1, <3>2, <2>2, <1>3 DEF TypeOK
  <2>3. CASE q # at
    <3>1. q < at /\ Supplies(story, q, at, id) /\ ~Declares(story, at, id)
      BY <2>3, <1>1 DEF Supplies, Positions
    <3>2. outputs[id] = q
      BY <3>1, <2>1 DEF OutputsInv
    <3>3. e.output => step.id # id
      BY <3>1, <1>2 DEF Declares, step
    <3> QED
      BY <3>2, <3>3, <1>3 DEF TypeOK
  <2> QED
    BY <2>2, <2>3
<1>13. DoneInv'
  BY <1>3 DEF DoneInv
<1> QED
  BY <1>6, <1>7, <1>8, <1>9, <1>10, <1>11, <1>12, <1>13

-----------------------------------------------------------------------------
\* No step takes the evaluation out of the invariant.
LEMMA NextInv == IInv /\ [Next]_vars => IInv'
<1> SUFFICES ASSUME IInv, [Next]_vars PROVE IInv'
  OBVIOUS
<1> USE DEF AtOpenChapter, AtChapter
<1>1. CASE SkipStory \/ RefuseStory \/ BeginStory
  BY <1>1, StartStep
<1>2. CASE DryRunStep
  <2>1. "SKIPPED" \in Result /\ "SKIPPED" \notin Stopping(step)
    BY DEF Result, Stopping
  <2> QED
    BY <1>2, <2>1, UnsentStep DEF DryRunStep
<1>3. CASE SkipExcluded
  <2>1. "SKIPPED" \in Result /\ "SKIPPED" \notin Stopping(step)
    BY DEF Result, Stopping
  <2> QED
    BY <1>3, <2>1, UnsentStep DEF SkipExcluded
<1>4. CASE IgnorePending
  <2>1. "IGNORED" \in Result /\ (step.part = "chapter" => "IGNORED" \notin Stopping(step))
    BY DEF Result, Stopping
  <2> QED
    BY <1>4, <2>1, UnsentStep DEF IgnorePending
<1>5. CASE SkipAfterError
  <2>1. "SKIPPED" \in Result /\ "SKIPPED" \notin Stopping(step)
    BY DEF Result, Stopping
  <2> QED
    BY <1>5, <2>1, UnsentStep DEF SkipAfterError
<1>6. CASE FailUnlocated
  <2>1. "FAILED" \in Result /\ (step.part = "chapter" => "FAILED" \notin Stopping(step))
    BY DEF Result, Stopping
  <2> QED
    BY <1>6, <2>1, UnsentStep DEF FailUnlocated
<1>7. CASE Send \/ Wake
  BY <1>7, RequestStep
<1>8. CASE Finish
  BY <1>8, FinishStep
<1>9. CASE InvalidRange \/ NullPayload \/ ReadThrows
  BY <1>9, AbortStep
<1>10. ASSUME NEW r \in Response, Conclude(r)
       PROVE  IInv'
  BY <1>10, ConcludeStep
<1>11. ASSUME NEW r \in Response, Retry(r)
       PROVE  IInv'
  BY <1>11, RetryStep
<1>12. CASE UNCHANGED vars
  BY <1>12 DEF vars, IInv, TypeOK, ProgressInv, TriesInv, BegunInv, RetriesExhausted,
     ErrorsInv, VerdictInv, OutputsInv, DoneInv, Positions, step
<1> QED
  BY <1>1, <1>2, <1>3, <1>4, <1>5, <1>6, <1>7, <1>8, <1>9, <1>10, <1>11, <1>12
  DEF Next, Local, Answer

\* A chapter that was requested was meant to run and is in the specification.
SentInv ==
  \A p \in Positions(story) :
    sent[p] > 0 /\ story.steps[p].part = "chapter" =>
      story.steps[p].gate = "runs" /\ ~story.steps[p].pending /\ story.steps[p].located

LEMMA InitSent == Init => SentInv
BY DEF Init, SentInv

LEMMA NextSent == IInv /\ SentInv /\ [Next]_vars => SentInv'
<1> SUFFICES ASSUME IInv, SentInv, [Next]_vars PROVE SentInv'
  OBVIOUS
<1>1. story' = story
  BY DEF Next, Local, Answer, SkipStory, RefuseStory, BeginStory, DryRunStep, SkipExcluded,
     IgnorePending, SkipAfterError, FailUnlocated, SettleUnsent, Settle, Send, Wake, Request,
     Conclude, Retry, Finish, InvalidRange, NullPayload, ReadThrows, Abort, vars
<1>2. CASE Send \/ Wake
  <2>1. /\ at \in Positions(story)
        /\ step.part = "chapter" => step.gate = "runs" /\ ~step.pending /\ step.located
    BY <1>2 DEF Send, Sendable, AtOpenChapter, AtChapter, AtStep, Wake, IInv, TriesInv
  <2>2. \A p \in Positions(story) : p # at => sent'[p] = sent[p]
    BY <1>2 DEF Send, Wake, Request, IInv, TypeOK
  <2> QED
    BY <1>1, <2>1, <2>2 DEF SentInv, Positions, step
<1>3. CASE ~(Send \/ Wake)
  <2>1. sent' = sent
    BY <1>3 DEF Next, Local, Answer, SkipStory, RefuseStory, BeginStory, DryRunStep, SkipExcluded,
       IgnorePending, SkipAfterError, FailUnlocated, SettleUnsent, Settle,
       Conclude, Retry, Finish, InvalidRange, NullPayload, ReadThrows, Abort, vars
  <2> QED
    BY <1>1, <2>1 DEF SentInv, Positions
<1> QED
  BY <1>2, <1>3

\* What an id holds was stored by an earlier step that has that id and an
\* output and that sent a request.
StoredInv ==
  \A id \in Ids : outputs[id] # 0 =>
    /\ outputs[id] \in Positions(story) /\ outputs[id] < at
    /\ sent[outputs[id]] > 0 /\ Declares(story, outputs[id], id)

LEMMA InitStored == Init => StoredInv
BY DEF Init, StoredInv

LEMMA NextStored == IInv /\ StoredInv /\ [Next]_vars => StoredInv'
<1> SUFFICES ASSUME IInv, StoredInv, [Next]_vars PROVE StoredInv'
  OBVIOUS
<1>1. CASE \E r \in Response : Conclude(r)
  <2>1. PICK r \in Response : Conclude(r)
    BY <1>1
  <2> DEFINE e == Try(step, r)
  <2>2. at \in Positions(story) /\ sent[at] > 0 /\ at \in Nat /\ step \in Step
    BY <2>1, AtStepFacts DEF Conclude, IInv, TriesInv
  <2>3. e.output => step.stores
    BY <2>1, <2>2, TryResult
  <2>4. outputs' = IF e.output /\ step.id # NoId THEN [outputs EXCEPT ![step.id] = at]
                                                 ELSE outputs
    BY <2>1 DEF Conclude, set_chapter_output
  <2>5. UNCHANGED <<story, sent>> /\ at' = at + 1
    BY <2>1 DEF Conclude, Settle
  <2> HIDE DEF e
  <2> SUFFICES ASSUME NEW id \in Ids, outputs'[id] # 0
               PROVE  /\ outputs'[id] \in Positions(story) /\ outputs'[id] < at + 1
                      /\ sent[outputs'[id]] > 0 /\ Declares(story, outputs'[id], id)
    BY <2>5 DEF StoredInv, Positions, Declares
  <2>6. CASE e.output /\ step.id = id
    <3>1. outputs'[id] = at
      BY <2>4, <2>6, NoIdAssumption DEF IInv, TypeOK
    <3> QED
      BY <3>1, <2>2, <2>3, <2>6 DEF Declares, step
  <2>7. CASE ~(e.output /\ step.id = id)
    <3>1. outputs'[id] = outputs[id]
      BY <2>4, <2>7 DEF IInv, TypeOK
    <3>2. outputs[id] \in Positions(story) /\ outputs[id] < at
      BY <3>1 DEF StoredInv
    <3>3. outputs[id] < at + 1
      BY <3>2, <2>2 DEF Positions
    <3> QED
      BY <3>1, <3>2, <3>3 DEF StoredInv
  <2> QED
    BY <2>6, <2>7
<1>2. CASE ~\E r \in Response : Conclude(r)
  <2>1. UNCHANGED <<story, outputs>>
    BY <1>2 DEF Next, Local, Answer, SkipStory, RefuseStory, BeginStory, DryRunStep,
       SkipExcluded, IgnorePending, SkipAfterError, FailUnlocated, SettleUnsent, Settle, Send,
       Wake, Request, Retry, Finish, InvalidRange, NullPayload, ReadThrows, Abort, vars
  <2>2. at' = at \/ at' = at + 1
    BY <1>2 DEF Next, Local, Answer, SkipStory, RefuseStory, BeginStory, DryRunStep,
       SkipExcluded, IgnorePending, SkipAfterError, FailUnlocated, SettleUnsent, Settle, Send,
       Wake, Request, Retry, Finish, InvalidRange, NullPayload, ReadThrows, Abort, vars
  <2>3. \A p \in Positions(story) : sent[p] > 0 => sent'[p] > 0
    <3>1. CASE Send \/ Wake
      <4>1. at \in Positions(story) /\ sent' = [sent EXCEPT ![at] = sent[at] + 1]
        BY <3>1 DEF Send, Sendable, AtOpenChapter, AtChapter, AtStep, Wake, Request, IInv,
           TriesInv
      <4> QED
        BY <4>1 DEF IInv, TypeOK
    <3>2. CASE ~(Send \/ Wake)
      BY <1>2, <3>2 DEF Next, Local, Answer, SkipStory, RefuseStory, BeginStory, DryRunStep,
         SkipExcluded, IgnorePending, SkipAfterError, FailUnlocated, SettleUnsent, Settle,
         Retry, Finish, InvalidRange, NullPayload, ReadThrows, Abort, vars
    <3> QED
      BY <3>1, <3>2
  <2>4. \A p \in Positions(story) : p < at => p < at'
    BY <2>2 DEF IInv, TypeOK, Positions
  <2> QED
    BY <2>1, <2>3, <2>4 DEF StoredInv, Positions, Declares
<1> QED
  BY <1>1, <1>2

\* The invariant holds in every state of every evaluation.
THEOREM Inductive == Spec => []IInv
BY InitInv, NextInv, PTL DEF Spec

-----------------------------------------------------------------------------
\* TypeOK holds in every state: the evaluators keep their state well formed.
THEOREM TypeCorrect == Spec => []TypeOK
BY Inductive, PTL DEF IInv

\* RetriesExhausted: both retry loops make count + 1 requests before they give
\* a step up, and never more.
THEOREM RetriesCorrect == Spec => []RetriesExhausted
BY Inductive, PTL DEF IInv

\* QuietWhenRefused: no request of a dry run or of a refused story.
THEOREM QuietCorrect == Spec => []QuietWhenRefused
<1>1. IInv => QuietWhenRefused
  BY DEF IInv, BegunInv, QuietWhenRefused
<1> QED
  BY <1>1, Inductive, PTL

\* What a reference of a chapter on its way stands for.
LEMMA ReferencesInv == IInv /\ StoredInv => ReferencesCurrent
<1> SUFFICES ASSUME IInv, StoredInv, pc = "waiting", step.part = "chapter"
             PROVE  /\ \A ref \in step.uses : ResolvesAt(story, at, ref)
                    /\ \A ref \in resolved(step) : ResolvesCurrently(ref)
  BY DEF ReferencesCurrent
<1>1. /\ at \in Positions(story) /\ ~has_errors /\ WellDefined(story)
      /\ IsStory(story) /\ step \in Step
  BY AtStepFacts DEF IInv, TriesInv, BegunInv, TypeOK
<1>2. \A ref \in step.uses : ResolvesAt(story, at, ref)
  BY <1>1 DEF WellDefined, step
<1>3. ASSUME NEW ref \in resolved(step)
      PROVE  ResolvesCurrently(ref)
  <2>1. ref[1] \in Ids
    BY <1>1, <1>3 DEF resolved, Step, OutputReference
  <2>2. ASSUME resolve_string(ref) # 0
        PROVE  \E q \in Positions(story) :
                 /\ resolve_string(ref) = q /\ q < at /\ sent[q] > 0
                 /\ Declares(story, q, ref[1]) /\ ref[2] \in story.steps[q].output
    <3>1. /\ resolve_string(ref) = outputs[ref[1]] /\ outputs[ref[1]] # 0
          /\ ref[2] \in story.steps[outputs[ref[1]]].output
      BY <2>2 DEF resolve_string
    <3> QED
      BY <2>1, <3>1 DEF StoredInv
  <2>3. ASSUME NEW q \in Positions(story), Supplies(story, q, at, ref[1]), sent[q] > 0
        PROVE  resolve_string(ref) = IF ref[2] \in story.steps[q].output THEN q ELSE 0
    <3>1. q < at /\ q # 0
      BY <1>1, <2>3 DEF Supplies, Positions
    <3>2. story.steps[q].part # "epilogue"
      BY <1>1, <3>1, PartsInOrder DEF step
    <3>3. outputs[ref[1]] = q
      BY <1>1, <2>1, <2>3, <3>1, <3>2 DEF IInv, OutputsInv
    <3> QED
      BY <3>1, <3>3 DEF resolve_string
  <2> QED
    BY <2>2, <2>3 DEF ResolvesCurrently
<1> QED
  BY <1>2, <1>3

\* ReferencesCurrent: a reference that was checked has a step that supplies it,
\* and what any reference is replaced by, in a payload key too, is the value of
\* the last earlier step with that id if that step was sent, of another earlier
\* step with that id that was sent, or nothing.
THEOREM ReferencesCorrect == Spec => []ReferencesCurrent
<1>1. Spec => []StoredInv
  BY Inductive, InitStored, NextStored, PTL DEF Spec
<1> QED
  BY <1>1, Inductive, ReferencesInv, PTL

LEMMA GreenInv == IInv => GreenMeansChecked
<1> SUFFICES ASSUME IInv, pc = "done", result \notin Bad, story.gate = "runs", ~dry_run,
                    NEW p \in Positions(story)
             PROVE  \/ verdict[p] = "PASSED" /\ sent[p] > 0
                    \/ /\ story.steps[p].part = "chapter"
                       /\ story.steps[p].gate = "excluded" \/ story.steps[p].pending
  BY DEF GreenMeansChecked
<1>1. /\ \A q \in Positions(story) : q < at
      /\ \A q \in Positions(story) : verdict[q] \notin Bad
  BY DEF IInv, DoneInv, TypeOK, IsStory, Positions
<1>2. ASSUME NEW q \in Positions(story), story.steps[q].part # "epilogue"
      PROVE  verdict[q] \notin Stopping(story.steps[q])
  <2>1. story.steps[q].part \in {"prologue", "chapter"}
    BY <1>2, StepIsStep DEF IInv, TypeOK, Step, Parts
  <2>2. \/ story.steps[q].part = "chapter"
        \/ verdict[q] \in {"PASSED", "FAILED", "ERROR"}
    BY <1>1 DEF IInv, VerdictInv
  <2> QED
    BY <1>1, <2>1, <2>2 DEF Stopping, Bad
<1>3. ~has_errors
  BY <1>2 DEF IInv, ErrorsInv
<1> QED
  BY <1>1, <1>3 DEF IInv, VerdictInv, Bad

\* GreenMeansChecked: a story not reported as a failure left nothing unchecked.
THEOREM GreenCorrect == Spec => []GreenMeansChecked
BY GreenInv, Inductive, PTL

\* NoRequestAfterError: no chapter is requested after a prologue that did not
\* pass or a chapter in ERROR.
THEOREM NoRequestAfterErrorCorrect == Spec => NoRequestAfterError
<1> DEFINE Guarded ==
      \A p \in Positions(story) :
        sent'[p] # sent[p] /\ story.steps[p].part = "chapter" =>
          \A q \in 1 .. p - 1 :
            IF story.steps[q].part = "prologue"
            THEN verdict[q] = "PASSED"
            ELSE verdict[q] # "ERROR"
<1>1. IInv /\ [Next]_vars => [Guarded]_vars
  <2> SUFFICES ASSUME IInv, Next, NEW p \in Positions(story),
                      sent'[p] # sent[p], story.steps[p].part = "chapter",
                      NEW q \in 1 .. p - 1
               PROVE  IF story.steps[q].part = "prologue"
                      THEN verdict[q] = "PASSED"
                      ELSE verdict[q] # "ERROR"
    OBVIOUS
  <2>1. Send \/ Wake
    BY DEF Next, Local, Answer, SkipStory, RefuseStory, BeginStory, DryRunStep, SkipExcluded,
       IgnorePending, SkipAfterError, FailUnlocated, SettleUnsent, Settle, Conclude, Retry,
       Finish, InvalidRange, NullPayload, ReadThrows, Abort
  <2>2. at \in Positions(story) /\ ~dry_run
    BY <2>1 DEF Send, Sendable, AtOpenChapter, AtChapter, AtStep, Wake, IInv, TriesInv
  <2>3. p = at
    BY <2>1, <2>2 DEF Send, Wake, Request, IInv, TypeOK
  <2>4. ~has_errors
    BY <2>1, <2>3 DEF Send, Sendable, AtOpenChapter, AtChapter, AtStep, Wake, IInv, TriesInv, step
  <2>5. q \in Positions(story) /\ q < at
    BY <2>2, <2>3 DEF Positions, IInv, TypeOK, IsStory
  <2>6. story.steps[q].part \in {"prologue", "chapter"}
    BY <2>3, <2>5, PartsInOrder DEF IInv, TypeOK
  <2>7. verdict[q] \notin Stopping(story.steps[q])
    BY <2>4, <2>5, <2>6 DEF IInv, ErrorsInv
  <2>8. story.steps[q].part = "prologue" => verdict[q] \in {"PASSED", "FAILED", "ERROR"}
    BY <2>2, <2>5 DEF IInv, VerdictInv
  <2> QED
    BY <2>6, <2>7, <2>8 DEF Stopping, Result
<1> QED
  BY <1>1, Inductive, PTL DEF Spec, NoRequestAfterError

-----------------------------------------------------------------------------
(***************************************************************************)
(* The evaluation implements the safety part of StoryLifecycle: it starts  *)
(* where the lifecycle starts and each of its steps is a step of the       *)
(* lifecycle or leaves it alone.                                           *)
(***************************************************************************)

\* The abstract chapter is stopped only if the evaluators' flag is up.
LEMMA StoppedMeansErrors ==
  ASSUME IInv, at \in Positions(story), Lifecycle!Stopped(at), step.part = "chapter"
  PROVE  has_errors
<1>1. Len(story.steps) \in Nat
  BY DEF IInv, TypeOK, IsStory
<1>2. PICK q \in 1 .. at - 1 :
        \/ story.steps[q].part = "prologue" /\ verdict[q] \notin {"PASSED", "SKIPPED"}
        \/ story.steps[q].part = "chapter" /\ verdict[q] = "ERROR"
  BY <1>1 DEF Lifecycle!Stopped, Positions
<1>3. q \in Positions(story) /\ q < at
  BY <1>1 DEF Positions
<1>4. verdict[q] \in Result
  BY <1>3 DEF IInv, ProgressInv
<1>5. verdict[q] \in Stopping(story.steps[q]) /\ story.steps[q].part # "epilogue"
  BY <1>2, <1>4 DEF Stopping
<1> QED
  BY <1>3, <1>5 DEF IInv, ErrorsInv

\* Settling a step is the abstract step Judge.
LEMMA SettleIsJudge ==
  ASSUME IInv, pc \in {"step", "waiting"}, at \in Positions(story), NEW v \in Result,
         Settle(v), step.part = "chapter" /\ has_errors => v \in {"SKIPPED", "IGNORED"}
  PROVE  Lifecycle!Next
<1>1. /\ Len(story.steps) \in Nat /\ at \in Nat
      /\ verdict \in [Positions(story) -> Result \cup {Unevaluated}]
  BY DEF IInv, TypeOK, IsStory
<1>2. verdict[at] = Unevaluated /\ \A q \in 1 .. at - 1 : verdict[q] # Unevaluated
  BY <1>1 DEF IInv, ProgressInv, Positions, Unevaluated, Result
<1>3. step.part = "chapter" /\ Lifecycle!Stopped(at) => v \in {"SKIPPED", "IGNORED"}
  BY StoppedMeansErrors
<1>4. /\ pc' = "step" /\ verdict' = [verdict EXCEPT ![at] = v]
      /\ UNCHANGED <<story, result>>
  BY DEF Settle
<1>5. Lifecycle!Judge(at, v)
  BY <1>1, <1>2, <1>3, <1>4 DEF Lifecycle!Judge, Lifecycle!Open, Unevaluated, step, Positions
<1>6. at \in Lifecycle!Steps /\ v \in Lifecycle!Result
  BY <1>1 DEF Lifecycle!Steps, Result, Lifecycle!Result
<1> QED
  BY <1>5, <1>6 DEF Lifecycle!Next

THEOREM LifecycleCorrect == Spec => LifecycleSafety
<1>1. Init => Lifecycle!Init
  <2> SUFFICES ASSUME Init PROVE Lifecycle!Init
    OBVIOUS
  <2>1. IsStory(story)
    BY StoriesAssumption DEF Init
  <2>2. Len(story.steps) \in Nat
    BY <2>1 DEF IsStory
  <2>3. \A p \in 1 .. Len(story.steps) : story.steps[p].part \in Parts
    BY <2>1, StepIsStep DEF Step, Positions
  <2>4. [p \in Positions(story) |-> story.steps[p].part] \in Seq(Lifecycle!Parts)
    BY <2>2, <2>3 DEF Positions, Parts, Lifecycle!Parts
  <2> QED
    BY <2>4 DEF Init, Lifecycle!Init, Lifecycle!Open, Unevaluated
<1>2. IInv /\ [Next]_vars => [Lifecycle!Next]_Lifecycle!vars
  <2> SUFFICES ASSUME IInv, [Next]_vars
               PROVE  Lifecycle!Next \/ UNCHANGED Lifecycle!vars
    BY DEF Lifecycle!vars
  <2> USE DEF AtOpenChapter, AtChapter, AtStep
  <2>1. CASE SkipStory \/ RefuseStory
    <3>1. \A p \in Lifecycle!Steps : verdict[p] = Unevaluated
      BY <2>1
      DEF SkipStory, RefuseStory, Lifecycle!Steps, IInv, TypeOK, ProgressInv, BegunInv, Positions
    <3>2. Lifecycle!TurnAway
      BY <2>1, <3>1 DEF SkipStory, RefuseStory, Lifecycle!TurnAway, Lifecycle!Open, Unevaluated
    <3> QED
      BY <3>2 DEF Lifecycle!Next
  <2>2. CASE BeginStory \/ Send \/ Wake \/ (\E r \in Response : Retry(r))
    BY <2>2 DEF BeginStory, Send, Sendable, Wake, Request, Retry, Lifecycle!vars
  <2>3. CASE DryRunStep \/ SkipExcluded \/ SkipAfterError
    BY <2>3, SettleIsJudge DEF DryRunStep, SkipExcluded, SkipAfterError, SettleUnsent, Result
  <2>4. CASE IgnorePending
    BY <2>4, SettleIsJudge DEF IgnorePending, SettleUnsent, Result
  <2>5. CASE FailUnlocated
    BY <2>5, SettleIsJudge DEF FailUnlocated, SettleUnsent, Result
  <2>6. ASSUME NEW r \in Response, Conclude(r)
        PROVE  Lifecycle!Next
    <3>1. at \in Positions(story) /\ (step.part = "chapter" => ~has_errors) /\ step \in Step
      BY <2>6, AtStepFacts DEF Conclude, IInv, TriesInv
    <3>2. Try(step, r).result \in Result
      BY <3>1, TryResult DEF Result
    <3> QED
      BY <2>6, <3>1, <3>2, SettleIsJudge DEF Conclude
  <2>7. CASE Finish
    <3>1. /\ verdict \in [Positions(story) -> Result \cup {Unevaluated}]
          /\ \A p \in Positions(story) : verdict[p] # Unevaluated
      BY <2>7 DEF Finish, IInv, TypeOK, ProgressInv, Positions, IsStory, Result, Unevaluated
    <3>2. Lifecycle!Steps = Positions(story)
      BY <3>1 DEF Lifecycle!Steps
    <3>3. \A S : Lifecycle!overall_result(S) = overall_result(S)
      BY DEF overall_result, Lifecycle!overall_result
    <3>4. result' = Lifecycle!overall_result({verdict[p] : p \in Lifecycle!Steps})
      BY <2>7, <3>2, <3>3 DEF Finish
    <3>5. Lifecycle!Conclude
      BY <2>7, <3>1, <3>2, <3>4 DEF Finish, Lifecycle!Conclude, Lifecycle!Open, Unevaluated
    <3> QED
      BY <3>5 DEF Lifecycle!Next
  <2>8. CASE InvalidRange \/ NullPayload \/ ReadThrows
    <3>1. Lifecycle!GiveUp
      BY <2>8 DEF InvalidRange, NullPayload, ReadThrows, Abort, Lifecycle!GiveUp
    <3> QED
      BY <3>1 DEF Lifecycle!Next
  <2>9. CASE UNCHANGED vars
    BY <2>9 DEF vars, Lifecycle!vars
  <2> QED
    BY <2>1, <2>2, <2>3, <2>4, <2>5, <2>6, <2>7, <2>8, <2>9 DEF Next, Local, Answer
<1> QED
  BY <1>1, <1>2, Inductive, PTL DEF Spec, LifecycleSafety

-----------------------------------------------------------------------------
(***************************************************************************)
(* What there is to say of the end of a story without fairness: when it    *)
(* comes its epilogues were sent, and it comes nearer with every step.     *)
(***************************************************************************)

\* A story is done behind its last step, or nothing was sent.
EndInv ==
  pc = "done" => at = Len(story.steps) + 1 \/ \A p \in Positions(story) : sent[p] = 0

LEMMA InitEnd == Init => EndInv
BY DEF Init, EndInv

LEMMA NextEnd == IInv /\ EndInv /\ [Next]_vars => EndInv'
<1> SUFFICES ASSUME IInv, EndInv, [Next]_vars, pc' = "done" PROVE EndInv'
  BY DEF EndInv
<1>1. CASE SkipStory \/ RefuseStory
  <2>1. at = 1 /\ \A p \in Positions(story) : sent[p] = 0
    BY <1>1 DEF SkipStory, RefuseStory, IInv, TypeOK, IsStory, ProgressInv, BegunInv, Positions
  <2> QED
    BY <1>1, <2>1 DEF EndInv, SkipStory, RefuseStory
<1>2. CASE Finish
  BY <1>2 DEF Finish, EndInv
<1>3. CASE UNCHANGED vars
  BY <1>3 DEF vars, EndInv
<1> QED
  BY <1>1, <1>2, <1>3
  DEF Next, Local, Answer, BeginStory, DryRunStep, SkipExcluded, IgnorePending, SkipAfterError,
      FailUnlocated, SettleUnsent, Settle, Send, Wake, Request, InvalidRange, NullPayload,
      ReadThrows, Abort, Conclude, Retry

CleanedUpIfDone ==
  pc = "done" /\ (\E p \in Positions(story) : sent[p] > 0) =>
    \A p \in Positions(story) : story.steps[p].part = "epilogue" => sent[p] > 0

\* A story that sent a request and is done, whatever its verdicts, has sent
\* each of its epilogues: of CleansUp what is not liveness.
THEOREM EpiloguesCorrect == Spec => []CleanedUpIfDone
<1>1. IInv /\ EndInv => CleanedUpIfDone
  <2> SUFFICES ASSUME IInv, EndInv, pc = "done",
                      NEW q \in Positions(story), sent[q] > 0,
                      NEW p \in Positions(story), story.steps[p].part = "epilogue"
               PROVE  sent[p] > 0
    BY DEF CleanedUpIfDone
  <2>1. ~dry_run
    BY DEF IInv, BegunInv
  <2>2. sent[q] # 0
    BY DEF IInv, TypeOK
  <2>3. p < at
    BY <2>2 DEF EndInv, Positions, IInv, TypeOK, IsStory
  <2> QED
    BY <2>1, <2>3 DEF IInv, VerdictInv
<1> QED
  BY <1>1, Inductive, InitInv, NextInv, InitEnd, NextEnd, PTL DEF Spec

Over == pc \in {"done", "aborted"}

\* The steps of the story the loop has before it, with its start and its end.
StepsLeft ==
  IF Over THEN 0
  ELSE IF pc = "start" THEN Len(story.steps) + 3 ELSE Len(story.steps) + 2 - at

\* What the step it is at has before it: a request and a pause for each try.
TriesLeft ==
  CASE pc = "step" /\ at \in Positions(story) -> 2 * step.retry + 3
    [] pc = "sleeping" -> 2 * tries + 1
    [] pc = "waiting" -> 2 * tries
    [] OTHER -> 0

Nearer ==
  \/ StepsLeft' < StepsLeft
  \/ StepsLeft' = StepsLeft /\ TriesLeft' < TriesLeft

LEMMA LeftNatural == IInv => StepsLeft \in Nat /\ TriesLeft \in Nat
<1> SUFFICES ASSUME IInv PROVE StepsLeft \in Nat /\ TriesLeft \in Nat
  OBVIOUS
<1>1. StepsLeft \in Nat
  BY DEF StepsLeft, IInv, TypeOK, IsStory
<1>2. at \in Positions(story) => step.retry \in Nat
  BY AtStepFacts DEF IInv, Step
<1>3. tries \in Nat
  BY DEF IInv, TypeOK
<1> QED
  BY <1>1, <1>2, <1>3 DEF TriesLeft

LEMMA StepNearer == IInv /\ Next => Nearer
<1> SUFFICES ASSUME IInv, Next PROVE Nearer
  OBVIOUS
<1>1. /\ Len(story.steps) \in Nat /\ at \in 1 .. Len(story.steps) + 1 /\ tries \in Nat
      /\ story' = story
  BY DEF IInv, TypeOK, IsStory, Next, Local, Answer, SkipStory, RefuseStory, BeginStory, DryRunStep,
     SkipExcluded, IgnorePending, SkipAfterError, FailUnlocated, SettleUnsent, Settle, Send, Wake,
     Request, Finish, InvalidRange, NullPayload, ReadThrows, Abort, Conclude, Retry
<1>2. ASSUME NEW v, Settle(v), pc \in {"step", "waiting"} PROVE Nearer
  BY <1>1, <1>2 DEF Settle, Nearer, StepsLeft, Over
<1>3. CASE SkipStory \/ RefuseStory \/ InvalidRange \/ NullPayload \/ ReadThrows \/ Finish
  BY <1>1, <1>3 DEF SkipStory, RefuseStory, InvalidRange, NullPayload, ReadThrows, Finish, Abort,
     AtChapter, AtStep, Nearer, StepsLeft, Over
<1>4. CASE BeginStory
  BY <1>1, <1>4 DEF BeginStory, Nearer, StepsLeft, Over
<1>5. CASE DryRunStep \/ SkipExcluded \/ IgnorePending \/ SkipAfterError \/ FailUnlocated
  BY <1>2, <1>5 DEF DryRunStep, SkipExcluded, IgnorePending, SkipAfterError, FailUnlocated,
     SettleUnsent, AtOpenChapter, AtChapter, AtStep
<1>6. CASE Send
  <2>1. /\ pc = "step" /\ pc' = "waiting" /\ at' = at /\ at \in Positions(story)
        /\ tries' = step.retry + 1
    BY <1>6 DEF Send, Sendable, Request, AtOpenChapter, AtChapter, AtStep
  <2>2. step.retry \in Nat
    BY <2>1, AtStepFacts DEF IInv, Step
  <2>3. StepsLeft' = StepsLeft
    BY <1>1, <2>1 DEF StepsLeft, Over
  <2>4. TriesLeft = 2 * step.retry + 3
    BY <2>1 DEF TriesLeft
  <2>5. TriesLeft' = 2 * (step.retry + 1)
    BY <2>1 DEF TriesLeft
  <2> QED
    BY <2>2, <2>3, <2>4, <2>5 DEF Nearer
<1>7. CASE Wake
  <2>1. pc = "sleeping" /\ pc' = "waiting" /\ at' = at /\ tries' = tries
    BY <1>7 DEF Wake, Request
  <2>2. StepsLeft' = StepsLeft
    BY <1>1, <2>1 DEF StepsLeft, Over
  <2>3. TriesLeft = 2 * tries + 1 /\ TriesLeft' = 2 * tries
    BY <2>1 DEF TriesLeft
  <2> QED
    BY <1>1, <2>2, <2>3 DEF Nearer
<1>8. ASSUME NEW r \in Response, Retry(r) PROVE Nearer
  <2>1. pc = "waiting" /\ pc' = "sleeping" /\ at' = at /\ tries' = tries - 1
    BY <1>8 DEF Retry
  <2>2. StepsLeft' = StepsLeft
    BY <1>1, <2>1 DEF StepsLeft, Over
  <2>3. TriesLeft = 2 * tries /\ TriesLeft' = 2 * (tries - 1) + 1
    BY <2>1 DEF TriesLeft
  <2> QED
    BY <1>1, <2>2, <2>3 DEF Nearer
<1>9. ASSUME NEW r \in Response, Conclude(r) PROVE Nearer
  BY <1>2, <1>9 DEF Conclude
<1> QED
  BY <1>3, <1>4, <1>5, <1>6, <1>7, <1>8, <1>9 DEF Next, Local, Answer

\* Every step of an evaluation leaves fewer steps of its story, or as many
\* and fewer tries, both of them naturals: no story goes on for ever, however
\* the cluster answers.  That it does not stand still before its end is what
\* Terminates adds.
THEOREM ProgressCorrect ==
  Spec => [](StepsLeft \in Nat /\ TriesLeft \in Nat) /\ [][Nearer]_vars
<1>1. IInv /\ [Next]_vars => [Nearer]_vars
  BY StepNearer
<1> QED
  BY <1>1, Inductive, LeftNatural, PTL DEF Spec
=============================================================================
