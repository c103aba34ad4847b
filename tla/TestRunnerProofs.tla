-------------------------- MODULE TestRunnerProofs --------------------------
(***************************************************************************)
(* Proofs about a run of the story tester, for every set of folders and    *)
(* stories and every bound on the client's attempts.                       *)
(***************************************************************************)
EXTENDS TestRunner, WellFoundedInduction, TLAPS

\* What a run goes over is the whole folder, parsed, from loading it on.
LoadedInv ==
  /\ folder \in Folders
  /\ \/ stage \in {"start", "crashed"}
     \/ /\ files = [i \in 1 .. Len(folder) |-> Load(folder[i])]
        /\ \A i \in 1 .. Len(folder) : folder[i].readable

\* The results so far are those of the files so far.
ResultsInv ==
  /\ stage \in Stages
  /\ results \in Seq(Result)
  /\ failed <=> \E i \in 1 .. Len(results) : results[i] \in Bad
  /\ \A i \in 1 .. Len(results) : files[i].valid \/ results[i] \in Bad
  /\ stage = "evaluating" => file.valid /\ (pc = "done" => result \in Result)
  /\ stage \in {"start", "loaded", "connecting"} => results = <<>>
  /\ stage = "finished" => Len(results) = Len(files)

\* The cluster answered before the first story, or did not have to; between
\* stories the evaluator waits for nothing.
WaitedInv ==
  /\ stage \in {"next", "evaluating", "finished"} => dry_run \/ serverless \/ link = "ready"
  /\ stage # "evaluating" => pc \in {"done", "aborted"}
  /\ dry_run => /\ attempt = 0 /\ link = "idle" /\ stage # "connecting"
                /\ pc \notin {"waiting", "sleeping"}

\* What is waited for was sent, and what is stored comes from a step that was.
StoredInv ==
  /\ outputs \in [Ids -> Nat]
  /\ sent \in [1 .. Len(story.steps) -> Nat]
  /\ pc \in {"waiting", "sleeping"} => at \in 1 .. Len(story.steps) /\ sent[at] > 0
  /\ OutputsAreOwn

IInv == LoadedInv /\ ResultsInv /\ WaitedInv /\ StoredInv

-----------------------------------------------------------------------------
LEMMA InitInv == Init => IInv
<1> SUFFICES ASSUME Init PROVE IInv
  OBVIOUS
<1>0. LoadedInv
  BY DEF Init, LoadedInv
<1>1. ResultsInv
  BY DEF Init, ResultsInv, Stages
<1>2. WaitedInv
  BY DEF Init, WaitedInv, Client!ClientInit
<1>3. StoredInv
  BY DEF Init, StoredInv, OutputsAreOwn
<1> QED
  BY <1>0, <1>1, <1>2, <1>3 DEF IInv

\* The steps of the evaluator that send nothing and store nothing.
LEMMA SilentStep ==
  ASSUME IInv, UNCHANGED <<story, dry_run, outputs, sent>>,
         pc' \in {"start", "step", "done", "aborted"}, pc' = "done" => result' \in Result,
         stage = "evaluating", UNCHANGED <<runVars, linkVars>>
  PROVE  IInv'
<1>1. ResultsInv'
  BY DEF IInv, ResultsInv, runVars, file
<1>2. WaitedInv'
  BY DEF IInv, WaitedInv, runVars, linkVars
<1>3. StoredInv'
  BY DEF IInv, StoredInv, OutputsAreOwn
<1>9. LoadedInv'
  BY DEF IInv, LoadedInv, runVars
<1> QED
  BY <1>1, <1>2, <1>3, <1>9 DEF IInv

\* A request, the first of its step or not.
LEMMA RequestStep ==
  ASSUME IInv, Evaluator!Request, ~dry_run, at \in 1 .. Len(story.steps),
         stage = "evaluating", UNCHANGED <<runVars, linkVars>>
  PROVE  IInv'
<1> USE DEF Evaluator!Request
<1>1. ResultsInv'
  BY DEF IInv, ResultsInv, runVars, file
<1>2. WaitedInv'
  BY DEF IInv, WaitedInv, runVars, linkVars
<1>3. StoredInv'
  BY DEF IInv, StoredInv, OutputsAreOwn
<1>9. LoadedInv'
  BY DEF IInv, LoadedInv, runVars
<1> QED
  BY <1>1, <1>2, <1>3, <1>9 DEF IInv

\* An answer that settles its step.
LEMMA ConcludeStep ==
  ASSUME IInv, NEW r \in Evaluator!Response, Evaluator!Conclude(r),
         stage = "evaluating", UNCHANGED <<runVars, linkVars>>
  PROVE  IInv'
<1>1. /\ pc = "waiting" /\ pc' = "step" /\ UNCHANGED <<story, dry_run, sent, result>>
      /\ \/ outputs' = outputs
         \/ outputs' = [outputs EXCEPT ![Evaluator!step.id] = at]
  BY DEF Evaluator!Conclude, Evaluator!Settle, Evaluator!set_chapter_output
<1>2. ResultsInv'
  BY <1>1 DEF IInv, ResultsInv, runVars, file
<1>3. WaitedInv'
  BY <1>1 DEF IInv, WaitedInv, runVars, linkVars
<1>4. StoredInv'
  BY <1>1 DEF IInv, StoredInv, OutputsAreOwn
<1>9. LoadedInv'
  BY DEF IInv, LoadedInv, runVars
<1> QED
  BY <1>2, <1>3, <1>4, <1>9 DEF IInv

\* The pause before the next try.
LEMMA RetryStep ==
  ASSUME IInv, NEW r \in Evaluator!Response, Evaluator!Retry(r),
         stage = "evaluating", UNCHANGED <<runVars, linkVars>>
  PROVE  IInv'
<1> USE DEF Evaluator!Retry
<1>1. ResultsInv'
  BY DEF IInv, ResultsInv, runVars, file
<1>2. WaitedInv'
  BY DEF IInv, WaitedInv, runVars, linkVars
<1>3. StoredInv'
  BY DEF IInv, StoredInv, OutputsAreOwn
<1>9. LoadedInv'
  BY DEF IInv, LoadedInv, runVars
<1> QED
  BY <1>1, <1>2, <1>3, <1>9 DEF IInv

LEMMA EvaluatingStep == IInv /\ Evaluating => IInv'
<1> SUFFICES ASSUME IInv, Evaluator!Next, stage = "evaluating", UNCHANGED <<runVars, linkVars>>
             PROVE  IInv'
  BY DEF Evaluating
<1>1. CASE Evaluator!SkipStory \/ Evaluator!RefuseStory \/ Evaluator!BeginStory
  BY <1>1, SilentStep
     DEF Evaluator!SkipStory, Evaluator!RefuseStory, Evaluator!BeginStory, Result
<1>2. CASE \/ Evaluator!DryRunStep \/ Evaluator!SkipExcluded \/ Evaluator!IgnorePending
           \/ Evaluator!SkipAfterError \/ Evaluator!FailUnlocated
  BY <1>2, SilentStep
     DEF Evaluator!DryRunStep, Evaluator!SkipExcluded, Evaluator!IgnorePending,
         Evaluator!SkipAfterError, Evaluator!FailUnlocated, Evaluator!SettleUnsent,
         Evaluator!Settle
<1>3. CASE Evaluator!Send
  BY <1>3, RequestStep
     DEF Evaluator!Send, Evaluator!Sendable, Evaluator!AtOpenChapter, Evaluator!AtChapter,
         Evaluator!AtStep, Evaluator!Positions
<1>4. CASE Evaluator!Wake
  BY <1>4, RequestStep DEF Evaluator!Wake, IInv, WaitedInv, StoredInv
<1>5. CASE Evaluator!Finish
  BY <1>5, SilentStep DEF Evaluator!Finish, overall_result, Evaluator!overall_result, Result
<1>6. CASE Evaluator!InvalidRange \/ Evaluator!NullPayload \/ Evaluator!ReadThrows
  BY <1>6, SilentStep
     DEF Evaluator!InvalidRange, Evaluator!NullPayload, Evaluator!ReadThrows, Evaluator!Abort
<1>7. CASE \E r \in Evaluator!Response : Evaluator!Conclude(r) \/ Evaluator!Retry(r)
  BY <1>7, ConcludeStep, RetryStep
<1> QED
  BY <1>1, <1>2, <1>3, <1>4, <1>5, <1>6, <1>7
     DEF Evaluator!Next, Evaluator!Local, Evaluator!Answer

\* A step of the runner itself: it leaves the story, or ends or begins one.
LEMMA GotoStep ==
  ASSUME IInv, UNCHANGED <<folder, files, serverless, results, failed, storyVars>>,
         stage' \in Stages \ {"evaluating"},
         stage = "start" => stage' = "crashed", stage # "crashed",
         stage' \in {"start", "loaded", "connecting"} => stage \in {"loaded", "connecting"},
         stage = "evaluating" => pc = "aborted",
         stage' = "finished" => Len(results) = Len(files),
         stage' \in {"next", "finished"} => dry_run \/ serverless \/ link' = "ready",
         dry_run => UNCHANGED linkVars /\ stage' # "connecting"
  PROVE  IInv'
<1>1. ResultsInv'
  BY DEF IInv, ResultsInv
<1>2. WaitedInv'
  BY DEF IInv, WaitedInv, storyVars, linkVars, Stages
<1>3. StoredInv'
  BY DEF IInv, StoredInv, OutputsAreOwn, storyVars
<1>9. LoadedInv'
  BY DEF IInv, LoadedInv
<1> QED
  BY <1>1, <1>2, <1>3, <1>9 DEF IInv

\* Loading the files.
LEMMA LoadStep == IInv /\ story_files => IInv'
<1> SUFFICES ASSUME IInv, story_files PROVE IInv'
  OBVIOUS
<1>1. LoadedInv'
  BY DEF IInv, LoadedInv, story_files
<1>2. ResultsInv'
  BY DEF IInv, ResultsInv, story_files, Stages
<1>3. WaitedInv'
  BY DEF IInv, WaitedInv, story_files, linkVars, storyVars
<1>4. StoredInv'
  BY DEF IInv, StoredInv, OutputsAreOwn, story_files, storyVars
<1> QED
  BY <1>1, <1>2, <1>3, <1>4 DEF IInv

LEMMA WaitingStep ==
  IInv /\ (LoadThrows \/ SkipWait \/ Wait \/ Connecting \/ Connected \/ NotConnected) => IInv'
<1>0. ASSUME IInv, LoadThrows PROVE IInv'
  BY <1>0, GotoStep DEF LoadThrows, Goto, Stages
<1>1. ASSUME IInv, SkipWait PROVE IInv'
  BY <1>1, GotoStep DEF SkipWait, Goto, Stages
<1>2. ASSUME IInv, Wait PROVE IInv'
  BY <1>2, GotoStep DEF Wait, Goto, Stages
<1>3. ASSUME IInv, Connecting PROVE IInv'
  BY <1>3, GotoStep DEF Connecting, Stages, runVars, IInv, WaitedInv
<1>4. ASSUME IInv, Connected PROVE IInv'
  BY <1>4, GotoStep DEF Connected, Goto, Stages, linkVars
<1>5. ASSUME IInv, NotConnected PROVE IInv'
  BY <1>5, GotoStep DEF NotConnected, Goto, Stages
<1> QED
  BY <1>0, <1>1, <1>2, <1>3, <1>4, <1>5

\* A result is pushed: it is that of the next file.
LEMMA PushStep ==
  ASSUME IInv, NEW r \in Result, Push(r), UNCHANGED storyVars,
         stage \in {"next", "evaluating"}, pc \in {"done", "aborted"},
         file.valid \/ r \in Bad
  PROVE  IInv'
<1>1. /\ results' \in Seq(Result) /\ Len(results') = Len(results) + 1
      /\ results'[Len(results) + 1] = r
      /\ \A i \in 1 .. Len(results) : results'[i] = results[i]
      /\ Len(results) \in Nat
  BY DEF IInv, ResultsInv, Push
<1>2. /\ stage' = "next" /\ UNCHANGED <<folder, files, serverless, linkVars>>
      /\ failed' = (failed \/ r \in Bad)
  BY DEF Push
<1>3. failed' <=> \E i \in 1 .. Len(results') : results'[i] \in Bad
  <2>1. \A i \in 1 .. Len(results') : i \in 1 .. Len(results) \/ i = Len(results) + 1
    BY <1>1
  <2>2. failed <=> \E i \in 1 .. Len(results) : results[i] \in Bad
    BY DEF IInv, ResultsInv
  <2>3. \A i \in 1 .. Len(results) : i \in 1 .. Len(results')
    BY <1>1
  <2>4. Len(results) + 1 \in 1 .. Len(results')
    BY <1>1
  <2> QED
    BY <1>1, <1>2, <2>1, <2>2, <2>3, <2>4
<1>4. \A i \in 1 .. Len(results') : files[i].valid \/ results'[i] \in Bad
  BY <1>1 DEF IInv, ResultsInv, file
<1>5. ResultsInv'
  BY <1>1, <1>2, <1>3, <1>4 DEF ResultsInv, Stages
<1>6. WaitedInv'
  BY <1>2 DEF IInv, WaitedInv, storyVars, linkVars
<1>7. StoredInv'
  BY DEF IInv, StoredInv, OutputsAreOwn, storyVars
<1>8. LoadedInv'
  BY <1>2 DEF IInv, LoadedInv
<1> QED
  BY <1>5, <1>6, <1>7, <1>8 DEF IInv

\* A story begins with nothing sent and nothing stored.
LEMMA EvaluateStep == IInv /\ Evaluate => IInv'
<1> SUFFICES ASSUME IInv, Evaluate PROVE IInv'
  OBVIOUS
<1>1. ResultsInv'
  BY DEF IInv, ResultsInv, Evaluate, Goto, AtFile, file, Stages
<1>2. WaitedInv'
  BY DEF IInv, WaitedInv, Evaluate, Goto, AtFile, linkVars
<1>3. StoredInv'
  <2>1. /\ outputs' = [id \in Ids |-> 0] /\ pc' = "start"
        /\ sent' = [p \in 1 .. Len(story'.steps) |-> 0]
    BY DEF Evaluate
  <2> QED
    BY <2>1 DEF StoredInv, OutputsAreOwn
<1>4. LoadedInv'
  BY DEF IInv, LoadedInv, Evaluate, Goto, AtFile
<1> QED
  BY <1>1, <1>2, <1>3, <1>4 DEF IInv

LEMMA NextInv == IInv /\ [Next]_vars => IInv'
<1> SUFFICES ASSUME IInv, [Next]_vars PROVE IInv'
  OBVIOUS
<1>0. CASE story_files
  BY <1>0, LoadStep
<1>1. CASE LoadThrows \/ SkipWait \/ Wait \/ Connecting \/ Connected \/ NotConnected
  BY <1>1, WaitingStep
<1>2. CASE RejectFile
  BY <1>2, PushStep DEF RejectFile, AtFile, Result, Bad, IInv, WaitedInv
<1>3. CASE Evaluate
  BY <1>3, EvaluateStep
<1>4. CASE Evaluating
  BY <1>4, EvaluatingStep
<1>5. CASE PushResult
  BY <1>5, PushStep DEF PushResult, IInv, ResultsInv
<1>6. CASE Crash
  BY <1>6, GotoStep DEF Crash, Goto, Stages
<1>7. CASE Finish
  <2>1. stage = "next" /\ Len(results) = Len(files) /\ stage' = "finished"
        /\ UNCHANGED <<folder, files, serverless, results, failed, linkVars, storyVars>>
    BY <1>7 DEF Finish, Goto
  <2> QED
    BY <2>1, GotoStep DEF Stages, IInv, WaitedInv, linkVars
<1>8. CASE UNCHANGED vars
  <2>1. ResultsInv'
    BY <1>8 DEF IInv, ResultsInv, vars, runVars, storyVars, file
  <2>2. WaitedInv'
    BY <1>8 DEF IInv, WaitedInv, vars, runVars, linkVars, storyVars
  <2>3. StoredInv'
    BY <1>8 DEF IInv, StoredInv, OutputsAreOwn, vars, storyVars
  <2>4. LoadedInv'
    BY <1>8 DEF IInv, LoadedInv, vars, runVars
  <2> QED
    BY <2>1, <2>2, <2>3, <2>4 DEF IInv
<1> QED
  BY <1>0, <1>1, <1>2, <1>3, <1>4, <1>5, <1>6, <1>7, <1>8 DEF Next

\* The inductive invariant of a run.
THEOREM Inductive == Spec => []IInv
<1> QED
  BY InitInv, NextInv, PTL DEF Spec

(***************************************************************************)
(* The exit status tells the truth, whatever the files, the answers and    *)
(* the point at which anything fails.                                      *)
(***************************************************************************)
THEOREM ExitStatusCorrect == Spec => []ExitStatusTruthful
<1>1. ASSUME IInv PROVE ExitStatusTruthful
  <2> SUFFICES ASSUME stage = "finished"
               PROVE  /\ Len(results) = Len(folder)
                      /\ failed <=> \E i \in 1 .. Len(results) : results[i] \in Bad
                      /\ ~failed => \A i \in 1 .. Len(folder) :
                                      folder[i].readable /\ folder[i].valid
    BY DEF ExitStatusTruthful
  <2>1. /\ files = [i \in 1 .. Len(folder) |-> Load(folder[i])]
        /\ \A i \in 1 .. Len(folder) : folder[i].readable
    BY <1>1 DEF IInv, LoadedInv
  <2>2. Len(results) = Len(files) /\ Len(results) \in Nat
    BY <1>1 DEF IInv, ResultsInv
  <2>3. Len(files) = Len(folder)
    BY <1>1, <2>1, FoldersAssumption DEF IInv, LoadedInv
  <2>4. \A i \in 1 .. Len(folder) : files[i].valid = folder[i].valid
    BY <2>1 DEF Load
  <2> QED
    BY <1>1, <2>1, <2>2, <2>3, <2>4 DEF IInv, ResultsInv
<1> QED
  BY <1>1, Inductive, PTL

(***************************************************************************)
(* Nothing is sent before the cluster answered, and nothing in a dry run.  *)
(***************************************************************************)
THEOREM NoRequestBeforeAvailableCorrect == Spec => []NoRequestBeforeAvailable
<1>1. IInv => NoRequestBeforeAvailable
  BY DEF IInv, WaitedInv, NoRequestBeforeAvailable
<1> QED
  BY <1>1, Inductive, PTL

(***************************************************************************)
(* No story sees a value another story stored.                             *)
(***************************************************************************)
THEOREM OutputsCorrect == Spec => []OutputsAreOwn
<1>1. IInv => OutputsAreOwn
  BY DEF IInv, StoredInv
<1> QED
  BY <1>1, Inductive, PTL

-----------------------------------------------------------------------------
(***************************************************************************)
(* What is proved of a single story in StoryEvaluatorProofs holds of the   *)
(* story being evaluated: the evaluator those proofs are about is the one  *)
(* instantiated here.                                                      *)
(***************************************************************************)
Proofs == INSTANCE StoryEvaluatorProofs

\* Definition by definition, down to the actions, the two copies are equal.
LEMMA SameResults ==
  /\ Evaluator!Result = Proofs!Result
  /\ Evaluator!Unevaluated = Proofs!Unevaluated
  /\ Evaluator!Step = Proofs!Step
  /\ \A s : Evaluator!Positions(s) = Proofs!Positions(s)
BY Zenon DEF Evaluator!Result, Proofs!Result, Evaluator!Unevaluated, Proofs!Unevaluated,
  Evaluator!Step, Proofs!Step, Evaluator!Parts, Proofs!Parts,
  Evaluator!OutputReference, Proofs!OutputReference,
  Evaluator!Gates, Proofs!Gates, Evaluator!Positions, Proofs!Positions

LEMMA SameWell ==
  \A s : Evaluator!WellDefined(s) <=> Proofs!WellDefined(s)
BY Zenon DEF Evaluator!WellDefined, Proofs!WellDefined, Evaluator!ResolvesAt, Proofs!ResolvesAt,
   Evaluator!Supplies, Proofs!Supplies, Evaluator!Declares, Proofs!Declares,
   Evaluator!Positions, Proofs!Positions

LEMMA SameIsStory ==
  \A s : Evaluator!IsStory(s) <=> Proofs!IsStory(s)
BY Zenon DEF Evaluator!IsStory, Proofs!IsStory, Evaluator!PartOrder, Proofs!PartOrder,
  Evaluator!Step, Proofs!Step, Evaluator!Parts, Proofs!Parts,
  Evaluator!OutputReference, Proofs!OutputReference,
  Evaluator!Gates, Proofs!Gates, Evaluator!StoryGates, Proofs!StoryGates

LEMMA SameLocal == Evaluator!Local <=> Proofs!Local
BY Zenon DEF Evaluator!Local, Proofs!Local, Evaluator!SkipStory, Proofs!SkipStory,
     Evaluator!RefuseStory, Proofs!RefuseStory, Evaluator!BeginStory, Proofs!BeginStory,
     Evaluator!DryRunStep, Proofs!DryRunStep, Evaluator!SkipExcluded, Proofs!SkipExcluded,
     Evaluator!IgnorePending, Proofs!IgnorePending, Evaluator!SkipAfterError,
     Proofs!SkipAfterError, Evaluator!FailUnlocated, Proofs!FailUnlocated, Evaluator!Send,
     Proofs!Send, Evaluator!Wake, Proofs!Wake, Evaluator!Finish, Proofs!Finish,
     Evaluator!InvalidRange, Proofs!InvalidRange, Evaluator!NullPayload, Proofs!NullPayload,
     Evaluator!SettleUnsent, Proofs!SettleUnsent, Evaluator!Settle, Proofs!Settle,
     Evaluator!AtStep, Proofs!AtStep, Evaluator!AtChapter, Proofs!AtChapter,
     Evaluator!AtOpenChapter, Proofs!AtOpenChapter, Evaluator!Sendable, Proofs!Sendable,
     Evaluator!Request, Proofs!Request, Evaluator!Abort, Proofs!Abort, Evaluator!overall_result,
     Proofs!overall_result, Evaluator!Positions, Proofs!Positions, Evaluator!WellDefined,
     Proofs!WellDefined, Evaluator!ResolvesAt, Proofs!ResolvesAt, Evaluator!Supplies,
     Proofs!Supplies, Evaluator!Declares, Proofs!Declares, Evaluator!Unevaluated,
     Proofs!Unevaluated, Evaluator!Result, Proofs!Result, Evaluator!step, Proofs!step

LEMMA SameAnswer == Evaluator!Answer <=> Proofs!Answer
BY Zenon DEF Evaluator!Answer, Proofs!Answer, Evaluator!ReadThrows, Proofs!ReadThrows,
     Evaluator!Conclude, Proofs!Conclude, Evaluator!Retry, Proofs!Retry, Evaluator!Abort,
     Proofs!Abort, Evaluator!Settle, Proofs!Settle, Evaluator!Try, Proofs!Try,
     Evaluator!ChapterTry, Proofs!ChapterTry, Evaluator!SupplementalTry, Proofs!SupplementalTry,
     Evaluator!Final, Proofs!Final, Evaluator!Stopping, Proofs!Stopping,
     Evaluator!set_chapter_output, Proofs!set_chapter_output, Evaluator!Response,
     Proofs!Response, Evaluator!evaluate_request, Proofs!evaluate_request,
     Evaluator!evaluate_payload_schema, Proofs!evaluate_payload_schema,
     Evaluator!evaluate_payload_body, Proofs!evaluate_payload_body,
     Evaluator!extract_output_values, Proofs!extract_output_values, Evaluator!evaluate_status,
     Proofs!evaluate_status, Evaluator!overall_result, Proofs!overall_result,
     Evaluator!Positions, Proofs!Positions, Evaluator!WellDefined, Proofs!WellDefined,
     Evaluator!ResolvesAt, Proofs!ResolvesAt, Evaluator!Supplies, Proofs!Supplies,
     Evaluator!Declares, Proofs!Declares, Evaluator!Unevaluated, Proofs!Unevaluated,
     Evaluator!Result, Proofs!Result, Evaluator!step, Proofs!step

LEMMA SameNext == Evaluator!Next <=> Proofs!Next
BY SameLocal, SameAnswer, Zenon DEF Evaluator!Next, Proofs!Next

LEMMA SameType == Evaluator!TypeOK <=> Proofs!TypeOK
BY SameResults, SameIsStory, Zenon DEF Evaluator!TypeOK, Proofs!TypeOK, Evaluator!Control,
     Proofs!Control

-----------------------------------------------------------------------------
\* Induction over the naturals, for a set of them.
LEMMA NatInduct ==
  ASSUME NEW T \in SUBSET Nat, 0 \in T, \A n \in T : n + 1 \in T
  PROVE  T = Nat
<1> DEFINE R == OpToRel(<, Nat)
<1>1. IsWellFoundedOn(R, Nat)
  BY NatLessThanWellFounded
<1>2. \A m, n \in Nat : <<m, n>> \in R <=> m < n
  BY DEF OpToRel
<1> HIDE DEF R
<1> SUFFICES ASSUME NEW k \in Nat \ T PROVE FALSE
  OBVIOUS
<1>3. PICK n \in Nat \ T : \A m \in Nat \ T : <<m, n>> \notin R
  BY <1>1, WFMin
<1>4. n \in Nat /\ n # 0 /\ n - 1 \in Nat /\ n - 1 < n
  OBVIOUS
<1>5. n - 1 \in T
  BY <1>2, <1>3, <1>4
<1> QED
  BY <1>4, <1>5

\* What the flattened sequence of sequences holds.
Holds(s, x) == \E p \in 1 .. Len(s) : s[p] = x

LEMMA ConcatHolds ==
  ASSUME NEW S, NEW s \in Seq(S), NEW t \in Seq(S)
  PROVE  /\ s \o t \in Seq(S)
         /\ \A x : Holds(s \o t, x) <=> Holds(s, x) \/ Holds(t, x)
<1>1. /\ s \o t \in Seq(S) /\ Len(s \o t) = Len(s) + Len(t)
      /\ Len(s) \in Nat /\ Len(t) \in Nat
      /\ \A p \in 1 .. Len(s) : (s \o t)[p] = s[p]
      /\ \A p \in 1 .. Len(t) : (s \o t)[Len(s) + p] = t[p]
  OBVIOUS
<1>2. \A p \in 1 .. Len(s) : p \in 1 .. Len(s \o t)
  BY <1>1
<1>3. \A p \in 1 .. Len(t) : Len(s) + p \in 1 .. Len(s \o t)
  BY <1>1
<1>4. \A p \in 1 .. Len(s \o t) : 
        \/ p \in 1 .. Len(s)
        \/ p - Len(s) \in 1 .. Len(t) /\ Len(s) + (p - Len(s)) = p
  BY <1>1
<1> HIDE DEF Holds
<1>5. ASSUME NEW x PROVE Holds(s, x) \/ Holds(t, x) => Holds(s \o t, x)
  BY <1>1, <1>2, <1>3 DEF Holds
<1>6. ASSUME NEW x, Holds(s \o t, x) PROVE Holds(s, x) \/ Holds(t, x)
  <2>1. PICK p \in 1 .. Len(s \o t) : (s \o t)[p] = x
    BY <1>6 DEF Holds
  <2> QED
    BY <1>1, <1>4, <2>1 DEF Holds
<1> QED
  BY <1>1, <1>5, <1>6


\* The function that FlattenSeq is defined with exists.
LEMMA FlattenExists ==
  ASSUME NEW ss, NEW k \in Nat
  PROVE  \E f : f = [i \in 1 .. k |-> IF i = 1 THEN ss[i] ELSE f[i - 1] \o ss[i]]
<1> DEFINE F(f, n) == f = [i \in 1 .. n |-> IF i = 1 THEN ss[i] ELSE f[i - 1] \o ss[i]]
           T == {n \in Nat : \E f : F(f, n)}
<1>1. 0 \in T
  <2>1. F(<<>>, 0)
    OBVIOUS
  <2> QED
    BY <2>1
<1>2. ASSUME NEW n \in T PROVE n + 1 \in T
  <2>1. PICK f : F(f, n)
    OBVIOUS
  <2> DEFINE g == [i \in 1 .. n + 1 |->
                     IF i = 1 THEN ss[i] ELSE (IF i = n + 1 THEN f[n] ELSE f[i - 1]) \o ss[i]]
  <2>2. \A i \in 1 .. n : g[i] = f[i]
    <3>1. \A i \in 1 .. n : f[i] = IF i = 1 THEN ss[i] ELSE f[i - 1] \o ss[i]
      BY <2>1
    <3>2. \A i \in 1 .. n : i \in 1 .. n + 1 /\ i # n + 1
      OBVIOUS
    <3> QED
      BY <3>1, <3>2
  <2>3. \A i \in 1 .. n + 1 : i # 1 => i - 1 \in 1 .. n /\ (i = n + 1 => i - 1 = n)
    OBVIOUS
  <2>4. \A i \in 1 .. n + 1 :
          g[i] = IF i = 1 THEN ss[i] ELSE g[i - 1] \o ss[i]
    BY <2>2, <2>3
  <2>5. g = [i \in 1 .. n + 1 |-> g[i]]
    OBVIOUS
  <2> HIDE DEF g
  <2>6. F(g, n + 1)
    BY <2>4, <2>5, Zenon
  <2>7. n + 1 \in Nat
    OBVIOUS
  <2> HIDE DEF F
  <2> QED
    BY <2>6, <2>7
<1>3. T = Nat
  <2> HIDE DEF T
  <2> QED
    BY <1>1, <1>2, NatInduct DEF T
<1> QED
  BY <1>3

\* The flattened sequence holds what the sequences in it hold.
LEMMA FlattenHolds ==
  ASSUME NEW S, NEW ss \in Seq(Seq(S))
  PROVE  /\ FlattenSeq(ss) \in Seq(S)
         /\ \A x : Holds(FlattenSeq(ss), x) <=> \E i \in 1 .. Len(ss) : Holds(ss[i], x)
<1> DEFINE F(f) == f = [i \in 1 .. Len(ss) |-> IF i = 1 THEN ss[i] ELSE f[i - 1] \o ss[i]]
           Held(s, n) == /\ s \in Seq(S)
                         /\ \A x : Holds(s, x) <=> \E i \in 1 .. n : Holds(ss[i], x)
<1>0. Len(ss) \in Nat /\ \A i \in 1 .. Len(ss) : ss[i] \in Seq(S)
  OBVIOUS
<1>1. CASE Len(ss) = 0
  BY <1>1 DEF FlattenSeq, Holds
<1>2. CASE Len(ss) # 0
  <2> DEFINE flatten == CHOOSE f : F(f)
             T == {n \in Nat : n + 1 \in 1 .. Len(ss) => Held(flatten[n + 1], n + 1)}
  <2>1. FlattenSeq(ss) = flatten[Len(ss)]
    BY <1>2 DEF FlattenSeq
  <2>2. F(flatten)
    <3>1. \E f : F(f)
      BY <1>0, FlattenExists
    <3> QED
      BY <3>1
  <2> HIDE DEF flatten
  <2>3. \A i \in 1 .. Len(ss) : flatten[i] = IF i = 1 THEN ss[i] ELSE flatten[i - 1] \o ss[i]
    BY <2>2
  <2> HIDE DEF F
  <2>4. 0 \in T
    <3>1. 1 \in 1 .. Len(ss) /\ flatten[1] = ss[1]
      BY <1>0, <1>2, <2>3
    <3> QED
      BY <1>0, <3>1
  <2>5. ASSUME NEW n \in T PROVE n + 1 \in T
    <3>1. n \in Nat /\ n + 1 \in Nat /\ (n + 1) + 1 = n + 2
      OBVIOUS
    <3>2. ASSUME n + 2 \in 1 .. Len(ss) PROVE Held(flatten[n + 2], n + 2)
      <4>1. n + 1 \in 1 .. Len(ss) /\ n + 2 # 1 /\ (n + 2) - 1 = n + 1
        BY <3>1, <3>2, <1>0
      <4>2. flatten[n + 2] = flatten[n + 1] \o ss[n + 2]
        BY <3>2, <4>1, <2>3
      <4>3. Held(flatten[n + 1], n + 1)
        BY <4>1
      <4>4. ss[n + 2] \in Seq(S)
        BY <3>2, <1>0
      <4>5. \A i \in 1 .. n + 2 : i \in 1 .. n + 1 \/ i = n + 2
        BY <3>1
      <4>6. n + 2 \in 1 .. n + 2 /\ \A i \in 1 .. n + 1 : i \in 1 .. n + 2
        BY <3>1
      <4> QED
        BY <4>2, <4>3, <4>4, <4>5, <4>6, ConcatHolds
    <3> HIDE DEF Held
    <3> QED
      BY <3>1, <3>2
  <2>6. T = Nat
    <3>1. T \in SUBSET Nat
      OBVIOUS
    <3> HIDE DEF T
    <3> QED
      BY <2>4, <2>5, <3>1, NatInduct
  <2>7. Len(ss) - 1 \in T /\ (Len(ss) - 1) + 1 = Len(ss) /\ Len(ss) \in 1 .. Len(ss)
    <3> HIDE DEF T
    <3> QED
      BY <1>0, <1>2, <2>6
  <2>8. Held(flatten[Len(ss)], Len(ss))
    <3> HIDE DEF Held
    <3> QED
      BY <2>7
  <2> QED
    BY <2>1, <2>8
<1> QED
  BY <1>1, <1>2

\* What a parsed story is made of.
Requests == [step: Evaluator!Step, path: Paths, method: Methods]

\* What a story file is parsed into.
LEMMA ParseHolds ==
  ASSUME NEW f \in Files
  PROVE  /\ parse(f) \in Seq(Requests)
         /\ \A x : Holds(parse(f), x) <=>
              \/ Holds(f.prologues, x) \/ Holds(f.epilogues, x)
              \/ \E i \in 1 .. Len(f.chapters) : \E j \in 1 .. Len(f.chapters[i].methods) :
                   x = [step |-> f.chapters[i].step, path |-> f.chapters[i].path,
                        method |-> f.chapters[i].methods[j]]
<1> DEFINE Expanded(i, j) == [step |-> f.chapters[i].step, path |-> f.chapters[i].path,
                              method |-> f.chapters[i].methods[j]]
           ss == [i \in 1 .. Len(f.chapters) |->
                    [j \in 1 .. Len(f.chapters[i].methods) |-> Expanded(i, j)]]
<1>1. /\ f.prologues \in Seq(Supplements("prologue")) /\ f.chapters \in Seq(Chapters)
      /\ f.epilogues \in Seq(Supplements("epilogue"))
  BY DEF Files
<1>2. f.prologues \in Seq(Requests) /\ f.epilogues \in Seq(Requests)
  <2>1. Supplements("prologue") \subseteq Requests /\ Supplements("epilogue") \subseteq Requests
    BY DEF Supplements, Steps, Requests
  <2> QED
    BY <1>1, <2>1
<1>3. ASSUME NEW i \in 1 .. Len(f.chapters)
      PROVE  /\ f.chapters[i].methods \in Seq(Methods)
             /\ f.chapters[i].step \in Evaluator!Step /\ f.chapters[i].path \in Paths
  <2>1. f.chapters[i] \in Chapters
    BY <1>1
  <2> QED
    BY <2>1 DEF Chapters, Steps
<1>4. ASSUME NEW i \in 1 .. Len(f.chapters)
      PROVE  ss[i] \in Seq(Requests) /\ Len(ss[i]) = Len(f.chapters[i].methods)
  <2>1. Len(f.chapters[i].methods) \in Nat
        /\ \A j \in 1 .. Len(f.chapters[i].methods) : f.chapters[i].methods[j] \in Methods
    BY <1>3
  <2>2. \A j \in 1 .. Len(f.chapters[i].methods) : Expanded(i, j) \in Requests
    BY <1>3, <2>1 DEF Requests
  <2> HIDE DEF Expanded
  <2>3. ss[i] = [j \in 1 .. Len(f.chapters[i].methods) |-> Expanded(i, j)]
    OBVIOUS
  <2> QED
    BY <2>1, <2>2, <2>3
<1>5. ss \in Seq(Seq(Requests)) /\ Len(ss) = Len(f.chapters)
  <2>1. Len(f.chapters) \in Nat
    BY <1>1
  <2>2. \A i \in 1 .. Len(f.chapters) : ss[i] \in Seq(Requests)
    BY <1>4
  <2>3. ss = [i \in 1 .. Len(f.chapters) |-> ss[i]]
    OBVIOUS
  <2> HIDE DEF ss
  <2>4. ss \in [1 .. Len(f.chapters) -> Seq(Requests)]
    BY <2>2, <2>3
  <2> QED
    BY <2>1, <2>4
<1>6. ASSUME NEW x, NEW i \in 1 .. Len(f.chapters)
      PROVE  Holds(ss[i], x) <=> \E j \in 1 .. Len(f.chapters[i].methods) : x = Expanded(i, j)
  <2> HIDE DEF Expanded
  <2>1. ss[i] = [j \in 1 .. Len(f.chapters[i].methods) |-> Expanded(i, j)]
    OBVIOUS
  <2> QED
    BY <1>4, <2>1 DEF Holds
<1>7. expand_chapters(f.chapters) = FlattenSeq(ss)
  BY DEF expand_chapters
<1> HIDE DEF ss, Expanded
<1>8. /\ FlattenSeq(ss) \in Seq(Requests)
      /\ \A x : Holds(FlattenSeq(ss), x) <=> \E i \in 1 .. Len(f.chapters) : Holds(ss[i], x)
  BY <1>5, FlattenHolds
<1>9. /\ f.prologues \o FlattenSeq(ss) \in Seq(Requests)
      /\ \A x : Holds(f.prologues \o FlattenSeq(ss), x) <=>
                  Holds(f.prologues, x) \/ Holds(FlattenSeq(ss), x)
  BY <1>2, <1>8, ConcatHolds
<1>10. /\ parse(f) \in Seq(Requests)
       /\ \A x : Holds(parse(f), x) <=>
            Holds(f.prologues \o FlattenSeq(ss), x) \/ Holds(f.epilogues, x)
  <2>1. parse(f) = (f.prologues \o FlattenSeq(ss)) \o f.epilogues
    BY <1>7 DEF parse
  <2> DEFINE s == f.prologues \o FlattenSeq(ss)
  <2>2. s \in Seq(Requests) /\ f.epilogues \in Seq(Requests)
    BY <1>2, <1>9
  <2> HIDE DEF s
  <2>3. /\ s \o f.epilogues \in Seq(Requests)
        /\ \A x : Holds(s \o f.epilogues, x) <=> Holds(s, x) \/ Holds(f.epilogues, x)
    BY <2>2, ConcatHolds
  <2> QED
    BY <2>1, <2>3 DEF s
<1> QED
  BY <1>6, <1>8, <1>9, <1>10 DEF Expanded

\* A chapter that is to be sent, and the operations of a file's chapters that
\* are, of the file as it is written and as it was loaded.
ToRun(st) == st.gate = "runs" /\ ~st.pending

Meant(f) ==
  IF f.gate = "runs"
  THEN UNION {{<<c.path, c.methods[j]>> : j \in 1 .. Len(c.methods)} :
              c \in {d \in ToSet(f.chapters) : ToRun(d.step)}}
  ELSE {}

Runnable(loaded) ==
  IF loaded.story.gate = "runs"
  THEN {loaded.operations[p] : p \in {q \in ChaptersOf(loaded) : ToRun(loaded.story.steps[q])}}
  ELSE {}

LEMMA LoadFacts ==
  ASSUME NEW f \in Files
  PROVE  /\ Len(parse(f)) \in Nat
         /\ Load(f).story \in Stories /\ Load(f).story.gate = f.gate
         /\ Len(Load(f).story.steps) = Len(parse(f))
         /\ Len(Load(f).operations) = Len(parse(f))
         /\ \A p \in 1 .. Len(parse(f)) :
              /\ Load(f).operations[p] = <<parse(f)[p].path, parse(f)[p].method>>
              /\ Load(f).story.steps[p] = Located(parse(f)[p])
              /\ Located(parse(f)[p]).part = parse(f)[p].step.part
              /\ Located(parse(f)[p]).gate = parse(f)[p].step.gate
              /\ Located(parse(f)[p]).pending = parse(f)[p].step.pending
              /\ Located(parse(f)[p]).located <=> Load(f).operations[p] \in SpecOperations
<1>1. parse(f) \in Seq(Requests)
  BY ParseHolds
<1>2. Len(parse(f)) \in Nat /\ \A p \in 1 .. Len(parse(f)) : parse(f)[p] \in Requests
  BY <1>1
<1>3. ASSUME NEW c \in Requests
      PROVE  /\ Located(c).part = c.step.part /\ Located(c).gate = c.step.gate
             /\ Located(c).pending = c.step.pending
             /\ Located(c).located <=> <<c.path, c.method>> \in SpecOperations
  BY DEF Requests, Evaluator!Step, Located, locate_operation
<1>4. /\ Load(f).story.steps = [p \in 1 .. Len(parse(f)) |-> Located(parse(f)[p])]
      /\ Load(f).story.gate = f.gate
      /\ Load(f).operations =
           [p \in 1 .. Len(parse(f)) |-> <<parse(f)[p].path, parse(f)[p].method>>]
  BY DEF Load
<1>5. Load(f).story \in Stories
  BY DEF Files
<1> QED
  BY <1>2, <1>3, <1>4, <1>5

LEMMA LoadRunnable ==
  ASSUME NEW f \in Files
  PROVE  Runnable(Load(f)) = Meant(f)
<1> DEFINE L == Load(f)
<1>1. /\ f.chapters \in Seq(Chapters) /\ Len(f.chapters) \in Nat
      /\ DOMAIN f.chapters = 1 .. Len(f.chapters)
  BY DEF Files
<1>2. ASSUME NEW o, f.gate = "runs"
      PROVE  o \in Runnable(L) <=>
             \E p \in 1 .. Len(parse(f)) :
                /\ parse(f)[p].step.part = "chapter" /\ ToRun(parse(f)[p].step)
                /\ o = <<parse(f)[p].path, parse(f)[p].method>>
  <2>1. o \in Runnable(L) <=>
          \E p \in ChaptersOf(L) : ToRun(L.story.steps[p]) /\ o = L.operations[p]
    BY <1>2, LoadFacts DEF Runnable
  <2>2. \A p : p \in ChaptersOf(L) <=>
               p \in 1 .. Len(parse(f)) /\ parse(f)[p].step.part = "chapter"
    BY LoadFacts DEF ChaptersOf
  <2>3. \A p \in 1 .. Len(parse(f)) : /\ ToRun(L.story.steps[p]) <=> ToRun(parse(f)[p].step)
                                      /\ L.operations[p] = <<parse(f)[p].path, parse(f)[p].method>>
    BY LoadFacts DEF ToRun
  <2> QED
    BY <2>1, <2>2, <2>3
<1>3. ASSUME NEW o, f.gate = "runs"
      PROVE  o \in Meant(f) <=>
             \E i \in 1 .. Len(f.chapters) : \E j \in 1 .. Len(f.chapters[i].methods) :
                /\ ToRun(f.chapters[i].step)
                /\ o = <<f.chapters[i].path, f.chapters[i].methods[j]>>
  <2>1. o \in Meant(f) <=> \E c \in ToSet(f.chapters) : ToRun(c.step) /\
             \E j \in 1 .. Len(c.methods) : o = <<c.path, c.methods[j]>>
    <3> DEFINE Of(c) == {<<c.path, c.methods[j]>> : j \in 1 .. Len(c.methods)}
               C == {d \in ToSet(f.chapters) : ToRun(d.step)}
    <3>1. Meant(f) = UNION {Of(c) : c \in C}
      BY <1>3 DEF Meant
    <3>2. \A c : o \in Of(c) <=> \E j \in 1 .. Len(c.methods) : o = <<c.path, c.methods[j]>>
      OBVIOUS
    <3> HIDE DEF Of
    <3>3. o \in Meant(f) <=> \E c \in C : o \in Of(c)
      BY <3>1
    <3> QED
      BY <3>2, <3>3
  <2>2. ASSUME NEW c
        PROVE  c \in ToSet(f.chapters) <=> \E i \in 1 .. Len(f.chapters) : c = f.chapters[i]
    BY <1>1 DEF ToSet
  <2> QED
    BY <2>1, <2>2
<1>4. ASSUME NEW x, Holds(f.prologues, x) \/ Holds(f.epilogues, x)
      PROVE  x.step.part # "chapter"
  <2>1. f.prologues \in Seq(Supplements("prologue")) /\ f.epilogues \in Seq(Supplements("epilogue"))
    BY DEF Files
  <2>2. x \in Supplements("prologue") \/ x \in Supplements("epilogue")
    BY <1>4, <2>1 DEF Holds
  <2> QED
    BY <2>2 DEF Supplements, Steps
<1>5. ASSUME NEW i \in 1 .. Len(f.chapters) PROVE f.chapters[i].step.part = "chapter"
  <2>1. f.chapters[i] \in Chapters
    BY <1>1
  <2> QED
    BY <2>1 DEF Chapters, Steps
<1>6. ASSUME NEW o, f.gate = "runs" PROVE o \in Runnable(L) <=> o \in Meant(f)
  <2>1. ASSUME o \in Runnable(L) PROVE o \in Meant(f)
    <3>1. PICK x : /\ Holds(parse(f), x) /\ x.step.part = "chapter" /\ ToRun(x.step)
                   /\ o = <<x.path, x.method>>
      BY <1>2, <1>6, <2>1 DEF Holds
    <3>2. ~(Holds(f.prologues, x) \/ Holds(f.epilogues, x))
      BY <1>4, <3>1
    <3>3. PICK i \in 1 .. Len(f.chapters) : \E j \in 1 .. Len(f.chapters[i].methods) :
                x = [step |-> f.chapters[i].step, path |-> f.chapters[i].path,
                     method |-> f.chapters[i].methods[j]]
      BY <3>1, <3>2, ParseHolds
    <3>4. PICK j \in 1 .. Len(f.chapters[i].methods) :
                x = [step |-> f.chapters[i].step, path |-> f.chapters[i].path,
                     method |-> f.chapters[i].methods[j]]
      BY <3>3
    <3>5. /\ x.step = f.chapters[i].step /\ x.path = f.chapters[i].path
          /\ x.method = f.chapters[i].methods[j]
      BY <3>4
    <3> QED
      BY <1>3, <1>6, <3>1, <3>5
  <2>2. ASSUME o \in Meant(f) PROVE o \in Runnable(L)
    <3>1. PICK i \in 1 .. Len(f.chapters) : \E j \in 1 .. Len(f.chapters[i].methods) :
                /\ ToRun(f.chapters[i].step)
                /\ o = <<f.chapters[i].path, f.chapters[i].methods[j]>>
      BY <1>3, <1>6, <2>2
    <3>2. PICK j \in 1 .. Len(f.chapters[i].methods) :
                /\ ToRun(f.chapters[i].step)
                /\ o = <<f.chapters[i].path, f.chapters[i].methods[j]>>
      BY <3>1
    <3> DEFINE x == [step |-> f.chapters[i].step, path |-> f.chapters[i].path,
                     method |-> f.chapters[i].methods[j]]
    <3>3. Holds(parse(f), x)
      BY ParseHolds
    <3>4. /\ x.step = f.chapters[i].step /\ x.path = f.chapters[i].path
          /\ x.method = f.chapters[i].methods[j]
      OBVIOUS
    <3> HIDE DEF x
    <3> QED
      BY <1>2, <1>5, <1>6, <3>2, <3>3, <3>4 DEF Holds
  <2> QED
    BY <2>1, <2>2
<1>7. CASE f.gate # "runs"
  BY <1>7, LoadFacts DEF Runnable, Meant
<1> QED
  BY <1>6, <1>7


-----------------------------------------------------------------------------
(***************************************************************************)
(* The invariants of the run's parts.                                      *)
(***************************************************************************)

\* The client sleeps only with an attempt left.
ClientInv ==
  /\ Client!ClientTypeOK
  /\ link = "idle" => attempt = 0
  /\ link = "sleeping" => attempt < max_attempts

LEMMA InitClient == Init => ClientInv
BY MaxAttemptsAssumption DEF Init, ClientInv, Client!ClientInit, Client!ClientTypeOK

LEMMA NextClient == ClientInv /\ [Next]_vars => ClientInv'
<1> SUFFICES ASSUME ClientInv, [Next]_vars PROVE ClientInv'
  OBVIOUS
<1>1. CASE Client!wait_until_available
  BY <1>1, MaxAttemptsAssumption
     DEF Client!wait_until_available, Client!Ask, ClientInv, Client!ClientTypeOK
<1>2. CASE Client!AskAgain
  BY <1>2, MaxAttemptsAssumption DEF Client!AskAgain, Client!Ask, ClientInv, Client!ClientTypeOK
<1>3. CASE Client!Available
  BY <1>3 DEF Client!Available, ClientInv, Client!ClientTypeOK
<1>4. ASSUME NEW kind \in Client!Fatal \cup Client!Passing, Client!Refused(kind)
      PROVE  ClientInv'
  BY <1>4, MaxAttemptsAssumption DEF Client!Refused, ClientInv, Client!ClientTypeOK
<1>5. CASE UNCHANGED linkVars
  BY <1>5 DEF linkVars, ClientInv, Client!ClientTypeOK
<1>6. \/ UNCHANGED linkVars
      \/ Client!wait_until_available \/ Client!AskAgain \/ Client!Available
      \/ \E kind \in Client!Fatal \cup Client!Passing : Client!Refused(kind)
  BY DEF Next, story_files, LoadThrows, SkipWait, Wait, Connecting, Connected, NotConnected,
     RejectFile, Evaluate, Evaluating, PushResult, Crash, Finish, Push, Client!ClientNext, vars
<1> QED
  BY <1>1, <1>2, <1>3, <1>4, <1>5, <1>6

\* While a story is evaluated it is that of the next file, and everything
\* that is proved of one evaluation holds.
EvaluationInv ==
  /\ dry_run \in BOOLEAN
  /\ stage = "evaluating" =>
       /\ Len(results) < Len(files)
       /\ story = file.story
       /\ Proofs!IInv /\ Proofs!SentInv

LEMMA InitEvaluation == Init => EvaluationInv
BY DEF Init, EvaluationInv

LEMMA BegunStory == Proofs!Init' => Proofs!IInv' /\ Proofs!SentInv'
<1>1. Proofs!Init => Proofs!IInv /\ Proofs!SentInv
  <2>1. \A s \in Stories : Proofs!IsStory(s)
    BY StoriesAssumption, SameIsStory
  <2> QED
    BY <2>1, NoIdAssumption, Proofs!InitInv, Proofs!InitSent
<1> QED
  BY <1>1, PTL

LEMMA EvaluatedStory ==
  Proofs!IInv /\ Proofs!SentInv /\ [Evaluator!Next]_storyVars =>
    Proofs!IInv' /\ Proofs!SentInv' /\ story' = story /\ dry_run' = dry_run
<1> SUFFICES ASSUME Proofs!IInv, Proofs!SentInv, [Evaluator!Next]_storyVars
             PROVE  Proofs!IInv' /\ Proofs!SentInv' /\ story' = story /\ dry_run' = dry_run
  OBVIOUS
<1>1. Proofs!vars = storyVars /\ Proofs!vars' = storyVars'
  BY DEF Proofs!vars, storyVars
<1>2. [Proofs!Next]_Proofs!vars
  BY <1>1, SameNext
<1>3. Proofs!IInv' /\ Proofs!SentInv'
  <2>1. \A s \in Stories : Proofs!IsStory(s)
    BY StoriesAssumption, SameIsStory
  <2> QED
    BY <1>2, <2>1, NoIdAssumption, Proofs!NextInv, Proofs!NextSent
<1>4. story' = story /\ dry_run' = dry_run
  BY DEF Evaluator!Next, Evaluator!Local, Evaluator!Answer, Evaluator!SkipStory,
     Evaluator!RefuseStory, Evaluator!BeginStory, Evaluator!DryRunStep, Evaluator!SkipExcluded,
     Evaluator!IgnorePending, Evaluator!SkipAfterError, Evaluator!FailUnlocated,
     Evaluator!SettleUnsent, Evaluator!Settle, Evaluator!Send, Evaluator!Wake, Evaluator!Request,
     Evaluator!Conclude, Evaluator!Retry, Evaluator!Finish, Evaluator!InvalidRange,
     Evaluator!NullPayload, Evaluator!ReadThrows, Evaluator!Abort, storyVars
<1> QED
  BY <1>3, <1>4

LEMMA LoadedFiles ==
  ASSUME LoadedInv, stage \notin {"start", "crashed"}
  PROVE  /\ Len(folder) \in Nat /\ Len(files) = Len(folder)
         /\ \A i \in 1 .. Len(folder) : folder[i] \in Files /\ files[i] = Load(folder[i])
<1>1. folder \in Seq(Files)
  BY FoldersAssumption DEF LoadedInv
<1>2. files = [i \in 1 .. Len(folder) |-> Load(folder[i])]
  BY DEF LoadedInv
<1> QED
  BY <1>1, <1>2

LEMMA NextEvaluation == IInv /\ EvaluationInv /\ [Next]_vars => EvaluationInv'
<1> SUFFICES ASSUME IInv, EvaluationInv, [Next]_vars PROVE EvaluationInv'
  OBVIOUS
<1>1. CASE Evaluate
  <2>1. /\ stage = "next" /\ Len(results) < Len(files) /\ UNCHANGED <<files, results, dry_run>>
        /\ story' = file.story /\ file' = file
    BY <1>1 DEF Evaluate, AtFile, Goto, file
  <2>2. file.story \in Stories
    <3>1. Len(results) + 1 \in 1 .. Len(files) /\ Len(results) + 1 \in Nat
      BY <2>1, LoadedFiles DEF IInv, ResultsInv
    <3> QED
      BY <2>1, <3>1, LoadedFiles, LoadFacts DEF IInv, file
  <2>3. Proofs!Init'
    <3>1. /\ pc' = "start" /\ at' = 1 /\ has_errors' = FALSE
          /\ outputs' = [id \in Ids |-> 0] /\ tries' = 0
          /\ verdict' = [p \in 1 .. Len(story'.steps) |-> Evaluator!Unevaluated]
          /\ sent' = [p \in 1 .. Len(story'.steps) |-> 0]
          /\ result' = Evaluator!Unevaluated
      BY <1>1 DEF Evaluate
    <3> QED
      BY <2>1, <2>2, <3>1 DEF EvaluationInv, Proofs!Init, Proofs!Positions, Proofs!Unevaluated,
         Evaluator!Unevaluated
  <2> QED
    BY <2>1, <2>3, BegunStory DEF EvaluationInv
<1>2. CASE Evaluating
  <2>1. stage = "evaluating" /\ Evaluator!Next /\ UNCHANGED <<files, results>> /\ file' = file
    BY <1>2 DEF Evaluating, runVars, file
  <2> QED
    BY <2>1, EvaluatedStory DEF EvaluationInv
<1>3. CASE UNCHANGED vars
  <2>1. UNCHANGED <<stage, files, results, dry_run, storyVars>> /\ file' = file
    BY <1>3 DEF vars, runVars, storyVars, file
  <2> QED
    BY <2>1, EvaluatedStory DEF EvaluationInv
<1>4. CASE ~(Evaluate \/ Evaluating \/ UNCHANGED vars)
  <2>1. stage' # "evaluating" /\ dry_run' = dry_run
    BY <1>4 DEF Next, story_files, LoadThrows, SkipWait, Wait, Connecting, Connected, NotConnected,
       RejectFile, PushResult, Crash, Finish, Push, Goto, runVars, storyVars, AtFile
  <2> QED
    BY <2>1 DEF EvaluationInv
<1> QED
  BY <1>1, <1>2, <1>3, <1>4

\* The operations named so far come from the files gone over, and from the
\* specification; none in a dry run; and as long as nothing failed they are
\* the ones the files gone over were meant to call.
PerformedInv ==
  /\ files \in {<<>>, [i \in 1 .. Len(folder) |-> Load(folder[i])]}
  /\ serverless \in BOOLEAN /\ failed \in BOOLEAN
  /\ Len(results) \in Nat /\ Len(results) <= Len(files)
  /\ performed \subseteq UNION {{files[i].operations[p] : p \in 1 .. Len(files[i].operations)} :
                                  i \in 1 .. Len(results)}
  /\ performed \subseteq SpecOperations
  /\ dry_run => performed = {}
  /\ ~failed /\ ~dry_run =>
       performed = UNION {Runnable(files[i]) : i \in 1 .. Len(results)}

\* What a story that is over names, of the file it came from.
LEMMA StoryOperations ==
  ASSUME IInv, EvaluationInv, stage = "evaluating", pc = "done"
  PROVE  /\ Len(results) + 1 \in 1 .. Len(files)
         /\ OperationsOfChapters \subseteq {file.operations[p] : p \in 1 .. Len(file.operations)}
         /\ OperationsOfChapters \subseteq SpecOperations
         /\ dry_run => OperationsOfChapters = {}
         /\ ~dry_run /\ result \notin Bad => OperationsOfChapters = Runnable(file)
<1>1. /\ Len(results) < Len(files) /\ Len(results) \in Nat
      /\ story = file.story /\ Proofs!IInv /\ Proofs!SentInv
  BY DEF EvaluationInv, IInv, ResultsInv
<1>2. /\ Len(folder) \in Nat /\ Len(files) = Len(folder)
      /\ Len(results) + 1 \in 1 .. Len(folder)
  BY <1>1, LoadedFiles DEF IInv
<1>3. PICK f \in Files : file = Load(f)
  BY <1>2, LoadedFiles DEF IInv, file
<1>4. /\ Len(story.steps) \in Nat /\ Len(file.operations) = Len(story.steps)
      /\ \A p \in 1 .. Len(story.steps) :
           story.steps[p].located => file.operations[p] \in SpecOperations
  BY <1>1, <1>3, LoadFacts
<1>5. ChaptersOf(file) = {p \in 1 .. Len(story.steps) : story.steps[p].part = "chapter"}
  BY <1>1 DEF ChaptersOf
<1>6. ASSUME NEW q \in ChaptersOf(file), sent[q] > 0
      PROVE  /\ ~dry_run /\ story.gate = "runs"
             /\ ToRun(story.steps[q]) /\ story.steps[q].located
  <2>1. q \in Proofs!Positions(story) /\ story.steps[q].part = "chapter"
    BY <1>5 DEF Proofs!Positions
  <2> QED
    BY <1>1, <1>6, <2>1 DEF Proofs!IInv, Proofs!BegunInv, Proofs!SentInv, ToRun
<1>7. ASSUME NEW q \in ChaptersOf(file), ~dry_run, result \notin Bad, story.gate = "runs",
             ToRun(story.steps[q])
      PROVE  sent[q] > 0
  <2>1. q \in Proofs!Positions(story) /\ story.steps[q].part = "chapter"
    BY <1>5 DEF Proofs!Positions
  <2>2. result \notin Proofs!Bad
    BY <1>7 DEF Bad, Proofs!Bad
  <2>3. Proofs!GreenMeansChecked
    <3>1. \A s \in Stories : Proofs!IsStory(s)
      BY StoriesAssumption, SameIsStory
    <3> QED
      BY <1>1, <3>1, NoIdAssumption, Proofs!GreenInv
  <2> QED
    BY <1>7, <2>1, <2>2, <2>3 DEF Proofs!GreenMeansChecked, ToRun
<1>8. OperationsOfChapters = {file.operations[p] : p \in {q \in ChaptersOf(file) : sent[q] > 0}}
  BY DEF OperationsOfChapters
<1>9. ASSUME ~dry_run, result \notin Bad PROVE OperationsOfChapters = Runnable(file)
  <2>1. CASE story.gate = "runs"
    <3>1. {q \in ChaptersOf(file) : sent[q] > 0} = {q \in ChaptersOf(file) : ToRun(story.steps[q])}
      BY <1>6, <1>7, <1>9, <2>1
    <3> QED
      BY <1>1, <1>8, <2>1, <3>1 DEF Runnable
  <2>2. CASE story.gate # "runs"
    <3>1. {q \in ChaptersOf(file) : sent[q] > 0} = {}
      BY <1>6, <2>2
    <3> QED
      BY <1>1, <1>8, <2>2, <3>1 DEF Runnable
  <2> QED
    BY <2>1, <2>2
<1>10. OperationsOfChapters \subseteq {file.operations[p] : p \in 1 .. Len(file.operations)}
  BY <1>4, <1>5, <1>8
<1>11. OperationsOfChapters \subseteq SpecOperations
  BY <1>4, <1>5, <1>6, <1>8
<1>12. dry_run => OperationsOfChapters = {}
  BY <1>6, <1>8
<1> QED
  BY <1>2, <1>9, <1>10, <1>11, <1>12

LEMMA InitPerformed == Init => PerformedInv
<1> SUFFICES ASSUME Init PROVE PerformedInv
  OBVIOUS
<1>1. results = <<>> /\ Len(results) = 0 /\ 1 .. Len(results) = {}
  BY DEF Init
<1>2. files = <<>> /\ Len(files) = 0 /\ failed = FALSE /\ performed = {} /\ serverless \in BOOLEAN
  BY DEF Init
<1>3. {} = UNION {Runnable(files[i]) : i \in 1 .. Len(results)}
  BY <1>1
<1>4. files \in {<<>>, [i \in 1 .. Len(folder) |-> Load(folder[i])]}
  BY <1>2
<1>5. /\ Len(results) \in Nat /\ Len(results) <= Len(files)
      /\ ~failed /\ ~dry_run => performed = UNION {Runnable(files[i]) : i \in 1 .. Len(results)}
  <2>1. Len(results) \in Nat /\ Len(results) <= Len(files)
    BY <1>1, <1>2
  <2> QED
    BY <1>2, <1>3, <2>1
<1> QED
  BY <1>2, <1>4, <1>5, Zenon DEF PerformedInv

\* A result is pushed, with the operations its story names.
LEMMA PushPerformed ==
  ASSUME IInv, PerformedInv, Len(results) < Len(files), NEW r \in Result, Push(r),
         dry_run' = dry_run, NEW ops, performed' = performed \cup ops,
         ops \subseteq {file.operations[p] : p \in 1 .. Len(file.operations)},
         ops \subseteq SpecOperations,
         dry_run => ops = {},
         ~dry_run /\ r \notin Bad => ops = Runnable(file)
  PROVE  PerformedInv'
<1> DEFINE Named(f) == {f.operations[p] : p \in 1 .. Len(f.operations)}
           n == Len(results)
<1>1. /\ n \in Nat /\ Len(results') = n + 1 /\ UNCHANGED <<folder, files, serverless>>
      /\ failed' = (failed \/ r \in Bad) /\ failed \in BOOLEAN
      /\ n + 1 <= Len(files) /\ n + 1 \in Nat
  <2>1. results \in Seq(Result) /\ results' = Append(results, r)
    BY DEF IInv, ResultsInv, Push
  <2>2. n \in Nat /\ Len(results') = n + 1
    BY <2>1
  <2>3. Len(files) \in Nat
    <3>1. folder \in Seq(Files)
      BY FoldersAssumption DEF IInv, LoadedInv
    <3> QED
      BY <3>1 DEF PerformedInv
  <2> QED
    BY <2>2, <2>3 DEF Push, PerformedInv
<1>2. 1 .. n + 1 = (1 .. n) \cup {n + 1}
  BY <1>1
<1>3. file = files[n + 1]
  BY DEF file
<1>4. performed' \subseteq UNION {Named(files[i]) : i \in 1 .. n + 1}
  <2>1. /\ performed \subseteq UNION {Named(files[i]) : i \in 1 .. n}
        /\ ops \subseteq Named(files[n + 1])
    BY <1>3 DEF PerformedInv
  <2> HIDE DEF Named, n
  <2> QED
    BY <1>2, <2>1
<1>5. ~failed' /\ ~dry_run => performed' = UNION {Runnable(files[i]) : i \in 1 .. n + 1}
  <2> SUFFICES ASSUME ~failed', ~dry_run
               PROVE  performed' = UNION {Runnable(files[i]) : i \in 1 .. n + 1}
    OBVIOUS
  <2>1. performed = UNION {Runnable(files[i]) : i \in 1 .. n} /\ ops = Runnable(files[n + 1])
    BY <1>1, <1>3 DEF PerformedInv
  <2> HIDE DEF n
  <2> QED
    BY <1>2, <2>1
<1>6. performed' \subseteq SpecOperations /\ (dry_run => performed' = {})
  BY DEF PerformedInv
<1>7. files' \in {<<>>, [i \in 1 .. Len(folder') |-> Load(folder'[i])]}
  BY <1>1 DEF PerformedInv
<1>8. /\ serverless' \in BOOLEAN /\ failed' \in BOOLEAN
      /\ Len(results') \in Nat /\ Len(results') <= Len(files')
  BY <1>1 DEF PerformedInv
<1>9. /\ performed' \subseteq UNION {Named(files'[i]) : i \in 1 .. Len(results')}
      /\ ~failed' /\ ~dry_run' =>
           performed' = UNION {Runnable(files'[i]) : i \in 1 .. Len(results')}
  BY <1>1, <1>4, <1>5
<1> QED
  BY <1>6, <1>7, <1>8, <1>9, Zenon DEF PerformedInv

LEMMA NextPerformed == IInv /\ EvaluationInv /\ PerformedInv /\ [Next]_vars => PerformedInv'
<1> SUFFICES ASSUME IInv, EvaluationInv, PerformedInv, [Next]_vars PROVE PerformedInv'
  OBVIOUS
<1>1. dry_run' = dry_run
  <2>1. CASE Evaluating
    BY <2>1, EvaluatedStory DEF Evaluating, EvaluationInv
  <2>2. CASE Evaluate
    BY <2>2 DEF Evaluate
  <2> QED
    BY <2>1, <2>2 DEF Next, story_files, LoadThrows, SkipWait, Wait, Connecting, Connected,
       NotConnected, RejectFile, PushResult, Crash, Finish, storyVars, vars
<1>2. CASE RejectFile
  <2>1. /\ Len(results) < Len(files) /\ Push("ERROR") /\ performed' = performed \cup {}
        /\ "ERROR" \in Result /\ "ERROR" \in Bad
    BY <1>2 DEF RejectFile, AtFile, Result, Bad
  <2> QED
    BY <1>1, <2>1, PushPerformed
<1>3. CASE PushResult
  <2>1. /\ stage = "evaluating" /\ pc = "done" /\ Push(result) /\ result \in Result
        /\ performed' = performed \cup OperationsOfChapters
        /\ Len(results) < Len(files)
    BY <1>3 DEF PushResult, IInv, ResultsInv, EvaluationInv
  <2> QED
    BY <1>1, <2>1, StoryOperations, PushPerformed
<1>4. CASE story_files
  <2>1. /\ UNCHANGED <<folder, serverless, results, failed, performed>>
        /\ files' = [i \in 1 .. Len(folder) |-> Load(folder[i])] /\ results = <<>>
    BY <1>4 DEF story_files, IInv, ResultsInv
  <2>2. folder \in Seq(Files) /\ Len(results) = 0 /\ 1 .. Len(results) = {}
    BY <2>1, FoldersAssumption DEF IInv, LoadedInv
  <2>3. Len(files') \in Nat
    BY <2>1, <2>2
  <2>4. /\ performed = {}
        /\ (~failed /\ ~dry_run => {} = UNION {Runnable(files[i]) : i \in 1 .. Len(results)})
    BY <2>2 DEF PerformedInv
  <2>5. {} = UNION {Runnable(files'[i]) : i \in 1 .. Len(results)}
    BY <2>2
  <2> QED
    BY <1>1, <2>1, <2>2, <2>3, <2>4, <2>5 DEF PerformedInv
<1>5. CASE ~(RejectFile \/ PushResult \/ story_files)
  <2>1. UNCHANGED <<folder, files, serverless, results, failed, performed>>
    BY <1>5 DEF Next, LoadThrows, SkipWait, Wait, Connecting, Connected, NotConnected,
       Evaluate, Evaluating, Crash, Finish, Goto, runVars, vars
  <2> QED
    BY <1>1, <2>1 DEF PerformedInv
<1> QED
  BY <1>2, <1>3, <1>4, <1>5

\* The invariants hold together in every state of every run.
THEOREM InductiveParts == Spec => [](IInv /\ ClientInv /\ EvaluationInv /\ PerformedInv)
<1>1. Init => ClientInv /\ EvaluationInv /\ PerformedInv
  BY InitClient, InitEvaluation, InitPerformed
<1>2. IInv /\ ClientInv /\ EvaluationInv /\ PerformedInv /\ [Next]_vars
        => ClientInv' /\ EvaluationInv' /\ PerformedInv'
  BY NextClient, NextEvaluation, NextPerformed
<1> QED
  BY <1>1, <1>2, Inductive, PTL DEF Spec

(***************************************************************************)
(* TypeOK: the state of the run, of the client and of the story under      *)
(* evaluation stay well formed together, and no operation is named that no *)
(* file gone over names.                                                   *)
(***************************************************************************)
THEOREM TypeCorrect == Spec => []TypeOK
<1>1. IInv /\ ClientInv /\ EvaluationInv /\ PerformedInv => TypeOK
  BY SameType DEF IInv, LoadedInv, ResultsInv, ClientInv, EvaluationInv, Proofs!IInv,
     PerformedInv, TypeOK
<1> QED
  BY <1>1, InductiveParts, PTL

(***************************************************************************)
(* CoverageTruthful: the coverage a run with exit status 0 reports is that *)
(* of the chapters of its files as they are written, with all of their     *)
(* methods, less the ignorable operations.                                 *)
(***************************************************************************)
THEOREM CoverageCorrect == Spec => []CoverageTruthful
<1>1. ASSUME IInv, PerformedInv, stage = "finished"
      PROVE  /\ evaluated_operations \cup unevaluated_operations = operations
             /\ dry_run => evaluated_operations = {}
             /\ ~failed /\ ~dry_run => evaluated_operations = OperationsToRun \ Ignorable
  <2>1. evaluated_operations \cup unevaluated_operations = operations
    BY <1>1 DEF PerformedInv, evaluated_operations, unevaluated_operations, operations
  <2>2. /\ Len(folder) \in Nat /\ Len(results) = Len(folder) /\ DOMAIN folder = 1 .. Len(folder)
        /\ \A i \in 1 .. Len(folder) : folder[i] \in Files /\ files[i] = Load(folder[i])
    <3>1. folder \in Seq(Files)
      BY <1>1, FoldersAssumption DEF IInv, LoadedInv
    <3> QED
      BY <1>1, <3>1, LoadedFiles DEF IInv, ResultsInv
  <2>3. ASSUME ~failed, ~dry_run PROVE performed = OperationsToRun
    <3>1. performed = UNION {Runnable(files[i]) : i \in 1 .. Len(results)}
      BY <1>1, <2>3 DEF PerformedInv
    <3>2. \A i \in 1 .. Len(folder) : Runnable(files[i]) = Meant(folder[i])
      BY <2>2, LoadRunnable
    <3>3. \A o : o \in performed <=> \E i \in 1 .. Len(folder) : o \in Meant(folder[i])
      BY <2>2, <3>1, <3>2
    <3>4. ASSUME NEW o
          PROVE  o \in OperationsToRun <=> \E i \in 1 .. Len(folder) : o \in Meant(folder[i])
      <4> DEFINE F == {g \in ToSet(folder) : g.gate = "runs"}
                 C(f) == {d \in ToSet(f.chapters) : ToRun(d.step)}
                 Of(c) == {<<c.path, c.methods[j]>> : j \in 1 .. Len(c.methods)}
      <4>1. OperationsToRun = UNION {Of(c) : c \in UNION {C(f) : f \in F}}
        BY DEF OperationsToRun, ToRun
      <4>2. \A f : Meant(f) = IF f.gate = "runs" THEN UNION {Of(c) : c \in C(f)} ELSE {}
        BY DEF Meant
      <4>3. \A f : f \in F <=> f.gate = "runs" /\ \E i \in 1 .. Len(folder) : f = folder[i]
        BY <2>2 DEF ToSet
      <4> HIDE DEF F, C, Of
      <4>4. o \in OperationsToRun <=> \E f \in F : \E c \in C(f) : o \in Of(c)
        BY <4>1
      <4>5. \A f : o \in Meant(f) <=> f.gate = "runs" /\ \E c \in C(f) : o \in Of(c)
        BY <4>2
      <4> QED
        BY <4>3, <4>4, <4>5
    <3> QED
      BY <3>3, <3>4
  <2> QED
    BY <1>1, <2>1, <2>3 DEF evaluated_operations, PerformedInv
<1>2. IInv /\ PerformedInv => CoverageTruthful
  BY <1>1 DEF CoverageTruthful
<1> QED
  BY <1>2, InductiveParts, PTL

-----------------------------------------------------------------------------
(***************************************************************************)
(* A run comes nearer to its end with every step: a stage or a file after  *)
(* the other; while it connects, an attempt after the other; while a story *)
(* is evaluated, as its evaluation comes nearer to its end.                *)
(***************************************************************************)
FilesLeft == Len(folder) - Len(results)

StagesLeft ==
  IF stage = "start" THEN 2 * FilesLeft + 5
  ELSE IF stage = "loaded" THEN 2 * FilesLeft + 4
  ELSE IF stage = "connecting" THEN 2 * FilesLeft + 3
  ELSE IF stage = "next" THEN 2 * FilesLeft + 2
  ELSE IF stage = "evaluating" THEN 2 * FilesLeft + 1 ELSE 0

\* A question and a pause for each attempt that is left.
AttemptsToGo ==
  IF link = "idle" THEN 2 * max_attempts + 3
  ELSE IF link = "asking" THEN 2 * (max_attempts - attempt) + 2
  ELSE IF link = "sleeping" THEN 2 * (max_attempts - attempt) + 1 ELSE 0

Nearer ==
  \/ StagesLeft' < StagesLeft
  \/ StagesLeft' = StagesLeft /\ stage = "connecting" /\ AttemptsToGo' < AttemptsToGo
  \/ StagesLeft' = StagesLeft /\ stage = "evaluating" /\ Proofs!Nearer

LeftToDo ==
  /\ StagesLeft \in Nat /\ AttemptsToGo \in Nat
  /\ stage = "evaluating" => Proofs!StepsLeft \in Nat /\ Proofs!TriesLeft \in Nat

\* There is a result for none of the files that are left.
LEMMA CountLeft ==
  ASSUME IInv, PerformedInv
  PROVE  /\ Len(folder) \in Nat /\ Len(results) \in Nat
         /\ Len(results) <= Len(folder)
         /\ stage \notin {"start", "crashed"} => Len(files) = Len(folder)
<1>1. folder \in Seq(Files) /\ results \in Seq(Result)
  BY FoldersAssumption DEF IInv, LoadedInv, ResultsInv
<1>2. Len(folder) \in Nat /\ Len(results) \in Nat
  BY <1>1
<1>3. files = <<>> => Len(files) = 0
  OBVIOUS
<1>4. files = [i \in 1 .. Len(folder) |-> Load(folder[i])] => Len(files) = Len(folder)
  BY <1>2
<1> QED
  BY <1>2, <1>3, <1>4 DEF IInv, LoadedInv, PerformedInv

LEMMA LeftNatural ==
  IInv /\ ClientInv /\ EvaluationInv /\ PerformedInv => LeftToDo
<1> SUFFICES ASSUME IInv, ClientInv, EvaluationInv, PerformedInv PROVE LeftToDo
  OBVIOUS
<1>1. StagesLeft \in Nat
  BY CountLeft DEF StagesLeft, FilesLeft
<1>2. AttemptsToGo \in Nat
  BY MaxAttemptsAssumption DEF AttemptsToGo, ClientInv, Client!ClientTypeOK
<1>3. stage = "evaluating" => Proofs!StepsLeft \in Nat /\ Proofs!TriesLeft \in Nat
  BY StoriesAssumption, SameIsStory, NoIdAssumption, Proofs!LeftNatural DEF EvaluationInv
<1> QED
  BY <1>1, <1>2, <1>3 DEF LeftToDo

LEMMA ConnectingNearer ==
  ClientInv /\ Client!ClientNext => AttemptsToGo' < AttemptsToGo
<1> SUFFICES ASSUME ClientInv, Client!ClientNext PROVE AttemptsToGo' < AttemptsToGo
  OBVIOUS
<1> USE MaxAttemptsAssumption DEF ClientInv, Client!ClientTypeOK, AttemptsToGo
<1>1. CASE Client!wait_until_available
  BY <1>1 DEF Client!wait_until_available, Client!Ask
<1>2. CASE Client!Available
  BY <1>2 DEF Client!Available
<1>3. CASE Client!AskAgain
  BY <1>3 DEF Client!AskAgain, Client!Ask
<1>4. ASSUME NEW kind \in Client!Fatal \cup Client!Passing, Client!Refused(kind)
      PROVE  AttemptsToGo' < AttemptsToGo
  BY <1>4 DEF Client!Refused
<1> QED
  BY <1>1, <1>2, <1>3, <1>4 DEF Client!ClientNext

LEMMA RunNearer ==
  IInv /\ ClientInv /\ EvaluationInv /\ PerformedInv /\ Next => Nearer
<1> SUFFICES ASSUME IInv, ClientInv, EvaluationInv, PerformedInv, Next PROVE Nearer
  OBVIOUS
<1>1. /\ Len(folder) \in Nat /\ Len(results) \in Nat /\ Len(results) <= Len(folder)
      /\ stage \notin {"start", "crashed"} => Len(files) = Len(folder)
  BY CountLeft
<1>2. CASE Connecting
  BY <1>2, ConnectingNearer DEF Connecting, runVars, Nearer, StagesLeft, FilesLeft
<1>3. CASE Evaluating
  <2>1. stage = "evaluating" /\ Evaluator!Next /\ UNCHANGED runVars
    BY <1>3 DEF Evaluating
  <2>2. Proofs!Nearer
    BY <2>1, SameNext, StoriesAssumption, SameIsStory, NoIdAssumption, Proofs!StepNearer
    DEF EvaluationInv
  <2>3. StagesLeft' = StagesLeft
    BY <2>1 DEF runVars, StagesLeft, FilesLeft
  <2> QED
    BY <2>1, <2>2, <2>3 DEF Nearer
<1>4. CASE RejectFile \/ PushResult
  <2>1. PICK r : Push(r)
    BY <1>4 DEF RejectFile, PushResult
  <2>2. /\ stage \in {"next", "evaluating"} /\ Len(results) < Len(folder)
        /\ stage' = "next" /\ folder' = folder
    BY <1>1, <1>4, <2>1 DEF RejectFile, PushResult, AtFile, Push, EvaluationInv
  <2>3. Len(results') = Len(results) + 1
    BY <2>1 DEF Push, IInv, ResultsInv
  <2> QED
    BY <1>1, <2>2, <2>3 DEF Nearer, StagesLeft, FilesLeft
<1>5. CASE \/ story_files \/ LoadThrows \/ SkipWait \/ Wait \/ Connected \/ NotConnected
           \/ Evaluate \/ Crash \/ Finish
  <2>1. folder' = folder /\ results' = results
    BY <1>5 DEF story_files, LoadThrows, SkipWait, Wait, Connected, NotConnected, Evaluate, Crash,
       Finish, Goto
  <2>2. \/ stage = "start" /\ stage' \in {"loaded", "crashed"}
        \/ stage = "loaded" /\ stage' \in {"connecting", "next"}
        \/ stage = "connecting" /\ stage' \in {"next", "crashed"}
        \/ stage = "next" /\ stage' \in {"evaluating", "finished"}
        \/ stage = "evaluating" /\ stage' = "crashed"
    BY <1>5 DEF story_files, LoadThrows, SkipWait, Wait, Connected, NotConnected, Evaluate, Crash,
       Finish, Goto, AtFile
  <2>3. FilesLeft \in Nat /\ FilesLeft' = FilesLeft
    BY <1>1, <2>1 DEF FilesLeft
  <2> QED
    BY <2>2, <2>3 DEF Nearer, StagesLeft
<1> QED
  BY <1>2, <1>3, <1>4, <1>5 DEF Next

\* Every step of a run leaves less to do, in naturals: no run goes on for
\* ever, however many files it has and whatever the cluster answers.  That it
\* does not stand still before its end is what RunEnds adds.
THEOREM ProgressCorrect == Spec => []LeftToDo /\ [][Nearer]_vars
<1>1. IInv /\ ClientInv /\ EvaluationInv /\ PerformedInv /\ [Next]_vars => [Nearer]_vars
  BY RunNearer
<1> QED
  BY <1>1, InductiveParts, LeftNatural, PTL DEF Spec
=============================================================================
