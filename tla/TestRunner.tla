----------------------------- MODULE TestRunner -----------------------------
(***************************************************************************)
(* A run of the story tester: TestRunner.run reads and parses the story    *)
(* files, waits for the cluster with the HTTP client, then takes the files *)
(* in order, refuses the ones StoryValidator finds invalid in their parsed *)
(* form and has StoryEvaluator evaluate the rest.                          *)
(* The client and the evaluator are instantiated over this module's        *)
(* variables, so that their steps are steps of the run.                    *)
(***************************************************************************)
EXTENDS StoryParser, Results

CONSTANTS
  Ids, Names, NoId, Stories, max_attempts,
  Paths, Methods,  \* of the requests of the stories
  Folders,         \* the sorted story files a run may be given
  SpecOperations,  \* the operations of the merged specification
  Ignorable        \* those of them marked x-ignorable

VARIABLES
  folder,       \* the story files as they are written
  files,        \* the story files as they were loaded
  serverless,   \* --opensearch-distribution is amazon-serverless
  stage,        \* where the run is
  results,      \* the results pushed so far
  failed,       \* some pushed result was ERROR or FAILED
  performed,    \* the operations named in the results pushed so far
  \* of the client
  link, attempt, refusal,
  \* of the evaluator, for the story being evaluated
  story, dry_run, pc, at, has_errors, outputs, tries, verdict, sent, result

runVars   == <<folder, files, serverless, stage, results, failed, performed>>
linkVars  == <<link, attempt, refusal>>
storyVars == <<story, dry_run, pc, at, has_errors, outputs, tries, verdict, sent, result>>
vars      == <<runVars, linkVars, storyVars>>

Client    == INSTANCE OpenSearchHttpClient
Evaluator == INSTANCE StoryEvaluator

locate_operation(operation) == operation \in SpecOperations

\* A chapter of the evaluator: what the operation locator makes of it.
Located(chapter) ==
  [chapter.step EXCEPT !.located = locate_operation(<<chapter.path, chapter.method>>)]

(***************************************************************************)
(* A loaded file: its parsed story, the operation each step names, and     *)
(* whether the schema of stories accepts the parsed story.                 *)
(***************************************************************************)
Load(f) ==
  LET chapters == parse(f) IN
  [valid |-> f.valid,
   story |-> [steps |-> [p \in 1 .. Len(chapters) |-> Located(chapters[p])], gate |-> f.gate],
   operations |-> [p \in 1 .. Len(chapters) |-> <<chapters[p].path, chapters[p].method>>]]

\* Story files as they are written: a chapter may list several methods, a
\* prologue or an epilogue has one.
Steps(part) == {s \in Evaluator!Step : s.part = part}

Supplements(part) == [step: Steps(part), path: Paths, method: Methods]

Chapters == [step: Steps("chapter"), path: Paths, methods: Seq(Methods)]

Files ==
  {f \in [readable: BOOLEAN, valid: BOOLEAN, gate: Evaluator!StoryGates,
          prologues: Seq(Supplements("prologue")), chapters: Seq(Chapters),
          epilogues: Seq(Supplements("epilogue"))] :
     Load(f).story \in Stories}

\* The files of a folder are collected and sorted.
ASSUME FoldersAssumption == Folders \subseteq Seq(Files)
ASSUME StoriesAssumption == \A s \in Stories : Evaluator!IsStory(s)
ASSUME NoIdAssumption == NoId \notin Ids
ASSUME MaxAttemptsAssumption == max_attempts \in Nat \ {0}
ASSUME IgnorableAssumption == Ignorable \subseteq SpecOperations

Stages == {"start", "loaded", "connecting", "next", "evaluating", "finished", "crashed"}

Init ==
  /\ folder \in Folders /\ files = <<>>
  /\ serverless \in BOOLEAN
  /\ stage = "start" /\ results = <<>> /\ failed = FALSE
  /\ performed = {}
  /\ Client!ClientInit
  \* before the first story the evaluator holds an empty one
  /\ story = [steps |-> <<>>, gate |-> "runs"] /\ dry_run \in BOOLEAN
  /\ pc = "done" /\ at = 1 /\ has_errors = FALSE /\ outputs = [id \in Ids |-> 0]
  /\ tries = 0 /\ verdict = <<>> /\ sent = <<>> /\ result = Evaluator!Unevaluated

Goto(s) == stage' = s /\ UNCHANGED <<folder, files, serverless, results, failed, performed>>

\* story_files: every file is read and parsed before anything else happens.
story_files ==
  /\ stage = "start" /\ \A i \in 1 .. Len(folder) : folder[i].readable
  /\ files' = [i \in 1 .. Len(folder) |-> Load(folder[i])]
  /\ stage' = "loaded"
  /\ UNCHANGED <<folder, serverless, results, failed, performed, linkVars, storyVars>>

\* One file that is no YAML, or empty, throws out of the run.
LoadThrows ==
  /\ stage = "start" /\ \E i \in 1 .. Len(folder) : ~folder[i].readable
  /\ Goto("crashed") /\ UNCHANGED <<linkVars, storyVars>>

\* Mistake: the client is never asked.
NeverWait ==
  /\ stage = "loaded"
  /\ Goto("next") /\ UNCHANGED <<linkVars, storyVars>>

\* A dry run and a serverless cluster are not waited for.
SkipWait ==
  /\ stage = "loaded" /\ (dry_run \/ serverless)
  /\ Goto("next") /\ UNCHANGED <<linkVars, storyVars>>

Wait ==
  /\ stage = "loaded" /\ ~dry_run /\ ~serverless
  /\ Client!wait_until_available
  /\ Goto("connecting") /\ UNCHANGED storyVars

Connecting ==
  /\ stage = "connecting"
  /\ Client!ClientNext
  /\ UNCHANGED <<runVars, storyVars>>

Connected ==
  /\ stage = "connecting" /\ link = "ready"
  /\ Goto("next") /\ UNCHANGED <<linkVars, storyVars>>

\* The client threw, or what answered has no version number.
NotConnected ==
  /\ stage = "connecting" /\ link \in {"ready", "down"}
  /\ Goto("crashed") /\ UNCHANGED <<linkVars, storyVars>>

file == files[Len(results) + 1]

AtFile == stage = "next" /\ Len(results) < Len(files)

\* Mistake: only the last result decides the exit status.
PushForgetful(r) ==
  /\ results' = Append(results, r)
  /\ failed' = (r \in Bad)
  /\ stage' = "next"
  /\ UNCHANGED <<folder, files, serverless, linkVars>>

Push(r) ==
  /\ results' = Append(results, r)
  /\ failed' = (failed \/ r \in Bad)
  /\ stage' = "next"
  /\ UNCHANGED <<folder, files, serverless, linkVars>>

RejectFile ==
  AtFile /\ ~file.valid /\ Push("ERROR") /\ UNCHANGED <<performed, storyVars>>

\* Mistake: the outputs of the story before are kept.
EvaluateWithOldOutputs ==
  /\ AtFile /\ file.valid
  /\ Goto("evaluating")
  /\ story' = file.story
  /\ pc' = "start" /\ at' = 1 /\ has_errors' = FALSE /\ tries' = 0
  /\ verdict' = [p \in 1 .. Len(file.story.steps) |-> Evaluator!Unevaluated]
  /\ sent' = [p \in 1 .. Len(file.story.steps) |-> 0]
  /\ result' = Evaluator!Unevaluated
  /\ UNCHANGED <<dry_run, outputs, linkVars>>

\* A new call of evaluate, with StoryOutputs and evaluations of its own.
Evaluate ==
  /\ AtFile /\ file.valid
  /\ Goto("evaluating")
  /\ story' = file.story
  /\ pc' = "start" /\ at' = 1 /\ has_errors' = FALSE
  /\ outputs' = [id \in Ids |-> 0] /\ tries' = 0
  /\ verdict' = [p \in 1 .. Len(file.story.steps) |-> Evaluator!Unevaluated]
  /\ sent' = [p \in 1 .. Len(file.story.steps) |-> 0]
  /\ result' = Evaluator!Unevaluated
  /\ UNCHANGED <<dry_run, linkVars>>

Evaluating ==
  stage = "evaluating" /\ Evaluator!Next /\ UNCHANGED <<runVars, linkVars>>

ChaptersOf(f) == {p \in 1 .. Len(f.story.steps) : f.story.steps[p].part = "chapter"}

\* The evaluation of a chapter names its operation if it was requested.
OperationsOfChapters == {file.operations[p] : p \in {q \in ChaptersOf(file) : sent[q] > 0}}

\* Mistake: the evaluation is not awaited.
PushUnawaited ==
  /\ stage = "evaluating" /\ Push(result)
  /\ performed' = performed \cup OperationsOfChapters
  /\ UNCHANGED storyVars

PushResult ==
  /\ stage = "evaluating" /\ pc = "done" /\ Push(result)
  /\ performed' = performed \cup OperationsOfChapters
  /\ UNCHANGED storyVars

\* Nothing catches what evaluate throws: the results so far go unreported.
Crash ==
  /\ stage = "evaluating" /\ pc = "aborted"
  /\ Goto("crashed") /\ UNCHANGED <<linkVars, storyVars>>

\* main exits with status 1 if failed, with 0 otherwise.
Finish ==
  /\ stage = "next" /\ Len(results) = Len(files)
  /\ Goto("finished") /\ UNCHANGED <<linkVars, storyVars>>

\* TestResults, computed when the run has finished.
operations == SpecOperations \ Ignorable

evaluated_operations == performed \ Ignorable

unevaluated_operations == operations \ evaluated_operations

Next ==
  \/ story_files \/ LoadThrows
  \/ SkipWait \/ Wait \/ Connecting \/ Connected \/ NotConnected
  \/ RejectFile \/ Evaluate \/ Evaluating \/ PushResult \/ Crash \/ Finish

\* The run is one sequential program: it goes on as long as the cluster
\* answers every request or its connection breaks.
Spec == Init /\ [][Next]_vars /\ WF_vars(Next)

-----------------------------------------------------------------------------
TypeOK ==
  /\ folder \in Folders
  /\ files \in {<<>>, [i \in 1 .. Len(folder) |-> Load(folder[i])]}
  /\ serverless \in BOOLEAN
  /\ stage \in Stages
  /\ results \in Seq(Result)
  /\ failed \in BOOLEAN
  /\ performed \subseteq UNION {{files[i].operations[p] : p \in 1 .. Len(files[i].operations)} :
                                 i \in 1 .. Len(results)}
  /\ Client!ClientTypeOK
  /\ stage = "evaluating" => Evaluator!TypeOK

(***************************************************************************)
(* The exit status tells the truth: a run that ends with status 0 has a    *)
(* result for every story file, every file was valid, and no result is     *)
(* ERROR or FAILED; a run that ends with status 1 has such a result.       *)
(***************************************************************************)
ExitStatusTruthful ==
  stage = "finished" =>
    /\ Len(results) = Len(folder)
    /\ failed <=> \E i \in 1 .. Len(results) : results[i] \in Bad
    /\ ~failed => \A i \in 1 .. Len(folder) : folder[i].readable /\ folder[i].valid

(***************************************************************************)
(* No story sends anything before the cluster has answered, unless it is   *)
(* serverless, and a dry run sends nothing at all, not even the question   *)
(* for the version.                                                        *)
(***************************************************************************)
NoRequestBeforeAvailable ==
  /\ pc = "waiting" => serverless \/ link = "ready"
  /\ dry_run => attempt = 0 /\ pc # "waiting"

(***************************************************************************)
(* A story never sees a value from another story: whatever its outputs     *)
(* hold was stored by a step that this evaluation requested.               *)
(***************************************************************************)
OutputsAreOwn ==
  \A id \in Ids : outputs[id] # 0 =>
    outputs[id] \in 1 .. Len(story.steps) /\ sent[outputs[id]] > 0

\* The operations that had to be called: those of the chapters as they are
\* written, with each of their methods.
OperationsToRun ==
  UNION {{<<c.path, c.methods[j]>> : j \in 1 .. Len(c.methods)} :
         c \in UNION {{d \in ToSet(f.chapters) : d.step.gate = "runs" /\ ~d.step.pending} :
                       f \in {g \in ToSet(folder) : g.gate = "runs"}}}

(***************************************************************************)
(* The coverage report is true: no operation is counted that is not in the *)
(* specification, a dry run covers nothing, and a run that exits with      *)
(* status 0 covers exactly the operations its stories were meant to call.  *)
(***************************************************************************)
CoverageTruthful ==
  stage = "finished" =>
    /\ evaluated_operations \cup unevaluated_operations = operations
    /\ dry_run => evaluated_operations = {}
    /\ ~failed /\ ~dry_run => evaluated_operations = OperationsToRun \ Ignorable

\* Every run ends: it finishes, or something it did not catch ends it.
RunEnds == <>(stage \in {"finished", "crashed"})
=============================================================================
