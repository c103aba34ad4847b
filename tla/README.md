# Verification of the OpenSearch API specification tools

This directory holds TLA+ models of the TypeScript tools of this repository
(`src/tools/src`), the TLC runs that check them on small instances and the
TLAPS proofs of their main properties. The YAML under `spec/` and
`tests/default` is data for these tools and is not modelled itself.

## 1. Inventory

| Part | Source (`tools/src/`) | State | Operations | Interacts with |
|---|---|---|---|---|
| Story evaluation | `tester/StoryEvaluator.ts`, `ChapterEvaluator.ts`, `SupplementalChapterEvaluator.ts`, `ChapterReader.ts`, `StoryOutputs.ts`, `ChapterOutput.ts` | the step reached, the errors so far, the outputs stored per chapter id, the tries left | refuse or begin a story; skip, ignore, send, retry and judge a step; finish | sends requests through the HTTP client; reads the merged spec |
| Variable check | `tester/StoryEvaluator.ts:184-283`, `OutputReference.ts` | the outputs declared so far | check one step after the other | decides whether a story is begun |
| HTTP client | `OpenSearchHttpClient.ts` | attempts made | ask for the cluster's version until it answers | axios, the cluster |
| Story parser | `tester/StoryParser.ts` | none | make a chapter of each method that a chapter lists | between the story files and the validator |
| Test runner | `tester/TestRunner.ts`, `StoryValidator.ts`, `OperationLocator.ts`, `test.ts` | the loaded files, results, whether any is bad | load the files, wait, validate a file, evaluate a story, exit | parser, client, validator, evaluator |
| Spec merger | `merger/OpenApiMerger.ts`, `GlobalParamsGenerator.ts` | the specification being put together | merge schemas, merge namespaces, add global parameters, supersede, rename keys | reads `spec/`; used by the tester and by clients |
| Superseded operations | `merger/SupersededOpsGenerator.ts` | the paths of the specification | copy the operations of one entry after the other | last phase but one of the merger |
| Version extractor | `merger/OpenApiVersionExtractor.ts`, `helpers.ts` | a copy of the merged specification | remove what does not fit a version, what is unused, what dangles | between merger and tester |
| Linter | `linter/` | caches of parsed files | read the references; validate names, operations, groups, references and parameters of a file, then folders, then the whole | guards what the merger reads; merges at its end |
| Tester's specification | `tester/MergedOpenApiSpec.ts`, `_utils/SpecificationVisitor.ts`, `_utils/index.ts` | the extracted specification while schemas are being closed | extract, visit a schema, close it | reads merger and extractor; read by the evaluator and ajv |
| Coverage report of a run | `tester/TestResults.ts` | the operations of the evaluations | list evaluated and unevaluated operations | evaluations, tester's specification |
| Endpoint coverage | `coverage/CoverageCalculator.ts` | endpoint lists | cover, skip | specification, cluster's specification |
| Cluster spec dump | `dump-cluster-spec/`, `.github/workflows/coverage.yml` | files handed from command to command | wait, ask, write, stop the container, exit | HTTP client; the endpoint coverage reads its file |
| Prepare for vale | `prepare-for-vale/` | whether a line is text, the rows written so far | keep a line, drop a line, next file | the style check reads what it leaves |
| Result logger, docs enrichment | `tester/ResultLogger.ts`, `Logger.ts`, `docs/` | none | write text | nothing reads what they write |

What is hard in this code:

- **Retries and lost answers.** Two separate retry loops, in a program that
  gives up control at every request and at every pause between two tries.
- **Values carried from step to step.** A reference is checked before it is
  known which steps will run, and outputs of several steps share an id.
- **Errors that stop some parts and not others.** Prologues stop chapters
  unless they pass, chapters stop chapters only by an ERROR, nothing stops an
  epilogue - except an exception, which nothing catches before `main`.
- **Verdicts of verdicts.** The result of a story and the exit status fold many
  verdicts; skipped parts must not hide unchecked ones.
- **Checks before the check.** A constructor reads files that its `validate`
  would report, files are parsed before they are validated, and rules about a
  file are asked one after the other, each only if the one before was kept.
- **Files and flags that outlive their use.** Commands pass files to each other
  by name, and a filter remembers from line to line whether it is in a text.
- **Order of the passes over a specification.** Several passes read what an
  earlier pass computed and a later one has changed.

## 2. Models

| Module | Models | Correspondence |
|---|---|---|
| `Results` | `tester/helpers.ts`, `Result` | `overall_result` on sets of verdicts: the code only looks at which occur |
| `Story` | `types/story.types.ts`, `types/parsed_story.types.ts` | prologues, chapters and epilogues as one sequence; a step is its part, id, whether it has an output and of which names, the references that are checked and those in payload keys, retry count, version/distribution gate, pending flag and whether its operation is in the spec |
| `StoryEvaluator` | both evaluators and the reader | `pc` is where the code awaits; `verdict[p]` the evaluation of a step; `outputs[id]` the step whose values `StoryOutputs` holds; `tries` the loop counter; every answer of the cluster is a `Response` |
| `StoryLifecycle` | - | what an evaluation promises: verdicts in order, none taken back, none for a chapter after an error |
| `StoryVariables` | `check_story_variables` | one action per branch of the loop |
| `OpenSearchHttpClient` | `wait_until_available` | `attempt` is its counter, `refusal` the last error |
| `StoryParser` | `parse`, `#expand_chapters` | a function from the chapters of a file to those of the story |
| `TestRunner` | `run`, `#collect_story_files`, `main` | loads every file first, or throws; instances of client and evaluator over its own variables; `Evaluate` is a fresh call of `evaluate` |
| `VersionExtractor` | `extract`, `delete_matching_keys`, `find_refs` | a document is its objects, what is inside what, what refers to what and what fits; one action per pass, one per reference followed |
| `MergedOpenApiSpec` | `spec` of the tester, `determine_possible_schema_types`, the schema visitor | extends `VersionExtractor` by schemas, of which `form` says what the extraction cannot change: types, combinator, whether it is a member of the combinator around it, and whether it says nothing once the objects in it are gone (`plain`); one action per schema visited: leave, close, fail |
| `SupersededOps` | `SupersededOpsGenerator.generate` | `items` is the paths object, `keys` its order, one action per entry; a path is a sequence of literals and parameters |
| `SpecFolder` | what is read from `spec/` | namespace files, schemas, global parameters and entries, reduced to paths, operations with their group, components with the path parameter they define, and what refers to what; `Clean` says what a folder in order is, `InOrder` the same but for invalid schemas |
| `SpecLinter` | `SpecValidator` and the validators below it | `stage` is what is next: the constructor, the files, and of the validators of the whole specification the references to schemas, the merge with the schemas in it, and the visits of the files; `errors` what was found; one action per early return; the rules of operations, groups, parameters and references are operators |
| `OpenApiMerger` | `OpenApiMerger.spec` | one action per phase and per namespace file; the generator's steps are those of an instance of `SupersededOps` |
| `SpecBuild` | `lint.ts`, `merge.ts` | instances of linter and merger over one folder: what the first passes the second merges |
| `CoverageCalculator` | `calculate` | the three collections of the loop; `paths` is what it has not reached |
| `CoverageWorkflow` | `dump-cluster-spec.ts`, `merge.ts`, `coverage.ts` as `coverage.yml` runs them | extends client and calculator; `job` is the command that runs, `files` tells of which job each file is |
| `KeepDescriptions` | `process`, `process_file` | a line is what the three patterns see of it; `written` is the rows on disk; one action per branch of the loop |

In `TestRunner` the coverage report is part of the run: `performed` is the
operations named in the pushed evaluations, and `evaluated_operations` and
`unevaluated_operations` are what `TestResults` computes from them.

The `*Proofs` modules hold the theorems, the `MC*` modules the instances. A
definition whose comment begins with "Mistake" is a plausible slip in the
definition after it; no specification uses it, and putting it in the place of
that definition makes a property fail.

Some abstractions hold throughout. A value that only travels (a payload, a
schema, a parameter's value) is reduced to what the code tells apart: which of
its checks an answer fails, what an object refers to. Names are model values.
Paths are sequences of segments where the code matches them by segment, and
model values elsewhere. Logging is left out.

Details a reader of the code may look for:

- `output: {}` is an output (`test_story.schema.yaml:112`): `stores` is true and
  `output` empty. Without an id it is a fault, and with one it replaces the
  output an earlier step has under that id (`StoryEvaluator.ts:216-220`).
- `uses` are the references in parameters and in payload values, `keys` those
  in payload keys. Both are replaced when the request is put together
  (`resolved`, `StoryOutputs.ts:71`), and only the first are checked.
- An object inside a schema may be a member of its combinator or not
  (`member`), so a schema with `allOf` and `properties` has both kinds.
- `ReadThrows` is the parser of an error response, and also the schema
  validator, which throws when a `$ref` of the specification is not resolved.
- The two path warnings of `evaluate` change no verdict and are left out.
- A key of a component begins with the group it is for (`Group`), a group
  belongs to one file (`Namespace`), and the key of a path parameter ends with
  its name (`PathParam`). What the component defines (`param`) may differ:
  comparing the two is one of the linter's rules.
- What an operation refers to is a set: its path parameters, its body, its
  responses and its query are told apart by `PathParam` only, as
  `OperationGroup` compares all of them but the path parameters.
- A file is invalid by its parsed form: `StoryParser` runs before
  `StoryValidator`.

## 3. Plan

Done, in this order: the story evaluator with its verdicts (it decides what is
reported about a cluster), the variable check it relies on, the client and the
runner around it, the version extractor and the specification the tester makes
of it, the superseded operations, the merger with the linter before it, the
endpoint coverage; then the loading and parsing of stories, the linter's rules
about operations, groups and parameters, the workflow that dumps, merges and
compares, and the filter for the style check.

Composition: `TestRunner` composes `OpenSearchHttpClient` and `StoryEvaluator`;
it extends `StoryParser`. `SpecBuild` composes `SpecLinter` and
`OpenApiMerger`, which composes `SupersededOps`. `MergedOpenApiSpec` extends
`VersionExtractor`, and `CoverageWorkflow` extends `OpenSearchHttpClient` and
`CoverageCalculator`.

Abstract specifications: `StoryLifecycle` is what an evaluation promises, and
`StoryEvaluator` implements it. `WellDefined` in `Story` is the closed form of
the variable check, and `StoryVariables` computes it. `Kept` in
`VersionExtractor`, `Clean` in `SpecFolder` and the right-hand sides of
`SupersedesExactly`, `ClosesExactly` and `Partition` are closed forms of loops.

Every safety property of the passing runs has a theorem (section 6). What is
left, most important first:

1. An abstract specification of a build, of which `SpecBuild` is an
   implementation: what is merged from a folder in order, as a function of the
   folder.
2. Theorems across components: that what the extractor keeps of a merged
   folder still has the parameters of its paths (`PathParametersAgree`), which
   needs one form of document for both models.

## 4. Runs

| Run | Instance | What it shows |
|---|---|---|
| `story` | one optional prologue, two chapters and one optional epilogue, every kind of step, also version ranges that exclude or cannot be parsed, and a null payload; three chapters between one kind of prologue and one of epilogue; one id, one name, at most one retry; every answer | retries, references, verdicts and the order of requests are right; refused stories stay quiet, epilogues are reached, evaluation ends and implements `StoryLifecycle` |
| `story_variables` | three steps over two ids and two names, each without an output, with an empty one or one name; references in values and in keys | the loop accepts exactly the stories that are well defined |
| `test_runner` | two files over six stories, one with a chapter of two methods, or one of them invalid or unreadable; two attempts of the client; with and without dry run and serverless; four operations | exit status, waiting before sending, isolation of stories, coverage report, the run ends |
| `merged_spec` | one or two paths, three components, references in every direction and in cycles; schemas that are objects, unions, references, that hold another one as a property, as `additionalProperties` or as a member of allOf or oneOf, two levels deep, or one of each kind at once | the extraction keeps exactly what fits and is reachable, exactly the right schemas are closed, those it leaves bare are not, and nothing fails that did not fail before |
| `superseded_ops` | up to two of six paths, two entries | copies are genuine, exactly those that should be there, with the parameters of the path; a warning when no path matches, none when nothing is missing |
| `spec_build` | two namespace files with up to two operations each, up to two schema files, one of them perhaps without a schema, one global parameter, at most two entries, in order and out of order in each way a rule looks for | early returns of the linter hide no fault that is of one file alone, and no other where there is none of these; what it passes merges without loose ends, foreign definitions, lost operations, groups that disagree or path parameters without their definition |
| `coverage_workflow` | three attempts of the client; two documents of up to two path items over two templates; a fresh folder or one with the files of an earlier job | never more attempts, and it gives up only for a reason; a report is of what this job dumped and merged; its lists partition the endpoints and are what their names say; the job ends |
| `keep_descriptions` | one file of up to four lines of any of seven kinds, or two of up to two | text of blocks stays in its row, up to a line that looks like a key and above the first blank one, and markup is cleared wherever nothing of a block can hide it |
| `story_cleanup` | one story of a chapter and an epilogue, every answer | violated, see section 7 |
| `version_extractor_refs` | as `merged_spec` without schemas | violated, see section 7 |
| `superseded_missing` | one path with one method, an entry that lists two | violated, see section 7 |
| `linter_unreadable` | one folder: a namespace file that is no YAML, another with an unresolved reference | violated, see section 7 |

Why the bounds are enough. One id with several chapters that store it has every
case of overwritten and missing outputs; two ids are needed only where a
reference could be taken for another's, which is the variable check. One retry
distinguishes the first, the middle and the last try of each loop together
with the steps without retry. Three chapters give an error two steps before
the step that must heed it. Two files give a run a story before and a story
after each kind of outcome; three components give chains and cycles longer
than one and a component outside of them; two namespace files give every
collision of keys, and two entries every interference of superseded paths.
Four lines hold a block, what ends it and what follows, and two files what one
could leave to the next. Of the client's attempts three are a first, a middle
and a last one.
Counters are bounded by the stories, the files and `max_attempts`; no run
needs a state constraint. Where deadlock is not checked, the system stops
when it is through.

## 5. Fairness

The tools are single-threaded programs, so an action that is enabled inside
the process is taken: weak fairness of `Local`. What the process waits for is
an answer of the cluster or the end of the connection, `Answer`; the model
assumes that one of them comes. This is an assumption about the network and not
about the code: axios is used without a timeout (`ChapterReader.ts:41`), and
a cluster that accepts a request and stays silent stops the run for good.
`OpenSearchHttpClient`, `TestRunner` and `CoverageWorkflow` take the same
assumption for all their steps: the commands of the workflow follow each other
in one shell, and only the client waits. Runs without a temporal property
state none.

## 6. Proofs

All theorems hold for every value of the constants that satisfies the named
assumptions, which TLC evaluates on every run:

- what is given has the shape its module describes: stories, documents,
  entries, folders, files (`StoriesAssumption`, `DocumentsAssumption`,
  `InputsAssumption`, `GivenAssumption`, `FoldersAssumption` and so on), and
  names of different kinds differ (`NoIdAssumption`, `KindsAssumption`, ...);
- the client makes at least one attempt (`MaxAttemptsAssumption`);
- a schema file has a name (`FilesAssumption`), and normalizing a key twice
  changes nothing more (`NormalAssumption`);
- no two paths sort before each other (`OrderAssumption`): what the sorting of
  strings gives, and all that is used of it;
- a merged document has finitely many objects (`FiniteAssumption`): it was read
  from files.

Nothing is assumed of the order or the contents of answers.

- `StoryEvaluatorProofs`. `TypeOK` and the five properties are not inductive: a
  verdict of the whole story says something about its parts only if each
  part's verdict was given for a reason. `IInv` therefore also says where the
  loop is (`ProgressInv`), how the tries left and the requests sent add up
  (`TriesInv`), that only accepted stories begin (`BegunInv`), that
  `has_errors` is the history of the verdicts (`ErrorsInv`), what a verdict
  without a request means (`VerdictInv`), that the outputs are those of the
  last supplying step that was sent (`OutputsInv`) and what the result was
  computed from (`DoneInv`). `LifecycleCorrect` maps every step to a step of
  `StoryLifecycle` or a stutter. `EpiloguesCorrect` is what `CleansUp` says
  without fairness: a story that is done behind its last step (`EndInv`) has
  sent its epilogues, so only an exception can leave them unsent.
- `TestRunnerProofs`. The loaded files are those of the folder
  (`LoadedInv`); the results are those of the files so far and `failed`
  says whether one is bad (`ResultsInv`); the cluster answered before the first
  story, and between stories the evaluator waits for nothing (`WaitedInv`);
  what is stored comes from a step of this story that was sent (`StoredInv`).
  For these three properties nothing of the evaluator's own invariant is
  needed, so a fault inside a story cannot falsify the exit status.
  `TypeCorrect` and `CoverageCorrect` do need it: while a story is evaluated
  the evaluator's `IInv` holds of it (`EvaluationInv`, by an instance of
  `StoryEvaluatorProofs`, whose operators are shown to be those of the runner's
  own instance). A parsed file has a step for each method of each of its
  chapters and no other (`ParseHolds`), and each of them that the story was
  meant to run was performed once its result passed (`PerformedInv`).
- `StoryVariablesProofs`. The loop's record holds for each id the step that
  supplies it to the next step, as long as nothing was faulted.
- `CoverageWorkflowProofs`. While the client sleeps an attempt is left. The
  files a command reads were written before it starts. What the calculator
  has not reached has no entry in `covered`, so that moving methods cannot lose
  or repeat one.
- `KeepDescriptionsProofs`. Rows and lines are in step until a blank line is
  dropped, and `inside_text` says exactly that the line stands behind a block
  of the file with no key between. The two properties are about the rows
  written so far; the files behind them are untouched.
- `MergedOpenApiSpecProofs`. Of the extraction: the found components are inside
  every set closed under references, and are one when the search ends; so they
  are the reachable ones. `OneTop` and `SomeTop` say that an object belongs to
  exactly one path or component. The exactness of the result follows pass by
  pass, and the other two properties from the exactness.
  Of the types: one level deeper, the types of an object are computed from
  those one level above. Going deeper adds types and changes none (`Ascent`),
  and a level that adds none is the last, so as many levels as there are
  objects are enough (`FixedPoint`). Closing a schema that can be nothing but
  an object gives it the type it has, so it tells nothing new of any other
  (`ClosingTellsNothing`), and the visitor may come in any order: this is
  `VisitInv`, and `ClosesCorrect` follows. What an extraction can take from a
  schema is a reference, the members of a combinator or the last key that says
  anything; the last can only make it a schema of any type or of the type it
  names (`Bare`), and the type determination returns for both. Where it took neither of the
  others,
  what was known of the schema's types is known still (`TightKnows`, by
  induction over the levels), which is `SurvivesCorrect`.
- `SupersededOpsProofs`. Every operation goes back, copy by copy, to an
  operation of a path that was there. Every path is one of the given ones, or
  of an entry without a path of its template, made when there was none
  (`Origins`): so no two have one template. For entries that do not touch one
  another `EachExactly` says what the paths hold after each entry: the copies
  of the entries handled, in the paths they have for targets, and all else as
  it was given; and that what the entries still to come look for has not
  changed (`SameMatches`). The parameters of a path are numbered without gaps
  and without repetition (`Numbers`, `NumbersOnto`, `NumbersApart`).
- `SpecBuildProofs`. Of the linter: the files before `lintAt` are reported
  exactly if they are not in order, and a later stage is reached only if the
  earlier ones found nothing (`LintInv`); each rule of the code is one part of
  `InOrder`, in `OperationRulesExactly`, `DuplicatesExactly`, `MissingExactly`
  and their like. Of the merger, phase by phase: operations keep their fields
  and the order names the paths there are (`MergeInv`), in a folder in order
  all references lead to definitions (`ResolveInv`), and no file overrides
  what another one brought (`OwnInv`), since the group of a component and the
  template of a path belong to one file; every operation, generated or
  not, has the text and the references of one in a file (`SourceInv`), so that
  what the linter compares file by file holds of the groups of the merged
  file; and no global parameter passes for a path parameter, under its own key
  or its normal one (`PlainInv`). That a copy has the parameters of the path
  it is put at is a lemma of `SupersededOpsProofs`,
  used through an instance; nothing else depends on which path an entry takes
  for its target. `PassedMergesCorrect` says that a folder without errors never
  makes the merger throw: what it throws at is a parse error or a mismatched
  entry, and the linter stops at both (`ThrowInv`); files without `components`
  (section 7) are not in the model. The linter's result enters only as
  `InOrder(folder)`, by `LinterExact`; that the schemas are valid is used nowhere.
  An invalid one is reported under its normal form if no other key has that
  form (`Alone`), which is all the linter can promise of a merged file
  (section 7).

Of what must eventually happen, three theorems called `ProgressCorrect` state
the part that is not about fairness: every step of an evaluation, of a run and
of the workflow makes a tuple of naturals smaller in lexicographic order
(`Nearer`): steps and tries left; stages and files left, then attempts of the
client or what the evaluation has left; commands left, then attempts or
templates. So none of them can go on for ever, whatever the cluster answers,
and `Terminates`, `RunEnds` and `JobEnds` can fail only by standing still.

`NothingUnused` and `TypeOK` of `VersionExtractor` and `PassedMerges` of
`SpecBuildProofs` are proved, and no run lists them.

Only model-checked: `CleansUp`, `Terminates`, `RunEnds`, `JobEnds` and the
fairness part of `ImplementsLifecycle`, since the prover has no support for
`ENABLED`. Recursion is written as recursive functions over the naturals and
not with `RECURSIVE`, which the prover's arithmetic backend does not accept.
The library's induction theorems take an operator and cannot be used; where a
proof needs induction, as over the levels of `TypesWithin`, over the parameters
of a path and over the chapters of a file, it comes from the theorem that the
naturals are well founded, once for sets of naturals (`NatInduct`, `Least`),
and the functions are unfolded after a proof that they exist. The violations
are counterexamples and need no proof.

## 7. What the code does otherwise

With a run that shows it:

- `story_cleanup`: an exception while the body of an error response is parsed
  (`ChapterReader.ts:65`) leaves the story and the run; the epilogues, which
  `TESTING_GUIDE.md:145` says clean up, are not sent.
- `version_extractor_refs`: a component that is nothing but a reference to a
  removed component is removed itself, and references to it stay
  (`OpenApiVersionExtractor.ts:90`).
- `linter_unreadable`: the constructor of `SchemaRefsValidator` reads all the
  files (`SchemaRefsValidator.ts:42`), so one that is no YAML makes the linter
  throw before `FileValidator.ts:50` could report it, and before anything else
  is reported (`DEVELOPER_GUIDE.md:197`).
- `superseded_missing`: the developer guide promises a warning if superseding
  operations do not exist (`DEVELOPER_GUIDE.md:125`); it is given when no path
  matches, not when the path lacks an operation
  (`SupersededOpsGenerator.ts:33-39`). `SupersedesExactly`, which is proved,
  leaves open whether a warning is given in that case.

Without a run of their own:

- References in the keys of a payload are replaced (`StoryOutputs.ts:71`,
  `tests/tester/StoryOutputs.test.ts:40`) and never checked
  (`StoryEvaluator.ts:269`), nor are those in the payload a response is
  compared with (`ChapterEvaluator.ts:72`). `ReferencesCurrent` says what a key
  may then stand for.
- One fault of one file hides all that the validators of the whole
  specification look for, in every file (`SpecValidator.ts:50`): references to
  schemas, invalid schemas, inline objects and enums, number formats. The
  developer guide says that the linter prints all the errors
  (`DEVELOPER_GUIDE.md:197`). `EveryFileReported` says which are always printed.
- Of two schemas whose keys have one normal form only one is validated, since
  the linter validates the merged file (`SchemasValidator.ts:42`), and an
  invalid one may pass; `CleanExactly` says so. The file that an error in a
  request body names is made of the whole key and not of its namespace
  (`SchemasValidator.ts:77`).
- A schema whose `items` or `additionalProperties` the extraction takes away
  becomes a plain object and stays open (`helpers.ts:73`,
  `MergedOpenApiSpec.ts:75`), though it was closed in the whole specification;
  `ClosesExactly` has it so.
- The parameter names of the copies are those of `superseded_by` in the file,
  not of the path that was found (`SupersededOpsGenerator.ts:31`,
  `DEVELOPER_GUIDE.md:127`); `PathParametersAgree` assumes that the two agree
  (`EntriesNameAlike`).
- A parameter of the pattern is `.+?` and matches across slashes, so a longer
  path that comes first is taken (`SupersededOpsGenerator.ts:50`).
- A mismatched entry makes the merge throw (`SupersededOpsGenerator.ts:58`),
  also inside the linter (`SchemasValidator.ts:42`), which then prints none of
  the errors it found (`DEVELOPER_GUIDE.md:197`). In `SpecLinter` it is the
  stage `thrown`.
- No validator looks at the schemas of `_global_parameters.yaml`
  (`SchemaRefsValidator.ts:42`, `GlobalParamsGenerator.ts:38`); `PassedResolves`
  leaves their references out.
- Two keys with one normal form are one component in the merged file
  (`OpenApiMerger.ts:161`); `OwnDefinitions` leaves such folders out.
- Prologues and epilogues have `version` and `distributions` in
  `test_story.schema.yaml:69,140`, and are sent whatever these say
  (`StoryEvaluator.ts:172`).
- Path items of one template replace each other in the endpoint coverage
  (`CoverageCalculator.ts:28`), and their methods are in no list or the wrong
  one; `DescribedApart` assumes different templates.
- Outputs may be written `headers.<header-name>`
  (`test_story.schema.yaml:119`); `ChapterOutput.ts` reads payloads only.
- What is under an `allOf` is spared by its place in the file, so the
  alternatives of a component that an `allOf` refers to are closed and reject
  each other's company (`MergedOpenApiSpec.ts:67`). The specification has one
  such component, `Buckets` (`_common.aggregations.yaml:2324`), and it escapes
  since its alternative has `additionalProperties`.
- Stories are validated after their chapters were expanded: a story without
  `chapters`, which `test_story.schema.yaml:26` requires, passes, a chapter
  with `method: []` vanishes (`StoryParser.ts:29`), and one file that is empty
  or no YAML ends the run before its first story (`TestRunner.ts:81`).
- A request whose answer was lost is sent again (`ChapterEvaluator.ts:51`).
- The filter for the style check keeps markup that none of its patterns takes
  for a key, if a block was before it (`spec/namespaces/cat.yaml:2758`,
  `cluster.yaml:863`, `schemas/_common.aggregations.yaml:759`), against
  `DEVELOPER_GUIDE.md:222`; it loses the rest of a text behind a line that looks
  like a key (`NOTE:` in `_core.yaml:2829`), and the text of
  `description: -|` (`snapshot.yaml:901`). Blank lines are dropped
  (`KeepDescriptions.ts:54`), which moves the rows below them. `TextKept` and
  `MarkupCleared` leave these cases out by what they quantify over.
  Descriptions at the top of a story or in a list item are never kept.
- Whatever the plugin answers with status 200 is written as the cluster's
  specification (`dump-cluster-spec.ts:38`).
- A namespace file without `components` makes the merge throw
  (`OpenApiMerger.ts:76`); the linter takes the same file for one that
  defines nothing, until it merges the folder itself.
- `_.compact` drops every falsy element of an array (`helpers.ts:77`).
- `validate_order_of_operations` sorts the cached file that later validators
  read (`NamespaceFile.ts:130`).
- With no endpoint in the cluster's document both percentages are NaN
  (`CoverageCalculator.ts:77`), which JSON writes as null.

## 8. Not modelled

- `ResultLogger`, `Logger`, `Ansi`: console output.
- `JsonSchemaValidator`, `AjvErrorsParser`, `SchemaValidator`: wrappers of ajv;
  their verdicts are inputs of the evaluator.
- The linter's rules about one string or one node, each of which a unit test
  reaches, are one mark per operation (`sound`) or per file (`broken`) in
  `SpecFolder`: descriptions, titles and the like are reported with the file
  (`text`), inline objects, number formats and inline enums after all else
  (`inline`). The JSON schemas of `_info.yaml` and of
  `_superseded_operations.yaml`, whose errors stand beside those of the last
  validators and hide none, are left out.
- `normalize_fields` renames the keys of paths, too; no path of the
  specification has a colon or an `@`, and the model renames components and
  schemas only. `redirect_refs_in_schema` throws on a reference that names no
  YAML file (`OpenApiMerger.ts:118`); the linter merges with the same code and
  throws, too, so no folder that it passes is affected.
- `Cover` in `CoverageCalculator` is one step for the methods of a path item:
  the loop over them is local, and nothing can see it half done.
- `CoverageWorkflow` may start in a folder with the files of an earlier job,
  which a fresh runner does not have: its properties are about any folder.
- The cleaning of links and code inside a line that `prepare-for-vale` keeps;
  `docs/enrich.ts`, the generators of types: text in, text out.
- Authentication and TLS options of the client: configuration of axios.
- The cluster: any answer is possible at any time. Whether repeating a request
  is harmless is a property of the cluster.
