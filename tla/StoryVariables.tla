--------------------------- MODULE StoryVariables ---------------------------
(***************************************************************************)
(* StoryEvaluator.check_story_variables: the loop over the steps of a      *)
(* story that looks for references to outputs nobody declares, before a    *)
(* request is sent.  StoryEvaluator.tla takes its verdict in closed form   *)
(* (WellDefined); the property here is that the loop computes that form.   *)
(***************************************************************************)
EXTENDS Story

CONSTANT Stories

ASSUME StoriesAssumption == \A s \in Stories : IsStory(s)

VARIABLES
  story,      \* the story, never changed
  at,         \* the step being checked
  declared,   \* for every id the step whose output is on record, 0 if none
  evals,      \* the verdicts on the steps
  answer      \* what check_story_variables returns

vars == <<story, at, declared, evals, answer>>

Init ==
  /\ story \in Stories
  /\ at = 1
  /\ declared = [id \in Ids |-> 0]
  /\ evals = {}
  /\ answer = "none"

step == story.steps[at]

Checking == answer = "none" /\ at \in Positions(story)

has_output_value(ref) ==
  declared[ref[1]] # 0 /\ ref[2] \in story.steps[declared[ref[1]]].output

Defined == \A ref \in step.uses : has_output_value(ref)

Judge(v) ==
  /\ evals' = evals \cup {v}
  /\ at' = at + 1
  /\ UNCHANGED <<story, answer>>

UndefinedReference == Checking /\ ~Defined /\ Judge("FAILED") /\ UNCHANGED declared

OutputWithoutId ==
  /\ Checking /\ Defined /\ step.stores /\ step.id = NoId
  /\ Judge("FAILED") /\ UNCHANGED declared

\* Mistake: the first output under an id stays on record.
StoreFirstOutput ==
  /\ Checking /\ Defined /\ step.stores /\ step.id # NoId
  /\ Judge("PASSED")
  /\ declared' = [declared EXCEPT ![step.id] = IF @ = 0 THEN at ELSE @]

StoreOutput ==
  /\ Checking /\ Defined /\ step.stores /\ step.id # NoId
  /\ Judge("PASSED")
  /\ declared' = [declared EXCEPT ![step.id] = at]

NoOutput ==
  Checking /\ Defined /\ ~step.stores /\ Judge("PASSED") /\ UNCHANGED declared

\* A null inside a request payload ends the loop with an exception.
Throw ==
  /\ answer = "none" /\ story.gate = "null_payload"
  /\ answer' = "thrown"
  /\ UNCHANGED <<story, at, declared, evals>>

Return ==
  /\ answer = "none" /\ story.gate # "null_payload" /\ at = Len(story.steps) + 1
  /\ answer' = IF overall_result(evals) = "FAILED" THEN "refused" ELSE "accepted"
  /\ UNCHANGED <<story, at, declared, evals>>

Next == UndefinedReference \/ OutputWithoutId \/ StoreOutput \/ NoOutput \/ Throw \/ Return

Spec == Init /\ [][Next]_vars

-----------------------------------------------------------------------------
TypeOK ==
  /\ IsStory(story)
  /\ at \in 1 .. Len(story.steps) + 1
  /\ declared \in [Ids -> 0 .. Len(story.steps)]
  /\ evals \subseteq {"PASSED", "FAILED"}
  /\ answer \in {"none", "refused", "accepted", "thrown"}

(***************************************************************************)
(* The loop, which forgets the outputs of the steps it faults and lets a   *)
(* later step with the same id replace an earlier one, by an empty output  *)
(* too, accepts exactly the stories in which every output has an id and    *)
(* every reference in a parameter or a payload value names a value of the  *)
(* last earlier step that has an output under that id.  A reference in a   *)
(* payload key takes no part.                                              *)
(***************************************************************************)
AcceptsWellDefined ==
  answer \in {"accepted", "refused"} => (answer = "accepted" <=> WellDefined(story))
=============================================================================
