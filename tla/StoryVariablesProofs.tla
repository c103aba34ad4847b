------------------------ MODULE StoryVariablesProofs ------------------------
(***************************************************************************)
(* Proof that the variable check accepts exactly the well-defined stories, *)
(* for every story, set of ids and set of names.                           *)
(***************************************************************************)
EXTENDS StoryVariables, TLAPS

\* Step p has what WellDefined asks of it.
GoodStep(p) ==
  /\ story.steps[p].stores => story.steps[p].id # NoId
  /\ \A ref \in story.steps[p].uses : ResolvesAt(story, p, ref)

\* As long as no step was faulted, the record holds for every id the step that
\* supplies it, and the steps so far are good; afterwards the story is bad.
LoopInv ==
  /\ "FAILED" \notin evals =>
       /\ \A p \in Positions(story) : p < at => GoodStep(p)
       /\ \A id \in Ids, q \in Positions(story) :
            declared[id] = q <=> Supplies(story, q, at, id)
  /\ "FAILED" \in evals => ~WellDefined(story)

AnswerInv ==
  answer \in {"accepted", "refused"} =>
    at = Len(story.steps) + 1 /\ (answer = "accepted" <=> "FAILED" \notin evals)

IInv == TypeOK /\ LoopInv /\ AnswerInv

LEMMA InitInv == Init => IInv
<1> SUFFICES ASSUME Init PROVE IInv
  OBVIOUS
<1>1. IsStory(story) /\ Len(story.steps) \in Nat
  BY StoriesAssumption DEF Init, IsStory
<1>2. TypeOK
  BY <1>1 DEF Init, TypeOK
<1>3. LoopInv
  BY <1>1 DEF Init, LoopInv, Supplies, Positions
<1> QED
  BY <1>2, <1>3 DEF Init, IInv, AnswerInv

LEMMA StepFacts ==
  ASSUME TypeOK, Checking
  PROVE  /\ step \in Step /\ Len(story.steps) \in Nat
         /\ at \in Positions(story) /\ at \in Nat /\ at + 1 \in 1 .. Len(story.steps) + 1
BY DEF TypeOK, Checking, IsStory, Positions, step

\* A reference is found on record if and only if an earlier step supplies it.
LEMMA DefinedMeansResolves ==
  ASSUME TypeOK, LoopInv, Checking, "FAILED" \notin evals
  PROVE  Defined <=> \A ref \in step.uses : ResolvesAt(story, at, ref)
<1>1. ASSUME NEW ref \in step.uses
      PROVE  has_output_value(ref) <=> ResolvesAt(story, at, ref)
  <2>1. ref[1] \in Ids /\ declared[ref[1]] \in 0 .. Len(story.steps)
    BY <1>1, StepFacts DEF Step, OutputReference, TypeOK
  <2>2. \A q \in Positions(story) : declared[ref[1]] = q <=> Supplies(story, q, at, ref[1])
    BY <2>1 DEF LoopInv
  <2>3. declared[ref[1]] # 0 <=> declared[ref[1]] \in Positions(story)
    BY <2>1, StepFacts DEF Positions
  <2> QED
    BY <2>2, <2>3 DEF has_output_value, ResolvesAt
<1> QED
  BY <1>1 DEF Defined

\* What supplies an id to the step after `at`.
LEMMA SuppliesNext ==
  ASSUME TypeOK, Checking, NEW id \in Ids, NEW q \in Positions(story)
  PROVE  Supplies(story, q, at + 1, id) <=>
           IF Declares(story, at, id) THEN q = at ELSE Supplies(story, q, at, id)
<1>1. /\ at \in Positions(story) /\ at \in Nat /\ q \in Nat
      /\ \A r \in Positions(story) : r \in Nat
  BY StepFacts DEF Positions
<1>2. CASE Declares(story, at, id)
  BY <1>1, <1>2 DEF Supplies
<1>3. CASE ~Declares(story, at, id)
  <2>1. Supplies(story, q, at + 1, id) => Supplies(story, q, at, id)
    BY <1>1, <1>3 DEF Supplies
  <2>2. Supplies(story, q, at, id) => Supplies(story, q, at + 1, id)
    BY <1>1, <1>3 DEF Supplies
  <2> QED
    BY <1>3, <2>1, <2>2
<1> QED
  BY <1>2, <1>3

\* A step that is faulted.
LEMMA FaultStep ==
  ASSUME IInv, UndefinedReference \/ OutputWithoutId
  PROVE  IInv'
<1> USE DEF IInv, UndefinedReference, OutputWithoutId, Judge
<1>1. /\ Checking /\ at \in Positions(story) /\ at + 1 \in 1 .. Len(story.steps) + 1
  BY StepFacts
<1>2. TypeOK'
  BY <1>1 DEF TypeOK
<1>3. "FAILED" \in evals' /\ story' = story /\ answer = "none"
  BY DEF Checking
<1>4. ~WellDefined(story)
  <2>1. CASE "FAILED" \in evals
    BY <2>1 DEF LoopInv
  <2>2. CASE "FAILED" \notin evals
    <3>1. ~GoodStep(at)
      BY <2>2, <1>1, DefinedMeansResolves DEF GoodStep, step
    <3> QED
      BY <3>1, <1>1 DEF GoodStep, WellDefined
  <2> QED
    BY <2>1, <2>2
<1>5. LoopInv' /\ AnswerInv'
  BY <1>3, <1>4 DEF LoopInv, AnswerInv
<1> QED
  BY <1>2, <1>5

\* A step that is in order.
LEMMA PassStep ==
  ASSUME IInv, StoreOutput \/ NoOutput
  PROVE  IInv'
<1> USE DEF IInv, StoreOutput, NoOutput, Judge
<1>1. /\ Checking /\ Defined /\ step \in Step /\ at \in Positions(story) /\ at \in Nat
      /\ at + 1 \in 1 .. Len(story.steps) + 1 /\ Len(story.steps) \in Nat
  BY StepFacts
<1>2. /\ evals' = evals \cup {"PASSED"} /\ at' = at + 1
      /\ story' = story /\ answer' = answer /\ answer = "none"
  BY DEF Checking
<1>3. /\ declared' \in [Ids -> 0 .. Len(story.steps)]
      /\ \A id \in Ids : declared'[id] = IF Declares(story, at, id) THEN at ELSE declared[id]
  <2>1. CASE StoreOutput
    <3>1. step.id \in Ids /\ step.stores
      BY <2>1, <1>1 DEF Step
    <3> QED
      BY <2>1, <3>1, <1>1 DEF TypeOK, Declares, step, Positions
  <2>2. CASE NoOutput
    BY <2>2 DEF TypeOK, Declares, step
  <2> QED
    BY <2>1, <2>2
<1>4. TypeOK'
  BY <1>1, <1>2, <1>3 DEF TypeOK
<1>5. ASSUME "FAILED" \notin evals
      PROVE  /\ \A p \in Positions(story) : p < at + 1 => GoodStep(p)
             /\ \A id \in Ids, q \in Positions(story) :
                  declared'[id] = q <=> Supplies(story, q, at + 1, id)
  <2>1. GoodStep(at)
    BY <1>5, <1>1, DefinedMeansResolves DEF GoodStep, step
  <2>2. \A p \in Positions(story) : p < at + 1 <=> p < at \/ p = at
    BY <1>1 DEF Positions
  <2>3. ASSUME NEW id \in Ids, NEW q \in Positions(story)
        PROVE  declared'[id] = q <=> Supplies(story, q, at + 1, id)
    <3>1. declared[id] = q <=> Supplies(story, q, at, id)
      BY <1>5 DEF LoopInv
    <3> QED
      BY <3>1, <1>1, <1>3, SuppliesNext
  <2> QED
    BY <1>5, <2>1, <2>2, <2>3 DEF LoopInv
<1>6. "FAILED" \in evals' <=> "FAILED" \in evals
  BY <1>2
<1>7. LoopInv'
  <2>1. "FAILED" \in evals => ~WellDefined(story)
    BY DEF LoopInv
  <2> QED
    BY <1>2, <1>5, <1>6, <2>1 DEF LoopInv, GoodStep
<1>8. AnswerInv'
  BY <1>2 DEF AnswerInv
<1> QED
  BY <1>4, <1>7, <1>8

\* The answer.
LEMMA ReturnStep ==
  ASSUME IInv, Return
  PROVE  IInv'
<1> USE DEF IInv, Return
<1>1. overall_result(evals) = "FAILED" <=> "FAILED" \in evals
  BY DEF TypeOK, overall_result
<1>2. TypeOK'
  BY DEF TypeOK
<1>3. LoopInv'
  BY DEF LoopInv, GoodStep
<1>4. AnswerInv'
  BY <1>1 DEF AnswerInv
<1> QED
  BY <1>2, <1>3, <1>4

\* The exception.
LEMMA ThrowStep ==
  ASSUME IInv, Throw
  PROVE  IInv'
<1> USE DEF IInv, Throw
<1>1. TypeOK'
  BY DEF TypeOK
<1>2. LoopInv'
  BY DEF LoopInv, GoodStep
<1> QED
  BY <1>1, <1>2 DEF AnswerInv

LEMMA NextInv == IInv /\ [Next]_vars => IInv'
<1> SUFFICES ASSUME IInv, [Next]_vars PROVE IInv'
  OBVIOUS
<1>1. CASE UNCHANGED vars
  BY <1>1 DEF vars, IInv, TypeOK, LoopInv, AnswerInv, GoodStep
<1> QED
  BY <1>1, FaultStep, PassStep, ReturnStep, ThrowStep DEF Next

THEOREM Inductive == Spec => []IInv
BY InitInv, NextInv, PTL DEF Spec

\* AcceptsWellDefined: the check accepts a story if and only if every output,
\* an empty one included, has an id and every reference in a parameter or a
\* payload value is supplied by an earlier step.
THEOREM AcceptsCorrect == Spec => []AcceptsWellDefined
<1>1. IInv => AcceptsWellDefined
  <2> SUFFICES ASSUME IInv, answer \in {"accepted", "refused"}
               PROVE  answer = "accepted" <=> WellDefined(story)
    BY DEF AcceptsWellDefined
  <2>1. \A p \in Positions(story) : p < at
    BY DEF IInv, AnswerInv, TypeOK, IsStory, Positions
  <2>2. (\A p \in Positions(story) : GoodStep(p)) => WellDefined(story)
    BY DEF GoodStep, WellDefined
  <2> QED
    BY <2>1, <2>2 DEF IInv, AnswerInv, LoopInv
<1> QED
  BY <1>1, Inductive, PTL
=============================================================================
