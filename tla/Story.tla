------------------------------- MODULE Story -------------------------------
(***************************************************************************)
(* A test story after StoryParser: prologues, chapters and epilogues laid  *)
(* out one after the other as one sequence of steps, each step with the    *)
(* part it belongs to.  A chapter written with several methods is already  *)
(* several steps that share an id.                                         *)
(***************************************************************************)
EXTENDS Naturals, Sequences, Results

CONSTANTS
  Ids,      \* chapter ids
  Names,    \* names of output values
  NoId      \* a step without an id

ASSUME NoIdAssumption == NoId \notin Ids

Parts == {"prologue", "chapter", "epilogue"}

\* What a version range and a distribution list mean to this run: the step
\* runs, it is excluded, or its range is no semver range at all.
Gates == {"runs", "excluded", "invalid_range"}

\* A story that would run may also hold a null inside a request payload, which
\* check_story_variables cannot walk.
StoryGates == Gates \cup {"null_payload"}

\* A reference ${id.name} to an output value of the step with that id.
OutputReference == Ids \X Names

(***************************************************************************)
(* stores  the step has an `output`, which may be an empty one;            *)
(* output  the names it gives to values of the response;                   *)
(* uses    the references in its parameters and in the values of its       *)
(*         payload;                                                        *)
(* keys    the references in the keys of its payload, which are replaced   *)
(*         when the request is put together and never checked;             *)
(* retry   retry.count, 0 when there is none;                              *)
(* located the operation locator finds its operation in the merged spec.   *)
(***************************************************************************)
Step == {st \in [part: Parts, id: Ids \cup {NoId}, stores: BOOLEAN, output: SUBSET Names,
                 uses: SUBSET OutputReference, keys: SUBSET OutputReference,
                 retry: Nat, gate: Gates, pending: BOOLEAN, located: BOOLEAN] :
           ~st.stores => st.output = {}}

PartOrder == [part \in Parts |->
                CASE part = "prologue" -> 1
                  [] part = "chapter"  -> 2
                  [] OTHER             -> 3]

IsStory(s) ==
  /\ s \in [steps: Seq(Step), gate: StoryGates]
  /\ \A p, q \in 1 .. Len(s.steps) :
       p <= q => PartOrder[s.steps[p].part] <= PartOrder[s.steps[q].part]

Positions(s) == 1 .. Len(s.steps)

(***************************************************************************)
(* The value of a reference to id at step p is declared by step q: the     *)
(* last step before p that has an output under that id, whatever is in it. *)
(***************************************************************************)
Declares(s, q, id) == s.steps[q].id = id /\ s.steps[q].stores

Supplies(s, q, p, id) ==
  /\ q \in Positions(s) /\ q < p
  /\ Declares(s, q, id)
  /\ \A r \in Positions(s) : q < r /\ r < p => ~Declares(s, r, id)

ResolvesAt(s, p, ref) ==
  \E q \in Positions(s) : Supplies(s, q, p, ref[1]) /\ ref[2] \in s.steps[q].output

\* What check_story_variables asks for.  It looks at no payload key.
WellDefined(s) ==
  \A p \in Positions(s) :
    /\ s.steps[p].stores => s.steps[p].id # NoId
    /\ \A ref \in s.steps[p].uses : ResolvesAt(s, p, ref)
=============================================================================
