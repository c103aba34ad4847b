------------------------- MODULE MergedOpenApiSpec -------------------------
(***************************************************************************)
(* MergedOpenApiSpec.spec, what the story tester reads: the version is     *)
(* extracted from the merged specification if one is given, and then every *)
(* schema that can only be an object is closed where it is used, so that a *)
(* property the specification does not have is an error.                   *)
(***************************************************************************)
EXTENDS VersionExtractor, FiniteSets

CONSTANTS
  Types,    \* the types a schema can have
  object,   \* one of them
  Inputs    \* the documents a behaviour may start from, with their schemas

(***************************************************************************)
(* What the visitor sees of an object:                                     *)
(* schema      it is a schema;                                             *)
(* types       what its type says, {} when it has none;                    *)
(* combinator  it is a schema and has allOf, or oneOf or anyOf;            *)
(* member      it is one of those the combinator it is directly in tells   *)
(*             its types by;                                               *)
(* plain       apart from keys whose value is an object directly inside it *)
(*             (items, additionalProperties, not), it has none but type    *)
(*             and description or, without a type, none that tells one:    *)
(*             such a key goes with the object, properties and the array   *)
(*             of a combinator stay when they are left empty;              *)
(* open        it has unevaluatedProperties.                               *)
(***************************************************************************)
Schema == [schema: BOOLEAN, types: SUBSET Types, combinator: {"none", "allOf", "oneOf"},
           member: BOOLEAN, plain: BOOLEAN, open: BOOLEAN]

\* m is inside o and in no object inside o.
DirectlyIn(inside, m, o) ==
  <<m, o>> \in inside /\ ~\E p \in Objects : <<m, p>> \in inside /\ <<p, o>> \in inside

IsInput(input) ==
  /\ IsDocument(input.doc) /\ input.form \in [Objects -> Schema]
  /\ \A o \in Objects :
       LET f == input.form[o]
       IN  /\ input.doc.ref[o] # NoRef => f.types = {} /\ f.combinator = "none" /\ ~f.plain
           /\ f.combinator # "none" => f.schema /\ ~f.plain
           /\ f.open => ~f.plain
           /\ f.member => \E p \in Objects : /\ DirectlyIn(input.doc.inside, o, p)
                                            /\ input.form[p].combinator # "none"

ASSUME FiniteAssumption == IsFiniteSet(Objects)
ASSUME ObjectAssumption == object \in Types
ASSUME InputsAssumption == \A input \in Inputs : IsInput(input)

VARIABLES
  form,    \* the schemas, never changed
  target,  \* a target version is given, never changed
  todo,    \* the schemas still to be visited
  closed,  \* the schemas given unevaluatedProperties
  spec     \* where spec() is

mergedVars == <<vars, form, target, todo, closed, spec>>

-----------------------------------------------------------------------------
\* The members of the combinator of o.
Members(S, o) ==
  {m \in S : form[m].member /\ <<m, o>> \in doc.inside
               /\ \A p \in S : ~(<<m, p>> \in doc.inside /\ <<p, o>> \in doc.inside)}

\* Of the keys of o nothing tells its types or is to be closed: those whose
\* values are not in S have gone with them.
Bare(S, o) == form[o].plain /\ \A m \in S : <<m, o>> \notin doc.inside

(***************************************************************************)
(* determine_possible_schema_types among the objects in S, of which those  *)
(* in C are closed, with inner for the types of the targets and members:   *)
(* {T} when the types are T, and {} when it does not return.  It throws on *)
(* a reference without a target, on a combinator without members and on a  *)
(* schema that says nothing of its type.                                   *)
(***************************************************************************)
Combined(o, ofMembers) ==
  IF form[o].combinator = "allOf" THEN {t \in Types : \A T \in UNION ofMembers : t \in T}
  ELSE UNION UNION ofMembers

Deeper(S, C, inner) ==
  [o \in Objects |->
     LET ofMembers == {inner[m] : m \in Members(S, o)}
     IN  IF doc.ref[o] # NoRef THEN (IF doc.ref[o] \in S THEN inner[doc.ref[o]] ELSE {})
         ELSE IF o \in C THEN {{object}}
         ELSE IF form[o].types # {} THEN {form[o].types}
         ELSE IF Bare(S, o) THEN {Types}
         ELSE IF form[o].combinator = "none" \/ ofMembers = {} \/ {} \in ofMembers THEN {}
         ELSE {Combined(o, ofMembers)}]

\* It does not end when references or combinators lead back to where they
\* started; no other ones are deeper than there are objects.
TypesWithin(S, C) ==
  LET types[n \in 0 .. Cardinality(Objects)] ==
        Deeper(S, C, IF n = 0 THEN [o \in Objects |-> {}] ELSE types[n - 1])
  IN  types[Cardinality(Objects)]

determine_possible_schema_types(o) == TypesWithin(left, closed)[o]

UnderAllOf(o) ==
  \E p \in left : form[p].combinator = "allOf" /\ \E m \in Members(left, p) : Within(o, m)

\* Schemas the visitor leaves alone before it asks for their types.
LeftAlone(o) == form[o].open \/ doc.kind[o] = "component" \/ UnderAllOf(o)

Schemas(S) == {o \in S : form[o].schema}

-----------------------------------------------------------------------------
MergedInit ==
  /\ \E input \in Inputs : doc = input.doc /\ form = input.form
  /\ Begin
  /\ target \in BOOLEAN /\ (versioned => target)
  /\ todo = {} /\ closed = {} /\ spec = "extracting"

Extract ==
  /\ spec = "extracting" /\ target
  /\ Next
  /\ UNCHANGED <<form, target, todo, closed, spec>>

inject_additional_properties ==
  /\ spec = "extracting" /\ (target => phase = "done")
  /\ spec' = "visiting" /\ todo' = Schemas(left)
  /\ UNCHANGED <<vars, form, target, closed>>

\* A schema is visited after the schemas inside it.
AtSchema(o) ==
  /\ spec = "visiting" /\ o \in todo
  /\ \A p \in todo : <<p, o>> \notin doc.inside

Visited(o) == todo' = todo \ {o} /\ UNCHANGED <<vars, form, target, spec>>

Closable(o) == determine_possible_schema_types(o) = {{object}} /\ ~Bare(left, o)

Leave(o) ==
  /\ AtSchema(o)
  /\ LeftAlone(o) \/ (determine_possible_schema_types(o) # {} /\ ~Closable(o))
  /\ Visited(o) /\ UNCHANGED closed

\* Mistake: a schema that may be an object among other types is closed.
CloseMixed(o) ==
  /\ AtSchema(o) /\ ~LeftAlone(o)
  /\ \E T \in determine_possible_schema_types(o) : object \in T
  /\ ~Bare(left, o)
  /\ Visited(o) /\ closed' = closed \cup {o}

Close(o) ==
  /\ AtSchema(o) /\ ~LeftAlone(o) /\ Closable(o)
  /\ Visited(o) /\ closed' = closed \cup {o}

\* The exception, or the call that never ends, is not caught.
Fail(o) ==
  /\ AtSchema(o) /\ ~LeftAlone(o) /\ determine_possible_schema_types(o) = {}
  /\ spec' = "failed"
  /\ UNCHANGED <<vars, form, target, todo, closed>>

Return ==
  /\ spec = "visiting" /\ todo = {}
  /\ spec' = "returned"
  /\ UNCHANGED <<vars, form, target, todo, closed>>

MergedNext ==
  \/ Extract \/ inject_additional_properties \/ Return
  \/ \E o \in Objects : Leave(o) \/ Close(o) \/ Fail(o)

MergedSpec == MergedInit /\ [][MergedNext]_mergedVars

-----------------------------------------------------------------------------
(***************************************************************************)
(* Closing a schema gives it a type, and the schemas are closed one after  *)
(* the other while the types of others are still asked for: the result is  *)
(* nevertheless that of the types the specification had before.  A schema  *)
(* the extraction has left with nothing but its type stays open.           *)
(***************************************************************************)
ClosesExactly ==
  spec = "returned" =>
    closed = {o \in Schemas(left) :
                ~LeftAlone(o) /\ ~Bare(left, o) /\ TypesWithin(left, {})[o] = {{object}}}

\* What the extraction may do to a schema: a reference to a reference loses
\* its target, a combinator its last member.
Loosened ==
  \/ \E o \in left : /\ doc.ref[o] # NoRef /\ doc.ref[o] \notin left
                     /\ doc.ref[doc.ref[o]] # NoRef
  \/ \E o \in Schemas(left) :
       form[o].combinator # "none" /\ Members(Objects, o) # {} /\ Members(left, o) = {}

(***************************************************************************)
(* A version can be extracted from a specification without harm to the     *)
(* tester: if the types of every schema can be determined in the whole     *)
(* specification, then in what is extracted for any version as well,       *)
(* except where a reference or a combinator is left with nothing.          *)
(***************************************************************************)
SurvivesExtraction ==
  spec = "failed" =>
    \/ \E o \in Schemas(Objects) : TypesWithin(Objects, {})[o] = {}
    \/ target /\ Loosened
=============================================================================
