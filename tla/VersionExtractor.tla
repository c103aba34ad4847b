-------------------------- MODULE VersionExtractor --------------------------
(***************************************************************************)
(* OpenApiVersionExtractor.extract with the helpers it walks the merged    *)
(* specification with: remove what does not fit the target version, find   *)
(* what the paths still refer to, remove the components nothing refers to, *)
(* then the objects whose reference has lost its target, and the paths     *)
(* left empty.  A document is abstracted to its objects: which is inside   *)
(* which, what each refers to and whether its version attributes fit.      *)
(***************************************************************************)
EXTENDS Naturals

CONSTANTS
  Objects,    \* the objects of the documents
  NoRef,      \* an object without a $ref
  Documents   \* the documents a behaviour may start from

Kinds == {"path", "component", "part"}

(***************************************************************************)
(* inside is transitive: <<o, p>> when o is somewhere in p.  A path item   *)
(* and a component are in no other object; every other object is in        *)
(* exactly one of them.  A reference names a component, and an object that *)
(* has one holds no other object, as everywhere under spec/.               *)
(***************************************************************************)
IsDocument(d) ==
  /\ d \in [kind: [Objects -> Kinds], inside: SUBSET (Objects \X Objects),
            ref: [Objects -> Objects \cup {NoRef}], fits: [Objects -> BOOLEAN]]
  /\ \A o, p, q \in Objects :
       <<o, p>> \in d.inside /\ <<p, q>> \in d.inside => <<o, q>> \in d.inside
  /\ \A o \in Objects :
       IF d.kind[o] = "part"
       THEN \E p \in Objects :
              {q \in Objects : <<o, q>> \in d.inside /\ d.kind[q] # "part"} = {p}
       ELSE \A p \in Objects : <<o, p>> \notin d.inside
  /\ \A o \in Objects :
       d.ref[o] # NoRef => /\ d.kind[d.ref[o]] = "component" /\ d.kind[o] # "path"
                           /\ \A p \in Objects : <<p, o>> \notin d.inside

ASSUME NoRefAssumption == NoRef \notin Objects
ASSUME DocumentsAssumption == \A d \in Documents : IsDocument(d)

VARIABLES
  doc,        \* the merged specification, never changed
  versioned,  \* a target version was given, never changed
  left,       \* the objects not removed
  found,      \* the references find_refs has come across
  remaining,  \* the components left when the unused ones were removed
  phase       \* what is done next

vars == <<doc, versioned, left, found, remaining, phase>>

Within(o, p) == o = p \/ <<o, p>> \in doc.inside

\* delete_matching_keys: an object goes with everything inside it.
Prune(S, matching) == {o \in S : \A p \in matching : ~Within(o, p)}

Components == {c \in Objects : doc.kind[c] = "component"}

Unfit == {o \in Objects : versioned /\ ~doc.fits[o]}

\* What find_refs walks over when it has followed the references in R.
Walked(S, R) ==
  {o \in S : \E p \in S : Within(o, p) /\ (doc.kind[p] = "path" \/ p \in R)}

Referenced(S, R) == {doc.ref[o] : o \in Walked(S, R)} \ {NoRef}

\* The document is copied before it is changed.
Begin ==
  /\ versioned \in BOOLEAN
  /\ left = Objects
  /\ found = {} /\ remaining = {}
  /\ phase = "version"

Init == doc \in Documents /\ Begin

\* Mistake: what is inside a removed object stays.
RemoveUnfitAlone ==
  /\ phase = "version"
  /\ left' = left \ Unfit
  /\ phase' = "find"
  /\ UNCHANGED <<doc, versioned, found, remaining>>

remove_keys_not_matching_semver ==
  /\ phase = "version"
  /\ left' = Prune(left, Unfit)
  /\ phase' = "find"
  /\ UNCHANGED <<doc, versioned, found, remaining>>

\* find_refs comes across a reference for the first time.
FollowRef ==
  /\ phase = "find"
  /\ \E c \in Referenced(left, found) \ found : found' = found \cup {c}
  /\ UNCHANGED <<doc, versioned, left, remaining, phase>>

\* find_refs has followed every reference: what it did not find goes.
RemoveUnreferenced ==
  /\ phase = "find" /\ Referenced(left, found) \subseteq found
  /\ left' = {o \in left : \A c \in Components : Within(o, c) => c \in found}
  /\ remaining' = left' \cap Components
  /\ phase' = "dangling"
  /\ UNCHANGED <<doc, versioned, found>>

Dangling == {o \in left : doc.ref[o] # NoRef /\ doc.ref[o] \notin remaining}

\* Mistake: a reference is compared with the references, not with what is left.
RemoveUnfound ==
  /\ phase = "dangling"
  /\ left' = Prune(left, {o \in left : doc.ref[o] # NoRef /\ doc.ref[o] \notin found})
  /\ phase' = "paths"
  /\ UNCHANGED <<doc, versioned, found, remaining>>

RemoveDangling ==
  /\ phase = "dangling"
  /\ left' = Prune(left, Dangling)
  /\ phase' = "paths"
  /\ UNCHANGED <<doc, versioned, found, remaining>>

RemoveEmptyPaths ==
  /\ phase = "paths"
  /\ left' = {o \in left : doc.kind[o] = "path" => \E q \in left : <<q, o>> \in doc.inside}
  /\ phase' = "done"
  /\ UNCHANGED <<doc, versioned, found, remaining>>

Next ==
  \/ remove_keys_not_matching_semver \/ FollowRef \/ RemoveUnreferenced
  \/ RemoveDangling \/ RemoveEmptyPaths

Spec == Init /\ [][Next]_vars

-----------------------------------------------------------------------------
TypeOK ==
  /\ IsDocument(doc)
  /\ versioned \in BOOLEAN
  /\ left \subseteq Objects
  /\ found \subseteq Components
  /\ remaining \subseteq Objects
  /\ phase \in {"version", "find", "dangling", "paths", "done"}

\* The objects that fit the version, with everything they are inside of.
Fitting == {o \in Objects : \A p \in Unfit : ~Within(o, p)}

\* A component the fitting paths reach: it is in every set of components that
\* holds what the paths and its own members refer to.
Reachable(c) ==
  \A R \in SUBSET Components : Referenced(Fitting, R) \subseteq R => c \in R

(***************************************************************************)
(* The extraction keeps exactly what it should: the fitting objects of the *)
(* paths and of the components they reach, except the references whose     *)
(* target does not fit and the path items that are then empty.             *)
(***************************************************************************)
Kept(o) ==
  /\ o \in Fitting
  /\ \A c \in Components : Within(o, c) => Reachable(c)
  /\ doc.ref[o] # NoRef => doc.ref[o] \in Fitting

ExtractsExactly ==
  phase = "done" =>
    left = {o \in Objects : Kept(o) /\ (doc.kind[o] = "path" =>
                                          \E q \in Objects : Kept(q) /\ <<q, o>> \in doc.inside)}

(***************************************************************************)
(* A reference in the extracted specification has its target, unless the   *)
(* target was itself nothing but a reference.                              *)
(***************************************************************************)
ResolvesUnlessAlias ==
  phase = "done" =>
    \A o \in left : doc.ref[o] # NoRef =>
      doc.ref[o] \in left \/ doc.ref[doc.ref[o]] # NoRef

(***************************************************************************)
(* No component stays that nothing left in the paths reaches.              *)
(***************************************************************************)
NothingUnused ==
  phase = "done" =>
    \A c \in left \cap Components :
      \A R \in SUBSET Components : Referenced(left, R) \subseteq R => c \in R

(***************************************************************************)
(* "Remove any refs and objects that reference them that are               *)
(* x-version-added/removed incompatible with the target server version"    *)
(* (OpenApiVersionExtractor.ts): no reference is left without its target.  *)
(***************************************************************************)
AllResolve ==
  phase = "done" => \A o \in left : doc.ref[o] # NoRef => doc.ref[o] \in left
=============================================================================
