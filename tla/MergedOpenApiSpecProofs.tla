---------------------- MODULE MergedOpenApiSpecProofs ----------------------
(***************************************************************************)
(* The extractor keeps exactly what it should, for every set of documents: *)
(* the set find_refs collects is compared with every set of components     *)
(* closed under following references; it is inside each of them while it   *)
(* grows, and is one of them when nothing is left to follow.  Then what    *)
(* the tester makes of it: the types of a schema are a least fixed point,  *)
(* to which closing the schemas one after the other adds nothing.          *)
(***************************************************************************)
EXTENDS MergedOpenApiSpec, FiniteSetTheorems, WellFoundedInduction, TLAPS

\* The fitting objects of the paths and of the components find_refs found.
OfFound == {o \in Fitting : \A c \in Components : Within(o, c) => c \in found}

\* The sets of components that hold every reference met by following them.
ClosedSets == {R \in SUBSET Components : Referenced(Fitting, R) \subseteq R}

\* What find_refs found is reachable.
FoundReachable == found \subseteq Components /\ \A R \in ClosedSets : found \subseteq R

FoundAll == Referenced(Fitting, found) \subseteq found

KeptObjects == {o \in Objects : Kept(o)}

Phases ==
  /\ phase = "version" => left = Objects /\ found = {}
  /\ phase = "find" => left = Fitting
  /\ phase \in {"dangling", "paths", "done"} => FoundAll
  /\ phase = "dangling" => left = OfFound /\ remaining = left \cap Components
  /\ phase = "paths" => left = KeptObjects

IInv == TypeOK /\ FoundReachable /\ Phases /\ ExtractsExactly

-----------------------------------------------------------------------------
\* An object is in no two paths or components, and in none when it is one.
LEMMA OneTop ==
  ASSUME IsDocument(doc), NEW o \in Objects, NEW p \in Objects, NEW q \in Objects,
         Within(o, p), Within(o, q), doc.kind[p] # "part", doc.kind[q] # "part"
  PROVE  p = q
<1>1. CASE doc.kind[o] = "part"
  <2>1. <<o, p>> \in doc.inside /\ <<o, q>> \in doc.inside
    BY <1>1 DEF Within
  <2>2. PICK t \in Objects :
          {r \in Objects : <<o, r>> \in doc.inside /\ doc.kind[r] # "part"} = {t}
    BY <1>1 DEF IsDocument
  <2> QED BY <2>1, <2>2
<1>2. CASE doc.kind[o] # "part"
  BY <1>2 DEF IsDocument, Within
<1> QED BY <1>1, <1>2

\* Every object is in a path or in a component.
LEMMA SomeTop ==
  ASSUME IsDocument(doc), NEW o \in Objects
  PROVE  \E p \in Objects : Within(o, p) /\ doc.kind[p] # "part"
<1>1. CASE doc.kind[o] = "part"
  <2>1. PICK t \in Objects :
          {r \in Objects : <<o, r>> \in doc.inside /\ doc.kind[r] # "part"} = {t}
    BY <1>1 DEF IsDocument
  <2> QED BY <2>1 DEF Within
<1>2. CASE doc.kind[o] # "part"
  BY <1>2 DEF Within
<1> QED BY <1>1, <1>2

\* What a fitting object is inside of fits.
LEMMA FittingUp ==
  ASSUME IsDocument(doc), NEW o \in Fitting, NEW p \in Objects, Within(o, p)
  PROVE  p \in Fitting
<1>1. \A u \in Unfit : Within(p, u) => Within(o, u)
  BY DEF IsDocument, Within, Unfit, Fitting
<1> QED BY <1>1 DEF Fitting

\* A reference names a component, and what has one holds nothing else.
LEMMA RefFacts ==
  ASSUME IsDocument(doc), NEW o \in Objects, doc.ref[o] # NoRef
  PROVE  /\ doc.ref[o] \in Components
         /\ doc.kind[o] # "path"
         /\ \A p \in Objects : Within(p, o) => p = o
BY DEF IsDocument, Components, Within

LEMMA ReferencedComponents ==
  ASSUME IsDocument(doc), NEW S \in SUBSET Objects, NEW R
  PROVE  Referenced(S, R) \subseteq Components
BY RefFacts DEF Referenced, Walked

LEMMA WalkedMonotonic ==
  ASSUME NEW S, NEW Q, NEW R, Q \subseteq R
  PROVE  Referenced(S, Q) \subseteq Referenced(S, R)
BY DEF Referenced, Walked

\* When nothing is left to follow, what was found is what can be reached.
LEMMA FoundIsReachable ==
  ASSUME FoundReachable, FoundAll, NEW c \in Components
  PROVE  Reachable(c) <=> c \in found
BY DEF FoundReachable, FoundAll, Reachable, ClosedSets

\* A reference in an object of the paths or of a found component is found.
LEMMA RefFound ==
  ASSUME IsDocument(doc), FoundAll, NEW o \in OfFound, doc.ref[o] # NoRef
  PROVE  doc.ref[o] \in found
<1>1. PICK p \in Objects : Within(o, p) /\ doc.kind[p] # "part"
  BY SomeTop DEF OfFound, Fitting
<1>2. p \in Fitting
  BY <1>1, FittingUp DEF OfFound
<1>3. doc.kind[p] = "path" \/ p \in found
  BY <1>1 DEF OfFound, Components, IsDocument, Kinds
<1>4. o \in Walked(Fitting, found)
  BY <1>1, <1>2, <1>3 DEF Walked, OfFound
<1> QED BY <1>4 DEF FoundAll, Referenced

LEMMA OfFoundComponents ==
  ASSUME IsDocument(doc)
  PROVE  OfFound \cap Components = Fitting \cap found \cap Components
<1>1. \A c \in Components : \A d \in Components : Within(c, d) => c = d
  BY DEF IsDocument, Components, Within
<1> QED BY <1>1 DEF OfFound, Within

LEMMA PrunedIsKept ==
  ASSUME IsDocument(doc), FoundReachable, FoundAll, left = OfFound,
         remaining = left \cap Components
  PROVE  Prune(left, Dangling) = KeptObjects
<1>1. \A o \in OfFound : doc.ref[o] # NoRef =>
        (doc.ref[o] \in remaining <=> doc.ref[o] \in Fitting)
  BY RefFound, RefFacts, OfFoundComponents DEF OfFound, Fitting
<1>2. \A o \in left, p \in Dangling : Within(o, p) <=> o = p
  BY RefFacts DEF Dangling, Within, OfFound, Fitting
<1>3. \A o \in Objects :
        o \in OfFound <=> o \in Fitting /\ \A c \in Components : Within(o, c) => Reachable(c)
  BY FoundIsReachable DEF OfFound
<1>4. \A o \in Objects : o \in Prune(left, Dangling) <=>
        o \in OfFound /\ (doc.ref[o] # NoRef => doc.ref[o] \in remaining)
  BY <1>2 DEF Prune, Dangling
<1>5. \A o \in Objects : o \in KeptObjects <=>
        o \in OfFound /\ (doc.ref[o] # NoRef => doc.ref[o] \in Fitting)
  BY <1>3 DEF KeptObjects, Kept
<1>6. \A o \in Objects : o \in Prune(left, Dangling) <=> o \in KeptObjects
  BY <1>1, <1>4, <1>5
<1> QED BY <1>6 DEF Prune, KeptObjects, OfFound, Fitting

-----------------------------------------------------------------------------
LEMMA BeginInv == IsDocument(doc) /\ Begin => IInv
<1> SUFFICES ASSUME IsDocument(doc), Begin PROVE IInv
  OBVIOUS
<1>1. TypeOK
  BY DEF Begin, TypeOK
<1> QED BY <1>1 DEF Begin, IInv, FoundReachable, Phases, ExtractsExactly

LEMMA InitInv == Init => IInv
BY BeginInv, DocumentsAssumption DEF Init

\* What the document and the version decide does not change.
LEMMA DocKept ==
  ASSUME IsDocument(doc), doc' = doc, versioned' = versioned
  PROVE  /\ IsDocument(doc)' /\ Components' = Components /\ Fitting' = Fitting
         /\ KeptObjects' = KeptObjects /\ ClosedSets' = ClosedSets
         /\ FoundReachable /\ found' = found => FoundReachable'
         /\ FoundAll /\ found' = found => FoundAll'
<1>1. Components' = Components /\ IsDocument(doc)'
  BY DEF Components, IsDocument
<1>2. Fitting' = Fitting
  BY DEF Fitting, Unfit, Within
<1>3. ClosedSets' = ClosedSets
  <2>1. \A R : {doc'.ref[o] : o \in {o \in Fitting' : \E p \in Fitting' :
                   (o = p \/ <<o, p>> \in doc'.inside) /\ (doc'.kind[p] = "path" \/ p \in R)}}
                 \ {NoRef} = Referenced(Fitting, R)
    BY <1>2 DEF Referenced, Walked, Within
  <2> QED BY <1>1, <2>1 DEF ClosedSets, Referenced, Walked, Within
<1>4. KeptObjects' = KeptObjects
  BY <1>1, <1>2, <1>3 DEF KeptObjects, Kept, Reachable, Referenced, Walked, Within
<1>5. FoundReachable /\ found' = found => FoundReachable'
  BY <1>1, <1>3 DEF FoundReachable
<1>6. FoundAll /\ found' = found => FoundAll'
  BY <1>1, <1>2 DEF FoundAll, Referenced, Walked, Within
<1> QED BY <1>1, <1>2, <1>3, <1>4, <1>5, <1>6

LEMMA StepInv == IInv /\ [Next]_vars => IInv'
<1> SUFFICES ASSUME IInv, [Next]_vars PROVE IInv'
  OBVIOUS
<1>d. IsDocument(doc)
  BY DEF IInv, TypeOK
<1>1. CASE remove_keys_not_matching_semver
  <2>1. left = Objects /\ found = {} /\ left' = Fitting
    BY <1>1 DEF remove_keys_not_matching_semver, IInv, Phases, Prune, Fitting
  <2>2. Fitting' = Fitting /\ FoundReachable' /\ IsDocument(doc)'
    BY <1>1, <1>d, DocKept DEF remove_keys_not_matching_semver, IInv
  <2>3. TypeOK'
    BY <1>1, <2>1, <2>2 DEF remove_keys_not_matching_semver, IInv, TypeOK, Fitting
  <2>4. Phases' /\ ExtractsExactly'
    BY <1>1, <2>1, <2>2 DEF remove_keys_not_matching_semver, Phases, ExtractsExactly
  <2> QED BY <2>2, <2>3, <2>4 DEF IInv
<1>2. CASE FollowRef
  <2>1. PICK c \in Referenced(left, found) \ found : found' = found \cup {c}
    BY <1>2 DEF FollowRef
  <2>2. left = Fitting /\ doc' = doc /\ versioned' = versioned /\ left' = left
        /\ phase = "find" /\ phase' = "find" /\ remaining' = remaining
    BY <1>2 DEF FollowRef, IInv, Phases
  <2>3. Fitting' = Fitting /\ Components' = Components /\ IsDocument(doc)'
    BY <2>2, <1>d, DocKept
  <2>4. c \in Components
    BY <2>1, <2>2, <1>d, ReferencedComponents DEF Fitting
  <2>5. \A R \in ClosedSets : found' \subseteq R
    BY <2>1, <2>2, WalkedMonotonic DEF IInv, FoundReachable, ClosedSets
  <2>6. FoundReachable'
    BY <2>1, <2>2, <2>4, <2>5, <1>d, DocKept DEF IInv, FoundReachable
  <2>7. TypeOK'
    BY <2>1, <2>2, <2>3, <2>4 DEF IInv, TypeOK, Components
  <2>8. Phases' /\ ExtractsExactly'
    BY <2>2, <2>3 DEF Phases, ExtractsExactly
  <2> QED BY <2>6, <2>7, <2>8 DEF IInv
<1>3. CASE RemoveUnreferenced
  <2>1. /\ left = Fitting /\ FoundAll /\ doc' = doc /\ versioned' = versioned /\ found' = found
        /\ left' = OfFound /\ remaining' = left' \cap Components /\ phase' = "dangling"
    BY <1>3 DEF RemoveUnreferenced, IInv, Phases, FoundAll, OfFound
  <2>2. /\ Fitting' = Fitting /\ Components' = Components /\ IsDocument(doc)'
        /\ FoundReachable' /\ FoundAll'
    BY <2>1, <1>d, DocKept DEF IInv
  <2>3. OfFound' = OfFound
    BY <2>1, <2>2 DEF OfFound, Within
  <2>4. TypeOK'
    BY <2>1, <2>2 DEF IInv, TypeOK, OfFound, Fitting
  <2>5. Phases' /\ ExtractsExactly'
    BY <2>1, <2>2, <2>3 DEF Phases, ExtractsExactly
  <2> QED BY <2>2, <2>4, <2>5 DEF IInv
<1>4. CASE RemoveDangling
  <2>1. /\ FoundAll /\ left = OfFound /\ remaining = left \cap Components
        /\ doc' = doc /\ versioned' = versioned /\ found' = found /\ remaining' = remaining
        /\ left' = Prune(left, Dangling) /\ phase' = "paths"
    BY <1>4 DEF RemoveDangling, IInv, Phases
  <2>2. /\ KeptObjects' = KeptObjects /\ IsDocument(doc)' /\ FoundReachable' /\ FoundAll'
    BY <2>1, <1>d, DocKept DEF IInv
  <2>3. left' = KeptObjects
    BY <2>1, <1>d, PrunedIsKept DEF IInv
  <2>4. TypeOK'
    BY <2>1, <2>2, <2>3 DEF IInv, TypeOK, FoundReachable, KeptObjects
  <2>5. Phases' /\ ExtractsExactly'
    BY <2>1, <2>2, <2>3 DEF Phases, ExtractsExactly
  <2> QED BY <2>2, <2>4, <2>5 DEF IInv
<1>5. CASE RemoveEmptyPaths
  <2>1. /\ FoundAll /\ left = KeptObjects
        /\ doc' = doc /\ versioned' = versioned /\ found' = found /\ remaining' = remaining
        /\ left' = {o \in left : doc.kind[o] = "path" =>
                                   \E q \in left : <<q, o>> \in doc.inside}
        /\ phase' = "done"
    BY <1>5 DEF RemoveEmptyPaths, IInv, Phases
  <2>2. /\ KeptObjects' = KeptObjects /\ IsDocument(doc)' /\ FoundReachable' /\ FoundAll'
    BY <2>1, <1>d, DocKept DEF IInv
  <2>3. ExtractsExactly'
    <3>1. \A o \in Objects : Kept(o)' <=> o \in KeptObjects
      BY <2>2 DEF KeptObjects
    <3>2. left' = {o \in Objects : o \in KeptObjects /\
                     (doc'.kind[o] = "path" =>
                        \E q \in Objects : q \in KeptObjects /\ <<q, o>> \in doc'.inside)}
      BY <2>1 DEF KeptObjects
    <3> QED BY <3>1, <3>2 DEF ExtractsExactly
  <2>4. TypeOK'
    BY <2>1, <2>2 DEF IInv, TypeOK, FoundReachable, KeptObjects
  <2>5. Phases'
    BY <2>1, <2>2 DEF Phases
  <2> QED BY <2>2, <2>3, <2>4, <2>5 DEF IInv
<1>6. CASE UNCHANGED vars
  <2>1. /\ IsDocument(doc)' /\ Components' = Components /\ Fitting' = Fitting
        /\ KeptObjects' = KeptObjects /\ FoundReachable' /\ (FoundAll => FoundAll')
    BY <1>6, <1>d, DocKept DEF vars, IInv
  <2>2. OfFound' = OfFound
    BY <1>6, <2>1 DEF OfFound, Within, vars
  <2>3. TypeOK' /\ Phases'
    BY <1>6, <2>1, <2>2 DEF IInv, TypeOK, Phases, vars
  <2>4. ExtractsExactly'
    <3>1. \A o \in Objects : Kept(o)' <=> Kept(o)
      BY <2>1 DEF KeptObjects
    <3> QED BY <1>6, <3>1 DEF IInv, ExtractsExactly, vars
  <2> QED BY <2>1, <2>3, <2>4 DEF IInv
<1> QED BY <1>1, <1>2, <1>3, <1>4, <1>5, <1>6 DEF Next

-----------------------------------------------------------------------------
(***************************************************************************)
(* A kept reference to a fitting component keeps it, unless it is itself a *)
(* reference: RemoveDangling takes only references.                        *)
(***************************************************************************)
LEMMA ExactResolves == IInv => ResolvesUnlessAlias
<1> SUFFICES ASSUME IInv, phase = "done", NEW o \in left, doc.ref[o] # NoRef,
                    doc.ref[doc.ref[o]] = NoRef
             PROVE  doc.ref[o] \in left
  BY DEF ResolvesUnlessAlias
<1> DEFINE c == doc.ref[o]
<1>1. IsDocument(doc) /\ FoundReachable /\ FoundAll /\ o \in Objects /\ Kept(o)
  BY DEF IInv, TypeOK, Phases, ExtractsExactly
<1>2. c \in Components /\ c \in Objects /\ c \in Fitting /\ doc.kind[c] # "path"
  BY <1>1, RefFacts DEF Kept, Components
<1>3. o \in OfFound
  BY <1>1, FoundIsReachable DEF Kept, OfFound
<1>4. Reachable(c)
  BY <1>1, <1>2, <1>3, RefFound, FoundIsReachable
<1>5. \A d \in Components : Within(c, d) => d = c
  BY <1>1, <1>2 DEF IsDocument, Components, Within
<1>6. Kept(c)
  BY <1>2, <1>4, <1>5 DEF Kept
<1> QED BY <1>2, <1>6 DEF IInv, ExtractsExactly

(***************************************************************************)
(* A set of components closed under the references that are left, with the *)
(* components that do not fit, is closed under all fitting references; so  *)
(* it holds every component that was found.                                *)
(***************************************************************************)
LEMMA ExactUnused == IInv => NothingUnused
<1> SUFFICES ASSUME IInv, phase = "done", NEW c \in left \cap Components,
                    NEW R \in SUBSET Components, Referenced(left, R) \subseteq R
             PROVE  c \in R
  BY DEF NothingUnused
<1> DEFINE Q == (R \cap found) \cup (Components \ Fitting)
<1>1. IsDocument(doc) /\ FoundReachable /\ FoundAll
  BY DEF IInv, TypeOK, Phases
<1>2. ASSUME NEW o \in Walked(Fitting, Q), doc.ref[o] # NoRef
      PROVE  doc.ref[o] \in Q
  <2>1. PICK p \in Fitting : Within(o, p) /\ (doc.kind[p] = "path" \/ p \in Q)
    BY <1>2 DEF Walked
  <2>2. o \in Fitting /\ o \in Objects /\ p \in Objects
    BY DEF Walked, Fitting
  <2>3. doc.kind[p] = "path" \/ p \in R \cap found
    BY <2>1
  <2>4. doc.kind[p] # "part"
    BY <2>3 DEF Components
  <2>5. \A d \in Components : Within(o, d) => d = p
    BY <1>1, <2>1, <2>2, <2>4, OneTop DEF Components
  <2>6. \A d \in Components : Within(o, d) => d \in found
    BY <2>3, <2>5 DEF Components
  <2>7. doc.ref[o] \in found /\ doc.ref[o] \in Components /\ doc.kind[o] # "path"
    BY <1>1, <1>2, <2>2, <2>6, RefFound, RefFacts DEF OfFound
  <2>8. CASE doc.ref[o] \in Fitting
    <3>1. Kept(o)
      BY <1>1, <2>2, <2>6, <2>8, FoundIsReachable DEF Kept
    <3>2. o \in left
      BY <2>2, <2>7, <3>1 DEF IInv, ExtractsExactly
    <3>3. CASE p = o
      <4>1. o \in Walked(left, R)
        BY <2>1, <2>3, <2>7, <3>2, <3>3 DEF Walked
      <4> QED BY <1>2, <2>7, <4>1 DEF Referenced
    <3>4. CASE p # o
      <4>1. <<o, p>> \in doc.inside
        BY <2>1, <3>4 DEF Within
      <4>2. doc.ref[p] = NoRef
        BY <1>1, <2>2, <4>1 DEF IsDocument
      <4>3. \A d \in Components : Within(p, d) => d \in found
        BY <1>1, <2>2, <2>3, <2>4 DEF IsDocument, Components, Within
      <4>4. Kept(p)
        BY <1>1, <4>2, <4>3, FoundIsReachable DEF Kept
      <4>5. p \in left
        BY <2>2, <3>1, <4>1, <4>4 DEF IInv, ExtractsExactly
      <4>6. o \in Walked(left, R)
        BY <2>1, <2>3, <3>2, <4>5 DEF Walked
      <4> QED BY <1>2, <2>7, <4>6 DEF Referenced
    <3> QED BY <3>3, <3>4
  <2>9. CASE doc.ref[o] \notin Fitting
    BY <2>7, <2>9
  <2> QED BY <2>8, <2>9
<1>3. Referenced(Fitting, Q) \subseteq Q
  BY <1>2 DEF Referenced
<1>4. found \subseteq Q
  BY <1>1, <1>3 DEF FoundReachable, ClosedSets
<1>5. c \in Fitting /\ Kept(c)
  BY DEF IInv, ExtractsExactly, Kept
<1>6. c \in found
  BY <1>1, <1>5, FoundIsReachable DEF Kept, Within
<1> QED BY <1>4, <1>5, <1>6

-----------------------------------------------------------------------------
THEOREM Inductive == Spec => []IInv
<1> QED BY InitInv, StepInv, PTL DEF Spec

(***************************************************************************)
(* The extractor's state is always of its type: find_refs collects only    *)
(* components.                                                             *)
(***************************************************************************)
THEOREM TypeCorrect == Spec => []TypeOK
<1>1. IInv => TypeOK
  BY DEF IInv
<1> QED BY <1>1, Inductive, PTL

(***************************************************************************)
(* extract keeps the fitting objects the paths reach and nothing else,     *)
(* whatever refers to what, also in cycles.                                *)
(***************************************************************************)
THEOREM ExtractsCorrect == Spec => []ExtractsExactly
<1>1. IInv => ExtractsExactly
  BY DEF IInv
<1> QED BY <1>1, Inductive, PTL

(***************************************************************************)
(* After extract a reference resolves, unless its target was an alias:     *)
(* the one case in which the list of targets is out of date.               *)
(***************************************************************************)
THEOREM ResolvesCorrect == Spec => []ResolvesUnlessAlias
<1> QED BY ExactResolves, Inductive, PTL

(***************************************************************************)
(* After extract every component that stays is used: removing the dangling *)
(* references leaves no component unreachable.                             *)
(***************************************************************************)
THEOREM UnusedCorrect == Spec => []NothingUnused
<1> QED BY ExactUnused, Inductive, PTL

-----------------------------------------------------------------------------
(***************************************************************************)
(* The types of a schema.  They are the fixed point that is reached when   *)
(* the types are asked for once more than there are objects: each time     *)
(* before that, one more object at least has got its types.                *)
(***************************************************************************)
Unknown == [o \in Objects |-> {}]

\* What f knows of an object g knows, too.
Below(f, g) == \A o \in Objects : f[o] = {} \/ f[o] = g[o]

Known(f) == {o \in Objects : f[o] # {}}

IsTypes(f) == f = [o \in Objects |-> f[o]]

Iterates(f, S, C) ==
  /\ f[0] = Deeper(S, C, Unknown)
  /\ \A n \in Nat : n < Cardinality(Objects) => f[n + 1] = Deeper(S, C, f[n])

\* Induction over the naturals, for a set of them.
LEMMA NatInduct ==
  ASSUME NEW T \in SUBSET Nat, 0 \in T, \A n \in T : n + 1 \in T
  PROVE  T = Nat
<1> DEFINE R == OpToRel(<, Nat)
<1>1. IsWellFoundedOn(R, Nat)
  BY NatLessThanWellFounded
<1>2. \A m, n \in Nat : <<m, n>> \in R <=> m < n
  BY DEF OpToRel
<1> HIDE DEF R
<1> SUFFICES ASSUME NEW k \in Nat \ T PROVE FALSE
  OBVIOUS
<1>3. PICK n \in Nat \ T : \A m \in Nat \ T : <<m, n>> \notin R
  BY <1>1, WFMin
<1>4. n \in Nat /\ n # 0 /\ n - 1 \in Nat /\ n - 1 < n
  OBVIOUS
<1>5. n - 1 \in T
  BY <1>2, <1>3, <1>4
<1> QED
  BY <1>4, <1>5

IsTower(f, S, C, k) == f = [n \in 0 .. k |-> Deeper(S, C, IF n = 0 THEN Unknown ELSE f[n - 1])]

\* The recursive function that TypesWithin is the last value of exists.
LEMMA TowerExists ==
  ASSUME NEW S, NEW C, NEW k \in Nat
  PROVE  \E f : IsTower(f, S, C, k)
<1> DEFINE Is(f, j) == IsTower(f, S, C, j)
           T == {j \in Nat : \E f : Is(f, j)}
<1>1. 0 \in T
  <2> DEFINE f == [n \in 0 .. 0 |-> Deeper(S, C, Unknown)]
  <2>1. Is(f, 0)
    BY DEF IsTower
  <2> QED
    BY <2>1
<1>2. ASSUME NEW j \in T PROVE j + 1 \in T
  <2>1. PICK f : Is(f, j)
    OBVIOUS
  <2> DEFINE g == [n \in 0 .. j + 1 |-> Deeper(S, C, IF n = 0 THEN Unknown ELSE f[n - 1])]
  <2>2. \A n \in 0 .. j : g[n] = f[n]
    <3>1. \A n \in 0 .. j : f[n] = Deeper(S, C, IF n = 0 THEN Unknown ELSE f[n - 1])
      BY <2>1 DEF IsTower
    <3>2. \A n \in 0 .. j : n \in 0 .. j + 1
      OBVIOUS
    <3> QED
      BY <3>1, <3>2
  <2>3. \A n \in 0 .. j + 1 : n # 0 => n - 1 \in 0 .. j
    OBVIOUS
  <2>4. \A n \in 0 .. j + 1 : n # 0 => f[n - 1] = g[n - 1]
    BY <2>2, <2>3
  <2>5. g = [n \in 0 .. j + 1 |-> Deeper(S, C, IF n = 0 THEN Unknown ELSE g[n - 1])]
    BY <2>4
  <2>6. Is(g, j + 1)
    BY <2>5 DEF IsTower
  <2> HIDE DEF g, Is
  <2> QED
    BY <2>6
<1> HIDE DEF Is
<1>3. T = Nat
  BY <1>1, <1>2, NatInduct
<1> QED
  BY <1>3 DEF Is

LEMMA ObjectCount == Cardinality(Objects) \in Nat
BY FiniteAssumption, FS_CardinalityType

\* TypesWithin is the last one of the functions that grow deeper.
LEMMA Tower ==
  ASSUME NEW S, NEW C
  PROVE  \E f : Iterates(f, S, C) /\ TypesWithin(S, C) = f[Cardinality(Objects)]
<1> DEFINE N == Cardinality(Objects)
           Is(f) == IsTower(f, S, C, N)
           t == CHOOSE f : Is(f)
<1>1. N \in Nat
  BY ObjectCount
<1>2. TypesWithin(S, C) = t[N]
  BY Zenon DEF TypesWithin, Unknown, IsTower
<1>3. \E f : Is(f)
  BY <1>1, TowerExists
<1>4. Is(t)
  BY <1>3, Zenon
<1> HIDE DEF t, N
<1>5. \A n \in 0 .. N : t[n] = Deeper(S, C, IF n = 0 THEN Unknown ELSE t[n - 1])
  BY <1>4 DEF IsTower
<1>6. t[0] = Deeper(S, C, Unknown)
  BY <1>1, <1>5
<1>7. ASSUME NEW n \in Nat, n < N PROVE t[n + 1] = Deeper(S, C, t[n])
  <2>1. n + 1 \in 0 .. N /\ n + 1 # 0 /\ (n + 1) - 1 = n
    BY <1>1, <1>7
  <2> QED
    BY <1>5, <2>1
<1> QED
  BY <1>2, <1>6, <1>7 DEF Iterates, N

\* What one level says of an object.
OfMembers(S, f, o) == {f[m] : m \in Members(S, o)}

Level(S, C, o, ofTarget, ofMembers) ==
  IF doc.ref[o] # NoRef THEN (IF doc.ref[o] \in S THEN ofTarget ELSE {})
  ELSE IF o \in C THEN {{object}}
  ELSE IF form[o].types # {} THEN {form[o].types}
  ELSE IF Bare(S, o) THEN {Types}
  ELSE IF form[o].combinator = "none" \/ ofMembers = {} \/ {} \in ofMembers THEN {}
  ELSE {Combined(o, ofMembers)}

LEMMA DeeperAt ==
  ASSUME NEW S, NEW C, NEW f, NEW o \in Objects
  PROVE  Deeper(S, C, f)[o] = Level(S, C, o, f[doc.ref[o]], OfMembers(S, f, o))
BY DEF Deeper, Level, OfMembers

LEMMA DeeperTypes == ASSUME NEW S, NEW C, NEW f PROVE IsTypes(Deeper(S, C, f))
BY DEF Deeper, IsTypes

\* Who knows more of the targets and members knows more of an object.
LEMMA Monotonic ==
  ASSUME NEW S \in SUBSET Objects, NEW C, NEW f, NEW g, Below(f, g)
  PROVE  Below(Deeper(S, C, f), Deeper(S, C, g))
<1> SUFFICES ASSUME NEW o \in Objects
             PROVE  Deeper(S, C, f)[o] = {} \/ Deeper(S, C, f)[o] = Deeper(S, C, g)[o]
  BY DEF Below
<1>1. \A m \in Members(S, o) : m \in Objects /\ (f[m] = {} \/ f[m] = g[m])
  BY DEF Members, Below
<1>2. /\ Deeper(S, C, f)[o] = Level(S, C, o, f[doc.ref[o]], OfMembers(S, f, o))
      /\ Deeper(S, C, g)[o] = Level(S, C, o, g[doc.ref[o]], OfMembers(S, g, o))
  BY DeeperAt
<1>3. {} \in OfMembers(S, f, o) \/ OfMembers(S, f, o) = OfMembers(S, g, o)
  BY <1>1 DEF OfMembers
<1>4. doc.ref[o] \in S => f[doc.ref[o]] = {} \/ f[doc.ref[o]] = g[doc.ref[o]]
  BY DEF Below
<1> QED
  BY <1>2, <1>3, <1>4 DEF Level

\* Each level knows what the one before it knew.
LEMMA BelowOnce ==
  ASSUME NEW S \in SUBSET Objects, NEW C, NEW f, Iterates(f, S, C)
  PROVE  \A n \in Nat : n <= Cardinality(Objects) => Below(f[n], Deeper(S, C, f[n]))
<1> DEFINE N == Cardinality(Objects)
           T == {n \in Nat : n <= N => Below(f[n], Deeper(S, C, f[n]))}
<1>0. N \in Nat
  BY ObjectCount
<1>1. 0 \in T
  <2>1. Below(Unknown, Deeper(S, C, Unknown))
    BY DEF Below, Unknown
  <2> QED
    BY <2>1, Monotonic DEF Iterates
<1>2. ASSUME NEW n \in T PROVE n + 1 \in T
  <2> SUFFICES ASSUME n + 1 <= N PROVE Below(f[n + 1], Deeper(S, C, f[n + 1]))
    OBVIOUS
  <2>1. n < N /\ n <= N
    BY <1>0
  <2>2. f[n + 1] = Deeper(S, C, f[n])
    BY <2>1 DEF Iterates
  <2> QED
    BY <2>1, <2>2, Monotonic
<1>3. T = Nat
  BY <1>1, <1>2, NatInduct
<1> QED
  BY <1>3

\* A level that does not end the ascent knows of one more object.
LEMMA Ascent ==
  ASSUME NEW f, NEW g, Below(f, g), IsTypes(f), IsTypes(g), f # g
  PROVE  Cardinality(Known(f)) + 1 <= Cardinality(Known(g))
<1>1. PICK o \in Objects : f[o] # g[o]
  BY DEF IsTypes
<1>2. Known(f) \subseteq Known(g) /\ o \in Known(g) /\ o \notin Known(f)
  BY <1>1 DEF Below, Known
<1>3. IsFiniteSet(Known(g)) /\ IsFiniteSet(Known(f))
  BY FiniteAssumption, FS_Subset DEF Known
<1>4. Cardinality(Known(f) \cup {o}) = Cardinality(Known(f)) + 1
  BY <1>2, <1>3, FS_AddElement
<1>5. Cardinality(Known(f) \cup {o}) <= Cardinality(Known(g))
  BY <1>2, <1>3, FS_Subset
<1> QED
  BY <1>4, <1>5

\* Asking once more changes nothing.
LEMMA FixedPoint ==
  ASSUME NEW S \in SUBSET Objects, NEW C
  PROVE  Deeper(S, C, TypesWithin(S, C)) = TypesWithin(S, C)
<1> DEFINE N == Cardinality(Objects)
<1>1. PICK f : Iterates(f, S, C) /\ TypesWithin(S, C) = f[N]
  BY Tower
<1> DEFINE Ends(n) == Deeper(S, C, f[n]) = f[n]
           T == {n \in Nat : n <= N => Ends(n) \/ n <= Cardinality(Known(f[n]))}
<1>2. N \in Nat
  BY ObjectCount
<1>3. \A n \in Nat : n <= N => Cardinality(Known(f[n])) \in Nat
  BY FiniteAssumption, FS_Subset, FS_CardinalityType DEF Known
<1>5. \A n \in Nat : n <= N => IsTypes(f[n])
  <2> SUFFICES ASSUME NEW n \in Nat, n <= N PROVE IsTypes(f[n])
    OBVIOUS
  <2>1. CASE n = 0
    BY <1>1, <2>1, DeeperTypes DEF Iterates
  <2>2. CASE n # 0
    <3>1. n - 1 \in Nat /\ n - 1 < N /\ (n - 1) + 1 = n
      BY <1>2, <2>2
    <3>2. f[n] = Deeper(S, C, f[n - 1])
      BY <1>1, <3>1 DEF Iterates
    <3> QED
      BY <3>2, DeeperTypes
  <2> QED
    BY <2>1, <2>2
<1>6. 0 \in T
  BY <1>2, <1>3
<1>7. ASSUME NEW n \in T PROVE n + 1 \in T
  <2> SUFFICES ASSUME n + 1 <= N PROVE Ends(n + 1) \/ n + 1 <= Cardinality(Known(f[n + 1]))
    OBVIOUS
  <2>1. n \in Nat /\ n < N /\ n <= N
    BY <1>2
  <2>2. f[n + 1] = Deeper(S, C, f[n])
    BY <1>1, <2>1 DEF Iterates
  <2>3. CASE Ends(n)
    BY <2>2, <2>3
  <2>4. CASE ~Ends(n)
    <3>1. n <= Cardinality(Known(f[n]))
      BY <2>1, <2>4
    <3>2. Below(f[n], f[n + 1])
      BY <1>1, <2>1, <2>2, BelowOnce
    <3>3. f[n] # f[n + 1] /\ IsTypes(f[n]) /\ IsTypes(f[n + 1])
      BY <1>5, <2>1, <2>2, <2>4
    <3>4. Cardinality(Known(f[n])) + 1 <= Cardinality(Known(f[n + 1]))
      BY <3>2, <3>3, Ascent
    <3>5. Cardinality(Known(f[n])) \in Nat /\ Cardinality(Known(f[n + 1])) \in Nat
      BY <1>3, <2>1
    <3> QED
      BY <2>1, <3>1, <3>4, <3>5
  <2> QED
    BY <2>3, <2>4
<1>8. T = Nat
  <2> HIDE DEF T
  <2> QED
    BY <1>6, <1>7, NatInduct DEF T
<1>9. Ends(N) \/ N <= Cardinality(Known(f[N]))
  BY <1>2, <1>8
<1>10. CASE N <= Cardinality(Known(f[N]))
  <2>1. Known(f[N]) \subseteq Objects
    BY DEF Known
  <2>2. Known(f[N]) = Objects
    <3>1. Cardinality(Known(f[N])) \in Nat
      BY <1>2, <1>3
    <3>2. Cardinality(Known(f[N])) = N => Known(f[N]) = Objects
      BY <2>1, FiniteAssumption, FS_Subset
    <3>3. Cardinality(Known(f[N])) <= N
      BY <2>1, FiniteAssumption, FS_Subset
    <3> QED
      BY <1>2, <1>10, <3>1, <3>2, <3>3
  <2>3. Below(f[N], Deeper(S, C, f[N]))
    BY <1>1, <1>2, BelowOnce
  <2>4. \A o \in Objects : f[N][o] = Deeper(S, C, f[N])[o]
    BY <2>2, <2>3 DEF Below, Known
  <2>5. IsTypes(f[N]) /\ IsTypes(Deeper(S, C, f[N]))
    BY <1>2, <1>5, DeeperTypes
  <2> QED
    BY <1>1, <2>4, <2>5 DEF IsTypes
<1> QED
  BY <1>1, <1>9, <1>10

\* Induction over the levels.
LEMMA Levels ==
  ASSUME NEW f, NEW S, NEW C, Iterates(f, S, C), NEW P, P \subseteq Nat, 0 \in P,
         \A n \in P : n < Cardinality(Objects) => n + 1 \in P
  PROVE  Cardinality(Objects) \in P
<1> DEFINE N == Cardinality(Objects)
           T == {n \in Nat : n <= N => n \in P}
<1>1. N \in Nat
  BY ObjectCount
<1> HIDE DEF N
<1>2. 0 \in T
  OBVIOUS
<1>3. ASSUME NEW n \in T PROVE n + 1 \in T
  <2>1. n + 1 <= N => n <= N /\ n < N
    BY <1>1
  <2> QED
    BY <2>1 DEF N
<1>4. T = Nat
  <2>1. T \in SUBSET Nat
    OBVIOUS
  <2> HIDE DEF T
  <2> QED
    BY <1>2, <1>3, <2>1, NatInduct
<1> QED
  BY <1>1, <1>4 DEF N

\* The objects that can be nothing but an object.
OnlyObjects(S) == {o \in Objects : TypesWithin(S, {})[o] = {{object}}}

(***************************************************************************)
(* Closing what is an object anyway tells nothing new of any object: the   *)
(* types without it are a fixed point with it, too, and on the way to them *)
(* as much is known at every level with it as without.                     *)
(***************************************************************************)
LEMMA ClosingTellsNothing ==
  ASSUME NEW S \in SUBSET Objects, NEW C \in SUBSET OnlyObjects(S)
  PROVE  TypesWithin(S, C) = TypesWithin(S, {})
<1> DEFINE N == Cardinality(Objects)
           X == TypesWithin(S, {})
<1>1. PICK f : Iterates(f, S, {}) /\ X = f[N]
  BY Tower
<1>2. PICK g : Iterates(g, S, C) /\ TypesWithin(S, C) = g[N]
  BY Tower
<1>3. Deeper(S, {}, X) = X
  BY FixedPoint
<1>4. \A o \in Objects : o \in C => X[o] = {{object}}
  BY DEF OnlyObjects
<1> HIDE DEF X, N
<1>5. ASSUME NEW h, NEW o \in Objects
      PROVE  Deeper(S, C, h)[o] =
               IF doc.ref[o] = NoRef /\ o \in C THEN {{object}} ELSE Deeper(S, {}, h)[o]
  <2>1. /\ Deeper(S, C, h)[o] = Level(S, C, o, h[doc.ref[o]], OfMembers(S, h, o))
        /\ Deeper(S, {}, h)[o] = Level(S, {}, o, h[doc.ref[o]], OfMembers(S, h, o))
    BY DeeperAt
  <2> QED
    BY <2>1 DEF Level
<1>6. ASSUME NEW h, Below(h, X) PROVE Below(Deeper(S, C, h), X)
  <2>1. Below(Deeper(S, {}, h), X)
    BY <1>3, <1>6, Monotonic
  <2> SUFFICES ASSUME NEW o \in Objects
               PROVE  Deeper(S, C, h)[o] = {} \/ Deeper(S, C, h)[o] = X[o]
    BY DEF Below
  <2>2. Deeper(S, {}, h)[o] = {} \/ Deeper(S, {}, h)[o] = X[o]
    BY <2>1 DEF Below
  <2> QED
    BY <1>4, <1>5, <2>2
<1>7. ASSUME NEW h, NEW k, Below(h, k), Below(h, X)
      PROVE  Below(Deeper(S, {}, h), Deeper(S, C, k))
  <2>1. Below(Deeper(S, {}, h), X) /\ Below(Deeper(S, {}, h), Deeper(S, {}, k))
    BY <1>3, <1>7, Monotonic
  <2> SUFFICES ASSUME NEW o \in Objects
               PROVE  Deeper(S, {}, h)[o] = {} \/ Deeper(S, {}, h)[o] = Deeper(S, C, k)[o]
    BY DEF Below
  <2>2. /\ Deeper(S, {}, h)[o] = {} \/ Deeper(S, {}, h)[o] = X[o]
        /\ Deeper(S, {}, h)[o] = {} \/ Deeper(S, {}, h)[o] = Deeper(S, {}, k)[o]
    BY <2>1 DEF Below
  <2>3. Deeper(S, C, k)[o] =
          IF doc.ref[o] = NoRef /\ o \in C THEN {{object}} ELSE Deeper(S, {}, k)[o]
    BY <1>5
  <2> QED
    BY <1>4, <2>2, <2>3
<1>8. Below(Unknown, X) /\ Below(Unknown, Unknown)
  BY DEF Below, Unknown
<1> DEFINE P == {n \in Nat : Below(f[n], g[n]) /\ Below(f[n], X) /\ Below(g[n], X)}
<1>9. Below(f[N], g[N]) /\ Below(g[N], X)
  <2>1. 0 \in P
    <3>1. f[0] = Deeper(S, {}, Unknown) /\ g[0] = Deeper(S, C, Unknown)
      BY <1>1, <1>2 DEF Iterates
    <3> QED
      BY <1>3, <1>6, <1>7, <1>8, <3>1, Monotonic
  <2>2. ASSUME NEW n \in P, n < Cardinality(Objects) PROVE n + 1 \in P
    <3>1. f[n + 1] = Deeper(S, {}, f[n]) /\ g[n + 1] = Deeper(S, C, g[n])
      BY <1>1, <1>2, <2>2 DEF Iterates
    <3> QED
      BY <1>3, <1>6, <1>7, <3>1, Monotonic
  <2>3. N \in P
    <3> HIDE DEF P
    <3>1. P \subseteq Nat
      BY DEF P
    <3> QED
      BY <1>1, <2>1, <2>2, <3>1, Levels DEF N
  <2> QED
    BY <2>3
<1>10. \A o \in Objects : X[o] = g[N][o]
  BY <1>1, <1>9 DEF Below
<1>11. IsTypes(X) /\ IsTypes(g[N])
  <2>1. Deeper(S, C, g[N]) = g[N]
    BY <1>2, FixedPoint
  <2> QED
    BY <1>3, <2>1, DeeperTypes
<1> QED
  BY <1>2, <1>10, <1>11 DEF IsTypes, X

(***************************************************************************)
(* Nothing is loose in S: a reference has its target, a combinator with    *)
(* members one of them at least.                                           *)
(***************************************************************************)
Tight(S) ==
  /\ \A o \in S : doc.ref[o] # NoRef => doc.ref[o] \in S
  /\ \A o \in S : form[o].combinator # "none" /\ Members(Objects, o) # {} => Members(S, o) # {}
  /\ \A o \in S : Members(S, o) \subseteq Members(Objects, o)

\* What is known of all objects is known of the ones in a tight set.
LEMMA TightKnows ==
  ASSUME NEW S \in SUBSET Objects, Tight(S), NEW o \in S,
         TypesWithin(Objects, {})[o] # {}
  PROVE  TypesWithin(S, {})[o] # {}
<1> DEFINE N == Cardinality(Objects)
<1>1. PICK f : Iterates(f, Objects, {}) /\ TypesWithin(Objects, {}) = f[N]
  BY Tower
<1>2. PICK g : Iterates(g, S, {}) /\ TypesWithin(S, {}) = g[N]
  BY Tower
<1> DEFINE More(h, k) == \A p \in S : h[p] # {} => k[p] # {}
           P == {n \in Nat : More(f[n], g[n])}
<1>3. ASSUME NEW h, NEW k, More(h, k)
      PROVE  More(Deeper(Objects, {}, h), Deeper(S, {}, k))
  <2> SUFFICES ASSUME NEW p \in S, Deeper(Objects, {}, h)[p] # {}
               PROVE  Deeper(S, {}, k)[p] # {}
    OBVIOUS
  <2>1. p \in Objects
    OBVIOUS
  <2>2. /\ Deeper(Objects, {}, h)[p]
             = Level(Objects, {}, p, h[doc.ref[p]], OfMembers(Objects, h, p))
        /\ Deeper(S, {}, k)[p] = Level(S, {}, p, k[doc.ref[p]], OfMembers(S, k, p))
    BY <2>1, DeeperAt
  <2>3. CASE doc.ref[p] # NoRef
    <3>1. doc.ref[p] \in S
      BY <2>3 DEF Tight
    <3> QED
      BY <1>3, <2>2, <2>3, <3>1 DEF Level
  <2>4. CASE doc.ref[p] = NoRef /\ form[p].types = {} /\ ~Bare(S, p)
    <3>0. ~Bare(Objects, p)
      BY <2>4 DEF Bare
    <3>1. /\ form[p].combinator # "none" /\ OfMembers(Objects, h, p) # {}
          /\ {} \notin OfMembers(Objects, h, p)
      BY <2>2, <2>4, <3>0 DEF Level
    <3>2. Members(Objects, p) # {} /\ \A m \in Members(Objects, p) : h[m] # {}
      BY <3>1 DEF OfMembers
    <3>3. Members(S, p) # {} /\ \A m \in Members(S, p) : m \in S /\ h[m] # {}
      BY <3>1, <3>2 DEF Tight, Members
    <3>4. OfMembers(S, k, p) # {} /\ {} \notin OfMembers(S, k, p)
      BY <1>3, <3>3 DEF OfMembers
    <3> QED
      BY <2>2, <2>4, <3>1, <3>4 DEF Level
  <2>5. CASE doc.ref[p] = NoRef /\ ~(form[p].types = {} /\ ~Bare(S, p))
    BY <2>2, <2>5 DEF Level
  <2> QED
    BY <2>3, <2>4, <2>5
<1>4. 0 \in P
  <2>1. More(Unknown, Unknown)
    OBVIOUS
  <2>2. f[0] = Deeper(Objects, {}, Unknown) /\ g[0] = Deeper(S, {}, Unknown)
    BY <1>1, <1>2 DEF Iterates
  <2> HIDE DEF More
  <2> QED
    BY <1>3, <2>1, <2>2
<1>5. ASSUME NEW n \in P, n < N PROVE n + 1 \in P
  <2>1. f[n + 1] = Deeper(Objects, {}, f[n]) /\ g[n + 1] = Deeper(S, {}, g[n])
    BY <1>1, <1>2, <1>5 DEF Iterates
  <2> HIDE DEF More
  <2> QED
    BY <1>3, <2>1
<1>6. N \in P
  <2>1. P \subseteq Nat
    OBVIOUS
  <2> HIDE DEF P
  <2> QED
    BY <1>1, <1>4, <1>5, <2>1, Levels
<1> QED
  BY <1>1, <1>2, <1>6

-----------------------------------------------------------------------------
(***************************************************************************)
(* The extraction leaves an object with all it is inside of: what is left  *)
(* is loose in no other way than Loosened says.                            *)
(***************************************************************************)
LEMMA LeftUpward ==
  ASSUME IInv, phase = "done", NEW o \in left, NEW p \in Objects, <<o, p>> \in doc.inside
  PROVE  p \in left
<1>1. IsDocument(doc) /\ o \in Objects /\ Kept(o)
  BY DEF IInv, TypeOK, ExtractsExactly
<1>2. p \in Fitting
  BY <1>1, FittingUp DEF Kept, Within
<1>3. \A d \in Components : Within(p, d) => Within(o, d)
  BY <1>1 DEF IsDocument, Within, Components
<1>4. doc.ref[p] = NoRef
  BY <1>1 DEF IsDocument
<1>5. Kept(p)
  BY <1>1, <1>2, <1>3, <1>4 DEF Kept
<1> QED
  BY <1>1, <1>5 DEF IInv, ExtractsExactly

LEMMA LeftTight ==
  ASSUME IInv, phase = "done", ~Loosened,
         \A o \in Objects : ~form[o].schema => form[o].combinator = "none"
  PROVE  Tight(left)
<1>1. IsDocument(doc) /\ left \subseteq Objects /\ ResolvesUnlessAlias
  BY ExactResolves DEF IInv, TypeOK
<1>2. ASSUME NEW o \in left, doc.ref[o] # NoRef PROVE doc.ref[o] \in left
  BY <1>1, <1>2 DEF ResolvesUnlessAlias, Loosened
<1>3. ASSUME NEW o \in left, form[o].combinator # "none", Members(Objects, o) # {}
      PROVE  Members(left, o) # {}
  BY <1>1, <1>3 DEF Loosened, Schemas
<1>4. ASSUME NEW o \in left, NEW m \in Members(left, o) PROVE m \in Members(Objects, o)
  <2>1. m \in left /\ <<m, o>> \in doc.inside
    BY DEF Members
  <2>2. \A p \in Objects : <<m, p>> \in doc.inside => p \in left
    BY <2>1, LeftUpward
  <2> QED
    BY <1>1, <2>1, <2>2 DEF Members
<1> QED
  BY <1>2, <1>3, <1>4 DEF Tight

-----------------------------------------------------------------------------
(***************************************************************************)
(* While the visitor goes from schema to schema, the closed ones are those *)
(* of the visited that had to be closed before it came to any.             *)
(***************************************************************************)
ToClose(o) == ~LeftAlone(o) /\ ~Bare(left, o) /\ o \in OnlyObjects(left)

Visiting == {"visiting", "returned", "failed"}

FormInv == \A o \in Objects : ~form[o].schema => form[o].combinator = "none"

TypesLeft == TypesWithin(left, {})

ClosedSoFar ==
  todo \subseteq Schemas(left) /\ closed = {o \in Schemas(left) \ todo : ToClose(o)}

VisitInv ==
  /\ spec \in {"extracting"} \cup Visiting
  /\ ~target => left = Objects
  /\ spec = "extracting" => closed = {}
  /\ spec \in Visiting => (target => phase = "done") /\ ClosedSoFar
  /\ spec = "returned" => todo = {}
  /\ spec = "failed" => \E o \in todo : TypesLeft[o] = {}

\* The types of the schemas are the same all the way.
LEMMA SameTypes ==
  ASSUME IInv, VisitInv, spec \in Visiting
  PROVE  TypesWithin(left, closed) = TypesWithin(left, {})
<1>1. left \in SUBSET Objects
  BY DEF IInv, TypeOK
<1>2. closed \in SUBSET OnlyObjects(left)
  BY DEF VisitInv, ClosedSoFar, ToClose
<1> QED
  BY <1>1, <1>2, ClosingTellsNothing

LEMMA ReturnCloses == IInv /\ VisitInv => ClosesExactly
<1> SUFFICES ASSUME IInv, VisitInv, spec = "returned"
             PROVE  closed = {o \in Schemas(left) : ~LeftAlone(o) /\ ~Bare(left, o)
                                                      /\ TypesWithin(left, {})[o] = {{object}}}
  BY DEF ClosesExactly
<1>1. closed = {o \in Schemas(left) : ToClose(o)}
  BY DEF VisitInv, ClosedSoFar, Visiting
<1>2. \A o \in Schemas(left) : o \in Objects
  BY DEF IInv, TypeOK, Schemas
<1> QED
  BY <1>1, <1>2 DEF ToClose, OnlyObjects

LEMMA FailSurvives == IInv /\ VisitInv /\ FormInv => SurvivesExtraction
<1> SUFFICES ASSUME IInv, VisitInv, FormInv, spec = "failed", ~(target /\ Loosened)
             PROVE  \E o \in Schemas(Objects) : TypesWithin(Objects, {})[o] = {}
  BY DEF SurvivesExtraction
<1>1. PICK o \in todo : TypesLeft[o] = {}
  BY DEF VisitInv
<1>2. TypesWithin(left, {})[o] = {}
  BY <1>1 DEF TypesLeft
<1>3. o \in Schemas(left) /\ left \in SUBSET Objects
  BY DEF VisitInv, ClosedSoFar, Visiting, IInv, TypeOK
<1>4. o \in left /\ o \in Schemas(Objects)
  BY <1>3 DEF Schemas
<1>5. CASE ~target
  BY <1>2, <1>4, <1>5 DEF VisitInv
<1>6. CASE target
  <2>1. Tight(left)
    BY <1>6, LeftTight DEF FormInv, VisitInv, Visiting
  <2> QED
    BY <1>2, <1>3, <1>4, <2>1, TightKnows
<1> QED
  BY <1>5, <1>6

LEMMA MergedInitInv == MergedInit => IInv /\ VisitInv /\ FormInv
<1> SUFFICES ASSUME MergedInit PROVE IInv /\ VisitInv /\ FormInv
  OBVIOUS
<1>1. PICK input \in Inputs : doc = input.doc /\ form = input.form
  BY DEF MergedInit
<1>2. IsDocument(doc) /\ FormInv
  BY <1>1, InputsAssumption DEF IsInput, FormInv
<1>3. IInv
  BY <1>2, BeginInv DEF MergedInit
<1> QED
  BY <1>2, <1>3 DEF MergedInit, Begin, VisitInv, Visiting

\* There is one function only that grows deeper.
LEMMA OneTower ==
  ASSUME NEW S, NEW C, NEW f, NEW g, Iterates(f, S, C), Iterates(g, S, C)
  PROVE  f[Cardinality(Objects)] = g[Cardinality(Objects)]
<1> DEFINE P == {n \in Nat : f[n] = g[n]}
<1>1. 0 \in P /\ \A n \in P : n < Cardinality(Objects) => n + 1 \in P
  BY DEF Iterates
<1>2. P \subseteq Nat
  OBVIOUS
<1> HIDE DEF P
<1>3. Cardinality(Objects) \in P
  BY <1>1, <1>2, Levels
<1> QED
  BY <1>3 DEF P

\* What the types depend on does not change while the visitor is at work.
IsTypesLeft(f) == Iterates(f, left, {}) /\ TypesLeft = f[Cardinality(Objects)]

LEMMA KeptTypes == UNCHANGED <<doc, form, left>> => TypesLeft' = TypesLeft
<1>1. \E f : IsTypesLeft(f)
  BY Tower DEF IsTypesLeft, TypesLeft
<1>2. (\E f : IsTypesLeft(f))'
  BY <1>1, PTL
<1> SUFFICES ASSUME UNCHANGED <<doc, form, left>> PROVE TypesLeft' = TypesLeft
  OBVIOUS
<1>3. PICK f : IsTypesLeft(f)
  BY <1>1
<1>4. PICK g : IsTypesLeft(g)'
  BY <1>2
<1>5. \A h : Deeper(left, {}, h)' = Deeper(left, {}, h)
  BY DEF Deeper, Members, Bare, Combined
<1>6. Iterates(g, left, {})
  BY <1>4, <1>5 DEF IsTypesLeft, Iterates, Unknown
<1>7. TypesLeft' = g[Cardinality(Objects)]
  BY <1>4 DEF IsTypesLeft
<1> QED
  BY <1>3, <1>6, <1>7, OneTower DEF IsTypesLeft

LEMMA KeptClosable ==
  ASSUME UNCHANGED <<doc, form, left>>
  PROVE  Schemas(left)' = Schemas(left) /\ \A o \in Objects : ToClose(o)' = ToClose(o)
<1>1. TypesLeft' = TypesLeft
  BY KeptTypes
<1>2. \A o \in Objects : LeftAlone(o)' = LeftAlone(o) /\ Bare(left, o)' = Bare(left, o)
  BY DEF LeftAlone, UnderAllOf, Members, Within, Bare
<1>3. OnlyObjects(left)' = OnlyObjects(left)
  BY <1>1 DEF OnlyObjects, TypesLeft
<1> QED
  BY <1>2, <1>3 DEF ToClose, Schemas

LEMMA SameVisited ==
  ASSUME IInv, ClosedSoFar, UNCHANGED <<doc, form, left, todo, closed>>
  PROVE  ClosedSoFar'
<1>1. Schemas(left)' = Schemas(left) /\ \A p \in Objects : ToClose(p)' = ToClose(p)
  BY KeptClosable
<1>2. Schemas(left) \subseteq Objects
  BY DEF IInv, TypeOK, Schemas
<1>3. closed' = {p \in Schemas(left)' \ todo' : ToClose(p)'}
  BY <1>1, <1>2 DEF ClosedSoFar
<1> QED
  BY <1>1, <1>3 DEF ClosedSoFar

\* A visited schema is among the closed ones if it had to be.
LEMMA VisitedInv ==
  ASSUME IInv, VisitInv, NEW o \in Objects, AtSchema(o), Visited(o),
         closed' = closed \cup {p \in {o} : ToClose(o)}
  PROVE  VisitInv'
<1>1. /\ spec = "visiting" /\ o \in todo /\ todo' = todo \ {o}
      /\ UNCHANGED <<doc, form, left, phase, target, spec>>
  BY DEF AtSchema, Visited, vars
<1>2. todo \subseteq Schemas(left) /\ closed = {p \in Schemas(left) \ todo : ToClose(p)}
  BY <1>1 DEF VisitInv, ClosedSoFar, Visiting
<1>3. Schemas(left)' = Schemas(left) /\ \A p \in Objects : ToClose(p)' = ToClose(p)
  BY <1>1, KeptClosable
<1>4. Schemas(left) \subseteq Objects
  BY DEF IInv, TypeOK, Schemas
<1>5. closed' = {p \in Schemas(left) \ todo' : ToClose(p)}
  BY <1>1, <1>2
<1>6. closed' = {p \in Schemas(left)' \ todo' : ToClose(p)'}
  BY <1>3, <1>4, <1>5
<1>7. todo' \subseteq Schemas(left)'
  BY <1>1, <1>2, <1>3
<1>8. ClosedSoFar'
  BY <1>6, <1>7 DEF ClosedSoFar
<1> QED
  BY <1>1, <1>8 DEF VisitInv, Visiting

LEMMA MergedStepInv ==
  IInv /\ VisitInv /\ FormInv /\ [MergedNext]_mergedVars => (IInv /\ VisitInv /\ FormInv)'
<1> SUFFICES ASSUME IInv, VisitInv, FormInv, [MergedNext]_mergedVars
             PROVE  (IInv /\ VisitInv /\ FormInv)'
  OBVIOUS
<1>1. FormInv'
  BY DEF FormInv, MergedNext, Extract, inject_additional_properties, Return, Leave, Close, Fail,
       Visited, mergedVars
<1>2. [Next]_vars
  BY DEF MergedNext, Extract, inject_additional_properties, Return, Leave, Close, Fail,
       Visited, mergedVars
<1>3. IInv'
  BY <1>2, StepInv
<1> SUFFICES VisitInv'
  BY <1>1, <1>3
<1>4. CASE Extract
  BY <1>4 DEF Extract, VisitInv, Visiting
<1>5. CASE inject_additional_properties
  <2>1. /\ spec' = "visiting" /\ todo' = Schemas(left) /\ (target => phase = "done")
        /\ UNCHANGED <<doc, form, left, phase, target, closed>>
    BY <1>5 DEF inject_additional_properties, vars
  <2>2. closed = {} /\ Schemas(left)' = Schemas(left)
    BY <1>5, <2>1, KeptClosable DEF inject_additional_properties, VisitInv
  <2> QED
    BY <2>1, <2>2 DEF VisitInv, ClosedSoFar, Visiting
<1>6. CASE Return
  <2>1. /\ spec = "visiting" /\ spec' = "returned" /\ todo = {}
        /\ UNCHANGED <<doc, form, left, phase, target, todo, closed>>
    BY <1>6 DEF Return, vars
  <2>2. ClosedSoFar'
    BY <2>1, SameVisited DEF VisitInv, Visiting
  <2> QED
    BY <2>1, <2>2 DEF VisitInv, Visiting
<1>7. ASSUME NEW o \in Objects, Leave(o) \/ Close(o) PROVE VisitInv'
  <2>1. AtSchema(o) /\ Visited(o) /\ spec \in Visiting
    BY <1>7 DEF Leave, Close, AtSchema, Visiting
  <2>2. determine_possible_schema_types(o) = TypesWithin(left, {})[o]
    BY <2>1, SameTypes DEF determine_possible_schema_types
  <2>3. closed' = closed \cup {p \in {o} : ToClose(o)}
    BY <1>7, <2>2 DEF Leave, Close, Closable, ToClose, OnlyObjects
  <2> QED
    BY <2>1, <2>3, VisitedInv
<1>8. ASSUME NEW o \in Objects, Fail(o) PROVE VisitInv'
  <2>1. /\ spec = "visiting" /\ spec' = "failed" /\ o \in todo
        /\ TypesWithin(left, closed)[o] = {}
        /\ UNCHANGED <<doc, form, left, phase, target, todo, closed>>
    BY <1>8 DEF Fail, AtSchema, vars, determine_possible_schema_types
  <2>2. ClosedSoFar'
    BY <2>1, SameVisited DEF VisitInv, Visiting
  <2>3. TypesLeft'[o] = {}
    BY <2>1, SameTypes, KeptTypes DEF TypesLeft, Visiting
  <2> QED
    BY <2>1, <2>2, <2>3 DEF VisitInv, Visiting
<1>9. CASE UNCHANGED mergedVars
  <2>1. UNCHANGED <<doc, form, left, phase, target, todo, closed, spec>>
    BY <1>9 DEF mergedVars, vars
  <2>2. spec \in Visiting => ClosedSoFar'
    BY <2>1, SameVisited DEF VisitInv
  <2>3. TypesLeft' = TypesLeft
    BY <2>1, KeptTypes
  <2> QED
    BY <2>1, <2>2, <2>3 DEF VisitInv
<1> QED
  BY <1>4, <1>5, <1>6, <1>7, <1>8, <1>9 DEF MergedNext

LEMMA MergedInductive == MergedSpec => [](IInv /\ VisitInv /\ FormInv)
BY MergedInitInv, MergedStepInv, PTL DEF MergedSpec

(***************************************************************************)
(* Of the schemas that are left and not left alone, the tester closes      *)
(* exactly those that can be nothing but an object and say more than this, *)
(* although each one it closes says more of the types of the others.       *)
(***************************************************************************)
THEOREM ClosesCorrect == MergedSpec => []ClosesExactly
<1> QED BY ReturnCloses, MergedInductive, PTL

(***************************************************************************)
(* If the tester can read the whole specification, it can read what is     *)
(* extracted from it, but for what Loosened says; so a schema it fails on  *)
(* is one it would have failed on, or is loose.                            *)
(***************************************************************************)
THEOREM SurvivesCorrect == MergedSpec => []SurvivesExtraction
<1> QED BY FailSurvives, MergedInductive, PTL

(***************************************************************************)
(* Inside the tester, too, the extraction keeps what it should, and every  *)
(* reference it keeps resolves but to an alias.                            *)
(***************************************************************************)
THEOREM MergedExtractsCorrect == MergedSpec => [](ExtractsExactly /\ ResolvesUnlessAlias)
<1>1. IInv => ExtractsExactly
  BY DEF IInv
<1> QED BY <1>1, ExactResolves, MergedInductive, PTL
=============================================================================
