------------------------ MODULE SupersededOpsProofs ------------------------
(***************************************************************************)
(* Whatever the paths and the entries: the generator makes up no           *)
(* operation and no second path for a template, and entries that do not    *)
(* touch one another each add what they list.                              *)
(***************************************************************************)
EXTENDS SupersededOps, FiniteSetTheorems, TLAPS

(***************************************************************************)
(* What has to be known of the state for it: the order names the paths     *)
(* there are, and what they hold are operations.                           *)
(***************************************************************************)
Shape ==
  /\ given \in Given
  /\ at \in Nat \ {0}
  /\ keys \in Seq(DOMAIN items)
  /\ \A p \in DOMAIN items : \A m \in DOMAIN items[p] :
       items[p][m] \in [of : DOMAIN given.methods, copies : Nat]

\* NothingInvented of one operation.
Genuine(p, m, op) ==
  /\ m \in given.methods[op.of]
  /\ IF op.copies = 0 THEN op.of = p
     ELSE \E e \in Entries : SameParams(e.by, e.path) /\ p = Target(e) /\ m \in e.methods

IInv == Shape /\ NothingInvented

LEMMA GenuineEverywhere ==
  NothingInvented <=> \A p \in DOMAIN items : \A m \in DOMAIN items[p] : Genuine(p, m, items[p][m])
BY DEF NothingInvented, Genuine

LEMMA InitIInv == Init => IInv
<1> SUFFICES ASSUME Init PROVE IInv
  OBVIOUS
<1>1. IsGiven(given)
  BY GivenAssumption DEF Init
<1>2. /\ given.keys \in Seq(Paths)
      /\ DOMAIN given.methods = {given.keys[i] : i \in 1 .. Len(given.keys)}
  BY <1>1 DEF IsGiven
<1>3. DOMAIN items = DOMAIN given.methods
  BY DEF Init, PathItems
<1>4. keys \in Seq(DOMAIN items)
  BY <1>2, <1>3 DEF Init
<1>5. ASSUME NEW p \in DOMAIN items, NEW m \in DOMAIN items[p]
      PROVE  m \in given.methods[p] /\ items[p][m] = [of |-> p, copies |-> 0]
  BY <1>5, <1>3 DEF Init, PathItems
<1>6. ASSUME NEW p \in DOMAIN items, NEW m \in DOMAIN items[p]
      PROVE  /\ items[p][m] \in [of : DOMAIN given.methods, copies : Nat]
             /\ Genuine(p, m, items[p][m])
  <2>1. m \in given.methods[p] /\ items[p][m] = [of |-> p, copies |-> 0]
    BY <1>5, <1>6
  <2>2. items[p][m].of = p /\ items[p][m].copies = 0
    BY <2>1
  <2>3. items[p][m] \in [of : DOMAIN given.methods, copies : Nat]
    BY <1>3, <2>1
  <2> QED
    BY <2>1, <2>2, <2>3 DEF Genuine
<1>7. Shape /\ NothingInvented
  BY <1>4, <1>6, GenuineEverywhere DEF Init, Shape
<1> QED
  BY <1>7 DEF IInv

\* A copy is of an operation of the path that supersedes, with one copy more.
LEMMA CopyOf ==
  ASSUME NEW item, NEW M, NEW m \in DOMAIN path_object(item, M), NEW S,
         item[m] \in [of : S, copies : Nat]
  PROVE  /\ m \in M /\ m \in DOMAIN item
         /\ path_object(item, M)[m] \in [of : S, copies : Nat]
         /\ path_object(item, M)[m].of = item[m].of
         /\ path_object(item, M)[m].copies # 0
BY DEF path_object

LEMMA SupersedeIInv == IInv /\ Supersede => IInv'
<1> SUFFICES ASSUME IInv, Supersede PROVE IInv'
  OBVIOUS
<1> USE DEF IInv
<1>1. PICK i \in 1 .. Len(keys) :
        Put(Target(entry), path_object(items[keys[i]], entry.methods))
  BY DEF Supersede
<1> DEFINE source == items[keys[i]]
           path   == Target(entry)
           copy   == path_object(source, entry.methods)
<1>2. keys[i] \in DOMAIN items
  BY DEF Shape
<1>3. /\ DOMAIN items' = DOMAIN items \cup {path}
      /\ items'[path] = copy
      /\ \A p \in DOMAIN items : p # path => items'[p] = items[p]
  BY <1>1 DEF Put
<1>4. entry \in Entries /\ SameParams(entry.by, entry.path)
  BY DEF Supersede, AtEntry, entry, Entries
<1>5. given' = given /\ at' = at + 1
  BY DEF Supersede
<1>6. ASSUME NEW m \in DOMAIN copy
      PROVE  copy[m] \in [of : DOMAIN given.methods, copies : Nat] /\ Genuine(path, m, copy[m])
  <2>1. m \in DOMAIN source
    BY <1>6 DEF path_object
  <2>2. source[m] \in [of : DOMAIN given.methods, copies : Nat] /\ Genuine(keys[i], m, source[m])
    BY <1>2, <2>1, GenuineEverywhere DEF Shape
  <2>3. /\ m \in entry.methods
        /\ copy[m] \in [of : DOMAIN given.methods, copies : Nat]
        /\ copy[m].of = source[m].of /\ copy[m].copies # 0
    BY <1>6, <2>2, CopyOf
  <2> QED
    BY <1>4, <2>2, <2>3 DEF Genuine
<1> HIDE DEF source, path, copy
<1>7. keys' \in Seq(DOMAIN items')
  <2>1. keys \in Seq(DOMAIN items') /\ path \in DOMAIN items'
    BY <1>3 DEF Shape
  <2>2. keys' = keys \/ keys' = Append(keys, path)
    BY <1>1 DEF Put, path
  <2> QED
    BY <2>1, <2>2
<1>8. ASSUME NEW p \in DOMAIN items', NEW m \in DOMAIN items'[p]
      PROVE  /\ items'[p][m] \in [of : DOMAIN given.methods, copies : Nat]
             /\ Genuine(p, m, items'[p][m])
  <2>1. CASE p = path
    BY <1>3, <1>6, <1>8, <2>1
  <2>2. CASE p # path
    <3>1. p \in DOMAIN items /\ m \in DOMAIN items[p] /\ items'[p] = items[p]
      BY <1>3, <1>8, <2>2
    <3> QED
      BY <3>1, GenuineEverywhere DEF Shape
  <2> QED
    BY <2>1, <2>2
<1>9. Shape'
  BY <1>5, <1>7, <1>8 DEF Shape
<1>10. NothingInvented'
  BY <1>5, <1>8 DEF NothingInvented, Genuine, Entries
<1> QED
  BY <1>9, <1>10

LEMMA NextIInv == IInv /\ [Next]_vars => IInv'
<1> SUFFICES ASSUME IInv, [Next]_vars PROVE IInv'
  OBVIOUS
<1>1. CASE Supersede
  BY <1>1, SupersedeIInv
<1>2. CASE Warn
  BY <1>2 DEF Warn, IInv, Shape, NothingInvented, Entries
<1>3. CASE Mismatch
  BY <1>3 DEF Mismatch, IInv, Shape, NothingInvented, Entries
<1>4. CASE Finish
  BY <1>4 DEF Finish, IInv, Shape, NothingInvented, Entries
<1>5. CASE UNCHANGED vars
  BY <1>5 DEF vars, IInv, Shape, NothingInvented, Entries
<1> QED
  BY <1>1, <1>2, <1>3, <1>4, <1>5 DEF Next

(***************************************************************************)
(* Whatever the specification and the entries, and however they overwrite  *)
(* one another: each operation is one of the specification, with the same  *)
(* method, moved only to the path of an entry that lists it.               *)
(***************************************************************************)
THEOREM NothingInventedCorrect == Spec => []NothingInvented
<1>1. IInv => NothingInvented
  BY DEF IInv
<1> QED
  BY <1>1, InitIInv, NextIInv, PTL DEF Spec

-----------------------------------------------------------------------------
\* A set of naturals that is not empty has a least element.
LEMMA Least ==
  ASSUME NEW T \in SUBSET Nat, NEW k \in T
  PROVE  \E n \in T : \A m \in T : n <= m
<1> DEFINE R == OpToRel(<, Nat)
<1>1. IsWellFoundedOn(R, Nat)
  BY NatLessThanWellFounded
<1>2. \A m, n \in Nat : <<m, n>> \in R <=> m < n
  BY DEF OpToRel
<1> HIDE DEF R
<1>3. PICK n \in T : \A m \in T : <<m, n>> \notin R
  BY <1>1, WFMin
<1>4. ASSUME NEW m \in T PROVE n <= m
  <2>1. m \in Nat /\ n \in Nat /\ ~(m < n)
    BY <1>2, <1>3
  <2> QED
    BY <2>1
<1> QED
  BY <1>4

\* Parameters are numbered one after the other.
LEMMA Numbers ==
  ASSUME NEW path, Len(path) \in Nat
  PROVE  /\ \A i \in Nat : ParamNumber(path, i) \in Nat
         /\ ParamNumber(path, 0) = 0
         /\ ParamNumber(path, Len(path)) = Cardinality(ParamsOf(path))
         /\ \A i \in Nat : ParamNumber(path, i) <= Cardinality(ParamsOf(path))
         /\ \A i \in Nat : ParamNumber(path, i + 1) =
              IF i + 1 \in ParamsOf(path) THEN ParamNumber(path, i) + 1 ELSE ParamNumber(path, i)
         /\ \A i \in Nat, j \in ParamsOf(path) :
              i < j => ParamNumber(path, i) < ParamNumber(path, j)
<1> DEFINE P == ParamsOf(path)
           Upto(i) == {j \in P : j <= i}
<1>1. /\ IsFiniteSet(P) /\ P \in SUBSET Nat /\ Cardinality(P) \in Nat
      /\ \A j \in P : j # 0 /\ j <= Len(path)
  <2>1. IsFiniteSet(1 .. Len(path)) /\ P \in SUBSET (1 .. Len(path))
    BY FS_Interval DEF ParamsOf
  <2>2. IsFiniteSet(P)
    BY <2>1, FS_Subset
  <2> QED
    BY <2>1, <2>2, FS_CardinalityType
<1>2. \A i \in Nat : ParamNumber(path, i) = Cardinality(Upto(i))
  BY DEF ParamNumber
<1> HIDE DEF P
<1>8. \A j \in P : j \in Nat /\ 0 < j /\ j <= Len(path)
  BY <1>1
<1>9. \A i, j : j \in Upto(i) <=> j \in P /\ j <= i
  OBVIOUS
<1>3. ASSUME NEW i \in Nat
      PROVE  /\ IsFiniteSet(Upto(i)) /\ Cardinality(Upto(i)) \in Nat
             /\ Cardinality(Upto(i)) <= Cardinality(P)
  <2>1. Upto(i) \in SUBSET P
    OBVIOUS
  <2> HIDE DEF Upto
  <2> QED
    BY <1>1, <2>1, FS_Subset, FS_CardinalityType
<1>4. Cardinality(Upto(0)) = 0
  <2>1. \A j \in P : ~(j <= 0)
    BY <1>8
  <2>2. Upto(0) = {}
    BY <2>1
  <2> QED
    BY <2>2, FS_EmptySet
<1>5. Upto(Len(path)) = P
  BY <1>8
<1>6. ASSUME NEW i \in Nat
      PROVE  Cardinality(Upto(i + 1)) =
               IF i + 1 \in P THEN Cardinality(Upto(i)) + 1 ELSE Cardinality(Upto(i))
  <2>3. \A j \in P : j <= i + 1 <=> j <= i \/ j = i + 1
    BY <1>6, <1>8
  <2>4. ~(i + 1 <= i)
    BY <1>6
  <2> HIDE DEF Upto
  <2>1. CASE i + 1 \in P
    <3>1. \A j : j \in Upto(i + 1) <=> j \in Upto(i) \/ j = i + 1
      BY <1>9, <2>1, <2>3
    <3>2. Upto(i + 1) = Upto(i) \cup {i + 1}
      BY <3>1
    <3>3. i + 1 \notin Upto(i)
      BY <1>9, <2>4
    <3> QED
      BY <1>3, <2>1, <3>2, <3>3, FS_AddElement
  <2>2. CASE i + 1 \notin P
    <3>1. \A j : j \in Upto(i + 1) <=> j \in Upto(i)
      BY <1>9, <2>2, <2>3
    <3>2. Upto(i + 1) = Upto(i)
      BY <3>1
    <3> QED
      BY <2>2, <3>2
  <2> QED
    BY <2>1, <2>2
<1>7. ASSUME NEW i \in Nat, NEW j \in P, i < j
      PROVE  Cardinality(Upto(i)) < Cardinality(Upto(j))
  <2>3. j \in Nat /\ j <= j /\ ~(j <= i) /\ \A k \in P : k <= i => k <= j
    BY <1>7, <1>8
  <2> HIDE DEF Upto
  <2>4. j \in Upto(j) /\ j \notin Upto(i)
    BY <1>7, <1>9, <2>3
  <2>5. \A k \in Upto(i) : k \in Upto(j)
    BY <1>9, <2>3
  <2>1. Upto(i) \in SUBSET Upto(j) /\ Upto(i) # Upto(j) /\ j \in Nat
    BY <2>3, <2>4, <2>5
  <2>2. /\ Cardinality(Upto(i)) <= Cardinality(Upto(j))
        /\ Cardinality(Upto(j)) # Cardinality(Upto(i))
    BY <1>3, <2>1, FS_Subset
  <2> QED
    BY <1>3, <2>1, <2>2
<1> HIDE DEF Upto
<1>10. \A i \in Nat : ParamNumber(path, i) \in Nat /\ ParamNumber(path, i) <= Cardinality(P)
  BY <1>2, <1>3
<1>11. ParamNumber(path, 0) = 0 /\ ParamNumber(path, Len(path)) = Cardinality(P)
  BY <1>2, <1>4, <1>5
<1>12. \A i \in Nat : ParamNumber(path, i + 1) =
         IF i + 1 \in P THEN ParamNumber(path, i) + 1 ELSE ParamNumber(path, i)
  <2> SUFFICES ASSUME NEW i \in Nat
      PROVE ParamNumber(path, i + 1) =
              IF i + 1 \in P THEN ParamNumber(path, i) + 1 ELSE ParamNumber(path, i)
    OBVIOUS
  <2>1. i + 1 \in Nat
    OBVIOUS
  <2> QED
    BY <1>2, <1>6, <2>1
<1>13. \A i \in Nat, j \in P : i < j => ParamNumber(path, i) < ParamNumber(path, j)
  BY <1>2, <1>7, <1>8
<1> QED
  BY <1>10, <1>11, <1>12, <1>13 DEF P

\* No number is left out, and none is given twice.
LEMMA NumbersOnto ==
  ASSUME NEW path, Len(path) \in Nat, NEW k \in 1 .. Cardinality(ParamsOf(path))
  PROVE  \E j \in ParamsOf(path) : ParamNumber(path, j) = k
<1> DEFINE T == {i \in Nat : k <= ParamNumber(path, i)}
<1>1. k \in Nat /\ k # 0 /\ k <= Cardinality(ParamsOf(path))
  BY Numbers
<1>2. Len(path) \in T
  BY <1>1, Numbers
<1>3. PICK j \in T : \A i \in T : j <= i
  <2> HIDE DEF T
  <2>1. T \in SUBSET Nat
    BY DEF T
  <2> QED
    BY <1>2, <2>1, Least
<1>4. j \in Nat /\ k <= ParamNumber(path, j)
  OBVIOUS
<1>5. j # 0
  BY <1>1, <1>4, Numbers
<1> DEFINE i == j - 1
<1>6. i \in Nat /\ i + 1 = j /\ i < j
  BY <1>4, <1>5
<1>7. ~(k <= ParamNumber(path, i))
  BY <1>3, <1>6
<1>8. ParamNumber(path, i) \in Nat /\ ParamNumber(path, j) =
         IF j \in ParamsOf(path) THEN ParamNumber(path, i) + 1 ELSE ParamNumber(path, i)
  BY <1>6, Numbers
<1> HIDE DEF i
<1> QED
  BY <1>1, <1>4, <1>7, <1>8

\* Two parameters of a path have two numbers.
LEMMA NumbersApart ==
  ASSUME NEW path, Len(path) \in Nat, NEW i \in ParamsOf(path), NEW j \in ParamsOf(path),
         ParamNumber(path, i) = ParamNumber(path, j)
  PROVE  i = j
<1>1. i \in Nat /\ j \in Nat
  BY DEF ParamsOf
<1>2. ParamNumber(path, i) \in Nat /\ ParamNumber(path, j) \in Nat
  BY <1>1, Numbers
<1>3. i < j => ParamNumber(path, i) < ParamNumber(path, j)
  BY <1>1, Numbers
<1>4. j < i => ParamNumber(path, j) < ParamNumber(path, i)
  BY <1>1, Numbers
<1> QED
  BY <1>1, <1>2, <1>3, <1>4

\* A parameter has a number of its own path.
LEMMA NumberInRange ==
  ASSUME NEW path, Len(path) \in Nat, NEW i \in ParamsOf(path)
  PROVE  ParamNumber(path, i) \in 1 .. Cardinality(ParamsOf(path))
<1>1. i \in Nat /\ 0 < i /\ 0 \in Nat
  BY DEF ParamsOf
<1>2. ParamNumber(path, 0) < ParamNumber(path, i) /\ ParamNumber(path, 0) = 0
  BY <1>1, Numbers
<1>3. ParamNumber(path, i) \in Nat /\ ParamNumber(path, i) <= Cardinality(ParamsOf(path))
  BY <1>1, Numbers
<1>4. Cardinality(ParamsOf(path)) \in Nat
  BY Numbers
<1> QED
  BY <1>2, <1>3, <1>4

(***************************************************************************)
(* copy_params: literals stay, each parameter of the target gets the name  *)
(* of one of the source, and each of the source gives its name to one.     *)
(***************************************************************************)
LEMMA Copied ==
  ASSUME NEW source, Len(source) \in Nat, NEW target, Len(target) \in Nat,
         SameParams(source, target)
  PROVE  /\ \A i \in ParamsOf(target) :
              \E j \in ParamsOf(source) : CopyParams(source, target)[i] = source[j]
         /\ \A j \in ParamsOf(source) :
              \E i \in ParamsOf(target) : CopyParams(source, target)[i] = source[j]
         /\ \A i \in 1 .. Len(target) :
              i \notin ParamsOf(target) => CopyParams(source, target)[i] = target[i]
         /\ CopyParams(source, target) = [i \in 1 .. Len(target) |-> CopyParams(source, target)[i]]
<1> DEFINE Same(i, j) == ParamNumber(source, j) = ParamNumber(target, i)
           same(i) == CHOOSE j \in ParamsOf(source) : Same(i, j)
<1>1. CopyParams(source, target) =
        [i \in 1 .. Len(target) |-> IF i \in ParamsOf(target) THEN source[same(i)] ELSE target[i]]
  BY DEF CopyParams
<1>2. ASSUME NEW i \in ParamsOf(target) PROVE same(i) \in ParamsOf(source) /\ Same(i, same(i))
  <2>1. ParamNumber(target, i) \in 1 .. Cardinality(ParamsOf(source))
    BY NumberInRange DEF SameParams
  <2>2. \E j \in ParamsOf(source) : Same(i, j)
    BY <2>1, NumbersOnto
  <2> HIDE DEF Same
  <2> QED
    BY <2>2
<1>3. ASSUME NEW j \in ParamsOf(source) PROVE \E i \in ParamsOf(target) : same(i) = j
  <2>1. ParamNumber(source, j) \in 1 .. Cardinality(ParamsOf(target))
    BY NumberInRange DEF SameParams
  <2>2. PICK i \in ParamsOf(target) : Same(i, j)
    BY <2>1, NumbersOnto
  <2>3. same(i) \in ParamsOf(source) /\ ParamNumber(source, same(i)) = ParamNumber(source, j)
    BY <1>2, <2>2
  <2> HIDE DEF same
  <2> QED
    BY <2>3, NumbersApart
<1>4. \A i \in ParamsOf(target) : i \in 1 .. Len(target)
  BY DEF ParamsOf
<1> HIDE DEF same
<1> QED
  BY <1>1, <1>2, <1>3, <1>4

-----------------------------------------------------------------------------
\* What the assumption says of what the generator started from.
LEMMA GivenFacts ==
  ASSUME given \in Given
  PROVE  /\ Len(given.entries) \in Nat
         /\ \A j \in 1 .. Len(given.entries) :
              given.entries[j] \in [path : Paths, by : Paths, methods : SUBSET Methods]
         /\ given.keys \in Seq(Paths) /\ Len(given.keys) \in Nat
         /\ \A i \in 1 .. Len(given.keys) : given.keys[i] \in DOMAIN given.methods
         /\ DOMAIN given.methods \subseteq Paths
<1>1. IsGiven(given)
  BY GivenAssumption
<1>2. /\ given.keys \in Seq(Paths)
      /\ given.entries \in Seq([path : Paths, by : Paths, methods : SUBSET Methods])
      /\ DOMAIN given.methods = {given.keys[i] : i \in 1 .. Len(given.keys)}
  BY <1>1 DEF IsGiven
<1>3. /\ Len(given.entries) \in Nat
      /\ \A j \in 1 .. Len(given.entries) :
           given.entries[j] \in [path : Paths, by : Paths, methods : SUBSET Methods]
  <2> DEFINE S == [path : Paths, by : Paths, methods : SUBSET Methods]
  <2>1. given.entries \in Seq(S)
    BY <1>2
  <2> HIDE DEF S
  <2>2. Len(given.entries) \in Nat /\ \A j \in 1 .. Len(given.entries) : given.entries[j] \in S
    BY <2>1
  <2> QED
    BY <2>2 DEF S
<1>4. Len(given.keys) \in Nat /\ \A i \in 1 .. Len(given.keys) : given.keys[i] \in Paths
  <2> HIDE DEF Paths
  <2> QED
    BY <1>2
<1>5. \A i \in 1 .. Len(given.keys) : given.keys[i] \in DOMAIN given.methods
  BY <1>2
<1> QED
  BY <1>2, <1>3, <1>4, <1>5

\* The path an operation is copied to has the literals of the path listed.
LEMMA TargetTemplate ==
  ASSUME NEW e \in [path : Paths, by : Paths, methods : SUBSET Methods], SameParams(e.by, e.path)
  PROVE  /\ Target(e) \in Paths
         /\ Len(Target(e)) = Len(e.path)
         /\ \A i \in 1 .. Len(e.path) : IF e.path[i] \in Params
                                        THEN Target(e)[i] \in Params ELSE Target(e)[i] = e.path[i]
<1>1. /\ e.path \in Seq(Literals \cup Params) /\ e.by \in Seq(Literals \cup Params)
      /\ Len(e.path) \in Nat /\ Len(e.by) \in Nat
  BY DEF Paths
<1> DEFINE t == CopyParams(e.by, e.path)
<1>2. /\ \A i \in ParamsOf(e.path) : \E j \in ParamsOf(e.by) : t[i] = e.by[j]
      /\ \A i \in 1 .. Len(e.path) : i \notin ParamsOf(e.path) => t[i] = e.path[i]
      /\ t = [i \in 1 .. Len(e.path) |-> t[i]]
  BY <1>1, Copied
<1> HIDE DEF t
<1>3. \A i \in 1 .. Len(e.path) : IF e.path[i] \in Params THEN t[i] \in Params ELSE t[i] = e.path[i]
  BY <1>2 DEF ParamsOf
<1>4. \A i \in 1 .. Len(e.path) : t[i] \in Literals \cup Params
  BY <1>1, <1>3
<1>5. t \in Seq(Literals \cup Params) /\ Len(t) = Len(e.path)
  BY <1>1, <1>2, <1>4
<1>6. Target(e) = t
  BY DEF Target, t
<1> QED
  BY <1>3, <1>5, <1>6 DEF Paths

\* To be of one template is symmetric and transitive.
LEMMA TemplateSymmetric ==
  ASSUME NEW p, NEW q, SameTemplate(p, q)
  PROVE  SameTemplate(q, p)
BY DEF SameTemplate

LEMMA TemplateTransitive ==
  ASSUME NEW p, NEW q, NEW r, SameTemplate(p, q), SameTemplate(q, r)
  PROVE  SameTemplate(p, r)
BY DEF SameTemplate

(***************************************************************************)
(* Each path is one of the specification, or the copy of one entry.        *)
(***************************************************************************)
Origins ==
  /\ given \in Given
  /\ \A p \in DOMAIN items \ DOMAIN given.methods :
       \E j \in 1 .. Len(given.entries) :
         /\ SameParams(given.entries[j].by, given.entries[j].path)
         /\ p = Target(given.entries[j])

LEMMA InitOrigins == Init => Origins
BY DEF Init, Origins, PathItems

LEMMA NextOrigins == Origins /\ [Next]_vars => Origins'
<1> SUFFICES ASSUME Origins, [Next]_vars PROVE Origins'
  OBVIOUS
<1>1. CASE Supersede
  <2>1. PICK item : Put(Target(entry), item)
    BY <1>1 DEF Supersede
  <2>2. given' = given /\ DOMAIN items' = DOMAIN items \cup {Target(entry)}
    BY <1>1, <2>1 DEF Supersede, Put
  <2>3. at \in 1 .. Len(given.entries) /\ SameParams(entry.by, entry.path)
    BY <1>1 DEF Supersede, AtEntry
  <2> QED
    BY <2>2, <2>3 DEF Origins, entry
<1>2. CASE Warn
  BY <1>2 DEF Warn, Origins
<1>3. CASE Mismatch
  BY <1>3 DEF Mismatch, Origins
<1>4. CASE Finish
  BY <1>4 DEF Finish, Origins
<1>5. CASE UNCHANGED vars
  BY <1>5 DEF vars, Origins
<1> QED
  BY <1>1, <1>2, <1>3, <1>4, <1>5 DEF Next

\* Two paths of one origin are one path.
LEMMA OriginsNoDuplicates == Origins => NoDuplicatePaths
<1> SUFFICES ASSUME Origins,
                    \A p, q \in DOMAIN given.methods : SameTemplate(p, q) => p = q,
                    \A i, j \in 1 .. Len(given.entries) :
                      SameTemplate(given.entries[i].path, given.entries[j].path) => i = j,
                    \A i \in 1 .. Len(given.entries), p \in DOMAIN given.methods :
                      ~SameTemplate(given.entries[i].path, p),
                    NEW p \in DOMAIN items, NEW q \in DOMAIN items, SameTemplate(p, q)
             PROVE  p = q
  BY DEF NoDuplicatePaths
<1> DEFINE E(j) == given.entries[j]
           Made(r, j) == SameParams(E(j).by, E(j).path) /\ r = Target(E(j))
<1>1. ASSUME NEW r \in DOMAIN items, r \notin DOMAIN given.methods
      PROVE  \E j \in 1 .. Len(given.entries) :
               r = Target(E(j)) /\ SameTemplate(r, E(j).path)
  <2>1. PICK j \in 1 .. Len(given.entries) : Made(r, j)
    BY <1>1 DEF Origins
  <2>2. E(j) \in [path : Paths, by : Paths, methods : SUBSET Methods]
    BY GivenFacts DEF Origins
  <2> DEFINE e == E(j)
  <2>3. /\ Len(Target(e)) = Len(e.path)
        /\ \A i \in 1 .. Len(e.path) : IF e.path[i] \in Params
                                       THEN Target(e)[i] \in Params ELSE Target(e)[i] = e.path[i]
    BY <2>1, <2>2, TargetTemplate
  <2>4. SameTemplate(Target(e), e.path)
    BY <2>3 DEF SameTemplate
  <2> QED
    BY <2>1, <2>4
<1>2. CASE p \in DOMAIN given.methods /\ q \in DOMAIN given.methods
  BY <1>2
<1>3. CASE p \notin DOMAIN given.methods /\ q \in DOMAIN given.methods
  <2>1. PICK j \in 1 .. Len(given.entries) : SameTemplate(p, E(j).path)
    BY <1>1, <1>3
  <2> QED
    BY <1>3, <2>1, TemplateSymmetric, TemplateTransitive
<1>4. CASE p \in DOMAIN given.methods /\ q \notin DOMAIN given.methods
  <2>1. PICK j \in 1 .. Len(given.entries) : SameTemplate(q, E(j).path)
    BY <1>1, <1>4
  <2> QED
    BY <1>4, <2>1, TemplateSymmetric, TemplateTransitive
<1>5. CASE p \notin DOMAIN given.methods /\ q \notin DOMAIN given.methods
  <2>1. PICK i \in 1 .. Len(given.entries) : p = Target(E(i)) /\ SameTemplate(p, E(i).path)
    BY <1>1, <1>5
  <2>2. PICK j \in 1 .. Len(given.entries) : q = Target(E(j)) /\ SameTemplate(q, E(j).path)
    BY <1>1, <1>5
  <2>3. SameTemplate(E(i).path, E(j).path)
    BY <2>1, <2>2, TemplateSymmetric, TemplateTransitive
  <2> QED
    BY <2>1, <2>2, <2>3
<1> QED
  BY <1>2, <1>3, <1>4, <1>5

(***************************************************************************)
(* Whatever the specification and the entries: where no template is twice  *)
(* in the specification and the file, none is twice in the result.         *)
(***************************************************************************)
THEOREM NoDuplicates == Spec => []NoDuplicatePaths
<1> QED
  BY InitOrigins, NextOrigins, OriginsNoDuplicates, PTL DEF Spec

-----------------------------------------------------------------------------
\* The copies an entry makes of the operations of a path of the specification.
CopiesOf(g, e, path) ==
  [m \in e.methods \cap g.methods[path] |-> [of |-> path, copies |-> 1]]

\* The first n entries: those that found a path, and those that did not.
Found(n)  == {i \in 1 .. n : HasMatch(given.keys, given.entries[i].by)}
Missed(n) == {i \in 1 .. n : ~HasMatch(given.keys, given.entries[i].by)}

PathsExactly ==
  DOMAIN items = DOMAIN given.methods \cup {Target(given.entries[j]) : j \in Found(at - 1)}

RestAsGiven == \A p \in DOMAIN given.methods : items[p] = PathItems(given)[p]

CopiesExactly ==
  \A j \in 1 .. at - 1, i \in 1 .. Len(given.keys) :
    IsFirst(given.keys, given.entries[j].by, i) =>
      items[Target(given.entries[j])] = CopiesOf(given, given.entries[j], given.keys[i])

\* What the entries handled so far have left.
HandledExactly == warned = Missed(at - 1) /\ PathsExactly /\ RestAsGiven /\ CopiesExactly

\* The order is the one given, with copies behind.
KeysExtended ==
  /\ Len(keys) \in Nat /\ Len(given.keys) <= Len(keys)
  /\ \A i \in 1 .. Len(given.keys) : keys[i] = given.keys[i]
  /\ \A i \in 1 .. Len(keys) :
       i \notin 1 .. Len(given.keys) =>
         \E j \in 1 .. Len(given.entries) : keys[i] = Target(given.entries[j])

EachExactly ==
  /\ given \in Given
  /\ at \in Nat \ {0} /\ at <= Len(given.entries) + 1
  /\ state = "done" => at = Len(given.entries) + 1
  /\ keys \in Seq(DOMAIN items)
  /\ KeysExtended
  /\ Independent => HandledExactly

\* No pattern of independent entries has more than the paths given to match.
LEMMA SameMatches ==
  ASSUME EachExactly, Independent, NEW k \in 1 .. Len(given.entries)
  PROVE  LET by == given.entries[k].by
         IN  /\ HasMatch(keys, by) <=> HasMatch(given.keys, by)
             /\ \A i : IsFirst(keys, by, i) <=> IsFirst(given.keys, by, i)
<1> DEFINE by == given.entries[k].by
<1>1. Len(given.keys) \in Nat /\ KeysExtended
  BY GivenFacts DEF EachExactly
<1>2. \A j \in 1 .. Len(given.entries) : ~Matches(by, Target(given.entries[j]))
  BY DEF Independent
<1> HIDE DEF by
<1>3. \A i \in 1 .. Len(keys) : Matches(by, keys[i]) => i \in 1 .. Len(given.keys)
  BY <1>1, <1>2 DEF KeysExtended
<1>4. \A i \in 1 .. Len(given.keys) : i \in 1 .. Len(keys) /\ keys[i] = given.keys[i]
  BY <1>1 DEF KeysExtended
<1>5. HasMatch(keys, by) <=> HasMatch(given.keys, by)
  BY <1>3, <1>4 DEF HasMatch
<1>6. \A i \in 1 .. Len(given.keys) : 1 .. i - 1 \subseteq 1 .. Len(given.keys)
  BY <1>1
<1>7. \A i : IsFirst(keys, by, i) <=> IsFirst(given.keys, by, i)
  BY <1>3, <1>4, <1>6 DEF IsFirst
<1> QED
  BY <1>5, <1>7 DEF by

\* A pattern has one first match.
LEMMA FirstIsOne ==
  ASSUME NEW order, Len(order) \in Nat, NEW pattern,
         NEW i, IsFirst(order, pattern, i), NEW j, IsFirst(order, pattern, j)
  PROVE  i = j
<1>1. i \in 1 .. Len(order) /\ j \in 1 .. Len(order)
  BY DEF IsFirst
<1>2. ~(i \in 1 .. j - 1) /\ ~(j \in 1 .. i - 1)
  BY DEF IsFirst
<1> QED
  BY <1>1, <1>2

\* What holds of the entries handled so far is inductive.
LEMMA InitEachExactly == Init => EachExactly
<1> SUFFICES ASSUME Init PROVE EachExactly
  OBVIOUS
<1>1. Shape
  BY InitIInv DEF IInv
<1>2. given \in Given /\ at = 1 /\ state = "running" /\ keys = given.keys /\ warned = {}
  BY DEF Init
<1>3. Len(given.entries) \in Nat /\ Len(given.keys) \in Nat
  BY <1>2, GivenFacts
<1>4. 1 .. at - 1 = {}
  BY <1>2
<1>5. items = PathItems(given) /\ DOMAIN items = DOMAIN given.methods
  BY DEF Init, PathItems
<1>6. HandledExactly
  BY <1>2, <1>4, <1>5 DEF HandledExactly, Found, Missed, PathsExactly, RestAsGiven, CopiesExactly
<1>7. KeysExtended
  BY <1>2, <1>3 DEF KeysExtended
<1> QED
  BY <1>1, <1>2, <1>3, <1>6, <1>7 DEF EachExactly, Shape

\* The copies of a path of the specification that is as it was.
LEMMA CopiesMade ==
  ASSUME NEW e, NEW p \in DOMAIN given.methods
  PROVE  path_object(PathItems(given)[p], e.methods) = CopiesOf(given, e, p)
BY DEF path_object, PathItems, CopiesOf

LEMMA SupersedeEachExactly == EachExactly /\ Supersede => EachExactly'
<1> SUFFICES ASSUME EachExactly, Supersede PROVE EachExactly'
  OBVIOUS
<1> DEFINE E(j) == given.entries[j]
           path == Target(entry)
<1>1. PICK i \in 1 .. Len(keys) :
        /\ IsFirst(keys, entry.by, i)
        /\ Put(Target(entry), path_object(items[keys[i]], entry.methods))
  BY DEF Supersede
<1> DEFINE copy == path_object(items[keys[i]], entry.methods)
<1>2. /\ given' = given /\ warned' = warned /\ state' = "running" /\ at' = at + 1
      /\ at \in 1 .. Len(given.entries) /\ entry = E(at)
  BY DEF Supersede, AtEntry, entry
<1>3. /\ DOMAIN items' = DOMAIN items \cup {path}
      /\ items'[path] = copy
      /\ \A p \in DOMAIN items : p # path => items'[p] = items[p]
      /\ keys' = keys \/ keys' = Append(keys, path)
  BY <1>1 DEF Put
<1>4. given \in Given /\ Len(given.entries) \in Nat /\ Len(given.keys) \in Nat
  BY GivenFacts DEF EachExactly
<1> HIDE DEF path, copy
<1>5. keys' \in Seq(DOMAIN items')
  <2>1. keys \in Seq(DOMAIN items') /\ path \in DOMAIN items'
    BY <1>3 DEF EachExactly
  <2> QED
    BY <1>3, <2>1
<1>6. KeysExtended'
  <2>1. keys \in Seq(DOMAIN items) /\ KeysExtended
    BY DEF EachExactly
  <2>2. \E j \in 1 .. Len(given.entries) : path = Target(E(j))
    BY <1>2 DEF path
  <2>3. CASE keys' = keys
    BY <1>2, <2>1, <2>3 DEF KeysExtended
  <2>4. CASE keys' = Append(keys, path)
    <3>1. /\ Len(keys) \in Nat /\ Len(keys') = Len(keys) + 1 /\ keys'[Len(keys) + 1] = path
          /\ \A n \in 1 .. Len(keys) : keys'[n] = keys[n]
      BY <2>1, <2>4
    <3>2. Len(keys') \in Nat /\ Len(given.keys) <= Len(keys')
      BY <1>4, <2>1, <3>1 DEF KeysExtended
    <3>3. \A n \in 1 .. Len(given.keys) : n \in 1 .. Len(keys) /\ keys[n] = given.keys[n]
      BY <1>4, <2>1 DEF KeysExtended
    <3>4. ASSUME NEW n \in 1 .. Len(keys'), n \notin 1 .. Len(given.keys)
          PROVE  \E j \in 1 .. Len(given.entries) : keys'[n] = Target(E(j))
      <4>1. n \in 1 .. Len(keys) \/ n = Len(keys) + 1
        BY <3>1
      <4> QED
        BY <2>1, <2>2, <3>1, <3>4, <4>1 DEF KeysExtended
    <3> QED
      BY <1>2, <3>1, <3>2, <3>3, <3>4 DEF KeysExtended
  <2> QED
    BY <1>3, <2>3, <2>4
<1>7. ASSUME Independent PROVE HandledExactly'
  <2>1. HandledExactly
    BY <1>7 DEF EachExactly
  <2>2. IsFirst(given.keys, entry.by, i)
    BY <1>1, <1>2, <1>7, SameMatches
  <2>3. i \in 1 .. Len(given.keys) /\ HasMatch(given.keys, entry.by) /\ keys[i] = given.keys[i]
    BY <2>2 DEF IsFirst, HasMatch, EachExactly, KeysExtended
  <2>4. given.keys[i] \in DOMAIN given.methods
    BY <1>4, <2>3, GivenFacts
  <2>5. copy = CopiesOf(given, entry, given.keys[i])
    BY <2>1, <2>3, <2>4, CopiesMade DEF copy, HandledExactly, RestAsGiven
  <2>6. path \notin DOMAIN given.methods /\ \A j \in 1 .. at - 1 : Target(E(j)) # path
    BY <1>2, <1>4, <1>7 DEF Independent, path
  <2>7. 1 .. at' - 1 = (1 .. at - 1) \cup {at} /\ at \notin 1 .. at - 1
    BY <1>2, <1>4
  <2>8. Found(at' - 1) = Found(at - 1) \cup {at} /\ Missed(at' - 1) = Missed(at - 1)
    BY <1>2, <2>3, <2>7 DEF Found, Missed
  <2>9. \A n : Found(n)' = Found(n) /\ Missed(n)' = Missed(n)
    BY <1>2 DEF Found, Missed
  <2>10. (warned = Missed(at - 1))'
    BY <1>2, <2>1, <2>8, <2>9 DEF HandledExactly
  <2>11. PathsExactly'
    <3>1. DOMAIN items = DOMAIN given.methods \cup {Target(E(j)) : j \in Found(at - 1)}
      BY <2>1 DEF HandledExactly, PathsExactly
    <3>2. path = Target(E(at))
      BY <1>2 DEF path
    <3>3. DOMAIN items' = DOMAIN given.methods \cup {Target(E(j)) : j \in Found(at' - 1)}
      BY <1>3, <2>8, <3>1, <3>2
    <3> QED
      BY <1>2, <2>9, <3>3 DEF PathsExactly
  <2>13. RestAsGiven'
    <3>1. \A p \in DOMAIN given.methods : p \in DOMAIN items /\ p # path
      BY <2>1, <2>6 DEF HandledExactly, PathsExactly
    <3> QED
      BY <1>2, <1>3, <2>1, <3>1 DEF HandledExactly, RestAsGiven
  <2>12. ASSUME NEW j \in 1 .. at' - 1, NEW k \in 1 .. Len(given.keys),
                IsFirst(given.keys, E(j).by, k)
         PROVE  items'[Target(E(j))] = CopiesOf(given, E(j), given.keys[k])
    <3>1. CASE j = at
      <4>1. k = i
        BY <1>2, <1>4, <2>2, <2>12, <3>1, FirstIsOne
      <4> QED
        BY <1>2, <1>3, <2>5, <3>1, <4>1 DEF path
    <3>2. CASE j \in 1 .. at - 1
      <4>1. HasMatch(given.keys, E(j).by)
        BY <2>12 DEF IsFirst, HasMatch
      <4>2. Target(E(j)) \in DOMAIN items /\ Target(E(j)) # path
        BY <2>1, <2>6, <3>2, <4>1 DEF HandledExactly, PathsExactly, Found
      <4>3. items[Target(E(j))] = CopiesOf(given, E(j), given.keys[k])
        BY <2>1, <2>12, <3>2 DEF HandledExactly, CopiesExactly
      <4> QED
        BY <1>3, <4>2, <4>3
    <3> QED
      BY <2>7, <3>1, <3>2
  <2>14. CopiesExactly'
    BY <1>2, <2>12 DEF CopiesExactly
  <2> QED
    BY <2>10, <2>11, <2>13, <2>14 DEF HandledExactly
<1>8. Independent' <=> Independent
  BY <1>2 DEF Independent
<1> QED
  BY <1>2, <1>4, <1>5, <1>6, <1>7, <1>8 DEF EachExactly

LEMMA WarnEachExactly == EachExactly /\ Warn => EachExactly'
<1> SUFFICES ASSUME EachExactly, Warn PROVE EachExactly'
  OBVIOUS
<1> DEFINE E(j) == given.entries[j]
<1>1. /\ given' = given /\ keys' = keys /\ items' = items /\ state' = "running" /\ at' = at + 1
      /\ at \in 1 .. Len(given.entries) /\ entry = E(at) /\ warned' = warned \cup {at}
      /\ ~HasMatch(keys, entry.by)
  BY DEF Warn, AtEntry, entry
<1>2. given \in Given /\ Len(given.entries) \in Nat
  BY GivenFacts DEF EachExactly
<1>3. ASSUME Independent PROVE HandledExactly'
  <2>1. HandledExactly
    BY <1>3 DEF EachExactly
  <2>2. ~HasMatch(given.keys, entry.by)
    BY <1>1, <1>3, SameMatches
  <2>3. 1 .. at' - 1 = (1 .. at - 1) \cup {at}
    BY <1>1, <1>2
  <2>4. Found(at' - 1) = Found(at - 1) /\ Missed(at' - 1) = Missed(at - 1) \cup {at}
    BY <1>1, <2>2, <2>3 DEF Found, Missed
  <2>9. \A n : Found(n)' = Found(n) /\ Missed(n)' = Missed(n)
    BY <1>1 DEF Found, Missed
  <2>5. (warned = Missed(at - 1))'
    BY <1>1, <2>1, <2>4, <2>9 DEF HandledExactly
  <2>6. PathsExactly'
    BY <1>1, <2>1, <2>4, <2>9 DEF HandledExactly, PathsExactly
  <2>7. \A j \in 1 .. at' - 1, k \in 1 .. Len(given.keys) :
          IsFirst(given.keys, E(j).by, k) =>
            items'[Target(E(j))] = CopiesOf(given, E(j), given.keys[k])
    <3>1. \A k : ~IsFirst(given.keys, E(at).by, k)
      BY <1>1, <2>2 DEF IsFirst, HasMatch
    <3> QED
      BY <1>1, <2>1, <2>3, <3>1 DEF HandledExactly, CopiesExactly
  <2>8. RestAsGiven'
    BY <1>1, <2>1 DEF HandledExactly, RestAsGiven
  <2>10. CopiesExactly'
    BY <1>1, <2>7 DEF CopiesExactly
  <2> QED
    BY <2>5, <2>6, <2>8, <2>10 DEF HandledExactly
<1>4. (Independent' <=> Independent) /\ (KeysExtended' <=> KeysExtended)
  BY <1>1 DEF Independent, KeysExtended
<1> QED
  BY <1>1, <1>2, <1>3, <1>4 DEF EachExactly

LEMMA NextEachExactly == EachExactly /\ [Next]_vars => EachExactly'
<1> SUFFICES ASSUME EachExactly, [Next]_vars PROVE EachExactly'
  OBVIOUS
<1>1. CASE Supersede
  BY <1>1, SupersedeEachExactly
<1>2. CASE Warn
  BY <1>2, WarnEachExactly
<1>3. CASE UNCHANGED <<given, keys, items, at, warned>>
           /\ (state' = "done" => state = "done" \/ at = Len(given.entries) + 1)
  <2>1. (Independent' <=> Independent) /\ (KeysExtended' <=> KeysExtended)
    BY <1>3 DEF Independent, KeysExtended
  <2>2. HandledExactly' <=> HandledExactly
    <3>1. \A n : Found(n)' = Found(n) /\ Missed(n)' = Missed(n)
      BY <1>3 DEF Found, Missed
    <3>2. (PathsExactly' <=> PathsExactly) /\ (RestAsGiven' <=> RestAsGiven)
      BY <1>3, <3>1 DEF PathsExactly, RestAsGiven
    <3>3. CopiesExactly' <=> CopiesExactly
      BY <1>3 DEF CopiesExactly
    <3> QED
      BY <1>3, <3>1, <3>2, <3>3 DEF HandledExactly
  <2>3. at \in Nat \ {0} /\ at <= Len(given.entries) + 1 /\ keys \in Seq(DOMAIN items)
    BY DEF EachExactly
  <2>4. state' = "done" => at = Len(given.entries) + 1
    BY <1>3 DEF EachExactly
  <2> QED
    BY <1>3, <2>1, <2>2, <2>3, <2>4 DEF EachExactly
<1>4. Mismatch \/ Finish \/ UNCHANGED vars => <1>3!1
  BY DEF Mismatch, Finish, vars
<1> QED
  BY <1>1, <1>2, <1>3, <1>4 DEF Next

LEMMA EachSupersedesExactly == EachExactly => SupersedesExactly
<1> SUFFICES ASSUME EachExactly, state = "done", Independent PROVE SupersedesExactly
  BY DEF SupersedesExactly
<1>1. HandledExactly /\ at = Len(given.entries) + 1 /\ Len(given.entries) \in Nat
  BY GivenFacts DEF EachExactly
<1>2. 1 .. at - 1 = 1 .. Len(given.entries)
  BY <1>1
<1>3. warned = {i \in 1 .. Len(given.entries) : ~HasMatch(given.keys, given.entries[i].by)}
  BY <1>1, <1>2 DEF HandledExactly, Missed
<1>4. DOMAIN items = DOMAIN given.methods
         \cup {Target(e) : e \in {d \in Entries : HasMatch(given.keys, d.by)}}
  BY <1>1, <1>2 DEF HandledExactly, PathsExactly, Found, Entries
<1>5. \A e \in Entries : \A i \in 1 .. Len(given.keys) :
         IsFirst(given.keys, e.by, i) => items[Target(e)] = CopiesOf(given, e, given.keys[i])
  BY <1>1, <1>2 DEF HandledExactly, CopiesExactly, Entries
<1>6. ASSUME NEW i \in 1 .. Len(given.entries), NEW e, e = given.entries[i]
      PROVE  /\ ~HasMatch(given.keys, e.by) => i \in warned
             /\ (\E j \in 1 .. Len(given.keys) :
                   IsFirst(given.keys, e.by, j) /\ e.methods \subseteq given.methods[given.keys[j]])
                => i \notin warned
  BY <1>3, <1>6 DEF IsFirst, HasMatch
<1> QED
  BY <1>1, <1>4, <1>5, <1>6 DEF SupersedesExactly, HandledExactly, RestAsGiven, CopiesOf

(***************************************************************************)
(* Whatever the specification and the entries: when the generator is done  *)
(* and no entry touches what another one reads or writes, each whose path  *)
(* is there has added the copies of what it lists and the path has, each   *)
(* other one a warning, and nothing else has changed.                      *)
(***************************************************************************)
THEOREM SupersededExactly == Spec => []SupersedesExactly
<1> QED
  BY InitEachExactly, NextEachExactly, EachSupersedesExactly, PTL DEF Spec
=============================================================================
