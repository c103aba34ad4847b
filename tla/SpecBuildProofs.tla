--------------------------- MODULE SpecBuildProofs ---------------------------
(***************************************************************************)
(* The linter ends without an error on a folder in order, and on no other  *)
(* but one whose invalid schemas may be lost in the merge; it says so of   *)
(* every file that breaks a rule of its own.  A folder that it passes      *)
(* merges, without an exception, into one file without loose references,   *)
(* foreign definitions, lost operations, groups that disagree or           *)
(* operations without the parameters of their path: for all folders, with  *)
(* any number of files and entries.                                        *)
(***************************************************************************)
EXTENDS SpecBuild, FiniteSetTheorems, TLAPS

\* The lemmas about the entries, of the merger's entries.
Superseded ==
  INSTANCE SupersededOpsProofs WITH given <- folder, state <- superseding, Given <- {}

LEMMA NamespaceOf ==
  ASSUME NEW f \in Folders, NEW i \in 1 .. Len(f.namespaces)
  PROVE  IsNamespace(f.namespaces[i])
BY FoldersAssumption DEF IsFolder

LEMMA Count ==
  ASSUME NEW f \in Folders
  PROVE  Len(f.namespaces) \in Nat
<1>1. f.namespaces = [i \in 1 .. Len(f.namespaces) |-> f.namespaces[i]]
  BY FoldersAssumption DEF IsFolder
<1> QED
  BY <1>1

-----------------------------------------------------------------------------
(***************************************************************************)
(* The merger's entries are those the lemmas of SupersededOpsProofs are    *)
(* about.                                                                  *)
(***************************************************************************)
LEMMA SameCopies ==
  ASSUME NEW source, NEW target
  PROVE  /\ Superseded!SameParams(source, target) = Merger!Superseding!SameParams(source, target)
         /\ Superseded!CopyParams(source, target) = Merger!Superseding!CopyParams(source, target)
<1>1. Superseded!SameParams(source, target) = Merger!Superseding!SameParams(source, target)
  BY Zenon DEF Superseded!SameParams, Merger!Superseding!SameParams, Superseded!ParamsOf,
       Merger!Superseding!ParamsOf, Superseded!Cardinality, Merger!Superseding!Cardinality
<1>2. Superseded!CopyParams(source, target) = Merger!Superseding!CopyParams(source, target)
  BY Zenon DEF Superseded!CopyParams, Merger!Superseding!CopyParams, Superseded!ParamNumber,
       Merger!Superseding!ParamNumber, Superseded!ParamsOf, Merger!Superseding!ParamsOf,
       Superseded!Cardinality, Merger!Superseding!Cardinality
<1> QED
  BY <1>1, <1>2

\* The path operations are copied to has the parameters of the one they are of.
LEMMA TargetParams ==
  ASSUME NEW e \in [path : Paths, by : Paths, methods : SUBSET Methods],
         Merger!Superseding!SameParams(e.by, e.path)
  PROVE  ParamSet(Merger!Superseding!Target(e)) = ParamSet(e.by)
<1> DEFINE t == Merger!Superseding!CopyParams(e.by, e.path)
           In(path) == Superseded!ParamsOf(path)
<1>1. Len(e.by) \in Nat /\ Len(e.path) \in Nat
  BY DEF Paths
<1>2. Superseded!SameParams(e.by, e.path)
  BY SameCopies
<1>3. /\ \A i \in In(e.path) : \E j \in In(e.by) : t[i] = e.by[j]
      /\ \A j \in In(e.by) : \E i \in In(e.path) : t[i] = e.by[j]
      /\ \A i \in 1 .. Len(e.path) : i \notin In(e.path) => t[i] = e.path[i]
      /\ t = [i \in 1 .. Len(e.path) |-> t[i]]
  BY <1>1, <1>2, SameCopies, Superseded!Copied, KindsAssumption
<1>4. Len(t) = Len(e.path)
  <2> HIDE DEF t
  <2> QED
    BY <1>1, <1>3
<1>5. \A path : In(path) = {i \in 1 .. Len(path) : path[i] \in Params}
  BY DEF Superseded!ParamsOf
<1> HIDE DEF t, In
<1>6. ASSUME NEW x PROVE x \in ParamSet(t) <=> x \in ParamSet(e.by)
  <2>1. x \in ParamSet(e.by) <=> \E j \in In(e.by) : x = e.by[j]
    BY <1>5 DEF ParamSet
  <2>3. \A j \in In(e.by) : e.by[j] \in Params
    BY <1>5
  <2>4. \A i \in 1 .. Len(e.path) : t[i] \in Params <=> i \in In(e.path)
    BY <1>3, <1>5, <2>3
  <2>5. x \in ParamSet(t) <=> x \in Params /\ \E i \in 1 .. Len(e.path) : x = t[i]
    BY <1>4 DEF ParamSet
  <2>2. x \in ParamSet(t) <=> \E i \in In(e.path) : x = t[i]
    BY <1>5, <2>4, <2>5
  <2> QED
    BY <1>3, <2>1, <2>2
<1>7. Merger!Superseding!Target(e) = t
  BY DEF t, Merger!Superseding!Target
<1> QED
  BY <1>6, <1>7

-----------------------------------------------------------------------------
\* The linter's instance speaks of the folder as this module does.
LEMMA SameOperators ==
  ASSUME NEW n, NEW x
  PROVE  /\ Linter!RefsOf(n) = RefsOf(n) /\ Linter!GroupsOf(n) = GroupsOf(n)
         /\ Linter!OperationsOf(n, x) = OperationsOf(n, x) /\ Linter!PathsOf(n) = PathsOf(n)
         /\ Linter!ParamSet(x) = ParamSet(x) /\ Linter!Template(x) = Template(x)
         /\ Linter!AllNamespaces(x) = AllNamespaces(x) /\ Linter!SchemaRefsOf(x) = SchemaRefsOf(x)
BY DEF Linter!RefsOf, RefsOf, Linter!GroupsOf, GroupsOf, Linter!OperationsOf, OperationsOf,
       Linter!PathsOf, PathsOf, Linter!ParamSet, ParamSet, Linter!Template, Template,
       Linter!AllNamespaces, AllNamespaces, Linter!SchemaRefsOf, SchemaRefsOf

\* What the linter asks of the operations of a file that has no other error.
LinterAsks(n, i) ==
  /\ RefsOf(n) = DOMAIN n.components
  /\ \A c \in DOMAIN n.components : n.components[c].param = PathParam[c]
  /\ \A k \in DOMAIN n.ops :
       /\ n.ops[k].sound /\ Namespace[n.ops[k].group] = i
       /\ \A r \in n.ops[k].refs : r \in Components /\ Group[r] = n.ops[k].group
       /\ {PathParam[r] : r \in n.ops[k].refs} \ {NoParam} = ParamSet(k[1])
  /\ \A k, l \in DOMAIN n.ops :
       n.ops[k].group = n.ops[l].group =>
         /\ n.ops[k].about = n.ops[l].about
         /\ \A r \in n.ops[k].refs : PathParam[r] = NoParam => r \in n.ops[l].refs

\* The parts of OperationsClean, one by one.
LEMMA RefsSay ==
  ASSUME NEW f, NEW i, OperationsClean(f, i)
  PROVE  RefsOf(f.namespaces[i]) = DOMAIN f.namespaces[i].components
BY Zenon DEF OperationsClean

LEMMA OwnerSays ==
  ASSUME NEW f, NEW i, OperationsClean(f, i), NEW k \in DOMAIN f.namespaces[i].ops
  PROVE  /\ f.namespaces[i].ops[k].sound
         /\ Namespace[f.namespaces[i].ops[k].group] = i
         /\ \A r \in f.namespaces[i].ops[k].refs : Group[r] = f.namespaces[i].ops[k].group
BY Zenon DEF OperationsClean

\* The path parameters that an operation of a file refers to.
ParamsAt(n, k) == {n.components[r].param : r \in n.ops[k].refs}

LEMMA ParamsSay ==
  ASSUME NEW f, NEW i, OperationsClean(f, i), NEW k \in DOMAIN f.namespaces[i].ops
  PROVE  ParamsAt(f.namespaces[i], k) \ {NoParam} = ParamSet(k[1])
BY Zenon DEF OperationsClean, ParamsAt

LEMMA GroupSays ==
  ASSUME NEW f, NEW i, OperationsClean(f, i), NEW k \in DOMAIN f.namespaces[i].ops,
         NEW l \in DOMAIN f.namespaces[i].ops,
         f.namespaces[i].ops[k].group = f.namespaces[i].ops[l].group
  PROVE  LET n == f.namespaces[i] IN
         /\ n.ops[k].about = n.ops[l].about
         /\ \A r \in n.ops[k].refs : n.components[r].param = NoParam => r \in n.ops[l].refs
BY Zenon DEF OperationsClean

LEMMA AsksExactly ==
  ASSUME NEW f \in Folders, NEW i \in 1 .. Len(f.namespaces), f.namespaces[i].broken \in {"no", "inline"}
  PROVE  FileClean(f, i) <=> LinterAsks(f.namespaces[i], i)
<1> DEFINE n == f.namespaces[i]
<1>1. DOMAIN n.components \subseteq Components
  BY NamespaceOf DEF IsNamespace, IsReferring, RefsIn
<1>2. ASSUME RefsOf(n) = DOMAIN n.components,
             \A c \in DOMAIN n.components : n.components[c].param = PathParam[c],
             NEW k \in DOMAIN n.ops
      PROVE  /\ \A r \in n.ops[k].refs :
                  r \in Components /\ n.components[r].param = PathParam[r]
             /\ {n.components[r].param : r \in n.ops[k].refs} = {PathParam[r] : r \in n.ops[k].refs}
  <2>1. n.ops[k].refs \subseteq DOMAIN n.components
    BY <1>2 DEF RefsOf
  <2> QED
    BY <1>1, <1>2, <2>1
<1> HIDE DEF n
<1>3. OperationsClean(f, i) /\ (\A c \in DOMAIN n.components : n.components[c].param = PathParam[c])
        => LinterAsks(n, i)
  <2> SUFFICES ASSUME OperationsClean(f, i),
                      \A c \in DOMAIN n.components : n.components[c].param = PathParam[c]
               PROVE  LinterAsks(n, i)
    OBVIOUS
  <2>1. RefsOf(n) = DOMAIN n.components
    BY RefsSay DEF n
  <2>2. ASSUME NEW k \in DOMAIN n.ops
        PROVE  /\ n.ops[k].sound /\ Namespace[n.ops[k].group] = i
               /\ \A r \in n.ops[k].refs : r \in Components /\ Group[r] = n.ops[k].group
               /\ {PathParam[r] : r \in n.ops[k].refs} \ {NoParam} = ParamSet(k[1])
    <3>1. /\ n.ops[k].sound /\ Namespace[n.ops[k].group] = i
          /\ \A r \in n.ops[k].refs : Group[r] = n.ops[k].group
      BY OwnerSays DEF n
    <3>2. ParamsAt(n, k) \ {NoParam} = ParamSet(k[1])
      BY ParamsSay DEF n
    <3>3. /\ \A r \in n.ops[k].refs : r \in Components
          /\ ParamsAt(n, k) = {PathParam[r] : r \in n.ops[k].refs}
      BY <1>2, <2>1, <2>2 DEF ParamsAt
    <3> QED
      BY <3>1, <3>2, <3>3
  <2>3. ASSUME NEW k \in DOMAIN n.ops, NEW l \in DOMAIN n.ops, n.ops[k].group = n.ops[l].group
        PROVE  /\ n.ops[k].about = n.ops[l].about
               /\ \A r \in n.ops[k].refs : PathParam[r] = NoParam => r \in n.ops[l].refs
    <3>1. /\ n.ops[k].about = n.ops[l].about
          /\ \A r \in n.ops[k].refs : n.components[r].param = NoParam => r \in n.ops[l].refs
      BY <2>3, GroupSays DEF n
    <3>2. \A r \in n.ops[k].refs : n.components[r].param = PathParam[r]
      BY <1>2, <2>1
    <3> QED
      BY <3>1, <3>2
  <2> QED
    BY <2>1, <2>2, <2>3 DEF LinterAsks
<1>4. LinterAsks(n, i) => OperationsClean(f, i)
  <2> SUFFICES ASSUME LinterAsks(n, i) PROVE OperationsClean(f, i)
    OBVIOUS
  <2>1. /\ RefsOf(n) = DOMAIN n.components
        /\ \A c \in DOMAIN n.components : n.components[c].param = PathParam[c]
    BY DEF LinterAsks
  <2>2. \A k \in DOMAIN n.ops :
          /\ n.ops[k].sound /\ Namespace[n.ops[k].group] = i
          /\ \A r \in n.ops[k].refs : Group[r] = n.ops[k].group
          /\ {n.components[r].param : r \in n.ops[k].refs} \ {NoParam} = ParamSet(k[1])
    BY <1>2, <2>1 DEF LinterAsks
  <2>3. \A k, l \in DOMAIN n.ops :
          n.ops[k].group = n.ops[l].group =>
            /\ n.ops[k].about = n.ops[l].about
            /\ \A r \in n.ops[k].refs : n.components[r].param = NoParam => r \in n.ops[l].refs
    BY <1>2, <2>1 DEF LinterAsks
  <2> QED
    BY <2>1, <2>2, <2>3 DEF OperationsClean, n
<1>5. LinterAsks(n, i) => \A c \in DOMAIN n.components : n.components[c].param = PathParam[c]
  BY DEF LinterAsks
<1> QED
  BY <1>3, <1>4, <1>5 DEF FileClean, n

LEMMA NoErrors ==
  ASSUME NEW kind, NEW i, NEW problems
  PROVE  Linter!Errors(kind, i, problems) = {} <=> problems = {}
BY DEF Linter!Errors

\* The errors of a file say what is not as it should be.
LEMMA GroupErrorsExactly ==
  ASSUME NEW i
  PROVE  Linter!GroupErrors(i) = {} <=>
           Linter!BrokenOperations(i) = {} /\ Linter!DisagreeingGroups(i) = {}
BY NoErrors DEF Linter!GroupErrors

LEMMA FileErrorsExactly ==
  ASSUME NEW i, NEW n
  PROVE  Linter!FileErrors(i, n) = {} <=>
           /\ RefsOf(n) = DOMAIN n.components
           /\ \A c \in DOMAIN n.components : n.components[c].param = PathParam[c]
           /\ n.broken # "text"
<1>1. RefsOf(n) = DOMAIN n.components <=>
        Linter!validate_unresolved_refs(n) = {} /\ Linter!validate_unused_refs(n) = {}
  BY SameOperators DEF Linter!validate_unresolved_refs, Linter!validate_unused_refs
<1>2. Linter!validate_parameter_refs(n) = {} <=>
        \A c \in DOMAIN n.components : n.components[c].param = PathParam[c]
  BY DEF Linter!validate_parameter_refs
<1>3. Linter!FileErrors(i, n) = {} <=>
        /\ Linter!Errors("unresolved", i, Linter!validate_unresolved_refs(n)) = {}
        /\ Linter!Errors("unused", i, Linter!validate_unused_refs(n)) = {}
        /\ Linter!Errors("parameter", i, Linter!validate_parameter_refs(n)) = {}
        /\ n.broken # "text"
  BY DEF Linter!FileErrors
<1> QED
  BY <1>1, <1>2, <1>3, NoErrors

(***************************************************************************)
(* The rules of groups are only asked of operations without errors; where  *)
(* none has one, the two together ask what they should.                    *)
(***************************************************************************)
LEMMA OperationRulesExactly ==
  ASSUME NEW i
  PROVE  LET n == folder.namespaces[i] IN
         Linter!GroupErrors(i) = {} <=>
           /\ \A k \in DOMAIN n.ops :
                /\ n.ops[k].sound /\ Namespace[n.ops[k].group] = i
                /\ \A r \in n.ops[k].refs : r \in Components /\ Group[r] = n.ops[k].group
                /\ {PathParam[r] : r \in n.ops[k].refs} \ {NoParam} = ParamSet(k[1])
           /\ \A k, l \in DOMAIN n.ops :
                n.ops[k].group = n.ops[l].group =>
                  /\ n.ops[k].about = n.ops[l].about
                  /\ \A r \in n.ops[k].refs : PathParam[r] = NoParam => r \in n.ops[l].refs
<1> DEFINE n == folder.namespaces[i]
           Sound(k) == /\ n.ops[k].sound /\ Namespace[n.ops[k].group] = i
                       /\ \A r \in n.ops[k].refs : r \in Components /\ Group[r] = n.ops[k].group
                       /\ {PathParam[r] : r \in n.ops[k].refs} \ {NoParam} = ParamSet(k[1])
           Agree(o, p) == /\ o.about = p.about
                          /\ \A r \in o.refs : PathParam[r] = NoParam => r \in p.refs
<1>1. Linter!BrokenOperations(i) = {} <=> \A k \in DOMAIN n.ops : Sound(k)
  <2>1. ASSUME NEW k PROVE Linter!BreaksRule(i, k) <=> ~Sound(k)
    BY SameOperators DEF Linter!BreaksRule
  <2> HIDE DEF Sound
  <2> QED
    BY <2>1 DEF Linter!BrokenOperations
<1>2. ASSUME NEW ops
      PROVE  ~Linter!Disagrees(ops) <=> \A o, p \in ops : Agree(o, p)
  BY DEF Linter!Disagrees
<1> HIDE DEF Sound, Agree
<1>3. ASSUME Linter!BrokenOperations(i) = {}
      PROVE  Linter!DisagreeingGroups(i) = {} <=>
               \A k, l \in DOMAIN n.ops :
                 n.ops[k].group = n.ops[l].group => Agree(n.ops[k], n.ops[l])
  <2>1. Linter!DisagreeingGroups(i) =
          {g \in GroupsOf(n) : Linter!Disagrees(OperationsOf(n, g))}
    <3>1. {n.ops[k].group : k \in Linter!BrokenOperations(i)} = {}
      BY <1>3
    <3> QED
      BY <3>1, SameOperators DEF Linter!DisagreeingGroups
  <2>2. Linter!DisagreeingGroups(i) = {} <=>
          \A g \in GroupsOf(n) : \A o, p \in OperationsOf(n, g) : Agree(o, p)
    BY <1>2, <2>1
  <2> HIDE DEF n
  <2>3. ASSUME \A k, l \in DOMAIN n.ops :
                 n.ops[k].group = n.ops[l].group => Agree(n.ops[k], n.ops[l]),
               NEW g \in GroupsOf(n), NEW o \in OperationsOf(n, g), NEW p \in OperationsOf(n, g)
        PROVE  Agree(o, p)
    BY <2>3 DEF OperationsOf
  <2>4. ASSUME \A g \in GroupsOf(n) : \A o, p \in OperationsOf(n, g) : Agree(o, p),
               NEW k \in DOMAIN n.ops, NEW l \in DOMAIN n.ops, n.ops[k].group = n.ops[l].group
        PROVE  Agree(n.ops[k], n.ops[l])
    <3>1. n.ops[k].group \in GroupsOf(n)
      BY DEF GroupsOf
    <3>2. /\ n.ops[k] \in OperationsOf(n, n.ops[k].group)
          /\ n.ops[l] \in OperationsOf(n, n.ops[k].group)
      BY <2>4 DEF OperationsOf
    <3> QED
      BY <2>4, <3>1, <3>2
  <2> QED
    BY <2>2, <2>3, <2>4
<1>4. Linter!GroupErrors(i) = {} <=>
        /\ \A k \in DOMAIN n.ops : Sound(k)
        /\ \A k, l \in DOMAIN n.ops :
             n.ops[k].group = n.ops[l].group => Agree(n.ops[k], n.ops[l])
  BY <1>1, <1>3, GroupErrorsExactly
<1> QED
  BY <1>4 DEF Sound, Agree

LEMMA FileExactly ==
  ASSUME folder \in Folders, NEW i \in 1 .. Len(folder.namespaces),
         folder.namespaces[i].broken \in {"no", "inline", "text"}
  PROVE  FileClean(folder, i) <=>
           /\ Linter!GroupErrors(i) = {}
           /\ Linter!FileErrors(i, folder.namespaces[i]) = {}
<1> DEFINE n == folder.namespaces[i]
<1>1. CASE n.broken \in {"no", "inline"}
  <2>1. FileClean(folder, i) <=> LinterAsks(n, i)
    BY <1>1, AsksExactly
  <2>2. Linter!FileErrors(i, n) = {} <=>
          /\ RefsOf(n) = DOMAIN n.components
          /\ \A c \in DOMAIN n.components : n.components[c].param = PathParam[c]
    BY <1>1, FileErrorsExactly
  <2> QED
    BY <2>1, <2>2, OperationRulesExactly DEF LinterAsks
<1>2. CASE n.broken = "text"
  BY <1>2, FileErrorsExactly DEF FileClean
<1> QED
  BY <1>1, <1>2

\* Every error of a file has its number.
LEMMA ErrorsNumbered ==
  ASSUME NEW i, NEW n
  PROVE  \A e \in Linter!GroupErrors(i) \cup Linter!FileErrors(i, n) : e[2] = i
BY DEF Linter!GroupErrors, Linter!FileErrors, Linter!Errors

-----------------------------------------------------------------------------
LEMMA DuplicatesExactly ==
  Linter!validate_duplicate_paths(folder) = {} <=> PathsApart(folder)
<1> DEFINE N == 1 .. Len(folder.namespaces)
           P(i) == PathsOf(folder.namespaces[i])
           All == UNION {PathsOf(n) : n \in AllNamespaces(folder)}
<1>1. Linter!validate_duplicate_paths(folder) =
        {path \in All : \E i, j \in N : \E p \in P(i), q \in P(j) :
           <<i, p>> # <<j, q>> /\ Template(p) = Template(path) /\ Template(q) = Template(path)}
  BY DEF Linter!validate_duplicate_paths, Linter!PathsOf, PathsOf, Linter!Template, Template,
         Linter!AllNamespaces, AllNamespaces
<1>2. \A i \in N : P(i) \subseteq All
  BY DEF AllNamespaces
<1>3. PathsApart(folder) <=>
        \A i, j \in N : \A p \in P(i), q \in P(j) : Template(p) = Template(q) => i = j /\ p = q
  BY DEF PathsApart
<1> HIDE DEF N, P, All
<1>4. ASSUME PathsApart(folder) PROVE Linter!validate_duplicate_paths(folder) = {}
  BY <1>1, <1>3, <1>4
<1>5. ASSUME ~PathsApart(folder) PROVE Linter!validate_duplicate_paths(folder) # {}
  <2>1. PICK i \in N, j \in N : \E p \in P(i), q \in P(j) :
          Template(p) = Template(q) /\ ~(i = j /\ p = q)
    BY <1>3, <1>5
  <2>2. PICK p \in P(i), q \in P(j) : Template(p) = Template(q) /\ ~(i = j /\ p = q)
    BY <2>1
  <2>3. p \in All /\ <<i, p>> # <<j, q>>
    BY <1>2, <2>2
  <2> QED
    BY <1>1, <2>2, <2>3
<1> QED
  BY <1>4, <1>5

\* Files reported as a whole and schemas reported one by one make up all.
LEMMA MissingExactly ==
  ASSUME NEW ids, NEW others, NEW files, Linter!FilesOf(others) \subseteq files
  PROVE  LET lacking == Linter!Missing(ids, Linter!FilesOf(ids), others, files)
             unused  == Linter!Missing(others, files, ids, Linter!FilesOf(ids))
         IN  lacking = {} /\ unused = {} <=> ids = others /\ files = Linter!FilesOf(others)
<1> DEFINE lacking == Linter!Missing(ids, Linter!FilesOf(ids), others, files)
           unused  == Linter!Missing(others, files, ids, Linter!FilesOf(ids))
<1>1. ASSUME ids = others, files = Linter!FilesOf(others)
      PROVE  lacking = {} /\ unused = {}
  BY <1>1 DEF Linter!Missing
<1>2. ASSUME lacking = {}, unused = {}
      PROVE  ids = others /\ files = Linter!FilesOf(others)
  <2>1. files = Linter!FilesOf(ids)
    BY <1>2 DEF Linter!Missing
  <2>2. /\ \A id \in ids : <<id[1]>> \in files
        /\ \A id \in others : <<id[1]>> \in Linter!FilesOf(ids)
    BY <2>1 DEF Linter!FilesOf
  <2>3. ids \subseteq others
    BY <1>2, <2>2 DEF Linter!Missing
  <2>4. others \subseteq ids
    BY <1>2, <2>2 DEF Linter!Missing
  <2> QED
    BY <2>1, <2>3, <2>4
<1> HIDE DEF lacking, unused
<1>3. lacking = {} /\ unused = {} <=> ids = others /\ files = Linter!FilesOf(others)
  BY <1>1, <1>2
<1> QED
  BY <1>3 DEF lacking, unused

\* What is missing is named, or the file it is in.
LEMMA MissingNamed ==
  ASSUME NEW ids, NEW files, NEW others, NEW otherFiles, NEW id \in ids, id \notin others,
         <<id[1]>> \in files
  PROVE  LET missing == Linter!Missing(ids, files, others, otherFiles)
         IN  id \in missing \/ <<id[1]>> \in missing
BY DEF Linter!Missing

\* What is no schema is looked up as one of a file that does not exist.
LEMMA ReferencedSay ==
  ASSUME folder \in Folders
  PROVE  /\ DOMAIN folder.schemas \subseteq SchemaIds
         /\ \A s \in SchemaIds :
              s \in Linter!referenced_schemas(folder) <=> s \in SchemaRefsOf(folder)
         /\ \A r \in SchemaRefsOf(folder) :
              r \notin SchemaIds => <<"", r>> \in Linter!referenced_schemas(folder)
         /\ \A s \in Linter!referenced_schemas(folder) :
              s \in SchemaIds \/ \E r \in SchemaRefsOf(folder) : r \notin SchemaIds /\ s = <<"", r>>
         /\ \A r : <<"", r>> \notin SchemaIds
<1>1. Linter!referenced_schemas(folder) =
        {IF r \in SchemaIds THEN r ELSE <<"", r>> : r \in SchemaRefsOf(folder)}
  BY SameOperators DEF Linter!referenced_schemas, Linter!SchemaIds, SchemaIds
<1>2. DOMAIN folder.schemas \subseteq SchemaIds
  BY FoldersAssumption DEF IsFolder, IsReferring
<1>3. \A r : <<"", r>> \notin SchemaIds
  BY FilesAssumption DEF SchemaIds
<1> QED
  BY <1>1, <1>2, <1>3

LEMMA ReferencedExactly ==
  ASSUME folder \in Folders
  PROVE  Linter!referenced_schemas(folder) = DOMAIN folder.schemas
           <=> SchemaRefsOf(folder) = DOMAIN folder.schemas
BY ReferencedSay

\* The files that schemas are in are available.
LEMMA AvailableFiles ==
  ASSUME folder \in Folders
  PROVE  /\ Linter!FilesOf(DOMAIN folder.schemas) \subseteq Linter!available_files(folder)
         /\ Linter!available_files(folder) = Linter!FilesOf(DOMAIN folder.schemas)
              <=> \A x \in DOMAIN folder.files : \E s \in DOMAIN folder.schemas : s[1] = x
<1> DEFINE files == DOMAIN folder.files
           S == DOMAIN folder.schemas
<1>1. \A s \in S : s[1] \in files
  BY FoldersAssumption DEF IsFolder
<1>2. Linter!FilesOf(S) = {<<s[1]>> : s \in S} /\ Linter!available_files(folder) = {<<x>> : x \in files}
  BY DEF Linter!FilesOf, Linter!available_files
<1> HIDE DEF files, S
<1>3. \A x, y : <<x>> = <<y>> <=> x = y
  OBVIOUS
<1>4. {<<s[1]>> : s \in S} \subseteq {<<x>> : x \in files}
  BY <1>1
<1>5. {<<x>> : x \in files} = {<<s[1]>> : s \in S} <=> \A x \in files : \E s \in S : s[1] = x
  <2>1. ASSUME {<<x>> : x \in files} = {<<s[1]>> : s \in S}, NEW x \in files
        PROVE  \E s \in S : s[1] = x
    BY <1>3, <2>1
  <2>2. ASSUME \A x \in files : \E s \in S : s[1] = x
        PROVE  {<<x>> : x \in files} \subseteq {<<s[1]>> : s \in S}
    BY <2>2
  <2> QED
    BY <1>4, <2>1, <2>2
<1> QED
  BY <1>2, <1>4, <1>5 DEF files, S

\* An invalid schema with a normal form of its own is left in the merged file.
LEMMA KeptAlone ==
  ASSUME NEW D, NEW w \in Linter!Kept(D), NEW k \in D, Alone(k, D)
  PROVE  Normal[k] \in DOMAIN w /\ w[Normal[k]] = k
<1>1. w \in [{Normal[r] : r \in D} -> D] /\ \A j \in DOMAIN w : Normal[w[j]] = j
  BY DEF Linter!Kept, Linter!Rename
<1>2. Normal[k] \in DOMAIN w /\ w[Normal[k]] \in D /\ Normal[w[Normal[k]]] = Normal[k]
  BY <1>1
<1> QED
  BY <1>2 DEF Alone

-----------------------------------------------------------------------------
FilesClean == \A i \in 1 .. Len(folder.namespaces) : FileClean(folder, i)

\* The schemas there are, and the files they are in, are those referred to.
RefsClean ==
  /\ SchemaRefsOf(folder) = DOMAIN folder.schemas
  /\ \A x \in DOMAIN folder.files : \E s \in DOMAIN folder.schemas : s[1] = x

(***************************************************************************)
(* The files before the one the linter is at have been reported if they    *)
(* are not in order, and nothing else has; every stage is reached only if  *)
(* there was nothing to report before.                                     *)
(***************************************************************************)
LintInv ==
  /\ folder \in Folders /\ lintAt \in Nat \ {0}
  /\ lintStage \in {"start", "files"} =>
       /\ \A i \in 1 .. Len(folder.namespaces) :
            i < lintAt /\ ~FileClean(folder, i) => \E e \in errors : e[2] = i
       /\ errors # {} => ~FilesClean
  /\ lintStage = "files" =>
       /\ \A i \in 1 .. Len(folder.namespaces) : folder.namespaces[i].broken # "yaml"
       /\ SchemaFilesWith(folder, "yaml") = {}
  /\ lintStage = "refs" => errors = {} /\ FoldersClean(folder)
  /\ lintStage = "merge" =>
       FoldersClean(folder) /\ ReferencesReported /\ (errors = {} <=> RefsClean)
  /\ lintStage = "visit" =>
       /\ FoldersClean(folder) /\ ReferencesReported /\ InvalidReported
       /\ errors = {} => RefsClean /\ OthersInPlace
       /\ RefsClean /\ InvalidSchemas(folder) = {} /\ InvalidComponents(folder) = {} => errors = {}

IInv == LintInv /\ CleanExactly /\ EveryFileReported

LEMMA InitLint == Init => IInv
<1> SUFFICES ASSUME Init PROVE IInv
  OBVIOUS
<1>1. folder \in Folders /\ lintAt = 1 /\ lintStage = "start" /\ errors = {}
  BY DEF Init, Linter!Init
<1>2. \A i \in 1 .. Len(folder.namespaces) : ~(i < 1)
  BY <1>1, Count
<1>3. LintInv
  BY <1>1, <1>2 DEF LintInv
<1> QED
  BY <1>1, <1>3 DEF IInv, CleanExactly, EveryFileReported

\* A file is left with an error of its own exactly if it is not in order.
LEMMA FileKeeps ==
  ASSUME IInv, Linter!AtFile, NEW found,
         folder' = folder, lintStage' = lintStage, lintAt' = lintAt + 1,
         errors' = errors \cup found,
         \A e \in found : e[2] = lintAt,
         found = {} <=> FileClean(folder, lintAt)
  PROVE  IInv'
<1>1. lintStage = "files" /\ lintAt \in 1 .. Len(folder.namespaces)
  BY DEF Linter!AtFile
<1>2. lintAt' \in Nat \ {0}
  BY DEF IInv, LintInv
<1>3. ASSUME NEW i \in 1 .. Len(folder.namespaces), i < lintAt + 1, ~FileClean(folder, i)
      PROVE  \E e \in errors' : e[2] = i
  <2>1. CASE i = lintAt
    BY <1>3, <2>1
  <2>2. CASE i # lintAt
    <3>1. i < lintAt
      BY <1>3, <2>2, Count DEF IInv, LintInv
    <3> QED
      BY <1>1, <1>3, <3>1 DEF IInv, LintInv
  <2> QED
    BY <2>1, <2>2
<1>4. errors' # {} => ~FilesClean
  BY <1>1 DEF IInv, LintInv, FilesClean
<1>5. LintInv'
  BY <1>1, <1>2, <1>3, <1>4 DEF IInv, LintInv, FilesClean
<1> QED
  BY <1>1, <1>5 DEF IInv, CleanExactly, EveryFileReported

LEMMA RefsKeep ==
  ASSUME IInv, Linter!ValidateRefs PROVE IInv'
<1> DEFINE R == Linter!referenced_schemas(folder)
           A == DOMAIN folder.schemas
           files == Linter!available_files(folder)
           lacking == Linter!Missing(R, Linter!FilesOf(R), A, files)
           unused == Linter!Missing(A, files, R, Linter!FilesOf(R))
<1>1. /\ lintStage = "refs" /\ lintStage' = "merge" /\ folder' = folder /\ lintAt' = lintAt
      /\ errors' = Linter!Errors("unresolved", 0, lacking)
                     \cup Linter!Errors("unreferenced", 0, unused)
  BY DEF Linter!ValidateRefs, Linter!validate_unresolved_schemas,
       Linter!validate_unreferenced_schemas, Linter!available_schemas
<1>2. folder \in Folders /\ FoldersClean(folder)
  BY <1>1 DEF IInv, LintInv
<1>3. /\ \A s \in lacking : <<"unresolved", 0, s>> \in errors'
      /\ \A s \in unused : <<"unreferenced", 0, s>> \in errors'
  BY <1>1 DEF Linter!Errors
<1>4. errors' = {} <=> lacking = {} /\ unused = {}
  BY <1>1, NoErrors
<1>5. errors' = {} <=> RefsClean
  <2>1. errors' = {} <=> R = A /\ files = Linter!FilesOf(A)
    BY <1>2, <1>4, MissingExactly, AvailableFiles
  <2> QED
    BY <1>2, <2>1, ReferencedExactly, AvailableFiles DEF RefsClean
<1>6. ASSUME NEW s \in (SchemaRefsOf(folder) \cap SchemaIds) \ A
      PROVE  s \in lacking \/ <<s[1]>> \in lacking
  <2>1. s \in R /\ <<s[1]>> \in Linter!FilesOf(R)
    BY <1>2, ReferencedSay DEF Linter!FilesOf
  <2> QED
    BY <2>1, MissingNamed
<1>7. ASSUME NEW s \in A \ SchemaRefsOf(folder)
      PROVE  s \in unused \/ <<s[1]>> \in unused
  <2>1. s \notin R /\ <<s[1]>> \in files
    BY <1>2, ReferencedSay, AvailableFiles DEF Linter!FilesOf
  <2> QED
    BY <2>1, MissingNamed
<1> HIDE DEF lacking, unused
<1>8. ReferencesReported'
  BY <1>1, <1>3, <1>6, <1>7 DEF ReferencesReported
<1>9. LintInv'
  BY <1>1, <1>2, <1>5, <1>8 DEF IInv, LintInv, RefsClean
<1> QED
  BY <1>1, <1>9 DEF IInv, CleanExactly, EveryFileReported

LEMMA SchemasKeep ==
  ASSUME IInv, Linter!ValidateSchemas PROVE IInv'
<1> DEFINE S == DOMAIN folder.schemas
           C == ComponentKeys(folder)
           BadS == InvalidSchemas(folder)
           BadC == InvalidComponents(folder)
<1>1. /\ Linter!ComponentKeys(folder) = C
      /\ Linter!InvalidSchemas(folder) = BadS /\ Linter!InvalidComponents(folder) = BadC
  BY Zenon, SameOperators DEF Linter!ComponentKeys, ComponentKeys, Linter!InvalidSchemas, InvalidSchemas,
       Linter!InvalidComponents, InvalidComponents
<1>2. PICK w \in Linter!Kept(S), v \in Linter!Kept(C) :
        errors' = errors \cup
          Linter!Errors("invalid", 0,
            IF {k \in DOMAIN w : w[k] \in BadS} # {}
              THEN {k \in DOMAIN w : w[k] \in BadS} ELSE {k \in DOMAIN v : v[k] \in BadC})
  <2> HIDE DEF BadS, BadC, C, S
  <2> QED
    BY <1>1, Zenon DEF Linter!ValidateSchemas, S
<1>3. lintStage = "merge" /\ lintStage' = "visit" /\ folder' = folder /\ lintAt' = lintAt
  BY DEF Linter!ValidateSchemas
<1>4. /\ folder \in Folders /\ FoldersClean(folder) /\ ReferencesReported
      /\ errors = {} <=> RefsClean
  BY <1>3 DEF IInv, LintInv
<1>5. BadS \subseteq S /\ BadC \subseteq C
  <2>1. \A i \in 1 .. Len(folder.namespaces) :
          folder.namespaces[i].invalid \subseteq DOMAIN folder.namespaces[i].components
    BY <1>4, NamespaceOf DEF IsNamespace
  <2> QED
    BY <2>1 DEF InvalidSchemas, InvalidComponents, ComponentKeys, AllNamespaces
<1> DEFINE named == {k \in DOMAIN w : w[k] \in BadS}
           others == {k \in DOMAIN v : v[k] \in BadC}
<1>6. /\ \A s \in BadS : Alone(s, S) => Normal[s] \in named
      /\ \A c \in BadC : Alone(c, C) => Normal[c] \in others
  BY <1>5, KeptAlone
<1>7. BadS = {} => named = {}
  OBVIOUS
<1>8. BadC = {} => others = {}
  OBVIOUS
<1>9. /\ errors \subseteq errors'
      /\ \A k \in named : <<"invalid", 0, k>> \in errors'
      /\ named = {} => \A k \in others : <<"invalid", 0, k>> \in errors'
      /\ errors = {} /\ named = {} /\ others = {} => errors' = {}
  BY <1>2 DEF Linter!Errors
<1> HIDE DEF named, others, S, C, BadS, BadC
<1>10. InvalidReported'
  <2>1. /\ \A s \in BadS : Alone(s, S) => <<"invalid", 0, Normal[s]>> \in errors'
        /\ BadS = {} => \A c \in BadC : Alone(c, C) => <<"invalid", 0, Normal[c]>> \in errors'
    BY <1>6, <1>7, <1>9
  <2> QED
    BY <1>3, <2>1 DEF InvalidReported, S, C, BadS, BadC
<1>11. errors' = {} => RefsClean /\ OthersInPlace
  <2>1. ASSUME errors' = {}
        PROVE  errors = {} /\ named = {} /\ others = {}
    BY <1>9, <2>1
  <2>2. errors' = {} => /\ \A s \in BadS : ~Alone(s, S)
                        /\ \A c \in BadC : ~Alone(c, C)
    BY <1>6, <2>1
  <2> QED
    BY <1>4, <2>1, <2>2 DEF OthersInPlace, S, C, BadS, BadC
<1>12. RefsClean /\ BadS = {} /\ BadC = {} => errors' = {}
  BY <1>4, <1>7, <1>8, <1>9
<1>13. ReferencesReported'
  BY <1>3, <1>4, <1>9 DEF ReferencesReported
<1>14. LintInv'
  BY <1>3, <1>4, <1>10, <1>11, <1>12, <1>13
     DEF IInv, LintInv, RefsClean, OthersInPlace, BadS, BadC
<1> QED
  BY <1>3, <1>14 DEF IInv, CleanExactly, EveryFileReported

LEMMA VisitKeeps ==
  ASSUME IInv, Linter!VisitSchemas PROVE IInv'
<1> DEFINE files == NamespacesWith(folder, "inline")
           schemaFiles == SchemaFilesWith(folder, "inline")
<1>1. /\ lintStage = "visit" /\ lintStage' = "done" /\ folder' = folder /\ lintAt' = lintAt
      /\ errors' = errors \cup {<<"inline", i, i>> : i \in files}
                           \cup Linter!Errors("inline", 0, schemaFiles)
  BY DEF Linter!VisitSchemas, Linter!NamespacesWith, NamespacesWith,
       Linter!SchemaFilesWith, SchemaFilesWith
<1>2. /\ folder \in Folders /\ FoldersClean(folder) /\ ReferencesReported /\ InvalidReported
      /\ errors = {} => RefsClean /\ OthersInPlace
      /\ RefsClean /\ InvalidSchemas(folder) = {} /\ InvalidComponents(folder) = {} => errors = {}
  BY <1>1 DEF IInv, LintInv
<1>3. /\ errors \subseteq errors'
      /\ \A i \in files : <<"inline", i, i>> \in errors'
      /\ \A f \in schemaFiles : <<"inline", 0, f>> \in errors'
      /\ errors = {} /\ files = {} /\ schemaFiles = {} => errors' = {}
  BY <1>1 DEF Linter!Errors
<1>4. errors' = {} => errors = {} /\ files = {} /\ schemaFiles = {}
  BY <1>3
<1>5. CleanExactly'
  <2>1. errors' = {} => InOrder(folder) /\ OthersInPlace
    BY <1>2, <1>4 DEF InOrder, RefsClean
  <2>2. Clean(folder) => errors' = {}
    BY <1>2, <1>3 DEF Clean, InOrder, RefsClean
  <2> QED
    BY <1>1, <2>1, <2>2 DEF CleanExactly, OthersInPlace
<1>6. EveryFileReported'
  <2>1. /\ \A i \in 1 .. Len(folder.namespaces) : FileClean(folder, i)
        /\ SchemaFilesWith(folder, "text") = {}
    BY <1>2 DEF FoldersClean
  <2>2. ReferencesReported'
    BY <1>1, <1>2, <1>3 DEF ReferencesReported
  <2>3. InvalidReported'
    BY <1>1, <1>2, <1>3 DEF InvalidReported
  <2>4. InlineReported'
    BY <1>1, <1>3 DEF InlineReported
  <2> QED
    BY <1>1, <2>1, <2>2, <2>3, <2>4 DEF EveryFileReported
<1>7. LintInv'
  BY <1>1, <1>2 DEF IInv, LintInv
<1> QED
  BY <1>5, <1>6, <1>7 DEF IInv

LEMMA NextLint == IInv /\ Linter!Next => IInv'
<1> SUFFICES ASSUME IInv, Linter!Next PROVE IInv'
  OBVIOUS
<1>0. folder \in Folders
  BY DEF IInv, LintInv
<1>1. CASE Linter!FindRefs
  <2>1. /\ folder' = folder /\ lintAt' = lintAt /\ errors' = errors /\ lintStage = "start"
        /\ \/ lintStage' = "thrown"
           \/ /\ lintStage' = "files"
              /\ \A i \in 1 .. Len(folder.namespaces) : folder.namespaces[i].broken # "yaml"
              /\ SchemaFilesWith(folder, "yaml") = {}
    <3>1. /\ Linter!NamespacesWith(folder, "yaml") = NamespacesWith(folder, "yaml")
          /\ Linter!SchemaFilesWith(folder, "yaml") = SchemaFilesWith(folder, "yaml")
      BY DEF Linter!NamespacesWith, NamespacesWith, Linter!SchemaFilesWith, SchemaFilesWith
    <3> QED
      BY <1>1, <3>1 DEF Linter!FindRefs, NamespacesWith
  <2>2. LintInv'
    BY <2>1 DEF IInv, LintInv, FilesClean
  <2> QED
    BY <2>1, <2>2 DEF IInv, CleanExactly, EveryFileReported
<1>2. CASE Linter!ValidateName
  <2> DEFINE found == {<<"name", lintAt, lintAt>>}
  <2>1. ~FileClean(folder, lintAt)
    BY <1>2 DEF Linter!ValidateName, Linter!file, FileClean
  <2>2. \A e \in found : e[2] = lintAt
    OBVIOUS
  <2>3. found # {}
    OBVIOUS
  <2>4. /\ Linter!AtFile /\ folder' = folder /\ lintStage' = lintStage /\ lintAt' = lintAt + 1
        /\ errors' = errors \cup found
    BY <1>2 DEF Linter!ValidateName
  <2> HIDE DEF found
  <2> QED
    BY <2>1, <2>2, <2>3, <2>4, FileKeeps
<1>3. ASSUME Linter!AtFile, Linter!file.broken # "name"
      PROVE  FileClean(folder, lintAt) <=>
               /\ Linter!GroupErrors(lintAt) = {}
               /\ Linter!FileErrors(lintAt, Linter!file) = {}
  <2>1. lintStage = "files" /\ lintAt \in 1 .. Len(folder.namespaces)
    BY <1>3 DEF Linter!AtFile
  <2>2. folder.namespaces[lintAt].broken \in {"no", "name", "text", "inline", "yaml"}
    BY <1>0, <2>1, NamespaceOf DEF IsNamespace
  <2>3. folder.namespaces[lintAt].broken \in {"no", "inline", "text"}
    BY <1>3, <2>1, <2>2 DEF Linter!file, IInv, LintInv
  <2> QED
    BY <1>0, <2>1, <2>3, FileExactly DEF Linter!file
<1>4. CASE Linter!ValidateGroups
  <2> DEFINE found == Linter!GroupErrors(lintAt)
  <2>1. \A e \in found : e[2] = lintAt
    BY ErrorsNumbered
  <2>2. /\ Linter!AtFile /\ folder' = folder /\ lintStage' = lintStage /\ lintAt' = lintAt + 1
        /\ errors' = errors \cup found /\ found # {} /\ Linter!file.broken # "name"
    BY <1>4 DEF Linter!ValidateGroups
  <2>3. ~FileClean(folder, lintAt)
    BY <1>3, <2>2
  <2> HIDE DEF found
  <2> QED
    BY <2>1, <2>2, <2>3, FileKeeps
<1>5. CASE Linter!ValidateFile
  <2> DEFINE found == Linter!FileErrors(lintAt, Linter!file)
  <2>1. \A e \in found : e[2] = lintAt
    BY ErrorsNumbered
  <2>2. /\ Linter!AtFile /\ folder' = folder /\ lintStage' = lintStage /\ lintAt' = lintAt + 1
        /\ errors' = errors \cup found
        /\ Linter!GroupErrors(lintAt) = {} /\ Linter!file.broken # "name"
    BY <1>5 DEF Linter!ValidateFile
  <2>3. found = {} <=> FileClean(folder, lintAt)
    BY <1>3, <2>2
  <2> HIDE DEF found
  <2> QED
    BY <2>1, <2>2, <2>3, FileKeeps
<1>6. CASE Linter!ValidateFolder
  <2> DEFINE schemaErrors == Linter!Errors("schema", 0, SchemaFilesWith(folder, "text"))
             duplicates == Linter!Errors("duplicate", 0, Linter!validate_duplicate_paths(folder))
  <2>1. /\ lintStage = "files" /\ lintAt = Len(folder.namespaces) + 1
        /\ folder' = folder /\ lintAt' = lintAt
        /\ errors' = schemaErrors \cup IF errors = {} THEN duplicates ELSE errors
        /\ lintStage' = IF errors' = {} THEN "refs" ELSE "done"
    BY <1>6 DEF Linter!ValidateFolder, Linter!SchemaFilesWith, SchemaFilesWith
  <2>2. \A i \in 1 .. Len(folder.namespaces) :
          ~FileClean(folder, i) => \E e \in errors : e[2] = i
    <3>1. \A i \in 1 .. Len(folder.namespaces) : i < lintAt
      BY <1>0, <2>1, Count
    <3> QED
      BY <2>1, <3>1 DEF IInv, LintInv
  <2>3. errors = {} <=> FilesClean
    BY <2>1, <2>2 DEF IInv, LintInv, FilesClean
  <2>4. /\ schemaErrors = {} <=> SchemaFilesWith(folder, "text") = {}
        /\ duplicates = {} <=> PathsApart(folder)
    BY NoErrors, DuplicatesExactly
  <2>5. \A f \in SchemaFilesWith(folder, "text") : <<"schema", 0, f>> \in schemaErrors
    BY DEF Linter!Errors
  <2> HIDE DEF schemaErrors, duplicates
  <2>6. errors' = {} <=> FoldersClean(folder)
    <3>1. SchemaFilesWith(folder, "yaml") = {}
      BY <2>1 DEF IInv, LintInv
    <3> QED
      BY <2>1, <2>3, <2>4, <3>1 DEF FoldersClean, FilesClean
  <2>7. /\ \A i \in 1 .. Len(folder.namespaces) :
              ~FileClean(folder, i) => \E e \in errors' : e[2] = i
        /\ \A f \in SchemaFilesWith(folder, "text") : <<"schema", 0, f>> \in errors'
    BY <2>1, <2>2, <2>5
  <2>8. lintStage' = "done" => errors' # {} /\ ~Clean(folder) /\ ~FoldersClean(folder)
    BY <2>1, <2>6 DEF Clean, InOrder
  <2>9. LintInv'
    BY <1>0, <2>1, <2>6 DEF IInv, LintInv
  <2> QED
    BY <2>1, <2>7, <2>8, <2>9 DEF IInv, CleanExactly, EveryFileReported
<1>7. CASE Linter!ValidateRefs
  BY <1>7, RefsKeep
<1>8. CASE Linter!MergeThrows
  <2>1. lintStage' = "thrown" /\ folder' = folder /\ lintAt' = lintAt /\ errors' = errors
    BY <1>8 DEF Linter!MergeThrows
  <2> QED
    BY <2>1 DEF IInv, LintInv, CleanExactly, EveryFileReported
<1>9. CASE Linter!ValidateSchemas
  BY <1>9, SchemasKeep
<1>10. CASE Linter!VisitSchemas
  BY <1>10, VisitKeeps
<1> QED
  BY <1>1, <1>2, <1>4, <1>5, <1>6, <1>7, <1>8, <1>9, <1>10 DEF Linter!Next

\* The merger reads the folder and leaves the linter alone.
LEMMA MergerReads == Merger!Next => folder' = folder
BY DEF Merger!Next, Merger!MergeSchemas, Merger!MergeNamespace, Merger!ParseThrows, Merger!Sort,
       Merger!GenerateGlobals, Merger!GenerateSuperseded, Merger!Normalize,
       Merger!Superseding!Next, Merger!Superseding!Supersede, Merger!Superseding!Warn,
       Merger!Superseding!Mismatch, Merger!Superseding!Finish

LEMMA NextBuild == IInv /\ [Next]_vars => IInv'
<1> SUFFICES ASSUME IInv, [Next]_vars PROVE IInv'
  OBVIOUS
<1>1. CASE Lint
  BY <1>1, NextLint DEF Lint
<1>2. CASE Merge \/ UNCHANGED vars
  <2>1. folder' = folder /\ UNCHANGED lintVars
    BY <1>2, MergerReads DEF Merge, vars
  <2> QED
    BY <2>1 DEF lintVars, IInv, LintInv, FilesClean, RefsClean, OthersInPlace, CleanExactly,
         ReferencesReported, InvalidReported, InlineReported, EveryFileReported
<1> QED
  BY <1>1, <1>2 DEF Next

LEMMA Inductive == Spec => []IInv
BY InitLint, NextBuild, PTL DEF Spec

\* The linter ends without an error on a folder in order, and on no other but
\* one whose invalid schemas may be lost in the merge.
THEOREM LinterExact == Spec => []CleanExactly
<1>1. IInv => CleanExactly
  BY DEF IInv
<1> QED
  BY <1>1, Inductive, PTL

\* No early return hides a namespace or schema file that breaks a rule of its
\* own; where no file does, and no two paths clash, none hides a fault that the
\* validators of the whole specification look for.
THEOREM EveryFileCorrect == Spec => []EveryFileReported
<1>1. IInv => EveryFileReported
  BY DEF IInv
<1> QED
  BY <1>1, Inductive, PTL

-----------------------------------------------------------------------------
Fields == {"of", "copies", "from", "group", "refs", "about"}

\* Every operation refers to all of refs.
AllReferTo(refs) ==
  \A path \in DOMAIN items : \A m \in DOMAIN items[path] : refs \subseteq items[path][m].refs

(***************************************************************************)
(* Operations keep their form and the order names the paths there are, so  *)
(* that a copy is a copy of an operation.  From the phase that adds the    *)
(* global parameters on, every operation has them.                         *)
(***************************************************************************)
MergeInv ==
  /\ folder \in Folders /\ at \in Nat \ {0}
  /\ IsFiniteSet(DOMAIN items)
  /\ \A path \in DOMAIN items : \A m \in DOMAIN items[path] : DOMAIN items[path][m] = Fields
  /\ stage \in {"globals", "superseded"} => keys \in Seq(DOMAIN items)
  /\ stage \in {"superseded", "normalize"} => AllReferTo(DOMAIN folder.globals)
  /\ stage = "done" => AllReferTo(Merger!Rename(DOMAIN folder.globals))

LEMMA InitMerge == Init => MergeInv
BY FS_EmptySet DEF Init, Linter!Init, Merger!Begin, MergeInv

\* The items of a namespace file are finitely many.
LEMMA ItemsFinite ==
  ASSUME folder \in Folders, NEW i \in 1 .. Len(folder.namespaces)
  PROVE  /\ IsFiniteSet(DOMAIN Merger!ItemsOf(i))
         /\ \A path \in DOMAIN Merger!ItemsOf(i) : \A m \in DOMAIN Merger!ItemsOf(i)[path] :
              DOMAIN Merger!ItemsOf(i)[path][m] = Fields
<1> DEFINE ops == folder.namespaces[i].ops
           first == [k \in DOMAIN ops |-> k[1]]
<1>1. IsFiniteSet(DOMAIN ops)
  BY NamespaceOf DEF IsNamespace, IsReferring, RefsIn
<1>2. IsFiniteSet({first[k] : k \in DOMAIN ops})
  <2>1. first \in Surjection(DOMAIN ops, {first[k] : k \in DOMAIN ops})
    BY DEF Surjection
  <2> QED
    BY <1>1, <2>1, FS_Surjection
<1>3. DOMAIN Merger!ItemsOf(i) = {first[k] : k \in DOMAIN ops}
  BY DEF Merger!ItemsOf, Merger!PathsOf
<1>4. ASSUME NEW path \in DOMAIN Merger!ItemsOf(i), NEW m \in DOMAIN Merger!ItemsOf(i)[path]
      PROVE  DOMAIN Merger!ItemsOf(i)[path][m] = Fields
  BY <1>4 DEF Merger!ItemsOf, Fields
<1> QED
  BY <1>2, <1>3, <1>4

LEMMA MergeNamespaceKeeps ==
  ASSUME MergeInv, Merger!MergeNamespace PROVE MergeInv'
<1>1. /\ stage = "namespaces" /\ stage' = stage /\ folder' = folder /\ at' = at + 1
      /\ items' = Merger!Override(items, Merger!ItemsOf(at)) /\ at <= Len(folder.namespaces)
  BY DEF Merger!MergeNamespace
<1>2. at \in 1 .. Len(folder.namespaces) /\ folder \in Folders /\ at' \in Nat \ {0}
  BY <1>1, Count DEF MergeInv
<1> DEFINE new == Merger!ItemsOf(at)
<1>3. /\ IsFiniteSet(DOMAIN new)
      /\ \A path \in DOMAIN new : \A m \in DOMAIN new[path] : DOMAIN new[path][m] = Fields
  BY <1>2, ItemsFinite
<1> HIDE DEF new
<1>4. /\ DOMAIN items' = DOMAIN items \cup DOMAIN new
      /\ \A path \in DOMAIN items' :
           items'[path] = IF path \in DOMAIN new THEN new[path] ELSE items[path]
  BY <1>1 DEF Merger!Override, new
<1>5. IsFiniteSet(DOMAIN items')
  <2>1. IsFiniteSet(DOMAIN items) /\ IsFiniteSet(DOMAIN new)
    BY <1>3 DEF MergeInv
  <2>2. IsFiniteSet(DOMAIN items \cup DOMAIN new)
    BY <2>1, FS_Union
  <2> QED
    BY <1>4, <2>2
<1>6. \A path \in DOMAIN items' : \A m \in DOMAIN items'[path] : DOMAIN items'[path][m] = Fields
  BY <1>3, <1>4 DEF MergeInv
<1> QED
  BY <1>1, <1>2, <1>5, <1>6 DEF MergeInv

LEMMA SortKeeps ==
  ASSUME MergeInv, Merger!Sort PROVE MergeInv'
<1>1. /\ stage' = "globals" /\ items' = items /\ folder' = folder /\ at' = at
      /\ keys' \in [1 .. Cardinality(DOMAIN items) -> DOMAIN items]
  <2>1. stage' = "globals" /\ items' = items /\ folder' = folder /\ at' = at
    BY DEF Merger!Sort
  <2>2. keys' \in Merger!Sorted(DOMAIN items)
    BY DEF Merger!Sort
  <2>3. Merger!Sorted(DOMAIN items) \subseteq [1 .. Cardinality(DOMAIN items) -> DOMAIN items]
    <3>1. Merger!Cardinality(DOMAIN items) = Cardinality(DOMAIN items)
      BY DEF Merger!Cardinality, Cardinality
    <3> QED
      BY <3>1 DEF Merger!Sorted
  <2> QED
    BY <2>1, <2>2, <2>3
<1>2. Cardinality(DOMAIN items) \in Nat
  BY FS_CardinalityType DEF MergeInv
<1>3. keys' \in Seq(DOMAIN items)
  BY <1>1, <1>2
<1> QED
  BY <1>1, <1>3 DEF MergeInv

\* Two operations are of one group and say the same of themselves.
SameText(o, p) == o.group = p.group /\ o.about = p.about

\* An operation with other references is an operation that has them.
LEMMA ReferencesSet ==
  ASSUME NEW op, NEW refs, DOMAIN op = Fields
  PROVE  /\ DOMAIN [op EXCEPT !.refs = refs] = Fields
         /\ [op EXCEPT !.refs = refs].refs = refs
         /\ [op EXCEPT !.refs = refs].from = op.from
         /\ [op EXCEPT !.refs = refs].copies = op.copies
         /\ SameText([op EXCEPT !.refs = refs], op)
BY DEF Fields, SameText

LEMMA GenerateGlobalsKeeps ==
  ASSUME MergeInv, Merger!GenerateGlobals PROVE MergeInv'
<1> DEFINE G == DOMAIN folder.globals
<1>1. /\ stage = "globals" /\ stage' = "superseded" /\ folder' = folder /\ keys' = keys /\ at' = 1
      /\ DOMAIN items' = DOMAIN items
      /\ \A path \in DOMAIN items :
           /\ DOMAIN items'[path] = DOMAIN items[path]
           /\ \A m \in DOMAIN items[path] :
                items'[path][m] = [items[path][m] EXCEPT !.refs = items[path][m].refs \cup G]
  BY DEF Merger!GenerateGlobals
<1>2. ASSUME NEW path \in DOMAIN items', NEW m \in DOMAIN items'[path]
      PROVE  DOMAIN items'[path][m] = Fields /\ G \subseteq items'[path][m].refs
  <2>1. path \in DOMAIN items /\ m \in DOMAIN items[path] /\ DOMAIN items[path][m] = Fields
    BY <1>1, <1>2 DEF MergeInv
  <2>2. items'[path][m] = [items[path][m] EXCEPT !.refs = items[path][m].refs \cup G]
    BY <1>1, <2>1
  <2> QED
    BY <2>1, <2>2, ReferencesSet
<1> QED
  BY <1>1, <1>2 DEF MergeInv, AllReferTo

\* A copy refers to what its original refers to.
LEMMA CopyRefers ==
  ASSUME NEW item, NEW M, NEW m \in DOMAIN Merger!Superseding!path_object(item, M),
         DOMAIN item[m] = Fields
  PROVE  /\ m \in DOMAIN item
         /\ DOMAIN Merger!Superseding!path_object(item, M)[m] = Fields
         /\ Merger!Superseding!path_object(item, M)[m].refs = item[m].refs
         /\ Merger!Superseding!path_object(item, M)[m].from = item[m].from
         /\ SameText(Merger!Superseding!path_object(item, M)[m], item[m])
BY DEF Merger!Superseding!path_object, Fields, SameText

\* An entry has the operations of p copied to path.
CopiedTo(path, p) ==
  \E e \in 1 .. Len(folder.entries) :
    /\ Merger!Superseding!SameParams(folder.entries[e].by, folder.entries[e].path)
    /\ Merger!Superseding!Matches(folder.entries[e].by, p)
    /\ path = Merger!Superseding!Target(folder.entries[e])

\* An entry changes one path at most, and every operation refers to what some
\* operation referred to before.
LEMMA SupersedeStep ==
  ASSUME MergeInv, stage = "superseded", Merger!Superseding!Supersede
  PROVE  /\ at' = at + 1 /\ folder' = folder
         /\ IsFiniteSet(DOMAIN items') /\ keys' \in Seq(DOMAIN items')
         /\ \A path \in DOMAIN items' : \A m \in DOMAIN items'[path] :
              /\ DOMAIN items'[path][m] = Fields
              /\ \E p \in DOMAIN items : \E k \in DOMAIN items[p] :
                   /\ path = p \/ CopiedTo(path, p)
                   /\ items'[path][m].refs = items[p][k].refs
                   /\ items'[path][m].from = items[p][k].from
                   /\ SameText(items'[path][m], items[p][k])
         /\ DOMAIN items \subseteq DOMAIN items'
         /\ \A path \in DOMAIN items :
              /\ path \in DOMAIN items'
              /\ \/ items'[path] = items[path]
                 \/ \E e \in 1 .. Len(folder.entries) :
                      Merger!Superseding!Target(folder.entries[e]) = path
<1> DEFINE target == Merger!Superseding!Target(Merger!Superseding!entry)
           M == Merger!Superseding!entry.methods
           by == Merger!Superseding!entry.by
<1>1. PICK i \in 1 .. Len(keys) :
        /\ Merger!Superseding!Matches(by, keys[i])
        /\ Merger!Superseding!Put(target, Merger!Superseding!path_object(items[keys[i]], M))
  BY DEF Merger!Superseding!Supersede, Merger!Superseding!IsFirst
<1> DEFINE copy == Merger!Superseding!path_object(items[keys[i]], M)
<1>2. at' = at + 1 /\ folder' = folder
  BY DEF Merger!Superseding!Supersede
<1>3. /\ DOMAIN items' = DOMAIN items \cup {target}
      /\ \A path \in DOMAIN items' : items'[path] = IF path = target THEN copy ELSE items[path]
      /\ keys' = keys \/ keys' = Append(keys, target)
  BY <1>1 DEF Merger!Superseding!Put
<1>4. keys[i] \in DOMAIN items
  BY DEF MergeInv
<1>10. CopiedTo(target, keys[i])
  BY <1>1 DEF Merger!Superseding!Supersede, Merger!Superseding!AtEntry, Merger!Superseding!entry,
       CopiedTo
<1>5. ASSUME NEW m \in DOMAIN copy
      PROVE  /\ DOMAIN copy[m] = Fields
             /\ \E p \in DOMAIN items : \E k \in DOMAIN items[p] :
                  /\ CopiedTo(target, p)
                  /\ copy[m].refs = items[p][k].refs /\ copy[m].from = items[p][k].from
                  /\ SameText(copy[m], items[p][k])
  <2>1. m \in DOMAIN items[keys[i]]
    BY <1>5 DEF Merger!Superseding!path_object
  <2>2. DOMAIN items[keys[i]][m] = Fields
    BY <1>4, <2>1 DEF MergeInv
  <2>3. /\ DOMAIN copy[m] = Fields /\ copy[m].refs = items[keys[i]][m].refs
        /\ copy[m].from = items[keys[i]][m].from
        /\ SameText(copy[m], items[keys[i]][m])
    BY <1>5, <2>2, CopyRefers
  <2> QED
    BY <1>4, <1>10, <2>1, <2>3
<1>6. \E e \in 1 .. Len(folder.entries) : Merger!Superseding!Target(folder.entries[e]) = target
  BY <1>10 DEF CopiedTo
<1> HIDE DEF copy, target
<1>7. IsFiniteSet(DOMAIN items')
  BY <1>3, FS_AddElement DEF MergeInv
<1>8. keys' \in Seq(DOMAIN items')
  <2>1. keys \in Seq(DOMAIN items') /\ target \in DOMAIN items'
    BY <1>3 DEF MergeInv
  <2>2. Append(keys, target) \in Seq(DOMAIN items')
    BY <2>1
  <2>3. keys' = keys \/ keys' = Append(keys, target)
    BY <1>3
  <2> QED
    BY <2>1, <2>2, <2>3
<1>9. ASSUME NEW path \in DOMAIN items', NEW m \in DOMAIN items'[path]
      PROVE  /\ DOMAIN items'[path][m] = Fields
             /\ \E p \in DOMAIN items : \E k \in DOMAIN items[p] :
                  /\ path = p \/ CopiedTo(path, p)
                  /\ items'[path][m].refs = items[p][k].refs
                  /\ items'[path][m].from = items[p][k].from
                  /\ SameText(items'[path][m], items[p][k])
  <2>1. CASE path = target
    BY <1>3, <1>5, <1>9, <2>1
  <2>2. CASE path # target
    BY <1>3, <1>9, <2>2 DEF MergeInv, SameText
  <2> QED
    BY <2>1, <2>2
<1> QED
  BY <1>2, <1>3, <1>6, <1>7, <1>8, <1>9

LEMMA GenerateSupersededKeeps ==
  ASSUME MergeInv, Merger!GenerateSuperseded PROVE MergeInv'
<1>1. stage = "superseded" /\ stage' \in {"superseded", "normalize", "thrown"}
  BY DEF Merger!GenerateSuperseded
<1>2. CASE Merger!Superseding!Supersede
  <2> USE <1>1, <1>2
  <2>1. /\ folder' = folder /\ at' \in Nat \ {0}
        /\ IsFiniteSet(DOMAIN items') /\ keys' \in Seq(DOMAIN items')
    BY SupersedeStep DEF MergeInv
  <2>2. \A path \in DOMAIN items' : \A m \in DOMAIN items'[path] : DOMAIN items'[path][m] = Fields
    BY SupersedeStep
  <2>3. \A path \in DOMAIN items' : \A m \in DOMAIN items'[path] :
          DOMAIN folder.globals \subseteq items'[path][m].refs
    BY SupersedeStep DEF MergeInv, AllReferTo
  <2> QED
    BY <2>1, <2>2, <2>3 DEF MergeInv, AllReferTo
<1>3. CASE \/ Merger!Superseding!Warn \/ Merger!Superseding!Mismatch
           \/ Merger!Superseding!Finish
  <2>1. folder' = folder /\ items' = items /\ keys' = keys /\ at' \in {at, at + 1}
    BY <1>3 DEF Merger!Superseding!Warn, Merger!Superseding!Mismatch, Merger!Superseding!Finish
  <2> QED
    BY <1>1, <2>1 DEF MergeInv, AllReferTo
<1> QED
  BY <1>2, <1>3 DEF Merger!GenerateSuperseded, Merger!Superseding!Next

LEMMA NormalizeKeeps ==
  ASSUME MergeInv, Merger!Normalize PROVE MergeInv'
<1> DEFINE G == DOMAIN folder.globals
<1>1. /\ stage = "normalize" /\ stage' = "done" /\ folder' = folder /\ at' = at
      /\ DOMAIN items' = DOMAIN items
      /\ \A path \in DOMAIN items :
           /\ DOMAIN items'[path] = DOMAIN items[path]
           /\ \A m \in DOMAIN items[path] :
                items'[path][m] =
                  [items[path][m] EXCEPT !.refs = Merger!Rename(items[path][m].refs)]
  BY DEF Merger!Normalize
<1>2. ASSUME NEW path \in DOMAIN items', NEW m \in DOMAIN items'[path]
      PROVE  DOMAIN items'[path][m] = Fields /\ Merger!Rename(G) \subseteq items'[path][m].refs
  <2>1. /\ path \in DOMAIN items /\ m \in DOMAIN items[path] /\ DOMAIN items[path][m] = Fields
        /\ G \subseteq items[path][m].refs
    BY <1>1, <1>2 DEF MergeInv, AllReferTo
  <2>2. items'[path][m] = [items[path][m] EXCEPT !.refs = Merger!Rename(items[path][m].refs)]
    BY <1>1, <2>1
  <2>3. Merger!Rename(G) \subseteq Merger!Rename(items[path][m].refs)
    BY <2>1 DEF Merger!Rename
  <2> QED
    BY <2>1, <2>2, <2>3, ReferencesSet
<1> QED
  BY <1>1, <1>2 DEF MergeInv, AllReferTo, Merger!Rename

LEMMA NextMerge == MergeInv /\ [Next]_vars => MergeInv'
<1> SUFFICES ASSUME MergeInv, [Next]_vars PROVE MergeInv'
  OBVIOUS
<1>1. CASE Lint \/ UNCHANGED vars
  <2>1. UNCHANGED mergeVars
    BY <1>1 DEF Lint, vars
  <2>2. folder' = folder
    BY <1>1 DEF Lint, vars, Linter!Next, Linter!FindRefs, Linter!ValidateName,
         Linter!ValidateGroups, Linter!ValidateFile, Linter!ValidateFolder, Linter!ValidateRefs,
         Linter!MergeThrows, Linter!ValidateSchemas, Linter!VisitSchemas
  <2> QED
    BY <2>1, <2>2 DEF mergeVars, MergeInv, AllReferTo, Merger!Rename
<1>2. CASE Merger!MergeSchemas
  BY <1>2 DEF Merger!MergeSchemas, MergeInv
<1>3. CASE Merger!ParseThrows
  BY <1>3 DEF Merger!ParseThrows, MergeInv
<1> QED
  BY <1>1, <1>2, <1>3, MergeNamespaceKeeps, SortKeeps, GenerateGlobalsKeeps,
     GenerateSupersededKeeps, NormalizeKeeps DEF Next, Merge, Merger!Next

\* Every operation of the merged file, generated or not, has the global
\* parameters, whether the linter passed the folder or not.
THEOREM GlobalsCorrect == Spec => []EveryOperationGlobal
<1>1. MergeInv => EveryOperationGlobal
  BY DEF MergeInv, AllReferTo, EveryOperationGlobal, Merger!Operations, Merger!Rename, Rename
<1> QED
  BY <1>1, InitMerge, NextMerge, PTL DEF Spec

-----------------------------------------------------------------------------
(***************************************************************************)
(* What the phases of the merge do to the operations and components.       *)
(***************************************************************************)
Files == 1 .. Len(folder.namespaces)

OpsOf(i) == folder.namespaces[i].ops

DefsOf(i) == folder.namespaces[i].components

DefFields == {"from", "refs", "param"}

Merging == {"namespaces", "globals", "superseded", "normalize"}

\* The files that were merged.
Merged(i) == stage # "namespaces" \/ i < at

LEMMA ItemsAre ==
  ASSUME folder \in Folders, NEW i \in Files
  PROVE  LET new == Merger!ItemsOf(i) IN
         /\ DOMAIN new = PathsOf(folder.namespaces[i])
         /\ \A path \in DOMAIN new : \A m \in DOMAIN new[path] :
              /\ <<path, m>> \in DOMAIN OpsOf(i)
              /\ new[path][m].refs = OpsOf(i)[<<path, m>>].refs
              /\ SameText(new[path][m], OpsOf(i)[<<path, m>>])
         /\ \A k \in DOMAIN OpsOf(i) :
              /\ k[1] \in DOMAIN new /\ k[2] \in DOMAIN new[k[1]]
              /\ new[k[1]][k[2]].from = i /\ new[k[1]][k[2]].copies = 0
<1> DEFINE ops == OpsOf(i)
           new == Merger!ItemsOf(i)
<1>1. \A k \in DOMAIN ops : k = <<k[1], k[2]>>
  <2>1. DOMAIN RefsIn(ops) \subseteq Paths \X Methods
    BY NamespaceOf DEF IsNamespace, IsReferring, OpsOf, Files
  <2>2. DOMAIN ops \subseteq Paths \X Methods
    BY <2>1 DEF RefsIn
  <2> QED
    BY <2>2
<1>2. /\ DOMAIN new = {k[1] : k \in DOMAIN ops}
      /\ \A path \in DOMAIN new :
           DOMAIN new[path] = {k[2] : k \in {l \in DOMAIN ops : l[1] = path}}
  BY DEF Merger!ItemsOf, Merger!PathsOf, OpsOf
<1>3. \A path \in DOMAIN new : \A m \in DOMAIN new[path] :
        /\ new[path][m].refs = ops[<<path, m>>].refs
        /\ SameText(new[path][m], ops[<<path, m>>])
        /\ new[path][m].from = i /\ new[path][m].copies = 0
  BY DEF Merger!ItemsOf, OpsOf, SameText
<1>6. DOMAIN new = PathsOf(folder.namespaces[i])
  BY <1>2 DEF PathsOf, OpsOf
<1> HIDE DEF ops, new
<1>4. \A path \in DOMAIN new : \A m \in DOMAIN new[path] : <<path, m>> \in DOMAIN ops
  BY <1>1, <1>2
<1>5. \A k \in DOMAIN ops : k[1] \in DOMAIN new /\ k[2] \in DOMAIN new[k[1]]
  BY <1>2
<1> QED
  BY <1>3, <1>4, <1>5, <1>6 DEF ops, new

LEMMA NamespaceStep ==
  ASSUME MergeInv, Merger!MergeNamespace
  PROVE  /\ at \in Files /\ at' = at + 1 /\ stage = "namespaces" /\ stage' = stage
         /\ folder' = folder /\ schemas' = schemas
         /\ DOMAIN items' = DOMAIN items \cup DOMAIN Merger!ItemsOf(at)
         /\ \A path \in DOMAIN items' : items'[path] =
              IF path \in DOMAIN Merger!ItemsOf(at) THEN Merger!ItemsOf(at)[path] ELSE items[path]
         /\ DOMAIN components' = DOMAIN components \cup DOMAIN DefsOf(at)
         /\ \A c \in DOMAIN components' : components'[c] =
              IF c \in DOMAIN DefsOf(at)
                THEN [from |-> at, refs |-> DefsOf(at)[c].refs, param |-> DefsOf(at)[c].param]
                ELSE components[c]
<1>1. /\ stage = "namespaces" /\ stage' = stage /\ folder' = folder /\ schemas' = schemas
      /\ at' = at + 1 /\ at <= Len(folder.namespaces)
      /\ items' = Merger!Override(items, Merger!ItemsOf(at))
      /\ components' = Merger!Override(components, Merger!From(at, DefsOf(at)))
  BY DEF Merger!MergeNamespace, Merger!file, DefsOf
<1>2. at \in Files
  BY <1>1, Count DEF MergeInv, Files
<1> DEFINE new == Merger!ItemsOf(at)
           defs == Merger!From(at, DefsOf(at))
<1> HIDE DEF new
<1>3. /\ DOMAIN items' = DOMAIN items \cup DOMAIN new
      /\ \A path \in DOMAIN items' :
           items'[path] = IF path \in DOMAIN new THEN new[path] ELSE items[path]
  BY <1>1 DEF Merger!Override, new
<1>4. /\ DOMAIN defs = DOMAIN DefsOf(at)
      /\ \A c \in DOMAIN defs : defs[c] =
           [from |-> at, refs |-> DefsOf(at)[c].refs, param |-> DefsOf(at)[c].param]
  BY DEF Merger!From
<1> HIDE DEF defs
<1>5. /\ DOMAIN components' = DOMAIN components \cup DOMAIN defs
      /\ \A c \in DOMAIN components' :
           components'[c] = IF c \in DOMAIN defs THEN defs[c] ELSE components[c]
  BY <1>1 DEF Merger!Override, defs
<1>6. \A c \in DOMAIN components' : components'[c] =
        IF c \in DOMAIN DefsOf(at)
          THEN [from |-> at, refs |-> DefsOf(at)[c].refs, param |-> DefsOf(at)[c].param]
          ELSE components[c]
  BY <1>4, <1>5
<1> QED
  BY <1>1, <1>2, <1>3, <1>4, <1>5, <1>6 DEF new

LEMMA GlobalsStep ==
  ASSUME MergeInv, Merger!GenerateGlobals
  PROVE  /\ stage = "globals" /\ stage' = "superseded" /\ folder' = folder /\ schemas' = schemas
         /\ DOMAIN items' = DOMAIN items
         /\ \A path \in DOMAIN items :
              /\ DOMAIN items'[path] = DOMAIN items[path]
              /\ \A m \in DOMAIN items[path] :
                   /\ items'[path][m].refs = items[path][m].refs \cup DOMAIN folder.globals
                   /\ SameText(items'[path][m], items[path][m])
                   /\ items'[path][m].from = items[path][m].from
                   /\ items'[path][m].copies = items[path][m].copies
         /\ DOMAIN components' = DOMAIN components \cup DOMAIN folder.globals
         /\ \A c \in DOMAIN components' :
              /\ c \in DOMAIN components => components'[c] = components[c]
              /\ c \notin DOMAIN components =>
                   components'[c] = [from |-> 0, refs |-> folder.globals[c], param |-> NoParam]
<1>1. /\ stage = "globals" /\ stage' = "superseded" /\ folder' = folder /\ schemas' = schemas
      /\ DOMAIN items' = DOMAIN items
      /\ \A path \in DOMAIN items :
           /\ DOMAIN items'[path] = DOMAIN items[path]
           /\ \A m \in DOMAIN items[path] : items'[path][m] =
                [items[path][m] EXCEPT !.refs = items[path][m].refs \cup DOMAIN folder.globals]
  BY DEF Merger!GenerateGlobals
<1>2. components' = Merger!Override(Merger!global_params, components)
  BY DEF Merger!GenerateGlobals
<1>3. /\ DOMAIN components' = DOMAIN components \cup DOMAIN folder.globals
      /\ \A c \in DOMAIN components' :
           /\ c \in DOMAIN components => components'[c] = components[c]
           /\ c \notin DOMAIN components =>
                components'[c] = [from |-> 0, refs |-> folder.globals[c], param |-> NoParam]
  BY <1>2 DEF Merger!Override, Merger!global_params
<1>4. ASSUME NEW path \in DOMAIN items, NEW m \in DOMAIN items[path]
      PROVE  /\ items'[path][m].refs = items[path][m].refs \cup DOMAIN folder.globals
             /\ SameText(items'[path][m], items[path][m])
             /\ items'[path][m].from = items[path][m].from
             /\ items'[path][m].copies = items[path][m].copies
  <2>1. DOMAIN items[path][m] = Fields
    BY DEF MergeInv
  <2> DEFINE refs == items[path][m].refs \cup DOMAIN folder.globals
  <2>2. items'[path][m] = [items[path][m] EXCEPT !.refs = refs]
    BY <1>1
  <2> HIDE DEF refs
  <2>3. /\ items'[path][m].refs = refs
        /\ SameText(items'[path][m], items[path][m])
        /\ items'[path][m].from = items[path][m].from
        /\ items'[path][m].copies = items[path][m].copies
    BY <2>1, <2>2, ReferencesSet
  <2> QED
    BY <2>3 DEF refs
<1> QED
  BY <1>1, <1>3, <1>4

LEMMA NormalizeStep ==
  ASSUME MergeInv, \A c \in DOMAIN components : DOMAIN components[c] = DefFields,
         Merger!Normalize
  PROVE  /\ stage = "normalize" /\ stage' = "done" /\ folder' = folder
         /\ DOMAIN items' = DOMAIN items
         /\ \A path \in DOMAIN items :
              /\ DOMAIN items'[path] = DOMAIN items[path]
              /\ \A m \in DOMAIN items[path] :
                   /\ items'[path][m].refs = Merger!Rename(items[path][m].refs)
                   /\ SameText(items'[path][m], items[path][m])
                   /\ items'[path][m].from = items[path][m].from
                   /\ items'[path][m].copies = items[path][m].copies
         /\ DOMAIN components' = Merger!Rename(DOMAIN components)
         /\ \A k \in DOMAIN components' : \E c \in DOMAIN components :
              /\ Normal[c] = k
              /\ components'[k].from = components[c].from
              /\ components'[k].refs = Merger!Rename(components[c].refs)
              /\ components'[k].param = components[c].param
         /\ DOMAIN schemas' = Merger!Rename(DOMAIN schemas)
         /\ \A k \in DOMAIN schemas' : \E s \in DOMAIN schemas :
              schemas'[k] = Merger!Rename(schemas[s])
<1>1. /\ stage = "normalize" /\ stage' = "done" /\ folder' = folder
      /\ DOMAIN items' = DOMAIN items
      /\ \A path \in DOMAIN items :
           /\ DOMAIN items'[path] = DOMAIN items[path]
           /\ \A m \in DOMAIN items[path] : items'[path][m] =
                [items[path][m] EXCEPT !.refs = Merger!Rename(items[path][m].refs)]
  BY DEF Merger!Normalize
<1>2. ASSUME NEW path \in DOMAIN items, NEW m \in DOMAIN items[path]
      PROVE  /\ items'[path][m].refs = Merger!Rename(items[path][m].refs)
             /\ SameText(items'[path][m], items[path][m])
             /\ items'[path][m].from = items[path][m].from
             /\ items'[path][m].copies = items[path][m].copies
  <2>1. DOMAIN items[path][m] = Fields
    BY DEF MergeInv
  <2>2. items'[path][m] = [items[path][m] EXCEPT !.refs = Merger!Rename(items[path][m].refs)]
    BY <1>1
  <2> QED
    BY <2>1, <2>2, ReferencesSet
<1>3. /\ DOMAIN components' = Merger!Rename(DOMAIN components)
      /\ \A k \in DOMAIN components' : \E c \in DOMAIN components :
           /\ Normal[c] = k
           /\ components'[k].from = components[c].from
           /\ components'[k].refs = Merger!Rename(components[c].refs)
           /\ components'[k].param = components[c].param
  <2>1. PICK w \in Merger!Kept(DOMAIN components) : components' =
          [k \in DOMAIN w |->
             [components[w[k]] EXCEPT !.refs = Merger!Rename(components[w[k]].refs)]]
    BY DEF Merger!Normalize
  <2>2. /\ w \in [Merger!Rename(DOMAIN components) -> DOMAIN components]
        /\ \A k \in DOMAIN w : Normal[w[k]] = k
    BY DEF Merger!Kept
  <2>3. DOMAIN components' = Merger!Rename(DOMAIN components)
    BY <2>1, <2>2
  <2>4. ASSUME NEW k \in DOMAIN components'
        PROVE  /\ w[k] \in DOMAIN components /\ Normal[w[k]] = k
               /\ components'[k].from = components[w[k]].from
               /\ components'[k].refs = Merger!Rename(components[w[k]].refs)
               /\ components'[k].param = components[w[k]].param
    <3>1. w[k] \in DOMAIN components /\ Normal[w[k]] = k /\ k \in DOMAIN w
      BY <2>2, <2>3
    <3>2. components'[k] = [components[w[k]] EXCEPT !.refs = Merger!Rename(components[w[k]].refs)]
      BY <2>1, <3>1
    <3> QED
      BY <3>1, <3>2 DEF DefFields
  <2> QED
    BY <2>3, <2>4
<1>4. /\ DOMAIN schemas' = Merger!Rename(DOMAIN schemas)
      /\ \A k \in DOMAIN schemas' :
           \E s \in DOMAIN schemas : schemas'[k] = Merger!Rename(schemas[s])
  <2>1. PICK w \in Merger!Kept(DOMAIN schemas) :
          schemas' = [k \in DOMAIN w |-> Merger!Rename(schemas[w[k]])]
    BY DEF Merger!Normalize
  <2>2. w \in [Merger!Rename(DOMAIN schemas) -> DOMAIN schemas]
    BY DEF Merger!Kept
  <2> QED
    BY <2>1, <2>2
<1> QED
  BY <1>1, <1>2, <1>3, <1>4

\* The other steps leave the operations and the components as they are.
LEMMA OtherSteps ==
  ASSUME MergeInv, [Next]_vars,
         ~Merger!MergeNamespace, ~Merger!GenerateGlobals, ~Merger!Normalize,
         ~(Merger!GenerateSuperseded /\ Merger!Superseding!Supersede)
  PROVE  /\ folder' = folder /\ items' = items /\ components' = components
         /\ \/ /\ stage = "schemas" /\ stage' = "namespaces"
               /\ schemas' = folder.schemas /\ at' = at
            \/ /\ stage = "namespaces" /\ stage' = "globals" /\ schemas' = schemas
               /\ at = Len(folder.namespaces) + 1
            \/ stage' = "thrown"
            \/ stage = "superseded" /\ stage' \in {"superseded", "normalize"} /\ schemas' = schemas
            \/ stage' = stage /\ schemas' = schemas /\ at' = at
<1>1. CASE Lint \/ UNCHANGED vars
  <2>1. UNCHANGED mergeVars
    BY <1>1 DEF Lint, vars
  <2>2. folder' = folder
    BY <1>1 DEF Lint, vars, Linter!Next, Linter!FindRefs, Linter!ValidateName,
         Linter!ValidateGroups, Linter!ValidateFile, Linter!ValidateFolder, Linter!ValidateRefs,
         Linter!MergeThrows, Linter!ValidateSchemas, Linter!VisitSchemas
  <2> QED
    BY <2>1, <2>2 DEF mergeVars
<1>2. CASE Merger!MergeSchemas
  BY <1>2 DEF Merger!MergeSchemas
<1>3. CASE Merger!ParseThrows
  BY <1>3 DEF Merger!ParseThrows
<1>4. CASE Merger!Sort
  BY <1>4 DEF Merger!Sort
<1>5. CASE Merger!GenerateSuperseded
  <2>1. stage = "superseded" /\ stage' \in {"superseded", "normalize", "thrown"}
        /\ schemas' = schemas /\ components' = components
    BY <1>5 DEF Merger!GenerateSuperseded
  <2>2. folder' = folder /\ items' = items
    BY <1>5, <2>1 DEF Merger!GenerateSuperseded, Merger!Superseding!Next, Merger!Superseding!Warn,
         Merger!Superseding!Mismatch, Merger!Superseding!Finish
  <2> QED
    BY <2>1, <2>2
<1> QED
  BY <1>1, <1>2, <1>3, <1>4, <1>5 DEF Next, Merge, Merger!Next

\* An entry changes the paths only.
LEMMA SupersededStep ==
  ASSUME MergeInv, Merger!GenerateSuperseded, Merger!Superseding!Supersede
  PROVE  /\ stage = "superseded" /\ stage' \in {"superseded", "normalize", "thrown"}
         /\ components' = components /\ schemas' = schemas /\ folder' = folder
BY SupersedeStep DEF Merger!GenerateSuperseded

-----------------------------------------------------------------------------
\* What a folder in order says of one of its files.
LEMMA CleanFile ==
  ASSUME InOrder(folder), NEW i \in Files
  PROVE  /\ \A k \in DOMAIN OpsOf(i) : OpsOf(i)[k].refs \subseteq DOMAIN DefsOf(i)
         /\ \A c \in DOMAIN DefsOf(i) :
              DefsOf(i)[c].refs \subseteq SchemaRefsOf(folder) /\ Namespace[Group[c]] = i
<1> DEFINE n == folder.namespaces[i]
<1>1. OperationsClean(folder, i)
  BY DEF InOrder, FoldersClean, FileClean, Files
<1>2. RefsOf(n) = DOMAIN n.components
  BY <1>1 DEF OperationsClean
<1>3. \A k \in DOMAIN n.ops : n.ops[k].refs \subseteq DOMAIN n.components
  BY <1>2 DEF RefsOf
<1>4. ASSUME NEW c \in DOMAIN n.components PROVE Namespace[Group[c]] = i
  <2>1. PICK k \in DOMAIN n.ops : c \in n.ops[k].refs
    BY <1>2 DEF RefsOf
  <2> QED
    BY <1>1, <2>1, OwnerSays
<1>5. ASSUME NEW c \in DOMAIN n.components PROVE n.components[c].refs \subseteq SchemaRefsOf(folder)
  <2> DEFINE used(o) == UNION {o.components[d].refs : d \in DOMAIN o.components}
  <2>1. n \in AllNamespaces(folder)
    BY DEF AllNamespaces, Files
  <2>2. n.components[c].refs \subseteq used(n)
    BY <1>5
  <2>3. used(n) \subseteq UNION {used(o) : o \in AllNamespaces(folder)}
    <3> HIDE DEF n, used
    <3> QED
      BY <2>1
  <2>4. UNION {used(o) : o \in AllNamespaces(folder)} \subseteq SchemaRefsOf(folder)
    BY DEF SchemaRefsOf
  <2> QED
    BY <2>2, <2>3, <2>4
<1> QED
  BY <1>3, <1>4, <1>5 DEF OpsOf, DefsOf

LEMMA CleanSchemas ==
  ASSUME InOrder(folder)
  PROVE  /\ SchemaRefsOf(folder) = DOMAIN folder.schemas
         /\ \A s \in DOMAIN folder.schemas : folder.schemas[s] \subseteq SchemaRefsOf(folder)
<1>1. SchemaRefsOf(folder) = DOMAIN folder.schemas
  BY DEF InOrder, FoldersClean
<1>2. ASSUME NEW s \in DOMAIN folder.schemas
      PROVE  folder.schemas[s] \subseteq SchemaRefsOf(folder)
  <2>1. folder.schemas[s] \subseteq UNION {folder.schemas[x] : x \in DOMAIN folder.schemas}
    OBVIOUS
  <2>2. UNION {folder.schemas[x] : x \in DOMAIN folder.schemas} \subseteq SchemaRefsOf(folder)
    BY DEF SchemaRefsOf
  <2> QED
    BY <2>1, <2>2
<1> QED
  BY <1>1, <1>2

-----------------------------------------------------------------------------
(***************************************************************************)
(* In a folder in order, references lead to definitions after every phase. *)
(***************************************************************************)
Resolved ==
  /\ \A path \in DOMAIN items : \A m \in DOMAIN items[path] :
       items[path][m].refs \subseteq DOMAIN components
  /\ \A c \in DOMAIN components :
       components[c].from # 0 => components[c].refs \subseteq DOMAIN schemas
  /\ \A s \in DOMAIN schemas : schemas[s] \subseteq DOMAIN schemas

ResolveInv ==
  /\ stage \in {"schemas"} \cup Merging =>
       \A c \in DOMAIN components : DOMAIN components[c] = DefFields
  /\ stage = "schemas" => DOMAIN items = {} /\ DOMAIN components = {}
  /\ stage \in Merging => schemas = folder.schemas
  /\ InOrder(folder) /\ stage \in Merging \cup {"done"} => Resolved

LEMMA InitResolve == Init => ResolveInv
BY DEF Init, Merger!Begin, ResolveInv, Merging

LEMMA NextResolve == MergeInv /\ ResolveInv /\ [Next]_vars => ResolveInv'
<1> SUFFICES ASSUME MergeInv, ResolveInv, [Next]_vars PROVE ResolveInv'
  OBVIOUS
<1>1. CASE Merger!MergeNamespace
  <2>1. folder' = folder /\ schemas' = schemas /\ stage = "namespaces" /\ stage' = stage
        /\ at \in Files /\ folder \in Folders
    BY <1>1, NamespaceStep DEF MergeInv
  <2>2. /\ DOMAIN components' = DOMAIN components \cup DOMAIN DefsOf(at)
        /\ \A c \in DOMAIN components' : components'[c] =
             IF c \in DOMAIN DefsOf(at)
               THEN [from |-> at, refs |-> DefsOf(at)[c].refs, param |-> DefsOf(at)[c].param]
               ELSE components[c]
    BY <1>1, NamespaceStep
  <2>3. \A c \in DOMAIN components' : DOMAIN components'[c] = DefFields
    BY <2>1, <2>2 DEF ResolveInv, Merging, DefFields
  <2>4. ASSUME InOrder(folder) PROVE Resolved'
    <3>1. Resolved
      BY <2>1, <2>4 DEF ResolveInv, Merging
    <3>2. ASSUME NEW c \in DOMAIN components', components'[c].from # 0
          PROVE  components'[c].refs \subseteq DOMAIN schemas'
      <4>1. CASE c \in DOMAIN DefsOf(at)
        <5>0. components'[c] =
                [from |-> at, refs |-> DefsOf(at)[c].refs, param |-> DefsOf(at)[c].param]
          BY <2>2, <3>2, <4>1
        <5>1. components'[c].refs = DefsOf(at)[c].refs
          BY <5>0
        <5>2. schemas = folder.schemas
          BY <2>1 DEF ResolveInv, Merging
        <5> QED
          BY <2>1, <2>4, <4>1, <5>1, <5>2, CleanFile, CleanSchemas
      <4>2. CASE c \notin DOMAIN DefsOf(at)
        BY <2>1, <2>2, <3>1, <3>2, <4>2 DEF Resolved
      <4> QED
        BY <4>1, <4>2
    <3>3. ASSUME NEW path \in DOMAIN items', NEW m \in DOMAIN items'[path]
          PROVE  items'[path][m].refs \subseteq DOMAIN components'
      <4>1. CASE path \in DOMAIN Merger!ItemsOf(at)
        <5>1. items'[path] = Merger!ItemsOf(at)[path]
          BY <1>1, <4>1, NamespaceStep
        <5>2. /\ <<path, m>> \in DOMAIN OpsOf(at)
              /\ items'[path][m].refs = OpsOf(at)[<<path, m>>].refs
          BY <2>1, <3>3, <4>1, <5>1, ItemsAre
        <5>3. items'[path][m].refs \subseteq DOMAIN DefsOf(at)
          BY <2>1, <2>4, <5>2, CleanFile
        <5> QED
          BY <2>2, <5>3
      <4>2. CASE path \notin DOMAIN Merger!ItemsOf(at)
        <5>1. path \in DOMAIN items /\ items'[path] = items[path]
          BY <1>1, <3>3, <4>2, NamespaceStep
        <5> QED
          BY <2>2, <3>1, <3>3, <5>1 DEF Resolved
      <4> QED
        BY <4>1, <4>2
    <3> QED
      BY <2>1, <3>1, <3>2, <3>3 DEF Resolved
  <2> QED
    BY <2>1, <2>3, <2>4 DEF ResolveInv, Merging
<1>2. CASE Merger!GenerateGlobals
  <2>1. stage = "globals" /\ stage' = "superseded" /\ folder' = folder /\ schemas' = schemas
    BY <1>2, GlobalsStep
  <2>2. /\ DOMAIN components' = DOMAIN components \cup DOMAIN folder.globals
        /\ \A c \in DOMAIN components' :
             /\ c \in DOMAIN components => components'[c] = components[c]
             /\ c \notin DOMAIN components =>
                  components'[c] = [from |-> 0, refs |-> folder.globals[c], param |-> NoParam]
    BY <1>2, GlobalsStep
  <2>3. ASSUME NEW c \in DOMAIN components'
        PROVE  /\ DOMAIN components'[c] = DefFields
               /\ components'[c].from # 0 => c \in DOMAIN components
    <3>1. CASE c \in DOMAIN components
      BY <2>1, <2>2, <3>1 DEF ResolveInv, Merging
    <3>2. CASE c \notin DOMAIN components
      <4>1. components'[c] = [from |-> 0, refs |-> folder.globals[c], param |-> NoParam]
        BY <2>2, <2>3, <3>2
      <4> QED
        BY <4>1 DEF DefFields
    <3> QED
      BY <3>1, <3>2
  <2>4. ASSUME InOrder(folder) PROVE Resolved'
    <3>1. Resolved
      BY <2>1, <2>4 DEF ResolveInv, Merging
    <3>2. \A c \in DOMAIN components' :
            components'[c].from # 0 => components'[c].refs \subseteq DOMAIN schemas'
      BY <2>1, <2>2, <2>3, <3>1 DEF Resolved
    <3>3. ASSUME NEW path \in DOMAIN items', NEW m \in DOMAIN items'[path]
          PROVE  items'[path][m].refs \subseteq DOMAIN components'
      <4>1. /\ path \in DOMAIN items /\ m \in DOMAIN items[path]
            /\ items'[path][m].refs = items[path][m].refs \cup DOMAIN folder.globals
        BY <1>2, <3>3, GlobalsStep
      <4> QED
        BY <2>2, <3>1, <4>1 DEF Resolved
    <3> QED
      BY <2>1, <3>1, <3>2, <3>3 DEF Resolved
  <2> QED
    BY <2>1, <2>3, <2>4 DEF ResolveInv, Merging
<1>3. CASE Merger!GenerateSuperseded /\ Merger!Superseding!Supersede
  <2>1. /\ stage = "superseded" /\ stage' \in {"superseded", "normalize", "thrown"}
        /\ components' = components /\ schemas' = schemas /\ folder' = folder
    BY <1>3, SupersededStep
  <2>2. ASSUME InOrder(folder) PROVE Resolved'
    <3>1. Resolved
      BY <2>1, <2>2 DEF ResolveInv, Merging
    <3>2. \A path \in DOMAIN items' : \A m \in DOMAIN items'[path] :
            \E p \in DOMAIN items : \E k \in DOMAIN items[p] :
              items'[path][m].refs = items[p][k].refs
      BY <1>3, <2>1, SupersedeStep
    <3> QED
      BY <2>1, <3>1, <3>2 DEF Resolved
  <2> QED
    BY <2>1, <2>2 DEF ResolveInv, Merging
<1>4. CASE Merger!Normalize
  <2>1. \A c \in DOMAIN components : DOMAIN components[c] = DefFields
    BY <1>4 DEF Merger!Normalize, ResolveInv, Merging
  <2>2. stage = "normalize" /\ stage' = "done" /\ folder' = folder
    BY <1>4, <2>1, NormalizeStep
  <2>3. ASSUME InOrder(folder) PROVE Resolved'
    <3>1. Resolved
      BY <2>2, <2>3 DEF ResolveInv, Merging
    <3>2. ASSUME NEW S, NEW T, S \subseteq T PROVE Merger!Rename(S) \subseteq Merger!Rename(T)
      BY <3>2 DEF Merger!Rename
    <3>3. ASSUME NEW path \in DOMAIN items', NEW m \in DOMAIN items'[path]
          PROVE  items'[path][m].refs \subseteq DOMAIN components'
      <4>1. /\ path \in DOMAIN items /\ m \in DOMAIN items[path]
            /\ items'[path][m].refs = Merger!Rename(items[path][m].refs)
            /\ DOMAIN components' = Merger!Rename(DOMAIN components)
        BY <1>4, <2>1, <3>3, NormalizeStep
      <4> QED
        BY <3>1, <3>2, <4>1 DEF Resolved
    <3>4. DOMAIN schemas' = Merger!Rename(DOMAIN schemas)
      BY <1>4, <2>1, NormalizeStep
    <3>5. ASSUME NEW k \in DOMAIN components', components'[k].from # 0
          PROVE  components'[k].refs \subseteq DOMAIN schemas'
      <4>1. PICK c \in DOMAIN components :
              /\ components'[k].from = components[c].from
              /\ components'[k].refs = Merger!Rename(components[c].refs)
        BY <1>4, <2>1, NormalizeStep
      <4> QED
        BY <3>1, <3>2, <3>4, <3>5, <4>1 DEF Resolved
    <3>6. ASSUME NEW k \in DOMAIN schemas' PROVE schemas'[k] \subseteq DOMAIN schemas'
      <4>1. PICK s \in DOMAIN schemas : schemas'[k] = Merger!Rename(schemas[s])
        BY <1>4, <2>1, NormalizeStep
      <4> QED
        BY <3>1, <3>2, <3>4, <4>1 DEF Resolved
    <3> QED
      BY <3>3, <3>5, <3>6 DEF Resolved
  <2> QED
    BY <2>2, <2>3 DEF ResolveInv, Merging
<1>5. CASE /\ ~Merger!MergeNamespace /\ ~Merger!GenerateGlobals /\ ~Merger!Normalize
           /\ ~(Merger!GenerateSuperseded /\ Merger!Superseding!Supersede)
  <2>1. /\ folder' = folder /\ items' = items /\ components' = components
        /\ \/ /\ stage = "schemas" /\ stage' = "namespaces"
              /\ schemas' = folder.schemas
           \/ stage = "namespaces" /\ stage' = "globals" /\ schemas' = schemas
           \/ stage' = "thrown"
           \/ stage = "superseded" /\ stage' \in {"superseded", "normalize"} /\ schemas' = schemas
           \/ stage' = stage /\ schemas' = schemas
    BY <1>5, OtherSteps
  <2>2. CASE stage = "schemas" /\ stage' = "namespaces" /\ schemas' = folder.schemas
    <3>1. InOrder(folder) => Resolved'
      BY <2>1, <2>2, CleanSchemas DEF ResolveInv, Resolved
    <3> QED
      BY <2>1, <2>2, <3>1 DEF ResolveInv, Merging
  <2>3. CASE stage' = "thrown"
    BY <2>1, <2>3 DEF ResolveInv, Merging
  <2>4. CASE schemas' = schemas /\ ((stage \in Merging /\ stage' \in Merging) \/ stage' = stage)
    BY <2>1, <2>4 DEF ResolveInv, Merging, Resolved
  <2> QED
    BY <2>1, <2>2, <2>3, <2>4 DEF Merging
<1> QED
  BY <1>1, <1>2, <1>3, <1>4, <1>5

\* The invariants together.
LEMMA Resolving == Spec => [](IInv /\ MergeInv /\ ResolveInv)
<1>1. Init => IInv /\ MergeInv /\ ResolveInv
  BY InitLint, InitMerge, InitResolve
<1>2. IInv /\ MergeInv /\ ResolveInv /\ [Next]_vars => (IInv /\ MergeInv /\ ResolveInv)'
  BY NextBuild, NextMerge, NextResolve
<1> QED
  BY <1>1, <1>2, PTL DEF Spec

\* What the linter passes is in order.
LEMMA PassedClean == IInv /\ PassedAndMerged => InOrder(folder) /\ stage = "done"
BY DEF IInv, PassedAndMerged, CleanExactly

\* What the linter passes merges into a file without loose references.
THEOREM PassedResolvesCorrect == Spec => []PassedResolves
<1>1. IInv /\ ResolveInv => PassedResolves
  <2> SUFFICES ASSUME IInv, ResolveInv, PassedAndMerged PROVE Resolved
    BY DEF PassedResolves, Resolved, Merger!Operations
  <2> QED
    BY PassedClean DEF ResolveInv
<1> QED
  BY <1>1, Resolving, PTL

-----------------------------------------------------------------------------
(***************************************************************************)
(* In a folder in order no file overrides what another one brought.        *)
(***************************************************************************)
\* The operation k of file i is where it belongs.
InPlace(i, k) ==
  /\ k[1] \in DOMAIN items /\ k[2] \in DOMAIN items[k[1]]
  /\ items[k[1]][k[2]].from = i /\ items[k[1]][k[2]].copies = 0

\* An entry puts copies there.
Taken(path) ==
  \E e \in 1 .. Len(folder.entries) : Merger!Superseding!Target(folder.entries[e]) = path

\* A component of the merged file is the one with key c of file i.
OwnedBy(component, i, c) == component.from = i /\ component.param = DefsOf(i)[c].param

Owned == \A i \in Files : Merged(i) =>
           \A c \in DOMAIN DefsOf(i) : c \in DOMAIN components /\ OwnedBy(components[c], i, c)

OwnedNormally == \A i \in Files : \A c \in DOMAIN DefsOf(i) :
                   Normal[c] \in DOMAIN components /\ OwnedBy(components[Normal[c]], i, c)

Unlost == \A i \in Files : Merged(i) =>
            \A k \in DOMAIN OpsOf(i) : InPlace(i, k) \/ Taken(k[1])

OwnInv ==
  /\ stage = "schemas" => at = 1
  /\ stage \in Merging => DOMAIN components \subseteq ComponentKeys(folder)
  /\ InOrder(folder) /\ stage \in Merging => Owned
  /\ InOrder(folder) /\ NormalFormsApart /\ stage = "done" => OwnedNormally
  /\ InOrder(folder) /\ stage \in Merging \cup {"done"} => Unlost

LEMMA InitOwn == Init => OwnInv
BY DEF Init, Merger!Begin, OwnInv, Merging

LEMMA KeysOf ==
  ASSUME NEW i \in Files
  PROVE  DOMAIN DefsOf(i) \subseteq ComponentKeys(folder)
<1> DEFINE n == folder.namespaces[i]
<1>1. n \in AllNamespaces(folder)
  BY DEF AllNamespaces, Files
<1>2. DOMAIN n.components \subseteq UNION {DOMAIN o.components : o \in AllNamespaces(folder)}
  <2> HIDE DEF n
  <2> QED
    BY <1>1
<1> QED
  BY <1>2 DEF ComponentKeys, DefsOf

\* Two files of a folder in order share neither a path nor a component.
LEMMA FilesApart ==
  ASSUME InOrder(folder), NEW i \in Files, NEW j \in Files, i # j
  PROVE  /\ \A c \in DOMAIN DefsOf(i) : c \notin DOMAIN DefsOf(j)
         /\ \A path \in PathsOf(folder.namespaces[i]) : path \notin PathsOf(folder.namespaces[j])
<1>1. \A c \in DOMAIN DefsOf(i) : c \notin DOMAIN DefsOf(j)
  BY CleanFile
<1>2. PathsApart(folder)
  BY DEF InOrder, FoldersClean
<1> QED
  BY <1>1, <1>2 DEF PathsApart, Files

LEMMA NamespaceOwn ==
  ASSUME MergeInv, OwnInv, Merger!MergeNamespace PROVE OwnInv'
<1>1. /\ at \in Files /\ at' = at + 1 /\ at \in Nat /\ stage = "namespaces" /\ stage' = stage
      /\ folder' = folder /\ folder \in Folders
  BY NamespaceStep DEF MergeInv
<1>2. /\ DOMAIN components' = DOMAIN components \cup DOMAIN DefsOf(at)
      /\ \A c \in DOMAIN components' : components'[c] =
           IF c \in DOMAIN DefsOf(at)
             THEN [from |-> at, refs |-> DefsOf(at)[c].refs, param |-> DefsOf(at)[c].param]
             ELSE components[c]
  BY NamespaceStep
<1>3. /\ DOMAIN items' = DOMAIN items \cup DOMAIN Merger!ItemsOf(at)
      /\ \A path \in DOMAIN items' : items'[path] =
           IF path \in DOMAIN Merger!ItemsOf(at) THEN Merger!ItemsOf(at)[path] ELSE items[path]
  BY NamespaceStep
<1>4. DOMAIN components' \subseteq ComponentKeys(folder)
  BY <1>1, <1>2, KeysOf DEF OwnInv, Merging
<1>5. ASSUME InOrder(folder), NEW i \in Files, i < at + 1 PROVE i = at \/ (i # at /\ Merged(i))
  BY <1>1, <1>5, Count DEF Merged, Files
<1>6. ASSUME InOrder(folder), NEW i \in Files, i < at + 1, NEW c \in DOMAIN DefsOf(i)
      PROVE  c \in DOMAIN components' /\ OwnedBy(components'[c], i, c)
  <2>1. CASE i = at
    <3>1. components'[c] =
            [from |-> at, refs |-> DefsOf(at)[c].refs, param |-> DefsOf(at)[c].param]
      BY <1>2, <1>6, <2>1
    <3> QED
      BY <1>2, <1>6, <2>1, <3>1 DEF OwnedBy
  <2>2. CASE i # at /\ Merged(i)
    <3>1. c \in DOMAIN components /\ OwnedBy(components[c], i, c)
      BY <1>1, <1>6, <2>2 DEF OwnInv, Merging, Owned
    <3>2. c \notin DOMAIN DefsOf(at)
      BY <1>1, <1>6, <2>2, FilesApart
    <3> QED
      BY <1>2, <3>1, <3>2
  <2> QED
    BY <1>5, <1>6, <2>1, <2>2
<1>7. ASSUME InOrder(folder), NEW i \in Files, i < at + 1, NEW k \in DOMAIN OpsOf(i), ~Taken(k[1])
      PROVE  InPlace(i, k)'
  <2>1. /\ DOMAIN Merger!ItemsOf(at) = PathsOf(folder.namespaces[at])
        /\ \A l \in DOMAIN OpsOf(at) :
             /\ l[1] \in DOMAIN Merger!ItemsOf(at) /\ l[2] \in DOMAIN Merger!ItemsOf(at)[l[1]]
             /\ Merger!ItemsOf(at)[l[1]][l[2]].from = at
             /\ Merger!ItemsOf(at)[l[1]][l[2]].copies = 0
    BY <1>1, ItemsAre
  <2>2. CASE i = at
    <3>1. k[1] \in DOMAIN items' /\ items'[k[1]] = Merger!ItemsOf(at)[k[1]]
      BY <1>3, <1>7, <2>1, <2>2
    <3> QED
      BY <1>7, <2>1, <2>2, <3>1 DEF InPlace
  <2>3. CASE i # at /\ Merged(i)
    <3>1. InPlace(i, k)
      BY <1>1, <1>7, <2>3 DEF OwnInv, Merging, Unlost
    <3>2. k[1] \in PathsOf(folder.namespaces[i])
      BY <1>7 DEF PathsOf, OpsOf
    <3>3. k[1] \notin DOMAIN Merger!ItemsOf(at)
      BY <1>1, <1>7, <2>1, <2>3, <3>2, FilesApart
    <3>4. k[1] \in DOMAIN items' /\ items'[k[1]] = items[k[1]]
      BY <1>3, <3>1, <3>3 DEF InPlace
    <3> QED
      BY <3>1, <3>4 DEF InPlace
  <2> QED
    BY <1>5, <1>7, <2>2, <2>3
<1>8. InOrder(folder) => Owned'
  BY <1>1, <1>6 DEF Owned, OwnedBy, Merged, Files, DefsOf
<1>9. InOrder(folder) => Unlost'
  BY <1>1, <1>7 DEF Unlost, Merged, Files, OpsOf, Taken
<1> QED
  BY <1>1, <1>4, <1>8, <1>9 DEF OwnInv, Merging, ComponentKeys

LEMMA GlobalsOwn ==
  ASSUME MergeInv, OwnInv, Merger!GenerateGlobals PROVE OwnInv'
<1>1. /\ stage = "globals" /\ stage' = "superseded" /\ folder' = folder
      /\ DOMAIN components' = DOMAIN components \cup DOMAIN folder.globals
      /\ \A c \in DOMAIN components : c \in DOMAIN components' /\ components'[c] = components[c]
  BY GlobalsStep
<1>2. /\ DOMAIN items' = DOMAIN items
      /\ \A path \in DOMAIN items :
           /\ DOMAIN items'[path] = DOMAIN items[path]
           /\ \A m \in DOMAIN items[path] :
                /\ items'[path][m].from = items[path][m].from
                /\ items'[path][m].copies = items[path][m].copies
  BY GlobalsStep
<1>3. ASSUME NEW i, NEW k, InPlace(i, k) PROVE InPlace(i, k)'
  BY <1>2, <1>3 DEF InPlace
<1>4. InOrder(folder) => Owned'
  BY <1>1 DEF OwnInv, Merging, Owned, OwnedBy, Merged, Files, DefsOf
<1>5. InOrder(folder) => Unlost'
  BY <1>1, <1>3 DEF OwnInv, Merging, Unlost, Merged, Files, OpsOf, Taken
<1> QED
  BY <1>1, <1>4, <1>5 DEF OwnInv, Merging, ComponentKeys

LEMMA SupersededOwn ==
  ASSUME MergeInv, OwnInv, Merger!GenerateSuperseded, Merger!Superseding!Supersede
  PROVE  OwnInv'
<1>1. /\ stage = "superseded" /\ stage' \in {"superseded", "normalize", "thrown"}
      /\ components' = components /\ folder' = folder
  BY SupersededStep
<1>2. \A path \in DOMAIN items :
        path \in DOMAIN items' /\ (items'[path] = items[path] \/ Taken(path))
  BY <1>1, SupersedeStep DEF Taken
<1>3. ASSUME NEW i, NEW k, InPlace(i, k), ~Taken(k[1]) PROVE InPlace(i, k)'
  BY <1>2, <1>3 DEF InPlace
<1>4. InOrder(folder) => Owned'
  BY <1>1 DEF OwnInv, Merging, Owned, OwnedBy, Merged, Files, DefsOf
<1>5. InOrder(folder) /\ stage' # "thrown" => Unlost'
  BY <1>1, <1>3 DEF OwnInv, Merging, Unlost, Merged, Files, OpsOf, Taken
<1> QED
  BY <1>1, <1>4, <1>5 DEF OwnInv, Merging, ComponentKeys

LEMMA NormalizeOwn ==
  ASSUME MergeInv, ResolveInv, OwnInv, Merger!Normalize PROVE OwnInv'
<1>1. \A c \in DOMAIN components : DOMAIN components[c] = DefFields
  BY DEF Merger!Normalize, ResolveInv, Merging
<1>2. stage = "normalize" /\ stage' = "done" /\ folder' = folder
  BY <1>1, NormalizeStep
<1>3. /\ DOMAIN items' = DOMAIN items
      /\ \A path \in DOMAIN items :
           /\ DOMAIN items'[path] = DOMAIN items[path]
           /\ \A m \in DOMAIN items[path] :
                /\ items'[path][m].from = items[path][m].from
                /\ items'[path][m].copies = items[path][m].copies
  BY <1>1, NormalizeStep
<1>4. ASSUME NEW i, NEW k, InPlace(i, k) PROVE InPlace(i, k)'
  BY <1>3, <1>4 DEF InPlace
<1>5. InOrder(folder) => Unlost'
  BY <1>2, <1>4 DEF OwnInv, Merging, Unlost, Merged, Files, OpsOf, Taken
<1>6. ASSUME InOrder(folder), NormalFormsApart, NEW i \in Files, NEW c \in DOMAIN DefsOf(i)
      PROVE  Normal[c] \in DOMAIN components' /\ OwnedBy(components'[Normal[c]], i, c)
  <2>1. /\ c \in DOMAIN components /\ OwnedBy(components[c], i, c)
        /\ DOMAIN components \subseteq ComponentKeys(folder)
    BY <1>2, <1>6 DEF OwnInv, Merging, Owned, Merged
  <2>2. Normal[c] \in DOMAIN components'
    <3>1. DOMAIN components' = Merger!Rename(DOMAIN components)
      BY <1>1, NormalizeStep
    <3> QED
      BY <2>1, <3>1 DEF Merger!Rename
  <2>3. PICK d \in DOMAIN components :
          /\ Normal[d] = Normal[c]
          /\ components'[Normal[c]].from = components[d].from
          /\ components'[Normal[c]].param = components[d].param
    BY <1>1, <2>2, NormalizeStep
  <2>4. d = c
    BY <1>6, <2>1, <2>3 DEF NormalFormsApart, ComponentKeys
  <2> QED
    BY <2>1, <2>2, <2>3, <2>4 DEF OwnedBy
<1>7. InOrder(folder) /\ NormalFormsApart => OwnedNormally'
  BY <1>2, <1>6 DEF OwnedNormally, OwnedBy, Files, DefsOf
<1> QED
  BY <1>2, <1>5, <1>7 DEF OwnInv, Merging, NormalFormsApart

LEMMA NextOwn == MergeInv /\ ResolveInv /\ OwnInv /\ [Next]_vars => OwnInv'
<1> SUFFICES ASSUME MergeInv, ResolveInv, OwnInv, [Next]_vars PROVE OwnInv'
  OBVIOUS
<1>1. CASE /\ ~Merger!MergeNamespace /\ ~Merger!GenerateGlobals /\ ~Merger!Normalize
           /\ ~(Merger!GenerateSuperseded /\ Merger!Superseding!Supersede)
  <2>1. /\ folder' = folder /\ items' = items /\ components' = components
        /\ \/ stage = "schemas" /\ stage' = "namespaces" /\ at' = at
           \/ stage = "namespaces" /\ stage' = "globals" /\ at = Len(folder.namespaces) + 1
           \/ stage' = "thrown"
           \/ stage = "superseded" /\ stage' \in {"superseded", "normalize"}
           \/ stage' = stage /\ at' = at
    BY <1>1, OtherSteps
  <2>2. CASE stage = "schemas" /\ stage' = "namespaces" /\ at' = at
    <3>1. at = 1 /\ DOMAIN components = {}
      BY <2>2 DEF OwnInv, ResolveInv
    <3>2. \A i \in Files : ~(i < 1)
      BY Count DEF Files, MergeInv
    <3>3. Owned' /\ Unlost'
      BY <2>1, <2>2, <3>1, <3>2 DEF Owned, Unlost, Merged, Files
    <3> QED
      BY <2>1, <2>2, <3>1, <3>3 DEF OwnInv, Merging
  <2>3. CASE stage = "namespaces" /\ stage' = "globals" /\ at = Len(folder.namespaces) + 1
    <3>1. \A i \in Files : Merged(i)
      BY <2>3, Count DEF Files, MergeInv, Merged
    <3>2. InOrder(folder) => Owned'
      BY <2>1, <2>3, <3>1 DEF OwnInv, Merging, Owned, OwnedBy, Files, DefsOf
    <3>3. InOrder(folder) => Unlost'
      BY <2>1, <2>3, <3>1 DEF OwnInv, Merging, Unlost, Files, OpsOf, InPlace, Taken
    <3> QED
      BY <2>1, <2>3, <3>2, <3>3 DEF OwnInv, Merging, ComponentKeys
  <2>4. CASE stage' = "thrown"
    BY <2>4 DEF OwnInv, Merging
  <2>5. CASE stage = "superseded" /\ stage' \in {"superseded", "normalize"}
    <3>1. InOrder(folder) => Owned'
      BY <2>1, <2>5 DEF OwnInv, Merging, Owned, OwnedBy, Merged, Files, DefsOf
    <3>2. InOrder(folder) => Unlost'
      BY <2>1, <2>5 DEF OwnInv, Merging, Unlost, Merged, Files, OpsOf, InPlace, Taken
    <3> QED
      BY <2>1, <2>5, <3>1, <3>2 DEF OwnInv, Merging, ComponentKeys
  <2>6. CASE stage' = stage /\ at' = at
    <3>1. (Owned <=> Owned') /\ (OwnedNormally <=> OwnedNormally')
      BY <2>1, <2>6 DEF Owned, OwnedNormally, OwnedBy, Merged, Files, DefsOf
    <3>2. Unlost <=> Unlost'
      BY <2>1, <2>6 DEF Unlost, Merged, Files, OpsOf, InPlace, Taken
    <3> QED
      BY <2>1, <2>6, <3>1, <3>2 DEF OwnInv, ComponentKeys, NormalFormsApart
  <2> QED
    BY <2>1, <2>2, <2>3, <2>4, <2>5, <2>6
<1> QED
  BY <1>1, NamespaceOwn, GlobalsOwn, SupersededOwn, NormalizeOwn

LEMMA Owning == Spec => [](IInv /\ OwnInv)
<1>1. Init => OwnInv
  BY InitOwn
<1>2. MergeInv /\ ResolveInv /\ OwnInv /\ [Next]_vars => OwnInv'
  BY NextOwn
<1> QED
  BY <1>1, <1>2, Resolving, PTL DEF Spec

\* Every reference of a namespace file leads to the component of that file.
THEOREM OwnDefinitionsCorrect == Spec => []OwnDefinitions
<1>1. IInv /\ OwnInv => OwnDefinitions
  <2> SUFFICES ASSUME IInv, OwnInv, PassedAndMerged, NormalFormsApart, NEW i \in Files,
                      NEW r \in RefsOf(folder.namespaces[i])
               PROVE  Normal[r] \in DOMAIN components /\ components[Normal[r]].from = i
    BY DEF OwnDefinitions, Files
  <2>1. InOrder(folder) /\ stage = "done"
    BY PassedClean
  <2>2. OwnedNormally
    BY <2>1 DEF OwnInv
  <2>3. r \in DOMAIN DefsOf(i)
    BY <2>1 DEF InOrder, FoldersClean, FileClean, OperationsClean, Files, DefsOf
  <2> QED
    BY <2>2, <2>3 DEF OwnedNormally, OwnedBy
<1> QED
  BY <1>1, Owning, PTL

\* No operation of a folder that passed is lost but to an entry.
THEOREM NothingLostCorrect == Spec => []NothingLost
<1>1. IInv /\ OwnInv => NothingLost
  <2> SUFFICES ASSUME IInv, OwnInv, PassedAndMerged PROVE Unlost
    BY PassedClean DEF NothingLost, Unlost, Merged, InPlace, Taken, Files, OpsOf
  <2> QED
    BY PassedClean DEF OwnInv
<1> QED
  BY <1>1, Owning, PTL

-----------------------------------------------------------------------------
(***************************************************************************)
(* Every operation is, in its text and its references, one of a file, and  *)
(* of a path that has the same parameters if the entries name them alike.  *)
(***************************************************************************)
Alike(path, p) == EntriesNameAlike => ParamSet(path) = ParamSet(p)

Sourced(path, op, extra) ==
  \E i \in Files : \E k \in DOMAIN OpsOf(i) :
    /\ Alike(path, k[1])
    /\ SameText(op, OpsOf(i)[k])
    /\ op.refs = OpsOf(i)[k].refs \cup extra

SourcedNormally(path, op) ==
  \E i \in Files : \E k \in DOMAIN OpsOf(i) :
    /\ Alike(path, k[1])
    /\ SameText(op, OpsOf(i)[k])
    /\ op.refs = Merger!Rename(OpsOf(i)[k].refs \cup DOMAIN folder.globals)

AllSourced(extra) ==
  \A path \in DOMAIN items : \A m \in DOMAIN items[path] : Sourced(path, items[path][m], extra)

AllSourcedNormally ==
  \A path \in DOMAIN items : \A m \in DOMAIN items[path] : SourcedNormally(path, items[path][m])

SourceInv ==
  /\ stage \in {"namespaces", "globals"} => AllSourced({})
  /\ stage \in {"superseded", "normalize"} => AllSourced(DOMAIN folder.globals)
  /\ stage = "done" => AllSourcedNormally

LEMMA InitSource == Init => SourceInv
BY DEF Init, Merger!Begin, SourceInv

\* A path the operations of another are copied to has its parameters.
LEMMA CopiedAlike ==
  ASSUME folder \in Folders, NEW p \in DOMAIN items, NEW path, CopiedTo(path, p)
  PROVE  Alike(path, p)
<1> DEFINE E(e) == folder.entries[e]
           IsCopy(e) == /\ Merger!Superseding!SameParams(E(e).by, E(e).path)
                        /\ Merger!Superseding!Matches(E(e).by, p)
                        /\ path = Merger!Superseding!Target(E(e))
           Entry == [path : Paths, by : Paths, methods : SUBSET Methods]
<1>1. PICK e \in 1 .. Len(folder.entries) : IsCopy(e)
  BY DEF CopiedTo
<1>2. E(e) \in Entry
  <2>1. folder.entries \in Seq(Entry)
    BY FoldersAssumption DEF IsFolder
  <2> HIDE DEF Entry
  <2> QED
    BY <2>1
<1>3. ParamSet(path) = ParamSet(E(e).by)
  BY <1>1, <1>2, TargetParams
<1> QED
  BY <1>1, <1>3 DEF Alike, EntriesNameAlike

\* The more paths there are, the more the entries have to name alike.
LEMMA AlikeBefore ==
  ASSUME folder' = folder, DOMAIN items \subseteq DOMAIN items'
  PROVE  EntriesNameAlike' => EntriesNameAlike
BY DEF EntriesNameAlike

LEMMA NextSource == MergeInv /\ ResolveInv /\ SourceInv /\ [Next]_vars => SourceInv'
<1> SUFFICES ASSUME MergeInv, ResolveInv, SourceInv, [Next]_vars PROVE SourceInv'
  OBVIOUS
<1>1. CASE Merger!MergeNamespace
  <2>1. /\ at \in Files /\ stage = "namespaces" /\ stage' = stage
        /\ folder' = folder /\ folder \in Folders
    BY <1>1, NamespaceStep DEF MergeInv
  <2>3. EntriesNameAlike' => EntriesNameAlike
    BY <1>1, NamespaceStep, AlikeBefore
  <2>2. ASSUME NEW path \in DOMAIN items', NEW m \in DOMAIN items'[path]
        PROVE  Sourced(path, items'[path][m], {})
    <3>1. CASE path \in DOMAIN Merger!ItemsOf(at)
      <4>1. items'[path] = Merger!ItemsOf(at)[path]
        BY <1>1, <2>2, <3>1, NamespaceStep
      <4>2. /\ <<path, m>> \in DOMAIN OpsOf(at)
            /\ items'[path][m].refs = OpsOf(at)[<<path, m>>].refs
            /\ SameText(items'[path][m], OpsOf(at)[<<path, m>>])
        BY <2>1, <2>2, <3>1, <4>1, ItemsAre
      <4> QED
        BY <2>1, <4>2 DEF Sourced, Alike
    <3>2. CASE path \notin DOMAIN Merger!ItemsOf(at)
      <4>1. path \in DOMAIN items /\ items'[path] = items[path]
        BY <1>1, <2>2, <3>2, NamespaceStep
      <4> QED
        BY <2>1, <2>2, <4>1 DEF SourceInv, AllSourced
    <3> QED
      BY <3>1, <3>2
  <2> QED
    BY <2>1, <2>2, <2>3 DEF SourceInv, AllSourced, Sourced, Alike, Files, OpsOf
<1>2. CASE Merger!GenerateGlobals
  <2>1. stage = "globals" /\ stage' = "superseded" /\ folder' = folder
    BY <1>2, GlobalsStep
  <2>3. EntriesNameAlike' => EntriesNameAlike
    BY <1>2, GlobalsStep, AlikeBefore
  <2>2. ASSUME NEW path \in DOMAIN items', NEW m \in DOMAIN items'[path]
        PROVE  Sourced(path, items'[path][m], DOMAIN folder.globals)
    <3>1. /\ path \in DOMAIN items /\ m \in DOMAIN items[path]
          /\ items'[path][m].refs = items[path][m].refs \cup DOMAIN folder.globals
          /\ SameText(items'[path][m], items[path][m])
      BY <1>2, <2>2, GlobalsStep
    <3>2. Sourced(path, items[path][m], {})
      BY <2>1, <3>1 DEF SourceInv, AllSourced
    <3> QED
      BY <3>1, <3>2 DEF Sourced, SameText
  <2> QED
    BY <2>1, <2>2, <2>3 DEF SourceInv, AllSourced, Sourced, Alike, Files, OpsOf
<1>3. CASE Merger!GenerateSuperseded /\ Merger!Superseding!Supersede
  <2>1. stage = "superseded" /\ stage' \in {"superseded", "normalize", "thrown"} /\ folder' = folder
    BY <1>3, SupersededStep
  <2>3. EntriesNameAlike' => EntriesNameAlike
    BY <1>3, <2>1, SupersedeStep, AlikeBefore
  <2>2. ASSUME NEW path \in DOMAIN items', NEW m \in DOMAIN items'[path]
        PROVE  Sourced(path, items'[path][m], DOMAIN folder.globals)
    <3>1. PICK p \in DOMAIN items : \E k \in DOMAIN items[p] :
            /\ path = p \/ CopiedTo(path, p)
            /\ items'[path][m].refs = items[p][k].refs
            /\ SameText(items'[path][m], items[p][k])
      BY <1>3, <2>1, <2>2, SupersedeStep
    <3>2. PICK k \in DOMAIN items[p] :
            /\ path = p \/ CopiedTo(path, p)
            /\ items'[path][m].refs = items[p][k].refs
            /\ SameText(items'[path][m], items[p][k])
      BY <3>1
    <3>3. Sourced(p, items[p][k], DOMAIN folder.globals)
      BY <2>1 DEF SourceInv, AllSourced
    <3>4. Alike(path, p)
      BY <3>2, CopiedAlike DEF MergeInv, Alike
    <3> QED
      BY <3>2, <3>3, <3>4 DEF Sourced, SameText, Alike
  <2> QED
    BY <2>1, <2>2, <2>3 DEF SourceInv, AllSourced, Sourced, Alike, Files, OpsOf
<1>4. CASE Merger!Normalize
  <2>1. \A c \in DOMAIN components : DOMAIN components[c] = DefFields
    BY <1>4 DEF Merger!Normalize, ResolveInv, Merging
  <2>2. stage = "normalize" /\ stage' = "done" /\ folder' = folder
    BY <1>4, <2>1, NormalizeStep
  <2>4. EntriesNameAlike' => EntriesNameAlike
    BY <1>4, <2>1, NormalizeStep, AlikeBefore
  <2>3. ASSUME NEW path \in DOMAIN items', NEW m \in DOMAIN items'[path]
        PROVE  SourcedNormally(path, items'[path][m])
    <3>1. /\ path \in DOMAIN items /\ m \in DOMAIN items[path]
          /\ items'[path][m].refs = Merger!Rename(items[path][m].refs)
          /\ SameText(items'[path][m], items[path][m])
      BY <1>4, <2>1, <2>3, NormalizeStep
    <3>2. Sourced(path, items[path][m], DOMAIN folder.globals)
      BY <2>2, <3>1 DEF SourceInv, AllSourced
    <3> QED
      BY <3>1, <3>2 DEF Sourced, SourcedNormally, SameText
  <2> QED
    BY <2>2, <2>3, <2>4 DEF SourceInv, AllSourcedNormally, SourcedNormally, Alike, Files, OpsOf,
         Merger!Rename
<1>5. CASE /\ ~Merger!MergeNamespace /\ ~Merger!GenerateGlobals /\ ~Merger!Normalize
           /\ ~(Merger!GenerateSuperseded /\ Merger!Superseding!Supersede)
  <2>1. /\ folder' = folder /\ items' = items
        /\ \/ stage = "schemas" /\ stage' = "namespaces"
           \/ stage = "namespaces" /\ stage' = "globals"
           \/ stage' = "thrown"
           \/ stage = "superseded" /\ stage' \in {"superseded", "normalize"}
           \/ stage' = stage
    BY <1>5, OtherSteps
  <2>2. stage = "schemas" => DOMAIN items = {}
    BY DEF ResolveInv
  <2>3. /\ AllSourced({}) => AllSourced({})'
        /\ AllSourced(DOMAIN folder.globals) => AllSourced(DOMAIN folder.globals)'
        /\ AllSourcedNormally => AllSourcedNormally'
        /\ DOMAIN items = {} => AllSourced({})'
    <3>1. EntriesNameAlike' => EntriesNameAlike
      BY <2>1, AlikeBefore
    <3> QED
      BY <2>1, <3>1 DEF AllSourced, Sourced, AllSourcedNormally, SourcedNormally, Alike, Files,
           OpsOf, Merger!Rename
  <2> QED
    BY <2>1, <2>2, <2>3 DEF SourceInv
<1> QED
  BY <1>1, <1>2, <1>3, <1>4, <1>5

LEMMA Sourcing == Spec => [](IInv /\ OwnInv /\ SourceInv)
<1>1. Init => SourceInv
  BY InitSource
<1>2. MergeInv /\ ResolveInv /\ SourceInv /\ [Next]_vars => SourceInv'
  BY NextSource
<1> QED
  BY <1>1, <1>2, Resolving, Owning, PTL DEF Spec

\* The file of an operation, in a folder in order.
LEMMA CleanOwner ==
  ASSUME InOrder(folder), NEW i \in Files, NEW k \in DOMAIN OpsOf(i)
  PROVE  Namespace[OpsOf(i)[k].group] = i
<1>1. OperationsClean(folder, i)
  BY DEF InOrder, FoldersClean, FileClean, Files
<1> QED
  BY <1>1, OwnerSays DEF OpsOf

\* Two operations of one group, in a folder in order.
LEMMA GroupsClean ==
  ASSUME InOrder(folder), NEW i \in Files, NEW j \in Files,
         NEW k \in DOMAIN OpsOf(i), NEW l \in DOMAIN OpsOf(j),
         OpsOf(i)[k].group = OpsOf(j)[l].group
  PROVE  /\ i = j /\ OpsOf(i)[k].about = OpsOf(j)[l].about
         /\ \A r \in OpsOf(i)[k].refs :
              r \in DOMAIN DefsOf(i) /\ (DefsOf(i)[r].param = NoParam => r \in OpsOf(j)[l].refs)
<1>1. OperationsClean(folder, i) /\ OperationsClean(folder, j)
  BY DEF InOrder, FoldersClean, FileClean, Files
<1>2. i = j
  <2>1. Namespace[OpsOf(i)[k].group] = i
    BY CleanOwner
  <2>2. Namespace[OpsOf(j)[l].group] = j
    BY CleanOwner
  <2> QED
    BY <2>1, <2>2
<1>3. \A r \in OpsOf(i)[k].refs : r \in DOMAIN DefsOf(i)
  BY CleanFile
<1>4. /\ OpsOf(i)[k].about = OpsOf(j)[l].about
      /\ \A r \in OpsOf(i)[k].refs : DefsOf(i)[r].param = NoParam => r \in OpsOf(j)[l].refs
  <2>1. OpsOf(i)[k].group = OpsOf(i)[l].group /\ l \in DOMAIN OpsOf(i)
    BY <1>2
  <2>2. /\ OpsOf(i)[k].about = OpsOf(i)[l].about
        /\ \A r \in OpsOf(i)[k].refs : DefsOf(i)[r].param = NoParam => r \in OpsOf(i)[l].refs
    BY <1>1, <2>1, GroupSays, Zenon DEF OpsOf, DefsOf
  <2> QED
    BY <1>2, <2>2
<1> QED
  BY <1>2, <1>3, <1>4

\* What one operation of a group refers to, but for path parameters, the
\* others refer to.
LEMMA GroupRefers ==
  ASSUME InOrder(folder), OwnedNormally, NEW o, NEW x, SourcedNormally(x, o),
         NEW p, NEW y, SourcedNormally(y, p), o.group = p.group
  PROVE  o.about = p.about /\ OtherRefs(o) \subseteq OtherRefs(p)
<1> DEFINE IsAs(op, f, n) ==
             /\ SameText(op, OpsOf(f)[n])
             /\ op.refs = Merger!Rename(OpsOf(f)[n].refs \cup DOMAIN folder.globals)
<1>a. PICK i \in Files : \E k \in DOMAIN OpsOf(i) : IsAs(o, i, k)
  BY DEF SourcedNormally
<1>b. PICK j \in Files : \E l \in DOMAIN OpsOf(j) : IsAs(p, j, l)
  BY DEF SourcedNormally
<1>1. PICK k \in DOMAIN OpsOf(i) : IsAs(o, i, k)
  BY <1>a
<1>2. PICK l \in DOMAIN OpsOf(j) : IsAs(p, j, l)
  BY <1>b
<1>3. OpsOf(i)[k].group = OpsOf(j)[l].group
  BY <1>1, <1>2 DEF SameText
<1>4. o.about = p.about
  BY <1>1, <1>2, <1>3, GroupsClean DEF SameText
<1>5. ASSUME NEW r \in OtherRefs(o) PROVE r \in p.refs
  <2>1. r \in o.refs /\ (r \in DOMAIN components => components[r].param = NoParam)
    BY DEF OtherRefs
  <2>2. PICK c \in OpsOf(i)[k].refs \cup DOMAIN folder.globals : r = Normal[c]
    BY <1>1, <2>1 DEF Merger!Rename
  <2>3. CASE c \in DOMAIN folder.globals
    BY <1>2, <2>2, <2>3 DEF Merger!Rename
  <2>4. CASE c \in OpsOf(i)[k].refs
    <3>1. c \in DOMAIN DefsOf(i) /\ (DefsOf(i)[c].param = NoParam => c \in OpsOf(j)[l].refs)
      BY <1>3, <2>4, GroupsClean
    <3>2. Normal[c] \in DOMAIN components /\ components[Normal[c]].param = DefsOf(i)[c].param
      BY <3>1 DEF OwnedNormally, OwnedBy
    <3>3. c \in OpsOf(j)[l].refs
      BY <2>1, <2>2, <3>1, <3>2
    <3> QED
      BY <1>2, <2>2, <3>3 DEF Merger!Rename
  <2> QED
    BY <2>2, <2>3, <2>4
<1> QED
  BY <1>4, <1>5 DEF OtherRefs

\* In a merged folder that passed, the operations of a group say the same and
\* refer to the same, but for their path parameters.
THEOREM GroupsAgreeCorrect == Spec => []GroupsAgree
<1>1. IInv /\ OwnInv /\ SourceInv => GroupsAgree
  <2> SUFFICES ASSUME IInv, OwnInv, SourceInv, PassedAndMerged, NormalFormsApart,
                      NEW o \in Merger!Operations, NEW p \in Merger!Operations,
                      o.group = p.group
               PROVE  o.about = p.about /\ OtherRefs(o) = OtherRefs(p)
    BY DEF GroupsAgree
  <2>1. InOrder(folder) /\ stage = "done"
    BY PassedClean
  <2>2. OwnedNormally /\ AllSourcedNormally
    BY <2>1 DEF OwnInv, SourceInv
  <2>3. PICK x : SourcedNormally(x, o)
    BY <2>2 DEF AllSourcedNormally, Merger!Operations
  <2>4. PICK y : SourcedNormally(y, p)
    BY <2>2 DEF AllSourcedNormally, Merger!Operations
  <2>5. o.about = p.about /\ OtherRefs(o) \subseteq OtherRefs(p)
    BY <2>1, <2>2, <2>3, <2>4, GroupRefers
  <2>6. OtherRefs(p) \subseteq OtherRefs(o)
    BY <2>1, <2>2, <2>3, <2>4, GroupRefers
  <2> QED
    BY <2>5, <2>6
<1> QED
  BY <1>1, Sourcing, PTL

-----------------------------------------------------------------------------
\* A component of a folder in order is of a group, a global parameter is not.
LEMMA GlobalsApart ==
  ASSUME folder \in Folders, InOrder(folder), NEW i \in Files
  PROVE  \A c \in DOMAIN folder.globals : c \notin DOMAIN DefsOf(i)
<1> SUFFICES ASSUME NEW c \in DOMAIN folder.globals, c \in DOMAIN DefsOf(i) PROVE FALSE
  OBVIOUS
<1> DEFINE n == folder.namespaces[i]
<1>1. Group[c] \notin Groups
  BY FoldersAssumption DEF IsFolder, IsReferring
<1>2. OperationsClean(folder, i)
  BY DEF InOrder, FoldersClean, FileClean, Files
<1>3. PICK k \in DOMAIN n.ops : c \in n.ops[k].refs
  BY <1>2, RefsSay DEF RefsOf, DefsOf
<1>4. Group[c] = n.ops[k].group
  BY <1>2, <1>3, OwnerSays
<1>5. n.ops[k].group \in Groups
  BY NamespaceOf DEF IsNamespace, Files
<1> QED
  BY <1>1, <1>4, <1>5

\* In a folder in order the global parameters are no path parameters.
PlainInv ==
  InOrder(folder) =>
    /\ stage \in {"namespaces", "globals"} =>
         \A c \in DOMAIN components : \E i \in Files : c \in DOMAIN DefsOf(i)
    /\ stage \in {"superseded", "normalize"} =>
         \A c \in DOMAIN folder.globals : c \in DOMAIN components /\ components[c].param = NoParam
    /\ stage = "done" /\ NormalFormsApart =>
         \A c \in DOMAIN folder.globals :
           Normal[c] \in DOMAIN components => components[Normal[c]].param = NoParam

LEMMA InitPlain == Init => PlainInv
BY DEF Init, Merger!Begin, PlainInv

LEMMA NextPlain == MergeInv /\ ResolveInv /\ OwnInv /\ PlainInv /\ [Next]_vars => PlainInv'
<1> SUFFICES ASSUME MergeInv, ResolveInv, OwnInv, PlainInv, [Next]_vars PROVE PlainInv'
  OBVIOUS
<1>1. CASE Merger!MergeNamespace
  <2>1. /\ stage = "namespaces" /\ stage' = stage /\ folder' = folder /\ at \in Files
        /\ DOMAIN components' = DOMAIN components \cup DOMAIN DefsOf(at)
    BY <1>1, NamespaceStep
  <2> QED
    BY <2>1 DEF PlainInv, Files, DefsOf
<1>2. CASE Merger!GenerateGlobals
  <2>1. /\ stage = "globals" /\ stage' = "superseded" /\ folder' = folder
        /\ DOMAIN components' = DOMAIN components \cup DOMAIN folder.globals
        /\ \A c \in DOMAIN components' : c \notin DOMAIN components =>
             components'[c] = [from |-> 0, refs |-> folder.globals[c], param |-> NoParam]
    BY <1>2, GlobalsStep
  <2>2. InOrder(folder) => \A c \in DOMAIN folder.globals : c \notin DOMAIN components
    BY <2>1, GlobalsApart DEF PlainInv, MergeInv
  <2>3. ASSUME InOrder(folder), NEW c \in DOMAIN folder.globals
        PROVE  c \in DOMAIN components' /\ components'[c].param = NoParam
    <3>1. components'[c] = [from |-> 0, refs |-> folder.globals[c], param |-> NoParam]
      BY <2>1, <2>2, <2>3
    <3> QED
      BY <2>1, <2>3, <3>1
  <2> QED
    BY <2>1, <2>3 DEF PlainInv
<1>3. CASE Merger!GenerateSuperseded /\ Merger!Superseding!Supersede
  <2>1. /\ stage = "superseded" /\ stage' \in {"superseded", "normalize", "thrown"}
        /\ components' = components /\ folder' = folder
    BY <1>3, SupersededStep
  <2> QED
    BY <2>1 DEF PlainInv
<1>4. CASE Merger!Normalize
  <2>1. \A c \in DOMAIN components : DOMAIN components[c] = DefFields
    BY <1>4 DEF Merger!Normalize, ResolveInv, Merging
  <2>2. /\ stage = "normalize" /\ stage' = "done" /\ folder' = folder
        /\ \A k \in DOMAIN components' : \E d \in DOMAIN components :
             Normal[d] = k /\ components'[k].param = components[d].param
    BY <1>4, <2>1, NormalizeStep
  <2>3. ASSUME InOrder(folder), NormalFormsApart, NEW c \in DOMAIN folder.globals,
               Normal[c] \in DOMAIN components'
        PROVE  components'[Normal[c]].param = NoParam
    <3>1. PICK d \in DOMAIN components :
            Normal[d] = Normal[c] /\ components'[Normal[c]].param = components[d].param
      BY <2>2, <2>3
    <3>2. c \in ComponentKeys(folder) /\ d \in ComponentKeys(folder)
      BY <2>2 DEF OwnInv, Merging, ComponentKeys
    <3>3. d = c
      BY <2>3, <3>1, <3>2 DEF NormalFormsApart, ComponentKeys
    <3> QED
      BY <2>2, <2>3, <3>1, <3>3 DEF PlainInv
  <2> QED
    BY <2>2, <2>3 DEF PlainInv, NormalFormsApart
<1>5. CASE /\ ~Merger!MergeNamespace /\ ~Merger!GenerateGlobals /\ ~Merger!Normalize
           /\ ~(Merger!GenerateSuperseded /\ Merger!Superseding!Supersede)
  <2>1. /\ folder' = folder /\ components' = components
        /\ \/ stage = "schemas" /\ stage' = "namespaces"
           \/ stage = "namespaces" /\ stage' = "globals"
           \/ stage' = "thrown"
           \/ stage = "superseded" /\ stage' \in {"superseded", "normalize"}
           \/ stage' = stage
    BY <1>5, OtherSteps
  <2>2. stage = "schemas" => DOMAIN components = {}
    BY DEF ResolveInv
  <2> QED
    BY <2>1, <2>2 DEF PlainInv, NormalFormsApart, Files, DefsOf
<1> QED
  BY <1>1, <1>2, <1>3, <1>4, <1>5

\* The path parameters of an operation, by the definitions of its file.
LEMMA ParamsOfSource ==
  ASSUME folder \in Folders, InOrder(folder), OwnedNormally,
         \A c \in DOMAIN folder.globals :
           Normal[c] \in DOMAIN components => components[Normal[c]].param = NoParam,
         NEW i \in Files, NEW k \in DOMAIN OpsOf(i), NEW op,
         op.refs = Merger!Rename(OpsOf(i)[k].refs \cup DOMAIN folder.globals)
  PROVE  PathParamsOf(op) = ParamSet(k[1])
<1> DEFINE n == folder.namespaces[i]
           refs == OpsOf(i)[k].refs
           Defines(r) == components[r].param
<1>1. OperationsClean(folder, i)
  BY DEF InOrder, FoldersClean, FileClean, Files
<1>2. ParamsAt(n, k) \ {NoParam} = ParamSet(k[1])
  BY <1>1, ParamsSay DEF OpsOf
<1>3. ParamsAt(n, k) = {DefsOf(i)[c].param : c \in refs}
  BY DEF ParamsAt, OpsOf, DefsOf
<1>4. \A c \in refs : /\ Normal[c] \in DOMAIN components
                      /\ Defines(Normal[c]) = DefsOf(i)[c].param
  BY CleanFile DEF OwnedNormally, OwnedBy
<1>5. op.refs = {Normal[c] : c \in refs \cup DOMAIN folder.globals}
  BY DEF Merger!Rename
<1>6. \A c \in DOMAIN folder.globals :
        Normal[c] \in DOMAIN components => Defines(Normal[c]) = NoParam
  OBVIOUS
<1> HIDE DEF refs, Defines
<1>7. {Defines(r) : r \in op.refs \cap DOMAIN components} \ {NoParam} =
        {DefsOf(i)[c].param : c \in refs} \ {NoParam}
  BY <1>4, <1>5, <1>6
<1> QED
  BY <1>2, <1>3, <1>7 DEF PathParamsOf, Defines

(***************************************************************************)
(* In a merged folder that passed, every operation, copied or not, defines *)
(* the path parameters of its path, if the entries name parameters as the  *)
(* paths do that they match and normal forms differ.                       *)
(***************************************************************************)
THEOREM PathParametersCorrect == Spec => []PathParametersAgree
<1>1. IInv /\ MergeInv /\ OwnInv /\ SourceInv /\ PlainInv => PathParametersAgree
  <2> SUFFICES ASSUME IInv, MergeInv, OwnInv, SourceInv, PlainInv,
                      PassedAndMerged, NormalFormsApart, EntriesNameAlike,
                      NEW path \in DOMAIN items, NEW m \in DOMAIN items[path]
               PROVE  PathParamsOf(items[path][m]) = ParamSet(path)
    BY DEF PathParametersAgree
  <2> DEFINE op == items[path][m]
             Is(i, k) == /\ Alike(path, k[1])
                         /\ op.refs = Merger!Rename(OpsOf(i)[k].refs \cup DOMAIN folder.globals)
  <2>1. folder \in Folders /\ InOrder(folder) /\ stage = "done"
    BY PassedClean DEF MergeInv
  <2>2. OwnedNormally /\ SourcedNormally(path, op)
    BY <2>1 DEF OwnInv, SourceInv, AllSourcedNormally
  <2>3. PICK i \in Files : \E k \in DOMAIN OpsOf(i) : Is(i, k)
    BY <2>2 DEF SourcedNormally
  <2>4. PICK k \in DOMAIN OpsOf(i) : Is(i, k)
    BY <2>3
  <2>5. PathParamsOf(op) = ParamSet(k[1])
    BY <2>1, <2>2, <2>4, ParamsOfSource DEF PlainInv
  <2> QED
    BY <2>4, <2>5 DEF Alike
<1>2. Init => PlainInv
  BY InitPlain
<1>3. MergeInv /\ ResolveInv /\ OwnInv /\ PlainInv /\ [Next]_vars => PlainInv'
  BY NextPlain
<1> QED
  BY <1>1, <1>2, <1>3, Sourcing, Resolving, PTL DEF Spec

-----------------------------------------------------------------------------
(***************************************************************************)
(* Type correctness.  Of the linter: every error is of a kind its stage    *)
(* looks for, and about a file there is.                                   *)
(***************************************************************************)
ErrorTyped(e) ==
  \/ /\ e[1] \in {"name", "text", "operation", "group", "unresolved", "unused", "parameter",
                   "inline"}
     /\ e[2] \in Files
  \/ /\ e[1] \in {"schema", "duplicate", "unresolved", "unreferenced", "invalid", "inline"}
     /\ e[2] = 0

LintTypes ==
  /\ lintAt \in 1 .. Len(folder.namespaces) + 1
  /\ lintStage \in {"start", "files", "refs", "merge", "visit", "done", "thrown"}
  /\ \A e \in errors : ErrorTyped(e)

\* A folder is one for the linter's and the merger's instances as well.
LEMMA FolderTyped ==
  ASSUME NEW f \in Folders
  PROVE  Linter!IsFolder(f) /\ Merger!IsFolder(f)
<1>1. IsFolder(f)
  BY FoldersAssumption
<1>2. Linter!IsFolder(f)
  <2>1. \A S : IsFiniteSet(S) <=> Linter!IsFiniteSet(S)
    BY Zenon DEF IsFiniteSet, Linter!IsFiniteSet
  <2>2. \A g, S, T : IsReferring(g, S, T) <=> Linter!IsReferring(g, S, T)
    BY <2>1, Zenon DEF IsReferring, Linter!IsReferring
  <2>3. Paths = Linter!Paths /\ SchemaIds = Linter!SchemaIds
    BY DEF Paths, SchemaIds, Linter!Paths, Linter!SchemaIds
  <2>4. Refs = Linter!Refs
    BY <2>3 DEF Refs, Linter!Refs
  <2>5. \A g : RefsIn(g) = Linter!RefsIn(g)
    BY DEF RefsIn, Linter!RefsIn
  <2>6. ASSUME NEW n, IsNamespace(n) PROVE Linter!IsNamespace(n)
    BY <2>2, <2>3, <2>4, <2>5, <2>6, Zenon DEF IsNamespace, Linter!IsNamespace
  <2> QED
    BY <1>1, <2>2, <2>3, <2>6, Zenon DEF IsFolder, Linter!IsFolder
<1>3. Merger!IsFolder(f)
  <2>1. \A S : IsFiniteSet(S) <=> Merger!IsFiniteSet(S)
    BY Zenon DEF IsFiniteSet, Merger!IsFiniteSet
  <2>2. \A g, S, T : IsReferring(g, S, T) <=> Merger!IsReferring(g, S, T)
    BY <2>1, Zenon DEF IsReferring, Merger!IsReferring
  <2>3. Paths = Merger!Paths /\ SchemaIds = Merger!SchemaIds
    BY DEF Paths, SchemaIds, Merger!Paths, Merger!SchemaIds
  <2>4. Refs = Merger!Refs
    BY <2>3 DEF Refs, Merger!Refs
  <2>5. \A g : RefsIn(g) = Merger!RefsIn(g)
    BY DEF RefsIn, Merger!RefsIn
  <2>6. ASSUME NEW n, IsNamespace(n) PROVE Merger!IsNamespace(n)
    BY <2>2, <2>3, <2>4, <2>5, <2>6, Zenon DEF IsNamespace, Merger!IsNamespace
  <2> QED
    BY <1>1, <2>2, <2>3, <2>6, Zenon DEF IsFolder, Merger!IsFolder
<1> QED
  BY <1>2, <1>3

\* The errors of one kind.
LEMMA ErrorsOfKind ==
  ASSUME NEW kind, NEW i, NEW problems, NEW e \in Linter!Errors(kind, i, problems)
  PROVE  e[1] = kind /\ e[2] = i
BY DEF Linter!Errors

LEMMA InitLintTypes == Init => LintTypes
<1> SUFFICES ASSUME Init PROVE LintTypes
  OBVIOUS
<1>1. folder \in Folders /\ lintAt = 1 /\ lintStage = "start" /\ errors = {}
  BY DEF Init, Linter!Init
<1>2. Len(folder.namespaces) \in Nat
  BY <1>1, Count
<1> QED
  BY <1>1, <1>2 DEF LintTypes

LEMMA NextLintTypes ==
  ASSUME folder \in Folders, LintTypes, Linter!Next
  PROVE  LintTypes'
<1>1. Len(folder.namespaces) \in Nat
  BY Count
<1>2. CASE Linter!FindRefs \/ Linter!MergeThrows
  BY <1>2 DEF Linter!FindRefs, Linter!MergeThrows, LintTypes, ErrorTyped, Files
<1>3. CASE Linter!ValidateName \/ Linter!ValidateGroups \/ Linter!ValidateFile
  <2>1. /\ lintAt \in Files /\ lintAt' = lintAt + 1 /\ lintStage' = lintStage /\ folder' = folder
    BY <1>3 DEF Linter!ValidateName, Linter!ValidateGroups, Linter!ValidateFile,
         Linter!AtFile, Files
  <2>2. \A e \in Linter!GroupErrors(lintAt) \cup Linter!FileErrors(lintAt, Linter!file) :
          ErrorTyped(e)
    <3>1. ASSUME NEW e \in Linter!GroupErrors(lintAt) PROVE ErrorTyped(e)
      BY <2>1, <3>1, ErrorsOfKind DEF Linter!GroupErrors, ErrorTyped
    <3>2. ASSUME NEW e \in Linter!FileErrors(lintAt, Linter!file) PROVE ErrorTyped(e)
      <4>1. CASE e = <<"text", lintAt, lintAt>>
        BY <2>1, <4>1 DEF ErrorTyped
      <4>2. CASE e # <<"text", lintAt, lintAt>>
        BY <2>1, <3>2, <4>2, ErrorsOfKind DEF Linter!FileErrors, ErrorTyped
      <4> QED
        BY <4>1, <4>2
    <3> QED
      BY <3>1, <3>2
  <2>3. ErrorTyped(<<"name", lintAt, lintAt>>)
    BY <2>1 DEF ErrorTyped
  <2>4. \A e \in errors' : ErrorTyped(e)
    BY <1>3, <2>2, <2>3 DEF LintTypes, Linter!ValidateName, Linter!ValidateGroups,
         Linter!ValidateFile
  <2> QED
    BY <1>1, <2>1, <2>4 DEF LintTypes, ErrorTyped, Files
<1>4. CASE Linter!ValidateFolder
  <2>1. ASSUME NEW e \in errors', e \notin errors PROVE ErrorTyped(e)
    <3>1. \/ e \in Linter!Errors("schema", 0, Linter!SchemaFilesWith(folder, "text"))
          \/ e \in Linter!Errors("duplicate", 0, Linter!validate_duplicate_paths(folder))
      BY <1>4, <2>1 DEF Linter!ValidateFolder
    <3> QED
      BY <3>1, ErrorsOfKind DEF ErrorTyped
  <2> QED
    BY <1>4, <2>1 DEF Linter!ValidateFolder, LintTypes, ErrorTyped, Files
<1>5. CASE Linter!ValidateRefs
  <2> DEFINE lacking == Linter!validate_unresolved_schemas(folder)
             unused == Linter!validate_unreferenced_schemas(folder)
  <2>1. errors' = Linter!Errors("unresolved", 0, lacking)
                    \cup Linter!Errors("unreferenced", 0, unused)
    BY <1>5 DEF Linter!ValidateRefs
  <2> HIDE DEF lacking, unused
  <2>2. \A e \in errors' : ErrorTyped(e)
    BY <2>1, ErrorsOfKind DEF ErrorTyped
  <2> QED
    BY <1>5, <2>2 DEF Linter!ValidateRefs, LintTypes, ErrorTyped, Files
<1>6. CASE Linter!ValidateSchemas
  <2>1. \E ks : errors' = errors \cup Linter!Errors("invalid", 0, ks)
    BY <1>6 DEF Linter!ValidateSchemas
  <2>2. PICK ks : errors' = errors \cup Linter!Errors("invalid", 0, ks)
    BY <2>1
  <2>3. \A e \in errors' : ErrorTyped(e)
    BY <2>2, ErrorsOfKind DEF LintTypes, ErrorTyped
  <2> QED
    BY <1>6, <2>3 DEF Linter!ValidateSchemas, LintTypes, ErrorTyped, Files
<1>7. CASE Linter!VisitSchemas
  <2>1. errors' = errors \cup {<<"inline", i, i>> : i \in Linter!NamespacesWith(folder, "inline")}
                        \cup Linter!Errors("inline", 0, Linter!SchemaFilesWith(folder, "inline"))
    BY <1>7 DEF Linter!VisitSchemas
  <2>2. Linter!NamespacesWith(folder, "inline") \subseteq Files
    BY DEF Linter!NamespacesWith, Files
  <2>3. \A e \in errors' : ErrorTyped(e)
    BY <2>1, <2>2, ErrorsOfKind DEF LintTypes, ErrorTyped
  <2> QED
    BY <1>7, <2>3 DEF Linter!VisitSchemas, LintTypes, ErrorTyped, Files
<1> QED
  BY <1>2, <1>3, <1>4, <1>5, <1>6, <1>7 DEF Linter!Next

-----------------------------------------------------------------------------
(***************************************************************************)
(* Of the merger: what is merged is of the folder, and from the phase that *)
(* sorts on the order of the paths names each of them.                     *)
(***************************************************************************)
Ordered == DOMAIN items = {keys[i] : i \in 1 .. Len(keys)}

InSequence == {"globals", "superseded", "normalize", "done"}

SchemasTyped == IsReferring(schemas, SchemaIds, SchemaIds)

ComponentsTyped ==
  \A c \in DOMAIN components :
    /\ c \in Components
    /\ components[c].from \in 0 .. Len(folder.namespaces) /\ components[c].refs \subseteq Refs

ItemsTyped ==
  \A path \in DOMAIN items : \A m \in DOMAIN items[path] :
    items[path][m].from \in Files /\ items[path][m].refs \subseteq Refs

AtTyped ==
  /\ stage \in {"schemas", "namespaces", "globals"} => at \in 1 .. Len(folder.namespaces) + 1
  /\ stage \in {"superseded", "normalize", "done"} => at \in 1 .. Len(folder.entries) + 1
  /\ stage \in {"schemas", "namespaces", "thrown"} \cup InSequence

MergeTypes ==
  /\ SchemasTyped /\ ComponentsTyped /\ ItemsTyped /\ AtTyped
  /\ stage \in InSequence => Ordered

LEMMA EntriesCount == ASSUME folder \in Folders PROVE Len(folder.entries) \in Nat
<1> DEFINE Entry == [path : Paths, by : Paths, methods : SUBSET Methods]
<1>1. folder.entries \in Seq(Entry)
  BY FoldersAssumption DEF IsFolder
<1> HIDE DEF Entry
<1> QED
  BY <1>1

LEMMA InitMergeTypes == Init => MergeTypes
<1> SUFFICES ASSUME Init PROVE MergeTypes
  OBVIOUS
<1>1. /\ folder \in Folders /\ schemas = <<>> /\ components = <<>> /\ items = <<>>
      /\ at = 1 /\ stage = "schemas"
  BY DEF Init, Linter!Init, Merger!Begin
<1>2. Len(folder.namespaces) \in Nat
  BY <1>1, Count
<1>3. SchemasTyped
  BY <1>1, FS_EmptySet DEF SchemasTyped, IsReferring
<1> QED
  BY <1>1, <1>2, <1>3 DEF MergeTypes, ComponentsTyped, ItemsTyped, AtTyped, InSequence

\* An order of distinct places of a set that has so many names all of it.
LEMMA SortedNamesAll ==
  ASSUME NEW P, IsFiniteSet(P), NEW order \in Merger!Sorted(P)
  PROVE  order \in Seq(P) /\ P = {order[i] : i \in 1 .. Len(order)}
<1> DEFINE n == Cardinality(P)
<1>1. n \in Nat
  BY FS_CardinalityType
<1>2. Merger!Cardinality(P) = n
  BY DEF Merger!Cardinality, Cardinality
<1>3. /\ order \in [1 .. n -> P]
      /\ \A i, j \in 1 .. n : i < j => <<order[i], order[j]>> \in Before
  BY <1>2 DEF Merger!Sorted
<1> HIDE DEF n
<1>4. ASSUME NEW i \in 1 .. n, NEW j \in 1 .. n, i < j PROVE order[i] # order[j]
  BY <1>3, <1>4, OrderAssumption
<1>5. \A i, j \in 1 .. n : order[i] = order[j] => i = j
  <2> SUFFICES ASSUME NEW i \in 1 .. n, NEW j \in 1 .. n, order[i] = order[j], i # j PROVE FALSE
    OBVIOUS
  <2>1. i < j \/ j < i
    BY <1>1
  <2> QED
    BY <1>4, <2>1
<1>6. order \in Injection(1 .. n, P)
  BY <1>3, <1>5 DEF Injection, IsInjective
<1>7. Cardinality(1 .. n) = n
  BY <1>1, FS_Interval
<1>8. order \in Surjection(1 .. n, P)
  BY <1>6, <1>7, FS_Injection DEF n
<1>9. \A p \in P : \E i \in 1 .. n : order[i] = p
  BY <1>8 DEF Surjection
<1>10. order \in Seq(P) /\ Len(order) = n
  BY <1>1, <1>3
<1> QED
  BY <1>3, <1>9, <1>10

\* What the files and the global parameters bring is of its kind.
LEMMA FilesTyped ==
  ASSUME folder \in Folders, NEW i \in Files
  PROVE  /\ \A c \in DOMAIN DefsOf(i) : c \in Components /\ DefsOf(i)[c].refs \subseteq Refs
         /\ \A k \in DOMAIN OpsOf(i) : OpsOf(i)[k].refs \subseteq Refs
BY NamespaceOf DEF IsNamespace, IsReferring, RefsIn, Files, OpsOf, DefsOf

LEMMA GlobalsTyped ==
  ASSUME folder \in Folders
  PROVE  /\ \A c \in DOMAIN folder.globals : c \in Components /\ folder.globals[c] \subseteq Refs
         /\ DOMAIN folder.globals \subseteq Refs
<1>1. IsFolder(folder)
  BY FoldersAssumption
<1>2. \A c \in DOMAIN folder.globals : c \in Components /\ folder.globals[c] \subseteq SchemaIds
  BY <1>1 DEF IsFolder, IsReferring
<1> QED
  BY <1>2 DEF Refs

LEMMA RenameTyped ==
  ASSUME NEW refs, refs \subseteq Refs
  PROVE  /\ Merger!Rename(refs) \subseteq Refs
         /\ refs \subseteq Components => Merger!Rename(refs) \subseteq Components
         /\ refs \subseteq SchemaIds => Merger!Rename(refs) \subseteq SchemaIds
<1>1. \A r \in refs : Normal[r] \in Refs /\ (r \in Components <=> Normal[r] \in Components)
  BY NormalAssumption
<1>2. \A r \in Refs : r \in SchemaIds <=> r \notin Components
  BY KindsAssumption DEF Refs
<1> QED
  BY <1>1, <1>2 DEF Merger!Rename

\* A finite set has finitely many normal forms.
LEMMA RenameFinite ==
  ASSUME NEW refs, IsFiniteSet(refs)
  PROVE  IsFiniteSet(Merger!Rename(refs))
<1> DEFINE f == [r \in refs |-> Normal[r]]
<1>1. f \in Surjection(refs, Merger!Rename(refs))
  BY DEF Surjection, Merger!Rename
<1> QED
  BY <1>1, FS_Surjection

LEMMA NamespaceTypes ==
  ASSUME MergeInv, MergeTypes, Merger!MergeNamespace PROVE MergeTypes'
<1>1. /\ at \in Files /\ at' = at + 1 /\ stage = "namespaces" /\ stage' = stage
      /\ folder' = folder /\ schemas' = schemas /\ folder \in Folders
  BY NamespaceStep DEF MergeInv
<1>2. Len(folder.namespaces) \in Nat
  BY <1>1, Count
<1>3. ComponentsTyped'
  <2>1. /\ DOMAIN components' = DOMAIN components \cup DOMAIN DefsOf(at)
        /\ \A c \in DOMAIN components' : components'[c] =
             IF c \in DOMAIN DefsOf(at)
               THEN [from |-> at, refs |-> DefsOf(at)[c].refs, param |-> DefsOf(at)[c].param]
               ELSE components[c]
    BY NamespaceStep
  <2>2. \A c \in DOMAIN DefsOf(at) : c \in Components /\ DefsOf(at)[c].refs \subseteq Refs
    BY <1>1, FilesTyped
  <2>3. ASSUME NEW c \in DOMAIN components'
        PROVE  /\ c \in Components
               /\ components'[c].from \in 0 .. Len(folder.namespaces)
               /\ components'[c].refs \subseteq Refs
    <3>1. CASE c \in DOMAIN DefsOf(at)
      <4>1. components'[c] =
              [from |-> at, refs |-> DefsOf(at)[c].refs, param |-> DefsOf(at)[c].param]
        BY <2>1, <2>3, <3>1
      <4> QED
        BY <1>1, <1>2, <2>2, <3>1, <4>1 DEF Files
    <3>2. CASE c \notin DOMAIN DefsOf(at)
      BY <2>1, <2>3, <3>2 DEF MergeTypes, ComponentsTyped
    <3> QED
      BY <3>1, <3>2
  <2> QED
    BY <1>1, <2>3 DEF ComponentsTyped
<1>4. ItemsTyped'
  <2> DEFINE new == Merger!ItemsOf(at)
  <2>1. /\ DOMAIN items' = DOMAIN items \cup DOMAIN new
        /\ \A path \in DOMAIN items' :
             items'[path] = IF path \in DOMAIN new THEN new[path] ELSE items[path]
    BY NamespaceStep
  <2>2. \A path \in DOMAIN new : \A m \in DOMAIN new[path] :
          /\ <<path, m>> \in DOMAIN OpsOf(at)
          /\ new[path][m].refs = OpsOf(at)[<<path, m>>].refs
    BY <1>1, ItemsAre
  <2>3. \A path \in DOMAIN new : \A m \in DOMAIN new[path] : new[path][m].from = at
    BY DEF Merger!ItemsOf
  <2> HIDE DEF new
  <2>4. \A k \in DOMAIN OpsOf(at) : OpsOf(at)[k].refs \subseteq Refs
    BY <1>1, FilesTyped
  <2>5. ASSUME NEW path \in DOMAIN items', NEW m \in DOMAIN items'[path]
        PROVE  items'[path][m].from \in Files /\ items'[path][m].refs \subseteq Refs
    <3>1. CASE path \in DOMAIN new
      <4>1. items'[path] = new[path]
        BY <2>1, <3>1
      <4> QED
        BY <1>1, <2>2, <2>3, <2>4, <3>1, <4>1
    <3>2. CASE path \notin DOMAIN new
      <4>1. path \in DOMAIN items /\ items'[path] = items[path]
        BY <2>1, <3>2
      <4> QED
        BY <4>1 DEF MergeTypes, ItemsTyped
    <3> QED
      BY <3>1, <3>2
  <2>6. Files' = Files
    BY <1>1 DEF Files
  <2> QED
    BY <2>5, <2>6 DEF ItemsTyped
<1>5. AtTyped'
  BY <1>1, <1>2 DEF AtTyped, Files
<1> QED
  BY <1>1, <1>3, <1>4, <1>5 DEF MergeTypes, SchemasTyped, InSequence

LEMMA GlobalsTypes ==
  ASSUME MergeInv, MergeTypes, Merger!GenerateGlobals PROVE MergeTypes'
<1>1. /\ stage = "globals" /\ stage' = "superseded" /\ folder' = folder /\ schemas' = schemas
      /\ folder \in Folders /\ keys' = keys /\ at' = 1 /\ DOMAIN items' = DOMAIN items
  BY GlobalsStep DEF MergeInv, Merger!GenerateGlobals
<1>2. Len(folder.namespaces) \in Nat /\ Len(folder.entries) \in Nat
  BY <1>1, Count, EntriesCount
<1>3. ComponentsTyped'
  <2>1. /\ DOMAIN components' = DOMAIN components \cup DOMAIN folder.globals
        /\ \A c \in DOMAIN components' :
             /\ c \in DOMAIN components => components'[c] = components[c]
             /\ c \notin DOMAIN components =>
                  components'[c] = [from |-> 0, refs |-> folder.globals[c], param |-> NoParam]
    BY GlobalsStep
  <2>2. ASSUME NEW c \in DOMAIN components'
        PROVE  /\ c \in Components
               /\ components'[c].from \in 0 .. Len(folder.namespaces)
               /\ components'[c].refs \subseteq Refs
    <3>1. CASE c \in DOMAIN components
      BY <2>1, <3>1 DEF MergeTypes, ComponentsTyped
    <3>2. CASE c \notin DOMAIN components
      <4>1. components'[c] = [from |-> 0, refs |-> folder.globals[c], param |-> NoParam]
        BY <2>1, <2>2, <3>2
      <4>2. c \in Components /\ folder.globals[c] \subseteq Refs
        BY <1>1, <2>1, <2>2, <3>2, GlobalsTyped
      <4> QED
        BY <1>2, <4>1, <4>2
    <3> QED
      BY <3>1, <3>2
  <2> QED
    BY <1>1, <2>2 DEF ComponentsTyped
<1>4. ItemsTyped'
  <2>1. ASSUME NEW path \in DOMAIN items', NEW m \in DOMAIN items'[path]
        PROVE  items'[path][m].from \in Files /\ items'[path][m].refs \subseteq Refs
    <3>1. /\ path \in DOMAIN items /\ m \in DOMAIN items[path]
          /\ items'[path][m].refs = items[path][m].refs \cup DOMAIN folder.globals
          /\ items'[path][m].from = items[path][m].from
      BY <2>1, GlobalsStep
    <3>2. DOMAIN folder.globals \subseteq Refs
      BY <1>1, GlobalsTyped
    <3> QED
      BY <3>1, <3>2 DEF MergeTypes, ItemsTyped
  <2> QED
    BY <1>1, <2>1 DEF ItemsTyped, Files
<1>5. AtTyped'
  BY <1>1, <1>2 DEF AtTyped, InSequence
<1> QED
  BY <1>1, <1>3, <1>4, <1>5 DEF MergeTypes, SchemasTyped, Ordered, InSequence

LEMMA NormalizeTypes ==
  ASSUME MergeInv, ResolveInv, MergeTypes, Merger!Normalize PROVE MergeTypes'
<1>0. \A c \in DOMAIN components : DOMAIN components[c] = DefFields
  BY DEF Merger!Normalize, ResolveInv, Merging
<1>1. /\ stage = "normalize" /\ stage' = "done" /\ folder' = folder
      /\ keys' = keys /\ at' = at /\ DOMAIN items' = DOMAIN items
  BY <1>0, NormalizeStep DEF Merger!Normalize
<1>2. ComponentsTyped'
  <2>1. ASSUME NEW k \in DOMAIN components'
        PROVE  /\ k \in Components
               /\ components'[k].from \in 0 .. Len(folder.namespaces)
               /\ components'[k].refs \subseteq Refs
    <3>1. PICK c \in DOMAIN components :
            /\ Normal[c] = k
            /\ components'[k].from = components[c].from
            /\ components'[k].refs = Merger!Rename(components[c].refs)
      BY <1>0, <2>1, NormalizeStep
    <3>2. /\ c \in Components /\ components[c].from \in 0 .. Len(folder.namespaces)
          /\ components[c].refs \subseteq Refs
      BY DEF MergeTypes, ComponentsTyped
    <3>3. k \in Components
      BY <3>1, <3>2, NormalAssumption DEF Refs
    <3> QED
      BY <3>1, <3>2, <3>3, RenameTyped
  <2> QED
    BY <1>1, <2>1 DEF ComponentsTyped
<1>3. ItemsTyped'
  <2>1. ASSUME NEW path \in DOMAIN items', NEW m \in DOMAIN items'[path]
        PROVE  items'[path][m].from \in Files /\ items'[path][m].refs \subseteq Refs
    <3>1. /\ path \in DOMAIN items /\ m \in DOMAIN items[path]
          /\ items'[path][m].refs = Merger!Rename(items[path][m].refs)
          /\ items'[path][m].from = items[path][m].from
      BY <1>0, <2>1, NormalizeStep
    <3>2. items[path][m].from \in Files /\ items[path][m].refs \subseteq Refs
      BY <3>1 DEF MergeTypes, ItemsTyped
    <3> QED
      BY <3>1, <3>2, RenameTyped
  <2> QED
    BY <1>1, <2>1 DEF ItemsTyped, Files
<1>4. SchemasTyped'
  <2>1. /\ DOMAIN schemas' = Merger!Rename(DOMAIN schemas)
        /\ \A k \in DOMAIN schemas' : \E s \in DOMAIN schemas :
             schemas'[k] = Merger!Rename(schemas[s])
    BY <1>0, NormalizeStep
  <2>2. schemas' = [k \in DOMAIN schemas' |-> schemas'[k]]
    <3>1. PICK w \in Merger!Kept(DOMAIN schemas) :
            schemas' = [k \in DOMAIN w |-> Merger!Rename(schemas[w[k]])]
      BY DEF Merger!Normalize
    <3> QED
      BY <3>1
  <2>3. /\ DOMAIN schemas \subseteq SchemaIds /\ IsFiniteSet(DOMAIN schemas)
        /\ \A s \in DOMAIN schemas : schemas[s] \subseteq SchemaIds
    BY DEF MergeTypes, SchemasTyped, IsReferring
  <2>4. DOMAIN schemas' \subseteq SchemaIds /\ IsFiniteSet(DOMAIN schemas')
    BY <2>1, <2>3, RenameTyped, RenameFinite DEF Refs
  <2>5. \A k \in DOMAIN schemas' : schemas'[k] \subseteq SchemaIds
    BY <2>1, <2>3, RenameTyped DEF Refs
  <2> QED
    BY <2>2, <2>4, <2>5 DEF SchemasTyped, IsReferring
<1>5. AtTyped'
  BY <1>1 DEF MergeTypes, AtTyped, InSequence
<1> QED
  BY <1>1, <1>2, <1>3, <1>4, <1>5 DEF MergeTypes, Ordered, InSequence

LEMMA SupersededTypes ==
  ASSUME MergeInv, MergeTypes, Merger!GenerateSuperseded PROVE MergeTypes'
<1>1. /\ stage = "superseded" /\ stage' \in {"superseded", "normalize", "thrown"}
      /\ schemas' = schemas /\ components' = components
  BY DEF Merger!GenerateSuperseded
<1>2. folder \in Folders /\ Len(folder.entries) \in Nat /\ keys \in Seq(DOMAIN items)
  BY <1>1, EntriesCount DEF MergeInv
<1>3. CASE Merger!Superseding!Supersede
  <2>1. /\ folder' = folder /\ at' = at + 1 /\ at \in 1 .. Len(folder.entries)
    BY <1>3 DEF Merger!Superseding!Supersede, Merger!Superseding!AtEntry
  <2>2. ItemsTyped'
    <3>1. ASSUME NEW path \in DOMAIN items', NEW m \in DOMAIN items'[path]
          PROVE  items'[path][m].from \in Files /\ items'[path][m].refs \subseteq Refs
      <4>1. PICK p \in DOMAIN items : \E k \in DOMAIN items[p] :
              /\ items'[path][m].refs = items[p][k].refs
              /\ items'[path][m].from = items[p][k].from
        BY <1>1, <1>3, <3>1, SupersedeStep
      <4>2. PICK k \in DOMAIN items[p] :
              /\ items'[path][m].refs = items[p][k].refs
              /\ items'[path][m].from = items[p][k].from
        BY <4>1
      <4> QED
        BY <4>2 DEF MergeTypes, ItemsTyped
    <3> QED
      BY <2>1, <3>1 DEF ItemsTyped, Files
  <2>3. Ordered'
    <3>1. PICK i \in 1 .. Len(keys) : \E item :
            Merger!Superseding!Put(Merger!Superseding!Target(Merger!Superseding!entry), item)
      BY <1>3 DEF Merger!Superseding!Supersede
    <3> DEFINE path == Merger!Superseding!Target(Merger!Superseding!entry)
    <3>2. /\ DOMAIN items' = DOMAIN items \cup {path}
          /\ keys' = IF path \in DOMAIN items THEN keys ELSE Append(keys, path)
      BY <3>1 DEF Merger!Superseding!Put
    <3> HIDE DEF path
    <3>3. Ordered
      BY <1>1 DEF MergeTypes, InSequence
    <3>4. CASE path \in DOMAIN items
      BY <3>2, <3>3, <3>4 DEF Ordered
    <3>5. CASE path \notin DOMAIN items
      <4>1. /\ Len(keys) \in Nat /\ Len(keys') = Len(keys) + 1 /\ keys'[Len(keys) + 1] = path
            /\ \A n \in 1 .. Len(keys) : keys'[n] = keys[n]
        BY <1>2, <3>2, <3>5
      <4>2. 1 .. Len(keys') = (1 .. Len(keys)) \cup {Len(keys) + 1}
        BY <4>1
      <4> QED
        BY <3>2, <3>3, <4>1, <4>2 DEF Ordered
    <3> QED
      BY <3>4, <3>5
  <2>4. AtTyped'
    BY <1>1, <1>2, <2>1 DEF AtTyped, InSequence
  <2> QED
    BY <1>1, <2>1, <2>2, <2>3, <2>4 DEF MergeTypes, SchemasTyped, ComponentsTyped
<1>4. CASE Merger!Superseding!Warn \/ Merger!Superseding!Mismatch \/ Merger!Superseding!Finish
  <2>1. /\ folder' = folder /\ items' = items /\ keys' = keys
        /\ at' = at \/ (at' = at + 1 /\ at \in 1 .. Len(folder.entries))
    BY <1>4 DEF Merger!Superseding!Warn, Merger!Superseding!Mismatch, Merger!Superseding!Finish,
         Merger!Superseding!AtEntry
  <2>2. AtTyped'
    BY <1>1, <1>2, <2>1 DEF MergeTypes, AtTyped, InSequence
  <2> QED
    BY <1>1, <2>1, <2>2 DEF MergeTypes, SchemasTyped, ComponentsTyped, ItemsTyped, Ordered, InSequence,
         Files
<1> QED
  BY <1>3, <1>4 DEF Merger!GenerateSuperseded, Merger!Superseding!Next

LEMMA NextMergeTypes ==
  ASSUME MergeInv, ResolveInv, MergeTypes, Merger!Next PROVE MergeTypes'
<1>1. CASE Merger!MergeSchemas
  <2>1. /\ schemas' = folder.schemas /\ stage = "schemas" /\ stage' = "namespaces"
        /\ folder' = folder /\ components' = components /\ items' = items /\ at' = at
    BY <1>1 DEF Merger!MergeSchemas
  <2>2. IsReferring(folder.schemas, SchemaIds, SchemaIds)
    BY FoldersAssumption DEF MergeInv, IsFolder
  <2> QED
    BY <2>1, <2>2 DEF MergeTypes, SchemasTyped, ComponentsTyped, ItemsTyped, AtTyped, InSequence, Files
<1>2. CASE Merger!ParseThrows
  BY <1>2 DEF Merger!ParseThrows, MergeTypes, SchemasTyped, ComponentsTyped, ItemsTyped, AtTyped,
       InSequence, Files
<1>3. CASE Merger!Sort
  <2>1. /\ stage = "namespaces" /\ stage' = "globals" /\ folder' = folder /\ schemas' = schemas
        /\ components' = components /\ items' = items /\ at' = at
        /\ keys' \in Merger!Sorted(DOMAIN items)
    BY <1>3 DEF Merger!Sort
  <2>2. IsFiniteSet(DOMAIN items)
    BY DEF MergeInv
  <2>3. DOMAIN items = {keys'[i] : i \in 1 .. Len(keys')}
    <3>1. ASSUME NEW order \in Merger!Sorted(DOMAIN items)
          PROVE  DOMAIN items = {order[i] : i \in 1 .. Len(order)}
      <4>1. \A P : IsFiniteSet(P) =>
              \A o \in Merger!Sorted(P) : P = {o[i] : i \in 1 .. Len(o)}
        BY SortedNamesAll
      <4> QED
        BY <2>2, <3>1, <4>1, Zenon
    <3> QED
      BY <2>1, <3>1
  <2> QED
    BY <2>1, <2>3 DEF MergeTypes, SchemasTyped, ComponentsTyped, ItemsTyped, AtTyped, Ordered,
         InSequence, Files
<1> QED
  BY <1>1, <1>2, <1>3, NamespaceTypes, GlobalsTypes, SupersededTypes, NormalizeTypes
  DEF Merger!Next

\* Type correctness of the linter and the merger, in any order of their steps.
THEOREM TypeCorrect == Spec => []TypeOK
<1> DEFINE Types == LintTypes /\ MergeTypes
<1>1. Init => Types
  BY InitLintTypes, InitMergeTypes
<1>2. MergeInv /\ ResolveInv /\ Types /\ [Next]_vars => Types'
  <2> SUFFICES ASSUME MergeInv, ResolveInv, Types, [Next]_vars PROVE Types'
    OBVIOUS
  <2>1. folder \in Folders
    BY DEF MergeInv
  <2>2. CASE Lint
    <3>1. LintTypes'
      BY <2>1, <2>2, NextLintTypes DEF Lint
    <3>2. UNCHANGED mergeVars /\ folder' = folder
      BY <2>2 DEF Lint, Linter!Next, Linter!FindRefs, Linter!ValidateName, Linter!ValidateGroups,
           Linter!ValidateFile, Linter!ValidateFolder, Linter!ValidateRefs, Linter!MergeThrows,
           Linter!ValidateSchemas, Linter!VisitSchemas
    <3> QED
      BY <3>1, <3>2 DEF mergeVars, MergeTypes, SchemasTyped, ComponentsTyped, ItemsTyped, AtTyped,
           Ordered, InSequence, Files
  <2>3. CASE Merge
    <3>1. MergeTypes'
      BY <2>3, NextMergeTypes DEF Merge
    <3>2. UNCHANGED lintVars /\ folder' = folder
      BY <2>3, MergerReads DEF Merge
    <3> QED
      BY <3>1, <3>2 DEF lintVars, LintTypes, ErrorTyped, Files
  <2>4. CASE UNCHANGED vars
    BY <2>4 DEF vars, lintVars, mergeVars, LintTypes, ErrorTyped, MergeTypes, SchemasTyped,
         ComponentsTyped, ItemsTyped, AtTyped, Ordered, InSequence, Files
  <2> QED
    BY <2>2, <2>3, <2>4 DEF Next
<1>3. MergeInv /\ Types => TypeOK
  <2> SUFFICES ASSUME MergeInv, Types PROVE TypeOK
    OBVIOUS
  <2>1. Linter!IsFolder(folder) /\ Merger!IsFolder(folder)
    BY FolderTyped DEF MergeInv
  <2>2. Linter!TypeOK
    BY <2>1 DEF Linter!TypeOK, LintTypes, ErrorTyped, Files
  <2>3. Merger!IsReferring(schemas, Merger!SchemaIds, Merger!SchemaIds)
    <3>1. IsFiniteSet(DOMAIN schemas) <=> Merger!IsFiniteSet(DOMAIN schemas)
      BY Zenon DEF IsFiniteSet, Merger!IsFiniteSet
    <3>2. SchemaIds = Merger!SchemaIds
      BY DEF SchemaIds, Merger!SchemaIds
    <3> QED
      BY <3>1, <3>2, Zenon DEF MergeTypes, SchemasTyped, IsReferring, Merger!IsReferring
  <2>4. /\ DOMAIN components \subseteq Components
        /\ \A c \in DOMAIN components :
             /\ components[c].from \in 0 .. Len(folder.namespaces)
             /\ components[c].refs \subseteq Merger!Refs
    BY DEF MergeTypes, ComponentsTyped, Refs, SchemaIds, Merger!Refs, Merger!SchemaIds
  <2>5. \A op \in Merger!Operations :
          op.from \in 1 .. Len(folder.namespaces) /\ op.refs \subseteq Merger!Refs
    BY DEF MergeTypes, ItemsTyped, Files, Merger!Operations, Refs, SchemaIds, Merger!Refs,
         Merger!SchemaIds
  <2>6. stage \in {"globals", "superseded", "normalize", "done"} =>
          DOMAIN items = {keys[i] : i \in 1 .. Len(keys)}
    BY DEF MergeTypes, InSequence, Ordered
  <2>7. /\ stage # "thrown" =>
             at \in 1 .. Len(IF stage \in {"schemas", "namespaces", "globals"}
                               THEN folder.namespaces ELSE folder.entries) + 1
        /\ stage \in {"schemas", "namespaces", "globals", "superseded", "normalize", "done",
                      "thrown"}
    BY DEF MergeTypes, AtTyped, InSequence
  <2>8. Merger!TypeOK
    BY <2>1, <2>3, <2>4, <2>5, <2>6, <2>7, Zenon DEF Merger!TypeOK
  <2> QED
    BY <2>2, <2>8 DEF TypeOK
<1> QED
  BY <1>1, <1>2, <1>3, Resolving, PTL DEF Spec

-----------------------------------------------------------------------------
(***************************************************************************)
(* The merger throws on a file that is no YAML and on an entry whose paths *)
(* differ in their parameters; the linter looks at the files before it     *)
(* starts and at the entries at its end, unless it found errors before.    *)
(***************************************************************************)
Unparsed ==
  SchemaFilesWith(folder, "yaml") # {} \/ \E i \in Files : folder.namespaces[i].broken = "yaml"

ThrowInv ==
  /\ lintStage = "visit" => Linter!Merges
  /\ lintStage = "done" /\ errors = {} => Linter!Merges
  /\ stage = "thrown" => Unparsed \/ ~Linter!Merges

PassedMerges == lintStage = "done" /\ errors = {} => stage # "thrown"

\* The linter and the merger compare the paths of an entry alike.
LEMMA SameCheck ==
  ASSUME NEW i \in 1 .. Len(folder.entries), Linter!Merges
  PROVE  Merger!Superseding!SameParams(folder.entries[i].by, folder.entries[i].path)
<1>1. \A P : Linter!Cardinality(Linter!ParamsOf(P))
               = Merger!Superseding!Cardinality(Merger!Superseding!ParamsOf(P))
  BY Zenon DEF Linter!Cardinality, Linter!ParamsOf, Merger!Superseding!Cardinality,
       Merger!Superseding!ParamsOf
<1>2. Linter!Cardinality(Linter!ParamsOf(folder.entries[i].path))
        = Linter!Cardinality(Linter!ParamsOf(folder.entries[i].by))
  BY Zenon DEF Linter!Merges
<1> QED
  BY <1>1, <1>2, Zenon DEF Merger!Superseding!SameParams

LEMMA NextThrow == MergeInv /\ ThrowInv /\ [Next]_vars => ThrowInv'
<1> SUFFICES ASSUME MergeInv, ThrowInv, [Next]_vars PROVE ThrowInv'
  OBVIOUS
<1>1. ASSUME folder' = folder
      PROVE  Linter!Merges' = Linter!Merges /\ Unparsed' = Unparsed
  BY <1>1 DEF Linter!Merges, Unparsed, Files
<1>2. CASE Lint
  <2>1. folder' = folder /\ stage' = stage
    BY <1>2 DEF Lint, mergeVars, Linter!Next, Linter!FindRefs, Linter!ValidateName,
         Linter!ValidateGroups, Linter!ValidateFile, Linter!ValidateFolder, Linter!ValidateRefs,
         Linter!MergeThrows, Linter!ValidateSchemas, Linter!VisitSchemas
  <2>2. lintStage' = "visit" \/ (lintStage' = "done" /\ errors' = {}) => Linter!Merges
    BY <1>2 DEF Lint, ThrowInv, Linter!Next, Linter!FindRefs, Linter!ValidateName,
         Linter!ValidateGroups, Linter!ValidateFile, Linter!ValidateFolder, Linter!ValidateRefs,
         Linter!MergeThrows, Linter!ValidateSchemas, Linter!VisitSchemas, Linter!AtFile
  <2> QED
    BY <1>1, <2>1, <2>2 DEF ThrowInv
<1>3. CASE Merge
  <2>1. UNCHANGED <<lintStage, errors>> /\ folder' = folder
    BY <1>3, MergerReads DEF Merge, lintVars
  <2>2. ASSUME stage' = "thrown", stage # "thrown"
        PROVE  Unparsed \/ ~Linter!Merges
    <3>1. \/ Merger!ParseThrows
          \/ Merger!GenerateSuperseded /\ superseding' = "thrown"
      BY <1>3, <2>2 DEF Merge, Merger!Next, Merger!MergeSchemas, Merger!MergeNamespace,
           Merger!Sort, Merger!GenerateGlobals, Merger!GenerateSuperseded, Merger!Normalize
    <3>2. CASE Merger!ParseThrows
      <4>1. at \in Nat \ {0} /\ Len(folder.namespaces) \in Nat
        BY Count DEF MergeInv
      <4> QED
        BY <3>2, <4>1 DEF Merger!ParseThrows, Merger!file, Merger!SchemaFilesWith, SchemaFilesWith,
             Unparsed, Files
    <3>3. CASE Merger!GenerateSuperseded /\ superseding' = "thrown"
      <4>1. /\ at \in 1 .. Len(folder.entries)
            /\ ~Merger!Superseding!SameParams(folder.entries[at].by, folder.entries[at].path)
        BY <3>3 DEF Merger!GenerateSuperseded, Merger!Superseding!Next,
             Merger!Superseding!Supersede, Merger!Superseding!Warn,
             Merger!Superseding!Mismatch, Merger!Superseding!Finish,
             Merger!Superseding!AtEntry, Merger!Superseding!entry
      <4> QED
        BY <4>1, SameCheck
    <3> QED
      BY <3>1, <3>2, <3>3
  <2>3. stage' = "thrown" => Unparsed \/ ~Linter!Merges
    BY <2>2 DEF ThrowInv
  <2> QED
    BY <1>1, <2>1, <2>3 DEF ThrowInv
<1>4. CASE UNCHANGED vars
  BY <1>1, <1>4 DEF vars, lintVars, mergeVars, ThrowInv
<1> QED
  BY <1>2, <1>3, <1>4 DEF Next

(***************************************************************************)
(* The merge of a folder that the linter passes never throws, whatever its *)
(* entries.                                                                *)
(***************************************************************************)
THEOREM PassedMergesCorrect == Spec => []PassedMerges
<1>1. Init => ThrowInv
  BY DEF Init, Linter!Init, Merger!Begin, ThrowInv
<1>2. MergeInv /\ ThrowInv /\ [Next]_vars => ThrowInv'
  BY NextThrow
<1>3. IInv /\ ThrowInv => PassedMerges
  BY DEF IInv, CleanExactly, InOrder, FoldersClean, FileClean, ThrowInv, PassedMerges, Unparsed, Files
<1> QED
  BY <1>1, <1>2, <1>3, Resolving, PTL DEF Spec
=============================================================================
