----------------------------- MODULE SpecBuild -----------------------------
(***************************************************************************)
(* A specification on its way through the workflows of the repository:     *)
(* validate-spec-lint.yml lints the folder and build.yml merges it.  The   *)
(* two only read the folder, so one order of them stands for all.          *)
(***************************************************************************)
EXTENDS SpecFolder

VARIABLES
  folder,
  lintAt, lintStage, errors,                                              \* the linter's
  schemas, components, items, keys, at, warned, stage, superseding        \* the merger's

lintVars == <<lintAt, lintStage, errors>>
mergeVars == <<schemas, components, items, keys, at, warned, stage, superseding>>
vars == <<folder, lintVars, mergeVars>>

Linter == INSTANCE SpecLinter WITH at <- lintAt, stage <- lintStage

Merger == INSTANCE OpenApiMerger

Init == Linter!Init /\ Merger!Begin

Linted == lintStage \in {"done", "thrown"}

Lint == Linter!Next /\ UNCHANGED mergeVars

Merge == Linted /\ Merger!Next /\ UNCHANGED lintVars

Next == Lint \/ Merge

Spec == Init /\ [][Next]_vars

-----------------------------------------------------------------------------
TypeOK == Linter!TypeOK /\ Merger!TypeOK

\* Another key has the normal form of each that is invalid.
OthersInPlace ==
  /\ \A s \in InvalidSchemas(folder) : ~Alone(s, DOMAIN folder.schemas)
  /\ \A c \in InvalidComponents(folder) : ~Alone(c, ComponentKeys(folder))

(***************************************************************************)
(* However much the early returns leave out, and although some errors are  *)
(* of whole files, the linter ends without an error on a folder in order,  *)
(* and on no other but one: a schema that is no JSON schema passes if      *)
(* another key has the normal form of its own, which the merge may keep    *)
(* in its place.                                                           *)
(***************************************************************************)
CleanExactly ==
  lintStage = "done" =>
    /\ Clean(folder) => errors = {}
    /\ errors = {} => InOrder(folder) /\ OthersInPlace

(***************************************************************************)
(* The faults that the validators of the whole specification look for:     *)
(* each has an error, which may be one of the whole schema file.  Invalid  *)
(* components are looked for only where no schema is invalid.              *)
(***************************************************************************)
ReferencesReported ==
  LET named(kind, s) == <<kind, 0, s>> \in errors \/ <<kind, 0, <<s[1]>>>> \in errors
  IN  /\ \A s \in (SchemaRefsOf(folder) \cap SchemaIds) \ DOMAIN folder.schemas :
           named("unresolved", s)
      /\ \A s \in DOMAIN folder.schemas \ SchemaRefsOf(folder) : named("unreferenced", s)

InvalidReported ==
  LET invalid(k) == <<"invalid", 0, Normal[k]>> \in errors
  IN  /\ \A s \in InvalidSchemas(folder) : Alone(s, DOMAIN folder.schemas) => invalid(s)
      /\ InvalidSchemas(folder) = {} =>
           \A c \in InvalidComponents(folder) : Alone(c, ComponentKeys(folder)) => invalid(c)

InlineReported ==
  /\ \A i \in NamespacesWith(folder, "inline") : <<"inline", i, i>> \in errors
  /\ \A f \in SchemaFilesWith(folder, "inline") : <<"inline", 0, f>> \in errors

(***************************************************************************)
(* An error in one file does not hide those of another that are of the     *)
(* file alone: every namespace or schema file that breaks a rule of        *)
(* FileValidator.validate has an error of its own.  What the validators    *)
(* of the whole specification look for (references to schemas, invalid     *)
(* schemas, inline objects and enums, number formats) is hidden by any     *)
(* such error, SpecValidator.ts:50; where there is none, each file with    *)
(* such a fault has an error too.                                          *)
(***************************************************************************)
EveryFileReported ==
  lintStage = "done" =>
    /\ \A i \in 1 .. Len(folder.namespaces) :
         ~FileClean(folder, i) => \E e \in errors : e[2] = i
    /\ \A f \in SchemaFilesWith(folder, "text") : <<"schema", 0, f>> \in errors
    /\ FoldersClean(folder) => ReferencesReported /\ InvalidReported /\ InlineReported

(***************************************************************************)
(* "The linter tool ... will print out all the errors"                     *)
(* (DEVELOPER_GUIDE.md:197), also that a file cannot be read               *)
(* (NamespacesFolder.test.ts:91): the same without the exceptions that end *)
(* the linter.                                                             *)
(***************************************************************************)
EveryFileAlwaysReported ==
  Linted =>
    \A i \in 1 .. Len(folder.namespaces) :
      ~FileClean(folder, i) => \E e \in errors : e[2] = i

\* The linter passed the folder, and the merger is through with it.
PassedAndMerged == lintStage = "done" /\ errors = {} /\ stage = "done"

(***************************************************************************)
(* What the linter passes merges into one file without loose ends: through *)
(* overriding, copying and renaming, every reference of an operation, of a *)
(* component of a namespace and of a schema leads to a definition of the   *)
(* merged file.  The linter does not look at the schemas of                *)
(* _global_parameters.yaml, so theirs are left out.                        *)
(***************************************************************************)
PassedResolves ==
  PassedAndMerged =>
    /\ \A op \in Merger!Operations : op.refs \subseteq DOMAIN components
    /\ \A c \in DOMAIN components :
         components[c].from # 0 => components[c].refs \subseteq DOMAIN schemas
    /\ \A s \in DOMAIN schemas : schemas[s] \subseteq DOMAIN schemas

\* No two keys of the folder have one normal form.
NormalFormsApart ==
  \A c, d \in ComponentKeys(folder) : Normal[c] = Normal[d] => c = d

(***************************************************************************)
(* The merger keeps one component of each key, and the linter never        *)
(* compares the keys of two files.  What it asks of operations is enough:  *)
(* every reference of a namespace file leads to the component of that      *)
(* file, unless two keys have one normal form.                             *)
(***************************************************************************)
OwnDefinitions ==
  PassedAndMerged /\ NormalFormsApart =>
    \A i \in 1 .. Len(folder.namespaces) : \A r \in RefsOf(folder.namespaces[i]) :
      Normal[r] \in DOMAIN components /\ components[Normal[r]].from = i

(***************************************************************************)
(* "The merger tool will automatically add these parameters to all         *)
(* operations" (DEVELOPER_GUIDE.md:131): the generated ones included, and  *)
(* passed by the linter or not.                                            *)
(***************************************************************************)
EveryOperationGlobal ==
  stage = "done" =>
    \A op \in Merger!Operations : Rename(DOMAIN folder.globals) \subseteq op.refs

(***************************************************************************)
(* Every operation of a folder the linter passes is in the merged file,    *)
(* under its own path, unless an entry of _superseded_operations.yaml      *)
(* takes that path.                                                        *)
(***************************************************************************)
NothingLost ==
  PassedAndMerged =>
    \A i \in 1 .. Len(folder.namespaces) : \A k \in DOMAIN folder.namespaces[i].ops :
      \/ /\ k[1] \in DOMAIN items /\ k[2] \in DOMAIN items[k[1]]
         /\ items[k[1]][k[2]].from = i /\ items[k[1]][k[2]].copies = 0
      \/ \E e \in 1 .. Len(folder.entries) :
           Merger!Superseding!Target(folder.entries[e]) = k[1]

\* What the definitions in the merged file make of an operation's references.
PathParamsOf(op) ==
  {components[r].param : r \in op.refs \cap DOMAIN components} \ {NoParam}

OtherRefs(op) == {r \in op.refs : r \in DOMAIN components => components[r].param = NoParam}

(***************************************************************************)
(* A client has one method for all operations of a group.  The linter      *)
(* compares them file by file, before the globals and the copies; in the   *)
(* merged file, too, they differ in nothing but their path parameters.     *)
(***************************************************************************)
GroupsAgree ==
  PassedAndMerged /\ NormalFormsApart =>
    \A o, p \in Merger!Operations :
      o.group = p.group => o.about = p.about /\ OtherRefs(o) = OtherRefs(p)

\* The entries name parameters as the paths do that they match.
EntriesNameAlike ==
  \A i \in 1 .. Len(folder.entries) : \A path \in DOMAIN items :
    Merger!Superseding!Matches(folder.entries[i].by, path) =>
      ParamSet(folder.entries[i].by) = ParamSet(path)

(***************************************************************************)
(* In the merged file every operation, generated or not, defines exactly   *)
(* the path parameters of its path.  The linter only compares names of     *)
(* keys, and the generator never looks at the operations it copies.        *)
(***************************************************************************)
PathParametersAgree ==
  PassedAndMerged /\ NormalFormsApart /\ EntriesNameAlike =>
    \A path \in DOMAIN items : \A m \in DOMAIN items[path] :
      PathParamsOf(items[path][m]) = ParamSet(path)
=============================================================================
