----------------------------- MODULE SpecLinter -----------------------------
(***************************************************************************)
(* SpecValidator as lint.ts runs it: its constructor collects references,  *)
(* validate takes the namespace files one after the other, the namespaces  *)
(* folder, and the validators of the whole specification, each stage only  *)
(* if the one before found nothing.  The schemas folder is looked at       *)
(* whatever the namespaces are like.  Of the last, SchemasValidator merges *)
(* the specification, which may throw, and looks at the merged file; the   *)
(* others look at the files of the folder.  An error is a kind, the number *)
(* of a namespace file or 0, and what it is about.                         *)
(***************************************************************************)
EXTENDS SpecFolder

VARIABLES
  folder,   \* the folder, never changed
  at,       \* the namespace file being validated
  stage,    \* start, files, refs, merge, visit, done or thrown
  errors    \* the errors found; they are printed when the stage is done

vars == <<folder, at, stage, errors>>

Init ==
  /\ folder \in Folders
  /\ at = 1 /\ stage = "start" /\ errors = {}

file == folder.namespaces[at]

AtFile == stage = "files" /\ at \in 1 .. Len(folder.namespaces)

Errors(kind, i, problems) == {<<kind, i, p>> : p \in problems}

-----------------------------------------------------------------------------
(***************************************************************************)
(* Operation.validate: the group is one of the file's namespace, every     *)
(* reference is to a component of the group, and the path parameters,      *)
(* which are told by the keys, are those of the path.                      *)
(***************************************************************************)
BreaksRule(i, k) ==
  LET op == folder.namespaces[i].ops[k]
  IN  \/ ~op.sound \/ Namespace[op.group] # i
      \/ \E r \in op.refs : ~(r \in Components /\ Group[r] = op.group)
      \/ {PathParam[r] : r \in op.refs} \ {NoParam} # ParamSet(k[1])

BrokenOperations(i) == {k \in DOMAIN folder.namespaces[i].ops : BreaksRule(i, k)}

\* Mistake: the components the operations refer to are not compared.
DisagreesOnAbout(ops) == \E o, p \in ops : o.about # p.about

\* OperationGroup.validate, where every operation is in order: they differ
\* in the description, or in the body, the responses or the query.
Disagrees(ops) ==
  \E o, p \in ops :
    \/ o.about # p.about
    \/ \E r \in o.refs \ p.refs : PathParam[r] = NoParam

DisagreeingGroups(i) ==
  LET n == folder.namespaces[i]
      withErrors == {n.ops[k].group : k \in BrokenOperations(i)}
  IN  {g \in GroupsOf(n) \ withErrors : Disagrees(OperationsOf(n, g))}

GroupErrors(i) ==
  Errors("operation", i, BrokenOperations(i)) \cup Errors("group", i, DisagreeingGroups(i))

\* validate_unresolved_refs resolves within the same file.
validate_unresolved_refs(n) == RefsOf(n) \ DOMAIN n.components

\* validate_unused_refs asks for a use by a path; one by a component is none.
validate_unused_refs(n) == DOMAIN n.components \ RefsOf(n)

\* validate_parameter_refs: a key names what its parameter is.
validate_parameter_refs(n) == {c \in DOMAIN n.components : n.components[c].param # PathParam[c]}

\* validate_duplicate_paths: the names of parameters play no part.
validate_duplicate_paths(f) ==
  {path \in UNION {PathsOf(n) : n \in AllNamespaces(f)} :
     \E i, j \in 1 .. Len(f.namespaces) :
       \E p \in PathsOf(f.namespaces[i]), q \in PathsOf(f.namespaces[j]) :
         /\ <<i, p>> # <<j, q>>
         /\ Template(p) = Template(path) /\ Template(q) = Template(path)}

\* referenced_schemas: what is no schema is looked up in a file without a name.
referenced_schemas(f) ==
  {IF r \in SchemaIds THEN r ELSE <<"", r>> : r \in SchemaRefsOf(f)}

available_schemas(f) == DOMAIN f.schemas

FilesOf(ids) == {<<id[1]>> : id \in ids}

\* A schema file without a schema is there too.
available_files(f) == {<<x>> : x \in DOMAIN f.files}

\* Mistake: a file without any of the others is passed over.
MissingInFiles(ids, files, others, otherFiles) ==
  {id \in ids \ others : <<id[1]>> \in otherFiles}

(***************************************************************************)
(* What the others lack of the files and the schemas in them: a file as a  *)
(* whole if they do not have it, and else the schemas of it that they      *)
(* lack.                                                                   *)
(***************************************************************************)
Missing(ids, files, others, otherFiles) ==
  (files \ otherFiles) \cup {id \in ids \ others : <<id[1]>> \in otherFiles}

validate_unresolved_schemas(f) ==
  LET used == referenced_schemas(f)
  IN  Missing(used, FilesOf(used), available_schemas(f), available_files(f))

validate_unreferenced_schemas(f) ==
  LET used == referenced_schemas(f)
  IN  Missing(available_schemas(f), available_files(f), used, FilesOf(used))

-----------------------------------------------------------------------------
(***************************************************************************)
(* The constructor of SchemaRefsValidator searches every file, and throws  *)
(* on one that cannot be parsed: FileValidator.validate, which would turn  *)
(* this into an error, is not reached.                                     *)
(***************************************************************************)
FindRefs ==
  /\ stage = "start"
  /\ stage' = IF NamespacesWith(folder, "yaml") = {} /\ SchemaFilesWith(folder, "yaml") = {}
                THEN "files" ELSE "thrown"
  /\ UNCHANGED <<folder, at, errors>>

\* The name of a file is looked at first, and nothing else then.
ValidateName ==
  /\ AtFile /\ file.broken = "name"
  /\ errors' = errors \cup {<<"name", at, at>>}
  /\ at' = at + 1
  /\ UNCHANGED <<folder, stage>>

\* Mistake: the file that breaks a rule is the last one looked at.
ValidateGroupsOnly ==
  /\ AtFile /\ file.broken # "name" /\ GroupErrors(at) # {}
  /\ errors' = errors \cup GroupErrors(at)
  /\ at' = Len(folder.namespaces) + 1
  /\ UNCHANGED <<folder, stage>>

\* An operation breaks a rule, or two of a group differ: the rest of the
\* file is not looked at.
ValidateGroups ==
  /\ AtFile /\ file.broken # "name" /\ GroupErrors(at) # {}
  /\ errors' = errors \cup GroupErrors(at)
  /\ at' = at + 1
  /\ UNCHANGED <<folder, stage>>

\* validate_schemas, validate_info and validate_order_of_operations are the
\* rules about the text of the file.
FileErrors(i, n) ==
  Errors("unresolved", i, validate_unresolved_refs(n))
    \cup Errors("unused", i, validate_unused_refs(n))
    \cup Errors("parameter", i, validate_parameter_refs(n))
    \cup (IF n.broken = "text" THEN {<<"text", i, i>>} ELSE {})

\* Mistake: the errors are those of the file that comes next.
ValidateFileLate ==
  /\ AtFile /\ file.broken # "name" /\ GroupErrors(at) = {}
  /\ at' = at + 1
  /\ errors' = errors \cup FileErrors(at', file)
  /\ UNCHANGED <<folder, stage>>

ValidateFile ==
  /\ AtFile /\ file.broken # "name" /\ GroupErrors(at) = {}
  /\ errors' = errors \cup FileErrors(at, file)
  /\ at' = at + 1
  /\ UNCHANGED <<folder, stage>>

\* The namespaces folder is looked at only if none of its files has an
\* error, and the whole specification only if no file and folder has one.
ValidateFolder ==
  /\ stage = "files" /\ at = Len(folder.namespaces) + 1
  /\ errors' = Errors("schema", 0, SchemaFilesWith(folder, "text"))
       \cup IF errors = {} THEN Errors("duplicate", 0, validate_duplicate_paths(folder)) ELSE errors
  /\ stage' = IF errors' = {} THEN "refs" ELSE "done"
  /\ UNCHANGED <<folder, at>>

\* SchemaRefsValidator.validate.
ValidateRefs ==
  /\ stage = "refs"
  /\ errors' = Errors("unresolved", 0, validate_unresolved_schemas(folder))
                 \cup Errors("unreferenced", 0, validate_unreferenced_schemas(folder))
  /\ stage' = "merge"
  /\ UNCHANGED <<folder, at>>

\* The merge throws on an entry of _superseded_operations.yaml whose paths
\* differ in their parameters.
Merges ==
  \A i \in 1 .. Len(folder.entries) :
    Cardinality(ParamsOf(folder.entries[i].path)) = Cardinality(ParamsOf(folder.entries[i].by))

MergeThrows ==
  /\ stage = "merge" /\ ~Merges
  /\ stage' = "thrown"
  /\ UNCHANGED <<folder, at, errors>>

(***************************************************************************)
(* SchemasValidator looks at what is left in the merged file: of the keys  *)
(* with one normal form, one.  (No key is in two files here.)  Where a     *)
(* schema is invalid, the parameters, bodies and responses are not looked  *)
(* at.                                                                     *)
(***************************************************************************)
ValidateSchemas ==
  /\ stage = "merge" /\ Merges
  /\ \E w \in Kept(DOMAIN folder.schemas), v \in Kept(ComponentKeys(folder)) :
       LET named  == {k \in DOMAIN w : w[k] \in InvalidSchemas(folder)}
           others == {k \in DOMAIN v : v[k] \in InvalidComponents(folder)}
       IN  errors' = errors \cup Errors("invalid", 0, IF named # {} THEN named ELSE others)
  /\ stage' = "visit"
  /\ UNCHANGED <<folder, at>>

\* SchemaVisitingValidator and InlineEnumSchemaValidator go through the files.
VisitSchemas ==
  /\ stage = "visit"
  /\ errors' = errors \cup {<<"inline", i, i>> : i \in NamespacesWith(folder, "inline")}
                      \cup Errors("inline", 0, SchemaFilesWith(folder, "inline"))
  /\ stage' = "done"
  /\ UNCHANGED <<folder, at>>

Next ==
  \/ FindRefs \/ ValidateName \/ ValidateGroups \/ ValidateFile
  \/ ValidateFolder \/ ValidateRefs \/ MergeThrows \/ ValidateSchemas \/ VisitSchemas

Spec == Init /\ [][Next]_vars

-----------------------------------------------------------------------------
\* Every error is about the file and of the kind its stage looks for.
TypeOK ==
  /\ IsFolder(folder)
  /\ at \in 1 .. Len(folder.namespaces) + 1
  /\ stage \in {"start", "files", "refs", "merge", "visit", "done", "thrown"}
  /\ \A e \in errors :
       \/ /\ e[1] \in {"name", "text", "operation", "group", "unresolved", "unused", "parameter",
                        "inline"}
          /\ e[2] \in 1 .. Len(folder.namespaces)
       \/ /\ e[1] \in {"schema", "duplicate", "unresolved", "unreferenced", "invalid", "inline"}
          /\ e[2] = 0
=============================================================================
