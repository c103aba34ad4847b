----------------------------- MODULE SpecFolder -----------------------------
(***************************************************************************)
(* The multi-file specification under spec/, as far as the linter and the  *)
(* merger follow it: which file defines what, and what refers to what.  A  *)
(* schema is known by its file and its name; parameters, responses and     *)
(* request bodies are all components, known by their key.                  *)
(***************************************************************************)
EXTENDS Naturals, Sequences, FiniteSets

CONSTANTS
  SchemaFiles, Names,
  Groups,             \* operation groups
  Namespace,          \* the namespace file a group is of
  Components,         \* keys of components
  Group,              \* the group a key begins with; none of Groups for a global parameter
  PathParam,          \* the path parameter a key names, or NoParam
  NoParam,
  Literals, Params,   \* segments of paths
  Methods,
  Before,             \* the pairs of paths the merger sorts so: localeCompare
  Normal,             \* normalize_key: the normal form of what can be referred to
  Folders             \* the folders a behaviour may start from

Paths == Seq(Literals \cup Params)

SchemaIds == SchemaFiles \X Names

Refs == Components \cup SchemaIds

\* f is a function from finitely many of S to subsets of T.
IsReferring(f, S, T) ==
  /\ f = [x \in DOMAIN f |-> f[x]]
  /\ DOMAIN f \subseteq S /\ IsFiniteSet(DOMAIN f)
  /\ \A x \in DOMAIN f : f[x] \subseteq T

RefsIn(f) == [x \in DOMAIN f |-> f[x].refs]

(***************************************************************************)
(* A namespace file.                                                       *)
(* ops         its operations, each a path and a method, with their group, *)
(*             what they refer to, what they say of themselves             *)
(*             (description and externalDocs), and whether they keep the   *)
(*             rules about their own text and order;                       *)
(* components  what its components refer to, and the path parameter each   *)
(*             defines;                                                    *)
(* invalid     the components whose schema is no JSON schema;              *)
(* broken      the file breaks a rule about its name or about the rest of  *)
(*             its text, one about inline objects, number formats or       *)
(*             inline enums, or no rule; or it is no YAML.                 *)
(***************************************************************************)
IsNamespace(n) ==
  /\ DOMAIN n = {"ops", "components", "invalid", "broken"}
  /\ IsReferring(RefsIn(n.ops), Paths \X Methods, Refs)
  /\ \A k \in DOMAIN n.ops :
       /\ DOMAIN n.ops[k] = {"group", "refs", "about", "sound"}
       /\ n.ops[k].group \in Groups /\ n.ops[k].sound \in BOOLEAN
  /\ IsReferring(RefsIn(n.components), Components, Refs)
  /\ \A c \in DOMAIN n.components :
       DOMAIN n.components[c] = {"refs", "param"} /\ n.components[c].param \in Params \cup {NoParam}
  /\ n.invalid \subseteq DOMAIN n.components
  /\ n.broken \in {"no", "name", "text", "inline", "yaml"}

(***************************************************************************)
(* schemas     what the schemas refer to;                                  *)
(* files       the schema files, some without a schema, and the rule each  *)
(*             breaks, as for namespace files;                             *)
(* invalid     the schemas and global parameters that are no JSON schema;  *)
(* namespaces  the namespace files in the order of their names;            *)
(* globals     what the parameters of _global_parameters.yaml refer to;    *)
(*             their keys begin with "_global";                            *)
(* entries     of _superseded_operations.yaml.                             *)
(***************************************************************************)
IsFolder(f) ==
  /\ DOMAIN f = {"schemas", "files", "invalid", "namespaces", "globals", "entries"}
  /\ IsReferring(f.schemas, SchemaIds, SchemaIds)
  /\ DOMAIN f.files \subseteq SchemaFiles
  /\ \A x \in DOMAIN f.files : f.files[x] \in {"no", "text", "inline", "yaml"}
  /\ \A s \in DOMAIN f.schemas : s[1] \in DOMAIN f.files /\ f.files[s[1]] # "yaml"
  /\ f.invalid \subseteq DOMAIN f.schemas \cup DOMAIN f.globals
  /\ f.namespaces = [i \in 1 .. Len(f.namespaces) |-> f.namespaces[i]]
  /\ \A i \in 1 .. Len(f.namespaces) : IsNamespace(f.namespaces[i])
  /\ IsReferring(f.globals, {c \in Components : Group[c] \notin Groups}, SchemaIds)
  /\ f.entries \in Seq([path : Paths, by : Paths, methods : SUBSET Methods])

ASSUME KindsAssumption == Components \cap SchemaIds = {} /\ Literals \cap Params = {}
ASSUME FilesAssumption == "" \notin SchemaFiles
ASSUME NamespaceAssumption == Namespace \in [Groups -> Nat \ {0}]
ASSUME GroupAssumption == DOMAIN Group = Components
ASSUME PathParamAssumption == PathParam \in [Components -> Params \cup {NoParam}] /\ NoParam \notin Params
ASSUME NormalAssumption ==
  /\ Normal \in [Refs -> Refs]
  /\ \A r \in Refs : Normal[Normal[r]] = Normal[r]
  /\ \A r \in Refs : r \in Components <=> Normal[r] \in Components
ASSUME OrderAssumption == \A pair \in Before : <<pair[2], pair[1]>> \notin Before
ASSUME FoldersAssumption == \A f \in Folders : IsFolder(f)

PathsOf(n) == {k[1] : k \in DOMAIN n.ops}

RefsOf(n) == UNION {n.ops[k].refs : k \in DOMAIN n.ops}

OperationsOf(n, group) == {n.ops[k] : k \in {l \in DOMAIN n.ops : n.ops[l].group = group}}

GroupsOf(n) == {n.ops[k].group : k \in DOMAIN n.ops}

\* The places of the parameters in a path, the parameters, and the path
\* without their names.
ParamsOf(path) == {i \in 1 .. Len(path) : path[i] \in Params}

ParamSet(path) == {path[i] : i \in 1 .. Len(path)} \cap Params

Template(path) ==
  [i \in 1 .. Len(path) |-> IF path[i] \in Params THEN "{}" ELSE path[i]]

AllNamespaces(f) == {f.namespaces[i] : i \in 1 .. Len(f.namespaces)}

\* The schema files that break a rule of one kind, and the namespace files.
SchemaFilesWith(f, rule) == {x \in DOMAIN f.files : f.files[x] = rule}

NamespacesWith(f, rule) ==
  {i \in 1 .. Len(f.namespaces) : f.namespaces[i].broken = rule}

\* The keys of components, with the global parameters, and of those the ones
\* whose schema is no JSON schema.
ComponentKeys(f) ==
  (UNION {DOMAIN n.components : n \in AllNamespaces(f)}) \cup DOMAIN f.globals

InvalidComponents(f) ==
  (UNION {n.invalid : n \in AllNamespaces(f)}) \cup (f.invalid \cap DOMAIN f.globals)

InvalidSchemas(f) == f.invalid \cap DOMAIN f.schemas

Rename(refs) == {Normal[r] : r \in refs}

(***************************************************************************)
(* Which of the keys D is behind each normal form when the merger is done: *)
(* the object of the last key that is renamed stays.  The order of the     *)
(* keys is left open.                                                      *)
(***************************************************************************)
Kept(D) ==
  {w \in [Rename(D) -> D] : \A k \in DOMAIN w :
     /\ Normal[w[k]] = k
     /\ w[k] = k => \A j \in D : Normal[j] = k => j = k}

\* No other of the keys D has the normal form of k.
Alone(k, D) == \A j \in D : Normal[j] = Normal[k] => j = k

SchemaRefsOf(f) ==
  (UNION {UNION {n.components[c].refs : c \in DOMAIN n.components} : n \in AllNamespaces(f)})
    \cup (UNION {f.schemas[s] : s \in DOMAIN f.schemas})

-----------------------------------------------------------------------------
(***************************************************************************)
(* What a folder in order looks like, said of the folder and not of the    *)
(* programs.  The operations of a group are in the file of its namespace,  *)
(* use components of the group alone, and take the path parameters their   *)
(* path has; two of them differ in nothing but these.                      *)
(***************************************************************************)
OperationsClean(f, i) ==
  LET n == f.namespaces[i]
      defines(r) == n.components[r].param
  IN  /\ RefsOf(n) = DOMAIN n.components
      /\ \A k \in DOMAIN n.ops :
           /\ n.ops[k].sound /\ Namespace[n.ops[k].group] = i
           /\ \A r \in n.ops[k].refs : Group[r] = n.ops[k].group
           /\ {defines(r) : r \in n.ops[k].refs} \ {NoParam} = ParamSet(k[1])
      /\ \A k, l \in DOMAIN n.ops :
           n.ops[k].group = n.ops[l].group =>
             /\ n.ops[k].about = n.ops[l].about
             /\ \A r \in n.ops[k].refs : defines(r) = NoParam => r \in n.ops[l].refs

FileClean(f, i) ==
  LET n == f.namespaces[i]
  IN  /\ n.broken \in {"no", "inline"}
      /\ OperationsClean(f, i)
      /\ \A c \in DOMAIN n.components : n.components[c].param = PathParam[c]

PathsApart(f) ==
  \A i, j \in 1 .. Len(f.namespaces) :
    \A p \in PathsOf(f.namespaces[i]), q \in PathsOf(f.namespaces[j]) :
      Template(p) = Template(q) => i = j /\ p = q

FoldersClean(f) ==
  /\ \A i \in 1 .. Len(f.namespaces) : FileClean(f, i)
  /\ SchemaFilesWith(f, "text") = {} /\ SchemaFilesWith(f, "yaml") = {}
  /\ PathsApart(f)

\* In order but for schemas that may be no JSON schemas.
InOrder(f) ==
  /\ FoldersClean(f)
  /\ NamespacesWith(f, "inline") = {} /\ SchemaFilesWith(f, "inline") = {}
  /\ SchemaRefsOf(f) = DOMAIN f.schemas
  /\ \A x \in DOMAIN f.files : \E s \in DOMAIN f.schemas : s[1] = x

Clean(f) == InOrder(f) /\ InvalidSchemas(f) = {} /\ InvalidComponents(f) = {}
=============================================================================
