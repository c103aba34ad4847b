--------------------------- MODULE OpenApiMerger ---------------------------
(***************************************************************************)
(* OpenApiMerger.spec: the schemas, the namespace files one after the      *)
(* other, the order of the keys, the global parameters, the superseded     *)
(* operations and the normal form of the keys, in this order.  An          *)
(* operation or a component remembers the namespace file it came from, and *)
(* 0 is _global_parameters.yaml.                                           *)
(***************************************************************************)
EXTENDS SpecFolder

VARIABLES
  folder,       \* the folder, never changed
  schemas,      \* components.schemas: what each schema refers to
  components,   \* components.parameters, responses and requestBodies
  items,        \* paths: for every path its operations by method
  keys,         \* the paths in their order
  at,           \* the namespace file or the entry to be merged
  warned,       \* the entries without a path that supersedes
  stage,        \* what is merged next
  superseding   \* running, done or thrown

vars == <<folder, schemas, components, items, keys, at, warned, stage, superseding>>

Superseding ==
  INSTANCE SupersededOps WITH given <- folder, state <- superseding, Given <- {}

Begin ==
  /\ schemas = <<>> /\ components = <<>> /\ items = <<>> /\ keys = <<>>
  /\ at = 1 /\ warned = {} /\ stage = "schemas" /\ superseding = "running"

Init == folder \in Folders /\ Begin

\* { ...old, ...new }
Override(old, new) ==
  [k \in DOMAIN old \cup DOMAIN new |-> IF k \in DOMAIN new THEN new[k] ELSE old[k]]

From(i, f) == [k \in DOMAIN f |-> [from |-> i, refs |-> f[k].refs, param |-> f[k].param]]

global_params ==
  [k \in DOMAIN folder.globals |-> [from |-> 0, refs |-> folder.globals[k], param |-> NoParam]]

-----------------------------------------------------------------------------
\* A schema is given the name of its file, as is every reference to it.
MergeSchemas ==
  /\ stage = "schemas" /\ SchemaFilesWith(folder, "yaml") = {}
  /\ schemas' = folder.schemas
  /\ stage' = "namespaces"
  /\ UNCHANGED <<folder, components, items, keys, at, warned, superseding>>

file == folder.namespaces[at]

ItemsOf(i) ==
  LET n == folder.namespaces[i]
  IN  [path \in PathsOf(n) |->
         [m \in {k[2] : k \in {l \in DOMAIN n.ops : l[1] = path}} |->
            [of |-> path, copies |-> 0, from |-> i, group |-> n.ops[<<path, m>>].group,
             refs |-> n.ops[<<path, m>>].refs, about |-> n.ops[<<path, m>>].about]]]

\* Mistake: the components of a file replace all the earlier ones.
MergeNamespaceReplacing ==
  /\ stage = "namespaces" /\ at <= Len(folder.namespaces)
  /\ items' = Override(items, ItemsOf(at))
  /\ components' = From(at, file.components)
  /\ at' = at + 1
  /\ UNCHANGED <<folder, schemas, keys, warned, stage, superseding>>

\* A path item and a component of a later file replace an earlier one's.
MergeNamespace ==
  /\ stage = "namespaces" /\ at <= Len(folder.namespaces) /\ file.broken # "yaml"
  /\ items' = Override(items, ItemsOf(at))
  /\ components' = Override(components, From(at, file.components))
  /\ at' = at + 1
  /\ UNCHANGED <<folder, schemas, keys, warned, stage, superseding>>

\* A file that cannot be parsed throws out of the merge.
ParseThrows ==
  /\ \/ stage = "schemas" /\ SchemaFilesWith(folder, "yaml") # {}
     \/ stage = "namespaces" /\ at <= Len(folder.namespaces) /\ file.broken = "yaml"
  /\ stage' = "thrown"
  /\ UNCHANGED <<folder, schemas, components, items, keys, at, warned, superseding>>

\* The paths P in their order.
Sorted(P) ==
  {order \in [1 .. Cardinality(P) -> P] :
     \A i, j \in 1 .. Cardinality(P) : i < j => <<order[i], order[j]>> \in Before}

\* Mistake: the keys are sorted, and the rest follows, one file too early.
SortEarly ==
  /\ stage = "namespaces" /\ at = Len(folder.namespaces)
  /\ keys' \in Sorted(DOMAIN items)
  /\ stage' = "globals"
  /\ UNCHANGED <<folder, schemas, components, items, at, warned, superseding>>

Sort ==
  /\ stage = "namespaces" /\ at = Len(folder.namespaces) + 1
  /\ keys' \in Sorted(DOMAIN items)
  /\ stage' = "globals"
  /\ UNCHANGED <<folder, schemas, components, items, at, warned, superseding>>

\* Mistake: an operation with references of its own gets no global ones.
GenerateGlobalsOrOwn ==
  /\ stage = "globals"
  /\ components' = Override(global_params, components)
  /\ items' = [path \in DOMAIN items |-> [m \in DOMAIN items[path] |->
                 [items[path][m] EXCEPT !.refs = IF @ = {} THEN DOMAIN folder.globals ELSE @]]]
  /\ stage' = "superseded" /\ at' = 1
  /\ UNCHANGED <<folder, schemas, keys, warned, superseding>>

\* The global parameters go to every operation; a component with the key of
\* one stays.
GenerateGlobals ==
  /\ stage = "globals"
  /\ components' = Override(global_params, components)
  /\ items' = [path \in DOMAIN items |-> [m \in DOMAIN items[path] |->
                 [items[path][m] EXCEPT !.refs = @ \cup DOMAIN folder.globals]]]
  /\ stage' = "superseded" /\ at' = 1
  /\ UNCHANGED <<folder, schemas, keys, warned, superseding>>

\* An exception leaves the merge unfinished.
GenerateSuperseded ==
  /\ stage = "superseded" /\ superseding = "running"
  /\ Superseding!Next
  /\ UNCHANGED <<schemas, components>>
  /\ stage' = CASE superseding' = "done"   -> "normalize"
                [] superseding' = "thrown" -> "thrown"
                [] OTHER                   -> "superseded"

-----------------------------------------------------------------------------
\* Mistake: references in operations keep their form.
NormalizeDefinitions ==
  /\ stage = "normalize"
  /\ \E w \in Kept(DOMAIN components) :
       components' = [k \in DOMAIN w |-> [components[w[k]] EXCEPT !.refs = Rename(@)]]
  /\ \E w \in Kept(DOMAIN schemas) : schemas' = [k \in DOMAIN w |-> Rename(schemas[w[k]])]
  /\ stage' = "done"
  /\ UNCHANGED <<folder, items, keys, at, warned, superseding>>

\* The keys of paths are left as they are: none has a colon or an @ in it.
Normalize ==
  /\ stage = "normalize"
  /\ \E w \in Kept(DOMAIN components) :
       components' = [k \in DOMAIN w |-> [components[w[k]] EXCEPT !.refs = Rename(@)]]
  /\ \E w \in Kept(DOMAIN schemas) : schemas' = [k \in DOMAIN w |-> Rename(schemas[w[k]])]
  /\ items' = [path \in DOMAIN items |-> [m \in DOMAIN items[path] |->
                 [items[path][m] EXCEPT !.refs = Rename(@)]]]
  /\ stage' = "done"
  /\ UNCHANGED <<folder, keys, at, warned, superseding>>

Next ==
  \/ MergeSchemas \/ MergeNamespace \/ ParseThrows \/ Sort
  \/ GenerateGlobals \/ GenerateSuperseded \/ Normalize

Spec == Init /\ [][Next]_vars

-----------------------------------------------------------------------------
Operations == UNION {{items[path][m] : m \in DOMAIN items[path]} : path \in DOMAIN items}

\* Keys and order agree, and what was merged is of the folder.
TypeOK ==
  /\ IsFolder(folder)
  /\ IsReferring(schemas, SchemaIds, SchemaIds)
  /\ DOMAIN components \subseteq Components
  /\ \A c \in DOMAIN components :
       components[c].from \in 0 .. Len(folder.namespaces) /\ components[c].refs \subseteq Refs
  /\ stage \in {"globals", "superseded", "normalize", "done"} =>
       DOMAIN items = {keys[i] : i \in 1 .. Len(keys)}
  /\ \A op \in Operations :
       op.from \in 1 .. Len(folder.namespaces) /\ op.refs \subseteq Refs
  /\ stage # "thrown" =>
       at \in 1 .. Len(IF stage \in {"schemas", "namespaces", "globals"}
                         THEN folder.namespaces ELSE folder.entries) + 1
  /\ stage \in {"schemas", "namespaces", "globals", "superseded", "normalize", "done", "thrown"}
=============================================================================
