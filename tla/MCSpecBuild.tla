---------------------------- MODULE MCSpecBuild ----------------------------
(***************************************************************************)
(* Small folders, in order and out of order.  Two namespace files, of the  *)
(* groups g and h, with one or two paths each; of g the path parameters gp *)
(* and gq and the components c1 and c2, which have the same normal form;   *)
(* of h the path parameter hp and the component c3; a schema in each of    *)
(* two files; a global parameter g0; an entry for a superseded path.       *)
(***************************************************************************)
EXTENDS SpecBuild, TLC

CONSTANTS x, y, p, q, get, put, g, h, gp, gq, hp, c1, c2, c3, g0, f1, f2, a, none

MCLiterals == {x, y}
MCParams == {p, q}
MCMethods == {get, put}
MCGroups == {g, h}
MCNamespace == (g :> 1) @@ (h :> 2)
MCComponents == {gp, gq, hp, c1, c2, c3, g0}
MCPathParam == [c \in MCComponents |-> CASE c \in {gp, hp} -> p [] c = gq -> q [] OTHER -> none]
MCGroup ==
  [c \in MCComponents |-> CASE c \in {gp, gq, c1, c2} -> g [] c \in {hp, c3} -> h [] OTHER -> "_global"]
MCSchemaFiles == {f1, f2}
MCNames == {a}

s == <<f1, a>>
t == <<f2, a>>

Op(group, refs) == [group |-> group, refs |-> refs, about |-> 1, sound |-> TRUE]

Def(refs) == [refs |-> refs, param |-> none]

Defs(C) == [c \in C |-> [refs |-> {}, param |-> PathParam[c]]]

File(ops, comps) == [ops |-> ops, components |-> comps, invalid |-> {}, broken |-> "no"]

\* The operations of one group on some paths use the group's parameters of
\* their path, and all of them the same other components.
FileInOrder(group, P, M, others) ==
  LET params(path) == {c \in Components : Group[c] = group /\ PathParam[c] \in ParamSet(path)}
      used == UNION {params(path) : path \in P}
  IN  File([k \in P \X M |-> Op(group, DOMAIN others \cup params(k[1]))],
           others @@ Defs(used))

PathSets == {{<<x>>}, {<<x, p>>}, {<<x>>, <<x, p>>}}

First ==
  {FileInOrder(g, P, {get}, comps) : P \in PathSets \cup {{<<x, q>>}},
     comps \in {<<>>, c1 :> Def({s}), (c1 :> Def({s})) @@ (c2 :> Def({t}))}}
    \cup {FileInOrder(g, P, {get, put}, c1 :> Def({t})) : P \in PathSets}

Second ==
  {FileInOrder(h, P, {get}, comps) : P \in PathSets,
     comps \in {<<>>, c3 :> Def({t}), c3 :> Def({s, t})}}

Get(path, op) == <<path, get>> :> op

\* Files out of order, each in another way.
Bad ==
  { File(Get(<<x>>, Op(g, {c1})), <<>>),                     \* an unresolved reference
    File(Get(<<x>>, Op(g, {})), c1 :> Def({s})),             \* an unused component
    File(Get(<<x>>, Op(g, {s})), <<>>),                      \* a schema for a component
    File(Get(<<x>>, Op(g, {c1})), (c1 :> Def({c2})) @@ (c2 :> Def({s}))),
    File(Get(<<x>>, Op(g, {c1})), c1 :> Def({c2})),
    File(Get(<<x>>, Op(g, {g0})), g0 :> Def({})),            \* a component of no group
    File(Get(<<x, p>>, Op(g, {gp})), gp :> Def({})),         \* a key that lies
    File(Get(<<x>>, Op(g, {c1})), c1 :> [refs |-> {}, param |-> p]),
    File(Get(<<x, p>>, Op(g, {})), <<>>),                    \* path parameters
    File(Get(<<x>>, Op(g, {gp})), Defs({gp})),
    File(Get(<<x, q>>, Op(g, {gp})), Defs({gp})),
    File(Get(<<x>>, Op(g, {c1})) @@ Get(<<y>>, Op(g, {})), c1 :> Def({s})),
    File(Get(<<x>>, Op(g, {})) @@ Get(<<y>>, [Op(g, {}) EXCEPT !.about = 2]), <<>>),
    File(Get(<<x>>, Op(g, {c1})) @@ Get(<<y>>, Op(g, {c2})), (c1 :> Def({s})) @@ (c2 :> Def({s}))),
    File(Get(<<x>>, Op(h, {c3})), c3 :> Def({s})),           \* a group of another file
    File(Get(<<x>>, Op(h, {})), c3 :> Def({s})),
    File(Get(<<x, p>>, Op(g, {gp})) @@ Get(<<x, q>>, Op(g, {gq})), Defs({gp, gq})) }

\* Files whose text, or that of an operation, breaks a rule or is no YAML.
Broken ==
  {[f EXCEPT !.broken = b] :
     f \in {File(Get(<<x>>, Op(g, {})), <<>>), File(Get(<<x>>, Op(g, {c1})), <<>>)}, b \in {"name", "text"}}
    \cup {File(Get(<<x>>, [Op(g, {}) EXCEPT !.sound = FALSE]), comps) : comps \in {<<>>, c1 :> Def({s})}}
    \cup {[File(<<>>, <<>>) EXCEPT !.broken = "yaml"]}

Schemas ==
  {<<>>, s :> {}, (s :> {}) @@ (t :> {}), (s :> {t}) @@ (t :> {s}), s :> {t}}

AllSchemas == {(s :> {}) @@ (t :> {}), (s :> {t}) @@ (t :> {s})}

FewSchemas == {s :> {}, (s :> {t}) @@ (t :> {s})}

Entry(path, by, M) == [path |-> path, by |-> by, methods |-> M]

\* Entries that add a path, with its own names for the parameters and with
\* the other's; one that throws; one that overwrites a path; one that copies
\* what another one made.
EntryLists ==
  { <<>>, <<Entry(<<y, p>>, <<x, p>>, {get, put})>>, <<Entry(<<y, p>>, <<x, q>>, {get})>>,
    <<Entry(<<y, p>>, <<x>>, {get})>>, <<Entry(<<x>>, <<x>>, {get})>>,
    <<Entry(<<y, p>>, <<x, q>>, {get}), Entry(<<y, y, p>>, <<y, q>>, {get})>> }

\* The files of the schemas keep the rules.
FilesFor(S) ==
  (IF s \in DOMAIN S THEN f1 :> "no" ELSE <<>>) @@ (IF t \in DOMAIN S THEN f2 :> "no" ELSE <<>>)

Folder(S, namespaces, globals, entries) ==
  [schemas |-> S, files |-> FilesFor(S), invalid |-> {}, namespaces |-> namespaces,
   globals |-> globals, entries |-> entries]

FoldersOf(S, Is, Js, globals, entries) ==
  {Folder(c, <<i, j>>, gs, es) : c \in S, i \in Is, j \in Js, gs \in globals, es \in entries}

\* Schema files that break a rule, are no YAML or have no schema in them.
FileRules ==
  {f1 :> "no", f1 :> "inline"} \cup
  {(f1 :> b) @@ (f2 :> c) : b \in {"no", "text"}, c \in {"no", "text", "inline", "yaml"}}

\* c1 and c2, which have one normal form, and c3, of which some are invalid.
Faulty ==
  { [File(Get(<<x>>, Op(g, {c1, c2})), (c1 :> Def({s})) @@ (c2 :> Def({s}))) EXCEPT
       !.invalid = invalid, !.broken = b] : invalid \in SUBSET {c1, c2}, b \in {"no", "inline"} }

FaultySecond ==
  { [File(Get(<<x, p>>, Op(h, {c3, hp})), (c3 :> Def({})) @@ Defs({hp})) EXCEPT
       !.invalid = invalid, !.broken = b] : invalid \in SUBSET {c3}, b \in {"no", "inline", "text"} }

FaultyFolders ==
  {[Folder(s :> {}, <<i, j>>, <<>>, <<>>) EXCEPT !.files = rules, !.invalid = invalid] :
     i \in Faulty, j \in FaultySecond, rules \in FileRules, invalid \in {{}, {s}}}
    \cup {[Folder(s :> {}, <<i, j>>, g0 :> {}, es) EXCEPT !.invalid = {g0}] :
            i \in Faulty, j \in FaultySecond, es \in {<<>>, <<Entry(<<y, p>>, <<x>>, {get})>>}}

MCFolders ==
  FoldersOf(AllSchemas, First, Second, {<<>>, g0 :> {s}}, EntryLists)
    \cup FoldersOf(Schemas, First, Second, {<<>>}, {<<>>})
    \cup FoldersOf(FewSchemas, First \cup Bad \cup Broken, Second \cup Bad \cup Broken, {<<>>}, {<<>>})
    \cup FaultyFolders

\* One namespace file is no YAML, and another has an unresolved reference.

UnreadableFolder ==
  Folder(s :> {}, << [File(<<>>, <<>>) EXCEPT !.broken = "yaml"],
                     File(Get(<<x>>, Op(h, {c3})), <<>>) >>, <<>>, <<>>)

UnreadableFolders == {UnreadableFolder}

Order == << <<x>>, <<x, p>>, <<x, q>>, <<y>>, <<y, p>>, <<y, q>>, <<y, y, p>> >>

MCBefore == {<<Order[i], Order[j]>> : <<i, j>> \in {k \in (1 .. 7) \X (1 .. 7) : k[1] < k[2]}}

MCNormal == [r \in Refs |-> IF r = c1 THEN c2 ELSE r]
=============================================================================
