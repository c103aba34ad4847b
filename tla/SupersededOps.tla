--------------------------- MODULE SupersededOps ---------------------------
(***************************************************************************)
(* SupersededOpsGenerator.generate: one entry of                           *)
(* _superseded_operations.yaml after the other, the listed operations of   *)
(* the path that supersedes it are copied to the path of the entry.  A     *)
(* path is the sequence of its segments; a segment is a literal or a       *)
(* parameter.  An operation is known by the path of the specification it   *)
(* was written for and by how often it was copied (its operationId gets    *)
(* "_superseded" each time).                                               *)
(***************************************************************************)
EXTENDS Naturals, Sequences, FiniteSets

CONSTANTS
  Literals, Params,   \* the segments of paths
  Methods,
  Given               \* the paths and the entries a behaviour may start from

Paths == Seq(Literals \cup Params)

\* The paths in the order of the specification with their methods, no path
\* twice, and the entries in the order of the file.
IsGiven(g) ==
  /\ g \in [keys : Seq(Paths), methods : [{g.keys[i] : i \in 1 .. Len(g.keys)} -> SUBSET Methods],
            entries : Seq([path : Paths, by : Paths, methods : SUBSET Methods])]
  /\ \A i, j \in 1 .. Len(g.keys) : g.keys[i] = g.keys[j] => i = j

ASSUME SegmentsAssumption == Literals \cap Params = {}
ASSUME GivenAssumption == \A g \in Given : IsGiven(g)

VARIABLES
  given,    \* what the generator started from, never changed
  keys,     \* the paths in the order of the specification
  items,    \* for every path its operations by method
  at,       \* the entry it is at
  warned,   \* the entries it warned about
  state     \* running, done or thrown

vars == <<given, keys, items, at, warned, state>>

entry == given.entries[at]

\* The places of the parameters in a path, and the number of the one at i.
ParamsOf(path) == {i \in 1 .. Len(path) : path[i] \in Params}

ParamNumber(path, i) == Cardinality({j \in ParamsOf(path) : j <= i})

\* copy_params: the parameters of the target get the names of the source's.
CopyParams(source, target) ==
  LET same(i) == CHOOSE j \in ParamsOf(source) : ParamNumber(source, j) = ParamNumber(target, i)
  IN  [i \in 1 .. Len(target) |-> IF i \in ParamsOf(target) THEN source[same(i)] ELSE target[i]]

SameParams(source, target) == Cardinality(ParamsOf(source)) = Cardinality(ParamsOf(target))

\* Mistake: source and target are swapped.
TargetSwapped(e) == CopyParams(e.path, e.by)

Target(e) == CopyParams(e.by, e.path)

(***************************************************************************)
(* path_to_regex: a literal stands for itself, and a parameter for the     *)
(* text from a "{" to some later "}", which may lie segments behind.  cut  *)
(* says where in the path each segment of the pattern ends.                *)
(***************************************************************************)
Matches(pattern, path) ==
  \E cut \in [0 .. Len(pattern) -> 0 .. Len(path)] :
    /\ cut[0] = 0 /\ cut[Len(pattern)] = Len(path)
    /\ \A i \in 1 .. Len(pattern) :
         /\ cut[i - 1] < cut[i]
         /\ IF pattern[i] \in Params
            THEN path[cut[i - 1] + 1] \in Params /\ path[cut[i]] \in Params
            ELSE cut[i] = cut[i - 1] + 1 /\ path[cut[i]] = pattern[i]

\* The first path in an order that a pattern matches.
IsFirst(order, pattern, i) ==
  /\ i \in 1 .. Len(order) /\ Matches(pattern, order[i])
  /\ \A j \in 1 .. i - 1 : ~Matches(pattern, order[j])

HasMatch(order, pattern) == \E i \in 1 .. Len(order) : Matches(pattern, order[i])

\* path_object: copies of the listed operations the path has.
path_object(item, methods) ==
  [m \in methods \cap DOMAIN item |-> [item[m] EXCEPT !.copies = @ + 1]]

PathItems(g) ==
  [p \in DOMAIN g.methods |-> [m \in g.methods[p] |-> [of |-> p, copies |-> 0]]]

Init ==
  /\ given \in Given
  /\ keys = given.keys /\ items = PathItems(given)
  /\ at = 1 /\ warned = {} /\ state = "running"

AtEntry == state = "running" /\ at \in 1 .. Len(given.entries)

\* A new path comes last.
Put(path, item) ==
  /\ items' = [p \in DOMAIN items \cup {path} |-> IF p = path THEN item ELSE items[p]]
  /\ keys' = IF path \in DOMAIN items THEN keys ELSE Append(keys, path)

\* Mistakes: the copy goes to the path as it is listed; every operation of
\* the path is copied.
SupersedeAsListed ==
  /\ AtEntry /\ SameParams(entry.by, entry.path)
  /\ \E i \in 1 .. Len(keys) :
       /\ IsFirst(keys, entry.by, i)
       /\ Put(entry.path, path_object(items[keys[i]], entry.methods))
  /\ at' = at + 1
  /\ UNCHANGED <<given, warned, state>>

SupersedeAll ==
  /\ AtEntry /\ SameParams(entry.by, entry.path)
  /\ \E i \in 1 .. Len(keys) :
       /\ IsFirst(keys, entry.by, i)
       /\ Put(Target(entry), path_object(items[keys[i]], Methods))
  /\ at' = at + 1
  /\ UNCHANGED <<given, warned, state>>

Supersede ==
  /\ AtEntry /\ SameParams(entry.by, entry.path)
  /\ \E i \in 1 .. Len(keys) :
       /\ IsFirst(keys, entry.by, i)
       /\ Put(Target(entry), path_object(items[keys[i]], entry.methods))
  /\ at' = at + 1
  /\ UNCHANGED <<given, warned, state>>

\* No path matches: nothing is copied.
Warn ==
  /\ AtEntry /\ SameParams(entry.by, entry.path) /\ ~HasMatch(keys, entry.by)
  /\ warned' = warned \cup {at}
  /\ at' = at + 1
  /\ UNCHANGED <<given, keys, items, state>>

\* copy_params throws, matching path or not.
Mismatch ==
  /\ AtEntry /\ ~SameParams(entry.by, entry.path)
  /\ state' = "thrown"
  /\ UNCHANGED <<given, keys, items, at, warned>>

Finish ==
  /\ state = "running" /\ at = Len(given.entries) + 1
  /\ state' = "done"
  /\ UNCHANGED <<given, keys, items, at, warned>>

Next == Supersede \/ Warn \/ Mismatch \/ Finish

Spec == Init /\ [][Next]_vars

-----------------------------------------------------------------------------
Operation == [of : DOMAIN given.methods, copies : 0 .. Len(given.entries)]

TypeOK ==
  /\ IsGiven(given)
  /\ at \in 1 .. Len(given.entries) + 1
  /\ warned \subseteq 1 .. Len(given.entries)
  /\ state \in {"running", "done", "thrown"}
  /\ keys \in Seq(Paths)
  /\ DOMAIN items = {keys[i] : i \in 1 .. Len(keys)}
  /\ \A p \in DOMAIN items : items[p] \in UNION {[M -> Operation] : M \in SUBSET Methods}

Entries == {given.entries[i] : i \in 1 .. Len(given.entries)}

(***************************************************************************)
(* Whatever the entries, and however they overwrite one another, no        *)
(* operation is made up: each is an operation of the specification with    *)
(* the same method, moved only to the path of an entry that lists it.      *)
(***************************************************************************)
NothingInvented ==
  \A p \in DOMAIN items : \A m \in DOMAIN items[p] :
    LET op == items[p][m]
    IN  /\ m \in given.methods[op.of]
        /\ IF op.copies = 0 THEN op.of = p
           ELSE \E e \in Entries : SameParams(e.by, e.path) /\ p = Target(e) /\ m \in e.methods

\* No entry touches what another one reads or writes.
Independent ==
  \A i, j \in 1 .. Len(given.entries) :
    LET d == given.entries[i]
        e == given.entries[j]
    IN  /\ Target(d) \notin DOMAIN given.methods
        /\ ~Matches(e.by, Target(d))
        /\ i # j => Target(d) # Target(e)

(***************************************************************************)
(* Entries that do not touch one another can be listed in any order: each  *)
(* one whose superseding path is in the specification adds the operations  *)
(* it lists and the path has, and the rest of the specification stays as   *)
(* it was.  An entry without a path that matches is warned about, one with *)
(* all its operations is not; of one with some of them nothing is said     *)
(* here, see MissingWarned.                                                *)
(***************************************************************************)
SupersedesExactly ==
  state = "done" /\ Independent =>
    /\ \A i \in 1 .. Len(given.entries) :
         LET e == given.entries[i]
         IN  /\ ~HasMatch(given.keys, e.by) => i \in warned
             /\ (\E j \in 1 .. Len(given.keys) :
                   IsFirst(given.keys, e.by, j) /\ e.methods \subseteq given.methods[given.keys[j]])
                => i \notin warned
    /\ DOMAIN items = DOMAIN given.methods
         \cup {Target(e) : e \in {d \in Entries : HasMatch(given.keys, d.by)}}
    /\ \A p \in DOMAIN given.methods : items[p] = PathItems(given)[p]
    /\ \A e \in Entries : \A i \in 1 .. Len(given.keys) :
         IsFirst(given.keys, e.by, i) =>
           items[Target(e)] =
             [m \in e.methods \cap given.methods[given.keys[i]] |->
                [of |-> given.keys[i], copies |-> 1]]

(***************************************************************************)
(* The copies are made "if and only if the superseding operations exist in *)
(* the spec. A warning will be printed on the console if they do not."     *)
(* (DEVELOPER_GUIDE.md): an entry is warned about if an operation it lists *)
(* is not there.                                                           *)
(***************************************************************************)
MissingWarned ==
  state = "done" /\ Independent =>
    \A i \in 1 .. Len(given.entries), j \in 1 .. Len(given.keys) :
      LET e == given.entries[i]
      IN  IsFirst(given.keys, e.by, j) /\ ~(e.methods \subseteq given.methods[given.keys[j]])
            => i \in warned

\* Two paths a cluster cannot tell apart.
SameTemplate(p, q) ==
  /\ Len(p) = Len(q)
  /\ \A i \in 1 .. Len(p) : p[i] = q[i] \/ (p[i] \in Params /\ q[i] \in Params)

(***************************************************************************)
(* The generator does not make a second path of what the specification or  *)
(* the file has only once.                                                 *)
(***************************************************************************)
NoDuplicatePaths ==
  /\ \A p, q \in DOMAIN given.methods : SameTemplate(p, q) => p = q
  /\ \A i, j \in 1 .. Len(given.entries) :
       SameTemplate(given.entries[i].path, given.entries[j].path) => i = j
  /\ \A i \in 1 .. Len(given.entries), p \in DOMAIN given.methods :
       ~SameTemplate(given.entries[i].path, p)
  => \A p, q \in DOMAIN items : SameTemplate(p, q) => p = q
=============================================================================
