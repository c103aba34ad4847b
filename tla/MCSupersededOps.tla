-------------------------- MODULE MCSupersededOps --------------------------
(***************************************************************************)
(* Up to two of six paths, of one and two parameters, sorted as the merger *)
(* sorts them, and two entries: chains, entries that overwrite a path or   *)
(* each other, patterns that match by a longer path, missing operations.   *)
(***************************************************************************)
EXTENDS SupersededOps

CONSTANTS x, y, p, q, get, put

MCLiterals == {x, y}
MCParams == {p, q}
MCMethods == {get, put}

Sorted == << <<x>>, <<x, p>>, <<x, p, y, q>>, <<x, q>>, <<y>>, <<y, p>> >>

AllPaths == {Sorted[i] : i \in 1 .. Len(Sorted)}

Bys == {<<x>>, <<x, p>>, <<x, q>>, <<y, p>>, <<x, q, y, p>>}

Listed == {<<y>>, <<y, p>>, <<y, q>>, <<y, q, x, p>>}

Entry(l, b, M) == [path |-> l, by |-> b, methods |-> M]

MCEntries ==
  {Entry(l, b, M) : l \in Listed, b \in Bys, M \in {{get}, {get, put}}}

MCGiven ==
  {[keys |-> SelectSeq(Sorted, LAMBDA path : path \in S),
    methods |-> [path \in S |-> IF path = <<x, p>> THEN M ELSE {get, put}],
    entries |-> <<d, e>>] :
     S \in {T \in SUBSET AllPaths : Cardinality(T) \in 1 .. 2}, M \in {{get}, {put}},
     d \in MCEntries, e \in {f \in MCEntries : f.methods = {get, put}}}

\* The path that supersedes has one of the two operations that are listed.
OneMissing ==
  {[keys |-> << <<x, p>> >>, methods |-> [path \in {<<x, p>>} |-> {get}],
    entries |-> <<Entry(<<y, p>>, <<x, p>>, {get, put})>>]}
=============================================================================
