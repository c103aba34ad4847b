---------------------------- MODULE MCTestRunner ----------------------------
(***************************************************************************)
(* Runs of two story files over six stories: one that stores an output and *)
(* uses it, one with a retried prologue and an epilogue, one with wrong    *)
(* variables, one for another distribution, one with a pending and an      *)
(* unspecified chapter, and one whose chapter has two methods.  A file     *)
(* that is invalid, or no story at all, may stand first or last.  Of the   *)
(* operations one is ignorable and some are not specified.                 *)
(***************************************************************************)
EXTENDS TestRunner

CONSTANTS a, n, x, y, get, put

MCIds == {a}
MCNames == {n}
MCPaths == {x, y}
MCMethods == {get, put}

MCSpecOperations == {<<x, get>>, <<x, put>>, <<y, get>>}
MCIgnorable == {<<y, get>>}

Plain(part) == [part |-> part, id |-> NoId, stores |-> FALSE, output |-> {}, uses |-> {},
                keys |-> {}, retry |-> 0, gate |-> "runs", pending |-> FALSE, located |-> FALSE]

Chapter(step, path, methods) == [step |-> step, path |-> path, methods |-> methods]

Storing == Chapter([Plain("chapter") EXCEPT !.id = a, !.stores = TRUE, !.output = {n}], x, <<get>>)
Using   == Chapter([Plain("chapter") EXCEPT !.uses = {<<a, n>>}], x, <<put>>)
Pending == Chapter([Plain("chapter") EXCEPT !.pending = TRUE], x, <<get>>)

Supplement(step) == [step |-> step, path |-> y, method |-> put]

File(chapters) ==
  [readable |-> TRUE, valid |-> TRUE, gate |-> "runs",
   prologues |-> <<>>, chapters |-> chapters, epilogues |-> <<>>]

StoresAndUses == File(<<Storing, Using>>)
Bracketed ==
  [File(<<Chapter(Plain("chapter"), y, <<get>>)>>) EXCEPT
     !.prologues = <<Supplement([Plain("prologue") EXCEPT !.retry = 1])>>,
     !.epilogues = <<Supplement(Plain("epilogue"))>>]
Undeclared  == File(<<Using, Storing>>)
Elsewhere   == [File(<<Storing>>) EXCEPT !.gate = "excluded"]
Unspecified == File(<<Pending, Chapter(Plain("chapter"), y, <<put>>)>>)
TwoMethods  == File(<<Chapter(Plain("chapter"), x, <<get, put>>)>>)

Invalid    == [StoresAndUses EXCEPT !.valid = FALSE]
Unreadable == [StoresAndUses EXCEPT !.readable = FALSE]

Good == {StoresAndUses, Bracketed, Undeclared, Elsewhere, Unspecified, TwoMethods}

MCStories == {Load(f).story : f \in Good}

MCFolders == (Good \X Good) \cup (Good \X {Invalid, Unreadable}) \cup {<<Invalid, Bracketed>>}
=============================================================================
