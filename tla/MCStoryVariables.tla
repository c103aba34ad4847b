-------------------------- MODULE MCStoryVariables --------------------------
(***************************************************************************)
(* Every story of three steps over two ids, one step of each part.  A step *)
(* has no output, an empty one or either of two names; the references ask  *)
(* for one of them.  Where there is a reference in a payload key, it asks  *)
(* for a name nobody may have declared.                                    *)
(***************************************************************************)
EXTENDS StoryVariables

CONSTANTS a, b, n, m

MCIds == {a, b}
MCNames == {n, m}

\* The outputs of a step: none, an empty one, one name.
Outputs == {<<FALSE, {}>>, <<TRUE, {}>>, <<TRUE, {n}>>, <<TRUE, {m}>>}

Steps(part, uses, keys) ==
  {[part |-> part, id |-> id, stores |-> o[1], output |-> o[2], uses |-> u, keys |-> keys,
    retry |-> 0, gate |-> "runs", pending |-> FALSE, located |-> TRUE] :
     id \in MCIds \cup {NoId}, o \in Outputs, u \in uses}

\* The null payload ends the loop at any step, so one step is enough.
MCStories ==
  LET early == {{}, {<<a, n>>}}
      any   == SUBSET (MCIds \X {n})
      keys  == {<<b, m>>}
  IN  {[steps |-> <<p, c, e>>, gate |-> "runs"] :
         p \in Steps("prologue", early, {}), c \in Steps("chapter", early, {}),
         e \in Steps("epilogue", any, keys)}
      \cup {[steps |-> <<p>>, gate |-> "null_payload"] :
              p \in Steps("prologue", early, keys)}
=============================================================================
