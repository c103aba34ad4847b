-------------------------- MODULE MCStoryEvaluator --------------------------
(***************************************************************************)
(* Small stories for StoryEvaluator: one id, one output name, at most one  *)
(* prologue, two or three chapters and one epilogue.  The kinds of step    *)
(* are the ones the evaluators treat differently.                          *)
(***************************************************************************)
EXTENDS StoryEvaluator

CONSTANTS a, n

MCIds == {a}
MCNames == {n}

Plain(part) == [part |-> part, id |-> NoId, stores |-> FALSE, output |-> {}, uses |-> {},
                keys |-> {}, retry |-> 0, gate |-> "runs", pending |-> FALSE, located |-> TRUE]

Stores(st)  == [st EXCEPT !.id = a, !.stores = TRUE, !.output = {n}]
Empties(st) == [st EXCEPT !.id = a, !.stores = TRUE]
Uses(st)    == [st EXCEPT !.uses = {<<a, n>>}]
Keys(st)    == [st EXCEPT !.keys = {<<a, n>>}]
Retried(st) == [st EXCEPT !.retry = 1]

Chapter  == Plain("chapter")
Prologue == Plain("prologue")
Epilogue == Plain("epilogue")

Chapters ==
  {Chapter, Stores(Chapter), Empties(Chapter), Uses(Chapter), Stores(Uses(Chapter)),
   Retried(Stores(Chapter)),
   [Stores(Chapter) EXCEPT !.pending = TRUE],
   [Stores(Chapter) EXCEPT !.gate = "excluded"],
   [Stores(Chapter) EXCEPT !.located = FALSE]}

Prologues == {Stores(Prologue), Retried(Stores(Prologue)),
              [Prologue EXCEPT !.gate = "excluded"]}

Epilogues == {Epilogue, Retried(Uses(Epilogue))}

AtMostOne(S) == {<<>>} \cup {<<x>> : x \in S}

Compose(prologues, chapters, epilogues, gates) ==
  {[steps |-> p \o c \o e, gate |-> g] :
     p \in AtMostOne(prologues), c \in chapters, e \in AtMostOne(epilogues), g \in gates}

BadRange == [Uses(Chapter) EXCEPT !.gate = "invalid_range"]

\* Two chapters of every kind, between every prologue and every epilogue.
ShortStories ==
  Compose(Prologues, {<<c, d>> : c \in Chapters, d \in Chapters \cup {BadRange}}, Epilogues,
          {"runs"})
    \cup Compose(Prologues, {<<Stores(Chapter)>>}, Epilogues, StoryGates)

\* Three chapters, of which the last one refers to what those before it stored.
LongStories ==
  LET last == {Uses(Chapter), Keys(Chapter)}
  IN  Compose({Stores(Prologue)}, {<<c, d, e>> : c \in Chapters, d \in Chapters, e \in last},
              {Uses(Epilogue)}, {"runs"})

MCStories == ShortStories \cup LongStories

\* One chapter and the epilogue that cleans up after it.
CleanedStories == {[steps |-> <<Chapter, Epilogue>>, gate |-> "runs"]}
=============================================================================
