----------------------------- MODULE StoryParser -----------------------------
(***************************************************************************)
(* StoryParser.parse: a chapter of a story file may list several methods   *)
(* and becomes a chapter for each.  Prologues and epilogues have one.  The *)
(* three parts are laid out one after the other, as Story has them.        *)
(***************************************************************************)
EXTENDS SequencesExt

\* Mistake: only the first method of a list is taken.
ExpandFirst(chapters) ==
  [i \in 1 .. Len(chapters) |->
     [step |-> chapters[i].step, path |-> chapters[i].path, method |-> chapters[i].methods[1]]]

expand_chapters(chapters) ==
  FlattenSeq([i \in 1 .. Len(chapters) |->
    [j \in 1 .. Len(chapters[i].methods) |->
      [step |-> chapters[i].step, path |-> chapters[i].path,
       method |-> chapters[i].methods[j]]]])

parse(story) == story.prologues \o expand_chapters(story.chapters) \o story.epilogues
=============================================================================
