------------------------- MODULE MCKeepDescriptions -------------------------
(***************************************************************************)
(* Folders of one file of up to four lines, or of two of up to two lines.  *)
(* Text stands under a key or a list item, as YAML has it.                 *)
(***************************************************************************)
EXTENDS KeepDescriptions

Written(lines) ==
  \A i \in 1 .. Len(lines) :
    lines[i] \in {"text", "note"} => ~(Between(lines, 0, i) \subseteq {"text", "note", "blank"})

FilesOf(n) == {lines \in [1 .. n -> Kinds] : Written(lines)}

Short == FilesOf(1) \cup FilesOf(2)

MCFolders == {<<f>> : f \in Short \cup FilesOf(3) \cup FilesOf(4)} \cup (Short \X Short)
=============================================================================
