-------------------------- MODULE KeepDescriptions --------------------------
(***************************************************************************)
(* KeepDescriptions.process: each YAML file of a folder is overwritten     *)
(* with the text of its descriptions, for the style check of pull          *)
(* requests.  A line is what the three patterns of process_file see of it. *)
(***************************************************************************)
EXTENDS Naturals, Sequences

Kinds == {
  "block",    \* an indented description: | (or x-deprecation-message: |)
  "inline",   \* an indented description with its text behind it
  "key",      \* any other key of letters, digits, _, $ and \
  "odd",      \* other markup: a list item, a key with a dash, dot or quote
  "text",     \* a line of text
  "note",     \* a line of text that begins like a key, as "NOTE: ..."
  "blank"}    \* nothing at all

CONSTANT Folders    \* sequences of files

ASSUME FoldersAssumption == Folders \subseteq Seq(Seq(Kinds))

VARIABLES
  folder,       \* the files as they are read
  written,      \* the rows on disk: the line a row shows, 0 for an empty row
  file,         \* the file that is being processed, from 1
  line,         \* its next line, 0 before it is opened
  inside_text

vars == <<folder, written, file, line, inside_text>>

Unprocessed(lines) == [i \in 1 .. Len(lines) |-> i]

Init ==
  /\ folder \in Folders
  /\ written = [f \in 1 .. Len(folder) |-> Unprocessed(folder[f])]
  /\ file = 1 /\ line = 0
  /\ inside_text = FALSE

\* Mistake: inside_text belongs to the object and keeps its value.
OpenLeavingText ==
  /\ file <= Len(folder) /\ line = 0
  /\ written' = [written EXCEPT ![file] = <<>>]
  /\ line' = 1
  /\ UNCHANGED <<folder, file, inside_text>>

\* Read the file, and open it for writing, which empties it.
Open ==
  /\ file <= Len(folder) /\ line = 0
  /\ written' = [written EXCEPT ![file] = <<>>]
  /\ line' = 1 /\ inside_text' = FALSE
  /\ UNCHANGED <<folder, file>>

Reading(kinds) ==
  /\ file <= Len(folder) /\ line > 0 /\ line <= Len(folder[file])
  /\ folder[file][line] \in kinds

Row(row) ==
  /\ written' = [written EXCEPT ![file] = Append(@, row)]
  /\ line' = line + 1
  /\ UNCHANGED <<folder, file>>

\* Mistake: the pattern of keys is tried first.
StartBlockLate ==
  /\ Reading({"block"})
  /\ inside_text' = ~inside_text
  /\ Row(0)

StartBlock == Reading({"block"}) /\ inside_text' = TRUE /\ Row(0)

KeepInline == Reading({"inline"}) /\ Row(line) /\ UNCHANGED inside_text

EndBlock == inside_text /\ Reading({"key", "note"}) /\ inside_text' = FALSE /\ Row(0)

KeepLine ==
  /\ inside_text /\ Reading({"text", "odd"})
  /\ Row(line) /\ UNCHANGED inside_text

DropLine ==
  /\ ~inside_text /\ Reading(Kinds \ {"block", "inline", "blank"})
  /\ Row(0) /\ UNCHANGED inside_text

\* An empty line has no row, not even an empty one.
DropBlank ==
  /\ Reading({"blank"})
  /\ line' = line + 1
  /\ UNCHANGED <<folder, written, file, inside_text>>

NextFile ==
  /\ file <= Len(folder) /\ line > Len(folder[file])
  /\ file' = file + 1 /\ line' = 0
  /\ UNCHANGED <<folder, written, inside_text>>

Next ==
  \/ Open \/ StartBlock \/ KeepInline \/ EndBlock
  \/ KeepLine \/ DropLine \/ DropBlank \/ NextFile

Spec == Init /\ [][Next]_vars

-----------------------------------------------------------------------------
Processed == 1 .. file - 1

Between(lines, i, j) == {lines[k] : k \in i + 1 .. j - 1}

\* Line i is text of a block, and no line above it in the block looks like a key.
BlockText(lines, i) ==
  /\ lines[i] = "text"
  /\ \E h \in 1 .. i - 1 : lines[h] = "block" /\ Between(lines, h, i) \subseteq {"text", "blank"}

(***************************************************************************)
(* The text of a description stays, and stays on its line so that comments *)
(* on it find it: in a block as far as no line of it looks like a key, and *)
(* with no empty line above.                                               *)
(***************************************************************************)
TextKept ==
  \A f \in Processed : LET lines == folder[f] IN
    \A i \in 1 .. Len(lines) :
      /\ lines[i] = "inline" \/ BlockText(lines, i)
      /\ "blank" \notin Between(lines, 0, i)
      => i <= Len(written[f]) /\ written[f][i] = i

(***************************************************************************)
(* Everything else is cleared, except text, and markup that no pattern     *)
(* recognizes, behind a block of the same file and before a plain key: a   *)
(* description on one line neither begins nor ends a block, and no file    *)
(* leaves anything to the next one.                                        *)
(***************************************************************************)
MarkupCleared ==
  \A f \in Processed : LET lines == folder[f] IN
    \A r \in 1 .. Len(written[f]) : LET i == written[f][r] IN
      i > 0 /\ lines[i] # "inline" =>
        /\ lines[i] \in {"text", "odd"}
        /\ \E h \in 1 .. i - 1 :
             lines[h] = "block" /\ Between(lines, h, i) \cap {"key", "note"} = {}
=============================================================================
