----------------------- MODULE KeepDescriptionsProofs -----------------------
(***************************************************************************)
(* What is kept of a file is the text of its descriptions, on its lines,   *)
(* and next to nothing else: for every folder of files of any length.      *)
(***************************************************************************)
EXTENDS KeepDescriptions, TLAPS

\* Line i is behind a block, with no plain key in between.
Behind(lines, i) ==
  \E h \in 1 .. i - 1 :
    lines[h] = "block" /\ Between(lines, h, i) \cap {"key", "note"} = {}

\* The first n lines are kept as TextKept wants them.
KeptUpTo(lines, rows, n) ==
  \A i \in 1 .. n :
    /\ lines[i] = "inline" \/ BlockText(lines, i)
    /\ "blank" \notin Between(lines, 0, i)
    => i <= Len(rows) /\ rows[i] = i

\* The rows are as MarkupCleared wants them.
Cleared(lines, rows) ==
  \A r \in 1 .. Len(rows) :
    rows[r] > 0 /\ lines[rows[r]] # "inline" =>
      lines[rows[r]] \in {"text", "odd"} /\ Behind(lines, rows[r])

KeepTypeOK ==
  /\ folder \in Seq(Seq(Kinds))
  /\ written \in [1 .. Len(folder) -> Seq(Nat)]
  /\ file \in Nat \ {0} /\ line \in Nat
  /\ line > 0 => file <= Len(folder) /\ line <= Len(folder[file]) + 1
  /\ inside_text \in BOOLEAN

ProcessedInv ==
  \A f \in 1 .. Len(folder) : f < file =>
    /\ KeptUpTo(folder[f], written[f], Len(folder[f]))
    /\ Cleared(folder[f], written[f])

\* Rows and lines are in step until an empty line comes, and inside_text says
\* whether the next line is behind a block.
ReadingInv ==
  line > 0 =>
    /\ KeptUpTo(folder[file], written[file], line - 1)
    /\ Cleared(folder[file], written[file])
    /\ "blank" \notin Between(folder[file], 0, line) => Len(written[file]) = line - 1
    /\ inside_text = Behind(folder[file], line)

\* A file is processed only if it is one of the folder.
FilesInv == file <= Len(folder) + 1

IInv == KeepTypeOK /\ FilesInv /\ ProcessedInv /\ ReadingInv

-----------------------------------------------------------------------------
LEMMA BetweenNext ==
  ASSUME NEW lines, NEW i \in Nat, NEW h \in 0 .. i - 1
  PROVE  Between(lines, h, i + 1) = Between(lines, h, i) \cup {lines[i]}
<1>1. h + 1 .. (i + 1) - 1 = (h + 1 .. i - 1) \cup {i}
  OBVIOUS
<1> QED
  BY <1>1 DEF Between

\* What a line does to the question whether the next one is behind a block.
LEMMA BehindNext ==
  ASSUME NEW lines, NEW i \in Nat \ {0}
  PROVE  Behind(lines, i + 1) <=>
           lines[i] = "block" \/ (Behind(lines, i) /\ lines[i] \notin {"key", "note"})
<1>1. ASSUME Behind(lines, i + 1)
      PROVE  lines[i] = "block" \/ (Behind(lines, i) /\ lines[i] \notin {"key", "note"})
  <2>1. PICK h \in 1 .. (i + 1) - 1 :
          lines[h] = "block" /\ Between(lines, h, i + 1) \cap {"key", "note"} = {}
    BY <1>1 DEF Behind
  <2>2. CASE h = i
    BY <2>1, <2>2
  <2>3. CASE h # i
    <3>1. h \in 1 .. i - 1 /\ h \in 0 .. i - 1
      BY <2>3
    <3>2. Between(lines, h, i + 1) = Between(lines, h, i) \cup {lines[i]}
      BY <3>1, BetweenNext
    <3> QED
      BY <2>1, <3>1, <3>2 DEF Behind
  <2> QED
    BY <2>2, <2>3
<1>2. ASSUME lines[i] = "block" PROVE Behind(lines, i + 1)
  <2>1. i \in 1 .. (i + 1) - 1 /\ i + 1 .. (i + 1) - 1 = {}
    OBVIOUS
  <2>2. Between(lines, i, i + 1) = {}
    BY <2>1 DEF Between
  <2> QED
    BY <1>2, <2>1, <2>2 DEF Behind
<1>3. ASSUME Behind(lines, i), lines[i] \notin {"key", "note"} PROVE Behind(lines, i + 1)
  <2>1. PICK h \in 1 .. i - 1 :
          lines[h] = "block" /\ Between(lines, h, i) \cap {"key", "note"} = {}
    BY <1>3 DEF Behind
  <2>2. h \in 0 .. i - 1 /\ h \in 1 .. (i + 1) - 1
    OBVIOUS
  <2>3. Between(lines, h, i + 1) = Between(lines, h, i) \cup {lines[i]}
    BY <2>2, BetweenNext
  <2> QED
    BY <1>3, <2>1, <2>2, <2>3 DEF Behind
<1> QED
  BY <1>1, <1>2, <1>3

\* Text of a block is behind a block, unless a blank line is above it.
LEMMA BlockTextBehind ==
  ASSUME NEW lines, NEW i, BlockText(lines, i)
  PROVE  lines[i] = "text" /\ Behind(lines, i)
BY DEF BlockText, Behind

\* Nothing is behind a block before the first line.
LEMMA NothingBehind ==
  ASSUME NEW lines PROVE ~Behind(lines, 1)
BY DEF Behind

-----------------------------------------------------------------------------
\* A row more leaves what is kept where it was.
LEMMA KeptAppend ==
  ASSUME NEW lines, NEW rows \in Seq(Nat), NEW n \in Nat, NEW row \in Nat,
         KeptUpTo(lines, rows, n),
         /\ lines[n + 1] = "inline" \/ BlockText(lines, n + 1)
         /\ "blank" \notin Between(lines, 0, n + 1)
         => row = n + 1 /\ Len(rows) = n
  PROVE  KeptUpTo(lines, Append(rows, row), n + 1)
<1> SUFFICES ASSUME NEW i \in 1 .. n + 1,
                    lines[i] = "inline" \/ BlockText(lines, i),
                    "blank" \notin Between(lines, 0, i)
             PROVE  i <= Len(Append(rows, row)) /\ Append(rows, row)[i] = i
  BY DEF KeptUpTo
<1>1. CASE i = n + 1
  BY <1>1
<1>2. CASE i # n + 1
  <2>1. i <= Len(rows) /\ rows[i] = i
    BY <1>2 DEF KeptUpTo
  <2> QED
    BY <2>1
<1> QED
  BY <1>1, <1>2

LEMMA ClearedAppend ==
  ASSUME NEW lines, NEW rows \in Seq(Nat), NEW row \in Nat,
         Cleared(lines, rows),
         row > 0 /\ lines[row] # "inline" => lines[row] \in {"text", "odd"} /\ Behind(lines, row)
  PROVE  Cleared(lines, Append(rows, row))
<1> SUFFICES ASSUME NEW r \in 1 .. Len(Append(rows, row)),
                    Append(rows, row)[r] > 0,
                    lines[Append(rows, row)[r]] # "inline"
             PROVE  /\ lines[Append(rows, row)[r]] \in {"text", "odd"}
                    /\ Behind(lines, Append(rows, row)[r])
  BY DEF Cleared
<1>1. CASE r = Len(rows) + 1
  BY <1>1
<1>2. CASE r # Len(rows) + 1
  <2>1. r \in 1 .. Len(rows) /\ Append(rows, row)[r] = rows[r]
    BY <1>2
  <2> QED
    BY <2>1 DEF Cleared
<1> QED
  BY <1>1, <1>2

(***************************************************************************)
(* A line that has a row keeps the invariant if the row is the line        *)
(* exactly when it is to be kept, and inside_text follows the lines.       *)
(***************************************************************************)
LEMMA RowKeeps ==
  ASSUME IInv, NEW row \in Nat, Row(row), Reading(Kinds \ {"blank"}),
         inside_text' \in BOOLEAN,
         inside_text' = Behind(folder[file], line + 1),
         folder[file][line] = "inline" \/ BlockText(folder[file], line) => row = line,
         row > 0 => row = line /\ (folder[file][line] = "inline"
                      \/ (folder[file][line] \in {"text", "odd"} /\ Behind(folder[file], line)))
  PROVE  IInv'
<1> DEFINE lines == folder[file]
           rows == written[file]
<1>1. /\ file \in 1 .. Len(folder) /\ lines \in Seq(Kinds) /\ rows \in Seq(Nat)
      /\ line \in 1 .. Len(lines) /\ lines[line] \in Kinds \ {"blank"}
  BY DEF IInv, KeepTypeOK, Reading
<1>2. /\ folder' = folder /\ file' = file /\ line' = line + 1
      /\ written' = [written EXCEPT ![file] = Append(@, row)]
  BY DEF Row
<1>3. written'[file] = Append(rows, row) /\ Append(rows, row) \in Seq(Nat)
      /\ Len(Append(rows, row)) = Len(rows) + 1
  BY <1>1, <1>2 DEF IInv, KeepTypeOK
<1>4. \A f \in 1 .. Len(folder) : f # file => written'[f] = written[f]
  BY <1>2 DEF IInv, KeepTypeOK
<1>5. KeepTypeOK'
  BY <1>1, <1>2, <1>3 DEF IInv, KeepTypeOK
<1>6. FilesInv'
  BY <1>2 DEF IInv, FilesInv
<1>7. ProcessedInv'
  <2>1. \A f \in 1 .. Len(folder) : f < file => f # file
    BY DEF IInv, KeepTypeOK
  <2> QED
    BY <1>2, <1>4, <2>1 DEF IInv, ProcessedInv
<1>8. /\ KeptUpTo(lines, rows, line - 1) /\ Cleared(lines, rows)
      /\ "blank" \notin Between(lines, 0, line) => Len(rows) = line - 1
  BY <1>1 DEF IInv, ReadingInv
<1>9. KeptUpTo(lines, Append(rows, row), line)
  <2>1. line - 1 \in Nat /\ (line - 1) + 1 = line
    BY <1>1
  <2> QED
    BY <1>1, <1>8, <2>1, KeptAppend
<1>10. Cleared(lines, Append(rows, row))
  BY <1>1, <1>8, ClearedAppend
<1>11. "blank" \notin Between(lines, 0, line + 1) => Len(Append(rows, row)) = line
  <2>1. line \in Nat /\ 0 \in 0 .. line - 1
    BY <1>1
  <2>2. Between(lines, 0, line + 1) = Between(lines, 0, line) \cup {lines[line]}
    BY <2>1, BetweenNext
  <2> QED
    BY <1>1, <1>3, <1>8, <2>2
<1>12. ReadingInv'
  <2>1. (line + 1) - 1 = line
    BY <1>1
  <2> HIDE DEF lines, rows
  <2> QED
    BY <1>2, <1>3, <1>9, <1>10, <1>11, <2>1 DEF ReadingInv, lines
<1> QED
  BY <1>5, <1>6, <1>7, <1>12 DEF IInv

LEMMA DroppedKeeps ==
  ASSUME IInv, Row(0), Reading(Kinds \ {"blank"}), inside_text' \in BOOLEAN,
         inside_text' = Behind(folder[file], line + 1),
         folder[file][line] # "inline", ~BlockText(folder[file], line)
  PROVE  IInv'
<1>1. 0 \in Nat /\ ~(0 > 0)
  OBVIOUS
<1> QED
  BY <1>1, RowKeeps

\* The state of the file that is being read.
LEMMA ReadingState ==
  ASSUME IInv, NEW kinds \in SUBSET Kinds, Reading(kinds)
  PROVE  /\ line \in Nat \ {0} /\ inside_text \in BOOLEAN
         /\ inside_text = Behind(folder[file], line)
         /\ Behind(folder[file], line + 1) <=>
              \/ folder[file][line] = "block"
              \/ inside_text /\ folder[file][line] \notin {"key", "note"}
         /\ folder[file][line] \in kinds
<1>1. line \in Nat \ {0}
  BY DEF IInv, KeepTypeOK, Reading
<1>2. inside_text = Behind(folder[file], line) /\ inside_text \in BOOLEAN
  BY <1>1 DEF IInv, KeepTypeOK, ReadingInv
<1> QED
  BY <1>1, <1>2, BehindNext DEF Reading

LEMMA InitKeep == Init => IInv
<1> SUFFICES ASSUME Init PROVE IInv
  OBVIOUS
<1>1. folder \in Seq(Seq(Kinds)) /\ Len(folder) \in Nat
  BY FoldersAssumption DEF Init
<1>2. ASSUME NEW f \in 1 .. Len(folder) PROVE Unprocessed(folder[f]) \in Seq(Nat)
  <2>1. Len(folder[f]) \in Nat
    BY <1>1
  <2> QED
    BY <2>1 DEF Unprocessed
<1>3. written \in [1 .. Len(folder) -> Seq(Nat)]
  BY <1>2 DEF Init
<1>4. KeepTypeOK
  <2>1. file = 1 /\ line = 0
    BY DEF Init
  <2>2. inside_text \in BOOLEAN
    BY DEF Init
  <2> QED
    BY <1>1, <1>3, <2>1, <2>2 DEF KeepTypeOK
<1> QED
  BY <1>1, <1>4 DEF Init, IInv, FilesInv, ProcessedInv, ReadingInv

LEMMA NextKeep == IInv /\ [Next]_vars => IInv'
<1> SUFFICES ASSUME IInv, [Next]_vars PROVE IInv'
  OBVIOUS
<1>1. CASE Open
  <2>1. /\ file \in 1 .. Len(folder) /\ written'[file] = <<>>
        /\ \A f \in 1 .. Len(folder) : f # file => written'[f] = written[f]
        /\ folder' = folder /\ file' = file /\ line' = 1 /\ inside_text' = FALSE
    BY <1>1 DEF Open, IInv, KeepTypeOK
  <2>2. KeepTypeOK'
    <3>1. Len(folder[file]) \in Nat /\ <<>> \in Seq(Nat)
      BY <2>1 DEF IInv, KeepTypeOK
    <3>2. written' \in [1 .. Len(folder) -> Seq(Nat)]
      BY <1>1, <3>1 DEF Open, IInv, KeepTypeOK
    <3>3. folder \in Seq(Seq(Kinds)) /\ file \in Nat \ {0} /\ file <= Len(folder)
      BY <2>1 DEF IInv, KeepTypeOK
    <3>4. inside_text' \in BOOLEAN
      BY <2>1
    <3>5. folder' = folder /\ file' = file /\ line' = 1
      BY <2>1
    <3> QED
      BY <3>1, <3>2, <3>3, <3>4, <3>5 DEF KeepTypeOK
  <2>3. ProcessedInv'
    BY <2>1 DEF IInv, KeepTypeOK, ProcessedInv
  <2>4. KeptUpTo(folder[file], <<>>, 0) /\ Cleared(folder[file], <<>>)
    BY DEF KeptUpTo, Cleared
  <2>5. ReadingInv'
    <3>1. Len(<<>>) = 1 - 1 /\ 1 - 1 = 0
      OBVIOUS
    <3>2. Behind(folder[file], 1) = FALSE
      BY NothingBehind DEF Behind
    <3> QED
      BY <2>1, <2>4, <3>1, <3>2 DEF ReadingInv
  <2> QED
    BY <2>1, <2>2, <2>3, <2>5 DEF IInv, FilesInv
<1>2. CASE StartBlock
  <2>1. Reading({"block"}) /\ Reading(Kinds \ {"blank"}) /\ {"block"} \in SUBSET Kinds
    BY <1>2 DEF StartBlock, Reading, Kinds
  <2>2. folder[file][line] = "block" /\ Behind(folder[file], line + 1)
    BY <2>1, ReadingState
  <2>3. inside_text' = Behind(folder[file], line + 1)
    BY <1>2, <2>2 DEF StartBlock, Behind
  <2>4. ~BlockText(folder[file], line)
    BY <2>2 DEF BlockText
  <2> QED
    BY <1>2, <2>1, <2>2, <2>3, <2>4, DroppedKeeps DEF StartBlock
<1>3. CASE KeepInline
  <2>1. Reading({"inline"}) /\ Reading(Kinds \ {"blank"}) /\ {"inline"} \in SUBSET Kinds
    BY <1>3 DEF KeepInline, Reading, Kinds
  <2>2. /\ folder[file][line] = "inline" /\ line \in Nat /\ inside_text \in BOOLEAN
        /\ Behind(folder[file], line + 1) <=> inside_text
    BY <2>1, ReadingState
  <2>3. inside_text' = Behind(folder[file], line + 1)
    BY <1>3, <2>2 DEF KeepInline, Behind
  <2> QED
    BY <1>3, <2>1, <2>2, <2>3, RowKeeps DEF KeepInline
<1>4. CASE EndBlock
  <2>1. /\ Reading({"key", "note"}) /\ Reading(Kinds \ {"blank"})
        /\ {"key", "note"} \in SUBSET Kinds
    BY <1>4 DEF EndBlock, Reading, Kinds
  <2>2. folder[file][line] \in {"key", "note"} /\ ~Behind(folder[file], line + 1)
    BY <2>1, ReadingState
  <2>3. inside_text' = Behind(folder[file], line + 1)
    BY <1>4, <2>2 DEF EndBlock, Behind
  <2>4. ~BlockText(folder[file], line)
    BY <2>2 DEF BlockText
  <2> QED
    BY <1>4, <2>1, <2>2, <2>3, <2>4, DroppedKeeps DEF EndBlock
<1>5. CASE KeepLine
  <2>1. /\ Reading({"text", "odd"}) /\ Reading(Kinds \ {"blank"})
        /\ {"text", "odd"} \in SUBSET Kinds /\ inside_text
    BY <1>5 DEF KeepLine, Reading, Kinds
  <2>2. /\ folder[file][line] \in {"text", "odd"} /\ line \in Nat
        /\ Behind(folder[file], line) /\ Behind(folder[file], line + 1)
    BY <2>1, ReadingState
  <2>3. inside_text' = Behind(folder[file], line + 1)
    BY <1>5, <2>1, <2>2 DEF KeepLine, Behind, IInv, KeepTypeOK
  <2> QED
    BY <1>5, <2>1, <2>2, <2>3, RowKeeps DEF KeepLine
<1>6. CASE DropLine
  <2>1. /\ Reading(Kinds \ {"block", "inline", "blank"}) /\ Reading(Kinds \ {"blank"})
        /\ ~inside_text
    BY <1>6 DEF DropLine, Reading
  <2>2. /\ folder[file][line] \in Kinds \ {"block", "inline", "blank"}
        /\ ~Behind(folder[file], line) /\ ~Behind(folder[file], line + 1)
    BY <2>1, ReadingState
  <2>3. inside_text' \in BOOLEAN /\ inside_text' = Behind(folder[file], line + 1)
    BY <1>6, <2>1, <2>2 DEF DropLine, Behind, IInv, KeepTypeOK
  <2>4. ~BlockText(folder[file], line)
    BY <2>2, BlockTextBehind
  <2>5. Row(0) /\ folder[file][line] # "inline"
    BY <1>6, <2>2 DEF DropLine, Kinds
  <2> QED
    BY <2>1, <2>3, <2>4, <2>5, DroppedKeeps
<1>7. CASE DropBlank
  <2> DEFINE lines == folder[file]
  <2>1. Reading({"blank"}) /\ {"blank"} \in SUBSET Kinds
    BY <1>7 DEF DropBlank, Kinds
  <2>2. /\ lines[line] = "blank" /\ line \in Nat \ {0}
        /\ Behind(lines, line + 1) <=> Behind(lines, line)
        /\ inside_text = Behind(lines, line)
    BY <2>1, ReadingState
  <2>3. /\ folder' = folder /\ file' = file /\ line' = line + 1 /\ written' = written
        /\ inside_text' = inside_text
    BY <1>7 DEF DropBlank
  <2>4. KeepTypeOK'
    BY <2>1, <2>3 DEF IInv, KeepTypeOK, Reading
  <2>5. KeptUpTo(lines, written[file], line - 1) /\ Cleared(lines, written[file])
    BY <2>2 DEF IInv, ReadingInv
  <2>6. ~BlockText(lines, line)
    BY <2>2 DEF BlockText
  <2>7. KeptUpTo(lines, written[file], line)
    BY <2>2, <2>5, <2>6 DEF KeptUpTo
  <2>8. "blank" \in Between(lines, 0, line + 1)
    BY <2>2 DEF Between
  <2>9. Behind(lines, line + 1) = Behind(lines, line)
    BY <2>2 DEF Behind
  <2>10. ReadingInv'
    <3>1. (line + 1) - 1 = line
      BY <2>2
    <3> QED
      BY <2>2, <2>3, <2>5, <2>7, <2>8, <2>9, <3>1 DEF ReadingInv
  <2> QED
    BY <2>3, <2>4, <2>10 DEF IInv, FilesInv, ProcessedInv
<1>8. CASE NextFile
  <2>1. /\ folder' = folder /\ written' = written /\ file' = file + 1 /\ line' = 0
        /\ file \in 1 .. Len(folder) /\ line > Len(folder[file])
    BY <1>8 DEF NextFile, IInv, KeepTypeOK
  <2>2. line - 1 = Len(folder[file]) /\ line > 0
    BY <2>1 DEF IInv, KeepTypeOK
  <2>3. /\ KeptUpTo(folder[file], written[file], Len(folder[file]))
        /\ Cleared(folder[file], written[file])
    BY <2>2 DEF IInv, ReadingInv
  <2>4. KeepTypeOK'
    BY <1>8, <2>1 DEF NextFile, IInv, KeepTypeOK
  <2>5. \A f \in 1 .. Len(folder) : f < file + 1 => f < file \/ f = file
    BY <2>1
  <2>6. ProcessedInv'
    BY <2>1, <2>3, <2>5 DEF IInv, ProcessedInv
  <2> QED
    BY <2>1, <2>4, <2>6 DEF IInv, FilesInv, ReadingInv, KeepTypeOK
<1>9. CASE UNCHANGED vars
  BY <1>9 DEF vars, IInv, KeepTypeOK, FilesInv, ProcessedInv, ReadingInv
<1> QED
  BY <1>1, <1>2, <1>3, <1>4, <1>5, <1>6, <1>7, <1>8, <1>9 DEF Next

LEMMA Inductive == Spec => []IInv
BY InitKeep, NextKeep, PTL DEF Spec

\* The text of a description stays on its line, up to a line that looks like a
\* key and as long as no blank line above it was dropped.
THEOREM TextCorrect == Spec => []TextKept
<1>1. IInv => TextKept
  <2> SUFFICES ASSUME IInv, NEW f \in Processed PROVE
        KeptUpTo(folder[f], written[f], Len(folder[f]))
    BY DEF TextKept, KeptUpTo
  <2>1. f \in 1 .. Len(folder) /\ f < file
    BY DEF Processed, IInv, KeepTypeOK, FilesInv
  <2> QED
    BY <2>1 DEF IInv, ProcessedInv
<1> QED
  BY <1>1, Inductive, PTL

\* What is kept besides is text or unrecognized, behind a block of its file.
THEOREM MarkupCorrect == Spec => []MarkupCleared
<1>1. IInv => MarkupCleared
  <2> SUFFICES ASSUME IInv, NEW f \in Processed PROVE Cleared(folder[f], written[f])
    BY DEF MarkupCleared, Cleared, Behind
  <2>1. f \in 1 .. Len(folder) /\ f < file
    BY DEF Processed, IInv, KeepTypeOK, FilesInv
  <2> QED
    BY <2>1 DEF IInv, ProcessedInv
<1> QED
  BY <1>1, Inductive, PTL
=============================================================================
