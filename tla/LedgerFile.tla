----------------------------- MODULE LedgerFile -----------------------------
(***************************************************************************)
(* The text of one results file, as layout_tuning/ledger.py writes and     *)
(* reads it.  A file is the sequence of its lines.  A line is either a row *)
(* that json.loads accepts or Garbage, a text it refuses.  The last line   *)
(* may lack its newline (ended = FALSE): that is what a write cut short    *)
(* leaves behind, and what the next append is glued to.                    *)
(***************************************************************************)
EXTENDS Naturals, Sequences

CONSTANTS
  Cell,        \* cell keys
  Partition,   \* values of the "partition" field, NoPartition among them
  Garbage      \* a line that is not one JSON object

Row == [cell : Cell, failed : BOOLEAN, partition : Partition]

ASSUME GarbageIsNoRow == Garbage \notin Row

Line == Row \cup {Garbage}

File == [lines : Seq(Line), ended : BOOLEAN]

\* A file glob does not find reads like an empty one.
EmptyFile == [lines |-> <<>>, ended |-> TRUE]

(***************************************************************************)
(* The file after one more text was written at its end.  On a finished     *)
(* line the text becomes a line of its own.  On an unfinished one the two  *)
(* texts share a line, and no JSON object's text followed by the whole or  *)
(* a part of another one's is a JSON object: whatever row the unfinished   *)
(* line held is gone.                                                      *)
(***************************************************************************)
Put(f, text, ended) ==
  [lines |-> IF f.ended THEN Append(f.lines, text)
                        ELSE [f.lines EXCEPT ![Len(f.lines)] = Garbage],
   ended |-> ended]

\* A bug PutRow could have: the newline is forgotten, or written before the row.
PutRowUnended(f, row) == Put(f, row, FALSE)

\* Ledger.append when every byte reaches the file.
PutRow(f, row) == Put(f, row, TRUE)

(***************************************************************************)
(* Ledger.append when the write stops early.  A torn write leaves a part   *)
(* of the text, or all of it but the newline.  One that is not torn left   *)
(* nothing (the open failed) or the whole line (the fsync did).            *)
(***************************************************************************)
PutTorn(f, row) == {Put(f, Garbage, FALSE), Put(f, row, FALSE)}

PutFailed(f, row, torn) == IF torn THEN PutTorn(f, row) ELSE {f, PutRow(f, row)}

RowsOf(f) == {i \in DOMAIN f.lines : f.lines[i] # Garbage}

Parses(f) == \A i \in DOMAIN f.lines : f.lines[i] # Garbage
=============================================================================
