----------------------------- MODULE LineCheck -----------------------------
(***************************************************************************)
(* Lines and the chain they form (storage::jsonl::verify, kernel::ledger). *)
(*                                                                         *)
(* A segment file is a sequence of cells.  A cell is one line as a writer  *)
(* laid it down; a cell with whole = FALSE is the beginning of a line      *)
(* whose terminator never reached the disk.  Bytes are abstracted: the     *)
(* envelope keeps seq and prev, and `wave' (the number of the wave that    *)
(* wrote the line, never used twice) stands for the rest of the content.   *)
(* seq and wave therefore identify a line, and the pair is its hash.       *)
(***************************************************************************)
EXTENDS Naturals, Sequences, FiniteSetsExt

(* What a line's prev holds: the hash of the line before it. *)
ChainHash(cell) == <<cell.seq, cell.wave>>

(* Waves count from 1, so no line hashes to this. *)
GENESIS_PREV == <<0, 0>>

(* A write that died inside a line leaves its beginning. *)
TornFrom(cell) == [cell EXCEPT !.whole = FALSE]

(* Cell i ends a complete line that parses: its terminator is there and no *)
(* fragment stands before it on the same line.  A fragment followed by a   *)
(* whole cell is one complete line that is not JSON, so it carries no      *)
(* envelope (LineCheck::carries_envelope).                                 *)
CarriesEnvelope(cells, i) ==
    cells[i].whole /\ (i > 1 => cells[i - 1].whole)

(* LineCheck::advance: cell i continues the chain entered at `entry'. *)
Advances(cells, i, entry) ==
    /\ CarriesEnvelope(cells, i)
    /\ cells[i].prev = IF i = 1 THEN entry.prev ELSE ChainHash(cells[i - 1])
    /\ cells[i].seq = entry.next + i - 1

(* The number of leading lines that advance: valid_len of recover_tail. *)
ValidLen(cells, entry) ==
    Max({n \in 0 .. Len(cells) :
            \A i \in 1 .. n : Advances(cells, i, entry)})

(* Any damage past the valid prefix taken for history. *)
HistoryAfterAny(cells, n) == n < Len(cells)

(* A line past the valid prefix that carries an envelope is history, not a *)
(* torn write: recover_tail refuses instead of cutting it off.             *)
HistoryAfter(cells, n) ==
    \E i \in n + 1 .. Len(cells) : CarriesEnvelope(cells, i)

(* The last terminated cell of a segment, 0 when it has none. *)
LastLine(cells) ==
    Max({0} \cup {i \in 1 .. Len(cells) : cells[i].whole})
=============================================================================
