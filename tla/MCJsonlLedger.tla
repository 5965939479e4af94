--------------------------- MODULE MCJsonlLedger ---------------------------
(* The Ledger for TLC, and its refinement of LedgerSpec. *)
EXTENDS JsonlLedger, SequencesExt

(* The complete lines of a segment file: what stands behind its last       *)
(* terminator is never visited (jsonl::reading, scan).                     *)
Complete(file) == SubSeq(file, 1, LastLine(file))

(* What read_raw_lines yields: the complete lines of the segments in name  *)
(* order.                                                                  *)
RawLines(files) == FlattenSeq([i \in 1 .. MaxSeq + 1 |-> Complete(files[i - 1])])

(* The lines up to the first one off the chain, each by its hash.          *)
Hashes(lines) ==
    LET n == ValidLen(lines, [prev |-> GENESIS_PREV, next |-> 0])
    IN  [i \in 1 .. n |-> ChainHash(lines[i])]

(* A reader's history, Hashes(RawLines(files)); the bound variable makes   *)
(* TLC compute the lines once.                                             *)
Read(files) == CHOOSE read \in {Hashes(lines) : lines \in {RawLines(files)}} : TRUE

Readable == Read(live)

Kept == IF acked = {} THEN 0 ELSE Max({cell.seq : cell \in acked}) + 1

Abstract == INSTANCE LedgerSpec WITH lines <- Readable, kept <- Kept

(* The file-level Ledger implements the abstract one: acknowledged history *)
(* is a prefix that only grows, whatever fails underneath it, and an       *)
(* acknowledgement is never given for less than a reader then finds.       *)
ImplementsLedger == Abstract!Spec
=============================================================================
