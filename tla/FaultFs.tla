------------------------------ MODULE FaultFs ------------------------------
(***************************************************************************)
(* The disk of storage::fault_fs: a file has a live plane (what running    *)
(* processes read) and a durable plane (what survives power loss).         *)
(***************************************************************************)
EXTENDS LineCheck

(* How many leading cells the two planes agree on. *)
Common(durable, live) ==
    Max({n \in 0 .. Len(live) :
            n <= Len(durable) /\ SubSeq(durable, 1, n) = SubSeq(live, 1, n)})

(* What a power cut may leave of one file (`cut'): the platter kept some   *)
(* prefix of the unsynced delta, possibly ending inside a line, and behind *)
(* it whatever the durable plane already held there.                       *)
Settled(durable, live) ==
    LET common == Common(durable, live)
        From(n) == SubSeq(durable, n + 1, Len(durable))
    IN  {SubSeq(live, 1, n) \o From(n) : n \in common .. Len(live)}
        \cup {Append(SubSeq(live, 1, n), TornFrom(live[n + 1])) \o From(n + 1) :
                 n \in common .. Len(live) - 1}

(* One cell too many cut off. *)
TruncatedShort(cells, n) == SubSeq(cells, 1, IF n <= Len(cells) THEN n - 1 ELSE Len(cells))

(* truncate to n cells.  Past the end of the file it would pad with zeros, *)
(* which no caller here asks for.                                          *)
Truncated(cells, n) == SubSeq(cells, 1, IF n <= Len(cells) THEN n ELSE Len(cells))

(* What an append that failed may leave on the live plane: any prefix of   *)
(* its bytes.                                                              *)
PartlyAppended(live, cells) ==
    {live \o SubSeq(cells, 1, n) : n \in 0 .. Len(cells)}
        \cup {Append(live \o SubSeq(cells, 1, n), TornFrom(cells[n + 1])) :
                 n \in 0 .. Len(cells) - 1}
=============================================================================
