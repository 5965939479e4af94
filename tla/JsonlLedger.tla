---------------------------- MODULE JsonlLedger ----------------------------
(***************************************************************************)
(* The durable Ledger of storage::jsonl: one handle appending waves of     *)
(* lines to segment files, the unwind of a wave that failed, and the open  *)
(* that repairs a torn tail, over a disk that may fail any operation, lose *)
(* power between any two, and outlive the process that was writing to it.  *)
(*                                                                         *)
(* Each action below is one disk operation of the code or one computation  *)
(* between two of them; pc names the operation the handle does next.  A    *)
(* segment is named by the seq of its first line.  Whether a line rolls to *)
(* a new segment depends on byte lengths, so any line that finds its       *)
(* segment nonempty may roll.                                              *)
(***************************************************************************)
EXTENDS FaultFs

CONSTANTS
    MaxSeq,      \* segment names and seqs are 0 .. MaxSeq
    MaxWaves,    \* waves a caller starts
    MaxWave,     \* lines of one wave
    MaxFails,    \* disk operations that answer an error
    MaxCuts,     \* power cuts
    MaxKills,    \* handles that go away without a power cut and without Close
    LazyDir      \* TRUE: an unsynced directory change may survive a power cut

ASSUME BoundsAssumption ==
    /\ MaxSeq \in Nat /\ MaxWaves \in Nat /\ MaxWave \in Nat
    /\ MaxFails \in Nat /\ MaxCuts \in Nat /\ MaxKills \in Nat
    /\ LazyDir \in BOOLEAN

VARIABLES
    \* The disk.
    live,       \* segment -> the cells running processes read
    durable,    \* segment -> the cells that survive a power cut
    liveDir,    \* the segments that exist
    durDir,     \* the segments whose directory entry survives a power cut
    \* The handle.
    pc,         \* "closed", "refused", "idle", or the operation under way
    seg, len, next, prev,   \* seg_path, seg_len, next_seq, prev
    barrier,    \* "Whole" or "Broken"
    owed,       \* pending_unwind: {} or {the segments the failed wave created}
    wave,       \* segment -> the cells the wave under way writes to it
    todo,       \* segments of the wave the current phase has not reached
    created,    \* the segments the wave under way creates
    removed,    \* restore has removed a segment in this call
    opening,    \* the handle is still inside open
    halted,     \* the chain audit has tripped this handle's halt
    \* History.
    acked,      \* the lines whose append_all answered Ok
    waves,      \* waves started
    failed,     \* a wave of this handle has failed
    orphaned,   \* a handle left a failed wave's bytes behind, power still on
    exposed,    \* power was cut after that
    faults      \* faults still allowed, by kind

disk == <<live, durable, liveDir, durDir>>
position == <<seg, len, next, prev>>
shape == <<wave, todo, created>>
history == <<acked, waves, failed, orphaned, exposed>>
vars == <<disk, pc, position, barrier, owed, shape, removed, opening, halted,
          history, faults>>

Names == 0 .. MaxSeq
Hash == Names \X Nat
Cell == [seq : Names, wave : Nat, prev : Hash, whole : BOOLEAN]

(* pc while a wave is landing, while one is being unwound, and during open. *)
Landing == {"append", "sync", "syncdir", "landed"}
Restoring == {"unlink", "unlinkdir", "cutback", "cutsync", "restored"}
Recovering == {"trunc", "truncsync", "remove", "removedir", "trunclog"}

Budget == [fail : Nat, cut : Nat, kill : Nat]

(* The smallest of a set of segments, as a set: the code visits a wave's   *)
(* segments in the order of their names.                                   *)
First(segs) == {s \in segs : \A t \in segs : s <= t}

NoWave == [s \in Names |-> <<>>]

TypeOK ==
    /\ live \in [Names -> Seq(Cell)] /\ durable \in [Names -> Seq(Cell)]
    /\ liveDir \subseteq Names /\ durDir \subseteq Names
    /\ pc \in {"closed", "refused", "idle"} \cup Landing \cup Restoring \cup Recovering
    /\ seg \in Names /\ len \in Nat /\ next \in 0 .. MaxSeq + 1 /\ prev \in Hash
    /\ barrier \in {"Whole", "Broken"}
    /\ owed \subseteq SUBSET Names
    /\ wave \in [Names -> Seq(Cell)] /\ todo \subseteq Names /\ created \subseteq Names
    /\ removed \in BOOLEAN /\ opening \in BOOLEAN /\ halted \in BOOLEAN
    /\ acked \subseteq Cell /\ waves \in Nat
    /\ failed \in BOOLEAN /\ orphaned \in BOOLEAN /\ exposed \in BOOLEAN
    /\ faults \in Budget

Init ==
    /\ live = NoWave /\ durable = NoWave /\ liveDir = {} /\ durDir = {}
    /\ pc = "closed" /\ seg = 0 /\ len = 0 /\ next = 0 /\ prev = GENESIS_PREV
    /\ barrier = "Whole" /\ owed = {}
    /\ wave = NoWave /\ todo = {} /\ created = {}
    /\ removed = FALSE /\ opening = FALSE /\ halted = FALSE
    /\ acked = {} /\ waves = 0
    /\ failed = FALSE /\ orphaned = FALSE /\ exposed = FALSE
    /\ faults = [fail |-> MaxFails, cut |-> MaxCuts, kill |-> MaxKills]

-----------------------------------------------------------------------------
(* append_all, up to its first write.                                      *)

(* Every line of the wave chained to the line before the wave. *)
LineUnchained(q, w) == [seq |-> q, wave |-> w, whole |-> TRUE, prev |-> prev]

(* The line with seq q of wave w. *)
Line(q, w) ==
    [seq |-> q, wave |-> w, whole |-> TRUE,
     prev |-> IF q = next THEN prev ELSE <<q - 1, w>>]

(* The cells n lines bring to segment s when the lines in `rolls' each     *)
(* open a new segment.                                                     *)
WaveFor(s, n, rolls, w) ==
    LET first == IF s \in rolls THEN s ELSE next
        past == Min({next + n} \cup {r \in rolls : r > first \/ s \notin rolls})
    IN  IF s \in rolls \cup {seg}
        THEN [i \in 1 .. past - first |-> Line(first + i - 1, w)]
        ELSE <<>>

(* The segments the wave under way writes to. *)
Touched == {s \in Names : wave[s] # <<>>}

(* The first segment of an empty ledger not counted. *)
CreatesRolledOnly(rolls) == rolls

(* The segments the wave creates: the ones its lines roll to, and the one  *)
(* they start in when it is not there yet.                                 *)
Creates(rolls) == rolls \cup IF len = 0 /\ seg \notin liveDir THEN {seg} ELSE {}

StartWave(n, rolls) ==
    /\ pc' = "append"
    /\ barrier' = "Broken"
    /\ waves' = waves + 1
    /\ wave' = [s \in Names |-> WaveFor(s, n, rolls, waves + 1)]
    /\ todo' = Touched'
    /\ created' = Creates(rolls)

(* A line rolls only out of a segment that holds something; the first line *)
(* of the wave finds len, every later one the line before it.              *)
Rolls(n) == {rolls \in SUBSET (next .. next + n - 1) : len = 0 => next \notin rolls}

AppendAll(n, rolls) ==
    /\ pc = "idle" /\ owed = {} /\ barrier = "Whole" /\ ~halted
    /\ StartWave(n, rolls)
    /\ UNCHANGED <<disk, position, owed, removed, opening, halted, faults,
                   acked, failed, orphaned, exposed>>

(* append_all calls finish_unwind before it looks at its drafts. *)
FinishUnwind ==
    /\ pc = "idle" /\ owed # {}
    /\ pc' = "unlink" /\ removed' = FALSE
    /\ UNCHANGED <<disk, position, barrier, owed, shape, opening, halted,
                   history, faults>>

-----------------------------------------------------------------------------
(* land: append every write, sync every written segment, sync the          *)
(* directory when the wave created a segment.                              *)

(* sync_dir. *)
SyncDir ==
    /\ durDir' = liveDir
    /\ durable' = [s \in Names |-> IF s \in liveDir THEN durable[s] ELSE <<>>]

LandAppend ==
    /\ pc = "append"
    /\ \E s \in First(todo) :
        /\ live' = [live EXCEPT ![s] = @ \o wave[s]]
        /\ liveDir' = liveDir \cup {s}
        /\ IF todo = {s}
           THEN pc' = "sync" /\ todo' = Touched
           ELSE pc' = pc /\ todo' = todo \ {s}
    /\ UNCHANGED <<durable, durDir, position, barrier, owed, wave, created,
                   removed, opening, halted, history, faults>>

(* Only the first written segment synced. *)
AfterSyncFirst(s) == IF created # {} THEN "syncdir" ELSE "landed"

AfterSync(s) ==
    IF todo # {s} THEN "sync" ELSE IF created # {} THEN "syncdir" ELSE "landed"

LandSync ==
    /\ pc = "sync"
    /\ \E s \in First(todo) :
        /\ durable' = [durable EXCEPT ![s] = live[s]]
        /\ todo' = todo \ {s}
        /\ pc' = AfterSync(s)
    /\ UNCHANGED <<live, liveDir, durDir, position, barrier, owed, wave, created,
                   removed, opening, halted, history, faults>>

LandSyncDir ==
    /\ pc = "syncdir"
    /\ SyncDir
    /\ pc' = "landed"
    /\ UNCHANGED <<live, liveDir, position, barrier, owed, shape,
                   removed, opening, halted, history, faults>>

(* The barrier is whole again, the position moves past the wave, and only  *)
(* now do the session slices, the observer and the caller hear of it.      *)
Acknowledge ==
    /\ pc = "landed"
    /\ \E last \in Touched :
        /\ \A s \in Touched : s <= last
        /\ seg' = last
        /\ len' = Len(wave[last]) + IF last \in created THEN 0 ELSE len
        /\ LET line == wave[last][Len(wave[last])]
           IN  next' = line.seq + 1 /\ prev' = ChainHash(line)
    /\ acked' = acked \cup UNION {Range(wave[s]) : s \in Touched}
    /\ barrier' = "Whole"
    /\ pc' = "idle" /\ opening' = FALSE
    /\ wave' = NoWave /\ created' = {} /\ todo' = {}
    /\ UNCHANGED <<disk, owed, removed, halted, waves, failed, orphaned,
                   exposed, faults>>

(* What a failed wave leaves to restore. *)
Undoes == created

(* write_wave on an error of land: the segments the wave created are owed  *)
(* to restore, which runs at once.                                         *)
WaveFails ==
    /\ faults.fail > 0
    /\ faults' = [faults EXCEPT !.fail = @ - 1]
    /\ owed' = {Undoes}
    /\ pc' = "unlink" /\ removed' = FALSE
    /\ failed' = TRUE
    /\ wave' = NoWave /\ todo' = {} /\ created' = {}
    /\ UNCHANGED <<position, barrier, opening, halted, acked, waves, orphaned,
                   exposed>>

LandAppendFails ==
    /\ pc = "append"
    /\ \E s \in First(todo) :
        \E left \in PartlyAppended(live[s], wave[s]) :
            /\ live' = [live EXCEPT ![s] = left]
            /\ \/ liveDir' = liveDir \cup {s}
               \/ left = live[s] /\ liveDir' = liveDir
    /\ WaveFails
    /\ UNCHANGED <<durable, durDir>>

LandSyncFails ==
    /\ pc \in {"sync", "syncdir"}
    /\ WaveFails
    /\ UNCHANGED disk

-----------------------------------------------------------------------------
(* restore: remove the segments the failed wave created, then cut the      *)
(* segment it appended to back to len, each made durable.                  *)

Owed == CHOOSE segs \in owed : TRUE

(* remove_file, whose durability FaultFs takes as instant: under LazyDir   *)
(* the entry survives a power cut until the directory is synced.           *)
Unlink(s) ==
    /\ liveDir' = liveDir \ {s}
    /\ live' = [live EXCEPT ![s] = <<>>]
    /\ IF LazyDir /\ s \in durDir
       THEN UNCHANGED <<durDir, durable>>
       ELSE durDir' = durDir \ {s} /\ durable' = [durable EXCEPT ![s] = <<>>]

(* A wave that created any segment taken to have left the old one alone. *)
AfterUnlinkNoCut == IF Owed # {} THEN "restored" ELSE "cutback"

(* Where restore goes once no created segment is left. *)
AfterUnlink == IF seg \in Owed THEN "restored" ELSE "cutback"

RestoreUnlink ==
    /\ pc = "unlink"
    /\ LET left == Owed \cap liveDir IN
        IF left = {}
        THEN /\ pc' = IF removed THEN "unlinkdir" ELSE AfterUnlink
             /\ UNCHANGED <<disk, removed>>
        ELSE /\ \E s \in First(left) : Unlink(s)
             /\ pc' = pc /\ removed' = TRUE
    /\ UNCHANGED <<position, barrier, owed, shape, opening, halted, history, faults>>

RestoreSyncDir ==
    /\ pc = "unlinkdir"
    /\ SyncDir
    /\ pc' = AfterUnlink
    /\ UNCHANGED <<live, liveDir, position, barrier, owed, shape, removed, opening,
                   halted, history, faults>>

RestoreTruncate ==
    /\ pc = "cutback"
    /\ live' = [live EXCEPT ![seg] = Truncated(@, len)]
    /\ pc' = "cutsync"
    /\ UNCHANGED <<durable, liveDir, durDir, position, barrier, owed, shape, removed,
                   opening, halted, history, faults>>

RestoreSync ==
    /\ pc = "cutsync"
    /\ durable' = [durable EXCEPT ![seg] = live[seg]]
    /\ pc' = "restored"
    /\ UNCHANGED <<live, liveDir, durDir, position, barrier, owed, shape, removed,
                   opening, halted, history, faults>>

(* finish_unwind mends the barrier.  Inside open the failed wave was the   *)
(* log_truncated record, and open answers its error.                       *)
RestoreDone ==
    /\ pc = "restored"
    /\ barrier' = "Whole" /\ owed' = {}
    /\ pc' = IF opening THEN "closed" ELSE "idle"
    /\ opening' = FALSE
    /\ UNCHANGED <<disk, position, shape, removed, halted, history, faults>>

(* A restore that fails stays owed; the caller hears the error. *)
RestoreFails ==
    /\ pc \in {"unlink", "unlinkdir", "cutback", "cutsync"}
    /\ faults.fail > 0
    /\ faults' = [faults EXCEPT !.fail = @ - 1]
    /\ IF opening
       THEN /\ pc' = "closed" /\ opening' = FALSE /\ orphaned' = TRUE
            /\ owed' = {} /\ barrier' = "Whole"
       ELSE pc' = "idle" /\ UNCHANGED <<opening, orphaned, owed, barrier>>
    /\ UNCHANGED <<disk, position, shape, removed, halted, acked, waves, failed,
                   exposed>>

-----------------------------------------------------------------------------
(* open: take the writer lock, read, judge and repair the last segment.    *)

LastSeg == Max(liveDir)
PriorSeg == Max(liveDir \ {LastSeg})

(* probe_version: with more than one segment, the first line of the first  *)
(* must carry a version.                                                   *)
ProbeRefuses ==
    /\ liveDir # {LastSeg}
    /\ LET cells == live[Min(liveDir)] IN
        \E i \in DOMAIN cells :
            /\ cells[i].whole /\ \A j \in 1 .. i - 1 : ~cells[j].whole
            /\ ~CarriesEnvelope(cells, i)

(* boundary: the chain state entering the last segment, off the last line  *)
(* of the one before it.                                                   *)
BoundaryRefuses ==
    /\ liveDir # {LastSeg}
    /\ LET i == LastLine(live[PriorSeg]) IN
        ~(i > 0 /\ CarriesEnvelope(live[PriorSeg], i))

Boundary ==
    IF liveDir = {LastSeg}
    THEN [prev |-> GENESIS_PREV, next |-> 0]
    ELSE LET cell == live[PriorSeg][LastLine(live[PriorSeg])]
         IN  [prev |-> ChainHash(cell), next |-> cell.seq + 1]

Valid == ValidLen(live[LastSeg], Boundary)

OpenRefuses ==
    /\ liveDir # {}
    /\ IF ProbeRefuses \/ BoundaryRefuses
       THEN TRUE
       ELSE HistoryAfter(live[LastSeg], Valid)

(* A new handle: no failed wave, nothing owed, an untripped halt. *)
NewHandle ==
    /\ barrier' = "Whole" /\ owed' = {} /\ removed' = FALSE
    /\ wave' = NoWave /\ todo' = {} /\ created' = {}
    /\ halted' = FALSE /\ failed' = FALSE

OpenEmpty ==
    /\ pc = "closed" /\ liveDir = {}
    /\ NewHandle
    /\ seg' = 0 /\ len' = 0 /\ next' = 0 /\ prev' = GENESIS_PREV
    /\ pc' = "idle" /\ opening' = FALSE
    /\ UNCHANGED <<disk, acked, waves, orphaned, exposed, faults>>

OpenRefused ==
    /\ pc = "closed" /\ OpenRefuses
    /\ pc' = "refused"
    /\ UNCHANGED <<disk, position, barrier, owed, shape, removed, opening, halted,
                   history, faults>>

(* recover_tail's reading half.  A segment with nothing valid in it is to  *)
(* be removed, and the position falls back to the end of the segment       *)
(* before it, or to the first segment of an empty ledger.                  *)
Open ==
    /\ pc = "closed" /\ liveDir # {} /\ ~OpenRefuses
    /\ NewHandle
    /\ LET n == Valid
           total == Len(live[LastSeg])
           gone == n = 0 /\ n < total
       IN  /\ seg' = IF ~gone THEN LastSeg ELSE IF liveDir = {LastSeg} THEN 0 ELSE PriorSeg
           /\ len' = IF ~gone THEN n ELSE IF liveDir = {LastSeg} THEN 0 ELSE Len(live[PriorSeg])
           /\ next' = Boundary.next + n
           /\ prev' = IF n = 0 THEN Boundary.prev ELSE ChainHash(live[LastSeg][n])
           /\ pc' = IF n < total THEN "trunc" ELSE "idle"
           /\ opening' = (n < total)
    /\ UNCHANGED <<disk, acked, waves, orphaned, exposed, faults>>

(* The segment recovery removes is past the position it fell back to, or   *)
(* the only one of an empty ledger.                                        *)
Emptied == seg # LastSeg \/ len = 0

RecoverTruncate ==
    /\ pc = "trunc"
    /\ live' = [live EXCEPT ![LastSeg] = Truncated(@, IF Emptied THEN 0 ELSE len)]
    /\ pc' = "truncsync"
    /\ UNCHANGED <<durable, liveDir, durDir, position, barrier, owed, shape, removed,
                   opening, halted, history, faults>>

(* resume: dropped bytes are recorded unless the ledger is empty. *)
AfterRepair == IF next = 0 THEN "idle" ELSE "trunclog"

RecoverSync ==
    /\ pc = "truncsync"
    /\ durable' = [durable EXCEPT ![LastSeg] = live[LastSeg]]
    /\ pc' = IF Emptied THEN "remove" ELSE AfterRepair
    /\ UNCHANGED <<live, liveDir, durDir, position, barrier, owed, shape, removed,
                   opening, halted, history, faults>>

RecoverRemove ==
    /\ pc = "remove"
    /\ Unlink(LastSeg)
    /\ pc' = "removedir"
    /\ UNCHANGED <<position, barrier, owed, shape, removed, opening, halted,
                   history, faults>>

RecoverSyncDir ==
    /\ pc = "removedir"
    /\ SyncDir
    /\ pc' = AfterRepair
    /\ opening' = (next # 0)
    /\ UNCHANGED <<live, liveDir, position, barrier, owed, shape, removed, halted,
                   history, faults>>

(* append_log_truncated: a wave of one line, inside open. *)
LogTruncated(rolls) ==
    /\ pc = "trunclog" /\ next <= MaxSeq
    /\ StartWave(1, rolls)
    /\ UNCHANGED <<disk, position, owed, removed, opening, halted, faults,
                   acked, failed, orphaned, exposed>>

(* An operation of the repair fails: open answers the error. *)
RecoverFails ==
    /\ pc \in {"trunc", "truncsync", "remove", "removedir"}
    /\ faults.fail > 0
    /\ faults' = [faults EXCEPT !.fail = @ - 1]
    /\ pc' = "closed" /\ opening' = FALSE
    /\ UNCHANGED <<disk, position, barrier, owed, shape, removed, halted, history>>

-----------------------------------------------------------------------------
(* The world around the handle.                                            *)

(* The audit thread finds the chain broken (ChainHalt::trip). *)
Trip ==
    /\ pc # "closed" /\ pc # "refused" /\ ~opening /\ ~halted
    /\ halted' = TRUE
    /\ UNCHANGED <<disk, pc, position, barrier, owed, shape, removed, opening,
                   history, faults>>

Close ==
    /\ pc = "idle" /\ owed = {}
    /\ pc' = "closed"
    /\ UNCHANGED <<disk, position, barrier, owed, shape, removed, opening, halted,
                   history, faults>>

(* The process ends, or the handle is dropped, wherever it is; the disk    *)
(* keeps what running processes see.                                       *)
Kill ==
    /\ pc # "closed" /\ pc # "refused" /\ faults.kill > 0
    /\ faults' = [faults EXCEPT !.kill = @ - 1]
    /\ pc' = "closed" /\ opening' = FALSE
    /\ orphaned' = (orphaned \/ barrier = "Broken")
    /\ barrier' = "Whole" /\ owed' = {} /\ wave' = NoWave /\ todo' = {} /\ created' = {}
    /\ UNCHANGED <<disk, position, removed, halted, acked, waves, failed, exposed>>

(* Power is lost: each file keeps its durable cells and some of what was   *)
(* not yet synced; an entry that was not synced is gone, or under LazyDir  *)
(* may be either.                                                          *)
PowerCut ==
    /\ pc # "refused" /\ faults.cut > 0
    /\ faults' = [faults EXCEPT !.cut = @ - 1]
    /\ \E kept \in SUBSET (IF LazyDir THEN liveDir \cup durDir ELSE durDir) :
        /\ LazyDir \/ kept = durDir
        /\ liveDir \cap durDir \subseteq kept
        /\ \E left \in [kept -> UNION {Settled(durable[s], live[s]) : s \in kept}] :
            /\ \A s \in kept : left[s] \in Settled(durable[s], live[s])
            /\ live' = [s \in Names |-> IF s \in kept THEN left[s] ELSE <<>>]
            /\ durable' = live'
        /\ liveDir' = kept /\ durDir' = kept
    /\ pc' = "closed" /\ opening' = FALSE
    /\ exposed' = (exposed \/ orphaned)
    /\ orphaned' = FALSE
    /\ barrier' = "Whole" /\ owed' = {} /\ wave' = NoWave /\ todo' = {} /\ created' = {}
    /\ UNCHANGED <<position, removed, halted, acked, waves, failed>>

-----------------------------------------------------------------------------
ClientStep ==
    \/ \E n \in 1 .. MaxWave :
        /\ waves < MaxWaves /\ next + n - 1 <= MaxSeq
        /\ \E rolls \in Rolls(n) : AppendAll(n, rolls)
    \/ FinishUnwind
    \/ Close

OpenStep == OpenEmpty \/ OpenRefused \/ Open

HandleStep ==
    \/ LandAppend \/ LandSync \/ LandSyncDir \/ Acknowledge
    \/ RestoreUnlink \/ RestoreSyncDir \/ RestoreTruncate \/ RestoreSync \/ RestoreDone
    \/ RecoverTruncate \/ RecoverSync \/ RecoverRemove \/ RecoverSyncDir
    \/ \E rolls \in Rolls(1) : LogTruncated(rolls)

FaultStep ==
    \/ LandAppendFails \/ LandSyncFails \/ RestoreFails \/ RecoverFails
    \/ Trip \/ Kill \/ PowerCut

Next == ClientStep \/ OpenStep \/ HandleStep \/ FaultStep

Spec == Init /\ [][Next]_vars

(* The process takes its next step, and a closed ledger is opened again. *)
FairSpec == Spec /\ WF_vars(HandleStep) /\ WF_vars(OpenStep)

-----------------------------------------------------------------------------
(* Properties.                                                             *)

OnDisk(plane, dir, cell) == \E s \in dir : \E i \in DOMAIN plane[s] : plane[s][i] = cell

(* Ok means every line is written and synced (jsonl.rs:13-14): at the step *)
(* that acknowledges a wave, each of its lines is on the durable plane,    *)
(* and a segment the wave created has a durable directory entry.           *)
OkMeansSynced ==
    [][acked' # acked =>
        \A s \in Touched :
            /\ Range(wave[s]) \subseteq Range(durable[s])
            /\ s \in created => s \in durDir]_vars

(* What makes OkMeansSynced hold: how far each phase of land has brought   *)
(* the wave, segment by segment.                                           *)
Holds(plane, s) == Range(wave[s]) \subseteq Range(plane[s])

WaveProgress ==
    /\ pc = "append" => \A s \in Touched \ todo : s \in liveDir /\ Holds(live, s)
    /\ pc \in {"sync", "syncdir", "landed"} =>
          \A s \in Touched : s \in liveDir /\ Holds(live, s)
    /\ pc = "sync" => \A s \in Touched \ todo : Holds(durable, s)
    /\ pc \in {"syncdir", "landed"} => \A s \in Touched : Holds(durable, s)
    /\ pc = "landed" => Touched \cap created \subseteq durDir

(* Every line append_all answered Ok for is on the durable plane, under a  *)
(* durable directory entry, at every moment after the answer: whatever     *)
(* operation fails and whenever power is cut (barrier.rs: every seq a      *)
(* handle answered Ok for survives a reopen).  The exception is a handle   *)
(* that went away with a failed wave still on the disk; see AckedReadable. *)
AckedDurable ==
    ~orphaned /\ ~exposed => \A cell \in acked : OnDisk(durable, liveDir \cap durDir, cell)

(* The same for what running processes read, and here also after a handle  *)
(* died in the middle of a wave or of its unwind, as long as power stays.  *)
AckedReadable ==
    ~exposed => \A cell \in acked : OnDisk(live, liveDir, cell)

(* Barrier::Whole means the in-memory position is the end of what the      *)
(* segments hold: the segment the next line goes to ends at seg_len, no    *)
(* segment lies past it, and next_seq is its name plus its lines.  Again,  *)
(* until a handle goes away with a failed wave still on the disk.          *)
PositionIsEnd ==
    ~orphaned /\ ~exposed /\ pc = "idle" /\ barrier = "Whole" =>
        /\ Len(live[seg]) = len
        /\ len > 0 => seg \in liveDir
        /\ \A s \in liveDir : s <= seg
        /\ next = seg + len

(* No failure, kill or power cut leaves a ledger that open refuses: what   *)
(* they leave is always a torn tail (open.rs, recover_tail), with the same *)
(* exception.                                                              *)
NeverRefused == ~orphaned /\ ~exposed => pc # "refused"

(* However the last handle ended, opening comes to a usable handle.        *)
OpensAgain == (pc = "closed") ~> (pc = "idle")

(* barrier.rs:9-10, read without exception: every seq a handle answered    *)
(* Ok for survives a reopen, so the lines are there ...                    *)
AckedSurvives == \A cell \in acked : OnDisk(live, liveDir, cell)

(* ... and the reopen that reads them is not refused.                      *)
AckedReopens == pc = "refused" => acked = {}

(* What the module documentation of storage::jsonl says: a handle one of   *)
(* whose waves failed acknowledges no later wave (jsonl.rs:14-16).         *)
NoWaveAfterFailure == [][acked' # acked => ~failed]_vars
=============================================================================
