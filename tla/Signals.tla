------------------------------ MODULE Signals ------------------------------
(***************************************************************************)
(* Signals between residents: the room queues and who holds them           *)
(* (accounting::worker::rooms), the inbox and the mailslot                 *)
(* (collab::inbox), a run's signal desk (collab::signal_desk) with its     *)
(* wait for a reply (collab::reply_wait), the safe points that ask it      *)
(* (driving::lane::interrupting), the post to the ledger and the delivery  *)
(* that follows it, and the fold a restart rebuilds the queues with.       *)
(*                                                                         *)
(* A signal is its place in `sent', the ledger's signal_enqueued lines, so *)
(* ledger order is the order of the numbers and 0 is no signal.  A posted  *)
(* line is on the ledger at once; what it sent reaches its room when the   *)
(* accounting thread shows the line, a step of its own.                    *)
(*                                                                         *)
(* Every id is minted once and every path that reads a slot empties it, so *)
(* a queue meets no id twice and its memory of keys (module EventQueue)    *)
(* never decides here; PlacedOnce checks that.  The person's interrupts    *)
(* and a room's policy slot appear as safe points that do not ask the      *)
(* desk.  Knocks are left out: a run may be dispatched at any time.        *)
(***************************************************************************)
EXTENDS Integers, SequencesExt, FiniteSetsExt

CONSTANTS
    Rooms, Runs, NoRun,
    RoomOf,      \* the room each run works in
    Kinds,       \* the signals that are sent: "steer", "mention", "blank"
    Capacity,    \* INBOX_CAPACITY, of each line and of the slot
    Bandwidth,   \* SIGNAL_BANDWIDTH
    Patience,    \* PATIENCE_MS, in ticks
    MaxSends,    \* signals sent
    MaxCrashes,  \* restarts
    PostFails    \* the lines whose post may be refused

Posts == {"enqueued", "consumed", "unreadable", "wait_started", "wait_ended", "wait_left"}
ASSUME SignalsAssumption ==
    /\ RoomOf \in [Runs -> Rooms] /\ NoRun \notin Runs /\ Rooms \cap Runs = {}
    /\ Kinds \subseteq {"steer", "mention", "blank"} /\ PostFails \subseteq Posts
    /\ Bandwidth \in Nat \ {0} /\ Patience \in Nat \ {0}
    /\ Capacity \in Nat /\ MaxSends \in Nat /\ MaxCrashes \in Nat

VARIABLES
    sent,      \* the ledger's signal_enqueued lines
    consumed,  \* the signals with a signal_consumed line
    waits,     \* the ledger's wait lines, by the signal that asked
    relayed,   \* on the ledger, not yet shown to the rooms
    holder,    \* RoomQueue: the run a room's queue is lent to
    box,       \* the inbox at home in a room, or lent to a run's desk
    slot,      \* Mailslot, by the holder
    held,      \* SignalDesk.held: taken, not yet recorded as consumed
    wait,      \* SignalDesk.waiting
    stash,     \* Interrupting.held: taken in a back-off
    at,        \* where each run is
    dropped,   \* history: let go of unread, without a consumed line
    crashes

ledger == <<sent, consumed, waits>>
desks == <<slot, held, wait, stash>>
vars == <<ledger, relayed, holder, box, desks, at, dropped, crashes>>

Ids == DOMAIN sent
NoWait == [id |-> 0, left |-> -1, kept |-> 0]
EmptyBox == [returned |-> <<>>, urgent |-> <<>>, ordinary |-> <<>>]
Out == {"new", "gone"}
Places == Out \cup {"assemble", "asking", "call", "answering", "backoff", "wave", "boundary",
                    "tools", "tool", "spawn", "home"}

TypeOK ==
    /\ sent \in Seq([from : Rooms, to : Rooms, kind : Kinds])
    /\ consumed \subseteq Ids /\ dropped \subseteq Ids
    /\ waits \in Seq(Seq({"started", "reply", "timeout", "left"})) /\ Len(waits) = Len(sent)
    /\ relayed \in Seq(Ids)
    /\ holder \in [Rooms -> Runs \cup {NoRun}]
    /\ box \in [Rooms \cup Runs -> [returned : Seq(Ids), urgent : Seq(Ids), ordinary : Seq(Ids)]]
    /\ slot \in [Runs -> Seq(Ids)] /\ held \in [Runs -> Seq(Ids)] /\ stash \in [Runs -> {0} \cup Ids]
    /\ wait \in [Runs -> [id : {0} \cup Ids, left : -1 .. Patience, kept : {0} \cup Ids]]
    /\ at \in [Runs -> Places]
    /\ crashes \in 0 .. MaxCrashes

Init ==
    /\ sent = <<>> /\ consumed = {} /\ waits = <<>> /\ relayed = <<>>
    /\ holder = [m \in Rooms |-> NoRun] /\ box = [o \in Rooms \cup Runs |-> EmptyBox]
    /\ slot = [r \in Runs |-> <<>>] /\ held = [r \in Runs |-> <<>>]
    /\ wait = [r \in Runs |-> NoWait] /\ stash = [r \in Runs |-> 0]
    /\ at = [r \in Runs |-> "new"]
    /\ dropped = {} /\ crashes = 0

-----------------------------------------------------------------------------
(* The inbox.                                                              *)

LaneOf(i) == IF sent[i].kind = "mention" THEN "ordinary" ELSE "urgent"
Lane(b, lane) == IF lane = "urgent" THEN b.urgent ELSE b.ordinary
Sheds(b, i) == Len(Lane(b, LaneOf(i))) + 1 > Capacity
DeliveredAhead(b, i) == IF LaneOf(i) = "urgent" THEN [b EXCEPT !.urgent = <<i>> \o @]
                        ELSE [b EXCEPT !.ordinary = <<i>> \o @]   \* last in, first out
Delivered(b, i) == IF LaneOf(i) = "urgent" THEN [b EXCEPT !.urgent = Append(@, i)]
                   ELSE [b EXCEPT !.ordinary = Append(@, i)]
GivenBack(b, signals) == [b EXCEPT !.returned = signals \o @]

(* The first n of a line, and the line past them.                          *)
First(line, n) == IF n <= 0 THEN <<>> ELSE SubSeq(line, 1, IF n < Len(line) THEN n ELSE Len(line))
Past(line, n) == IF n <= 0 THEN line ELSE SubSeq(line, n + 1, Len(line))

(* Inbox::pull: what was given back, then urgent, then ordinary. *)
Pulled(b) == LET u == Bandwidth - Len(b.returned)
             IN  First(b.returned, Bandwidth) \o First(b.urgent, u) \o First(b.ordinary, u - Len(b.urgent))
AfterPull(b) == LET u == Bandwidth - Len(b.returned)
                IN  [returned |-> Past(b.returned, Bandwidth), urgent |-> Past(b.urgent, u),
                     ordinary |-> Past(b.ordinary, u - Len(b.urgent))]

(* Inbox::take_steer: the first steer given back, or the urgent line's.    *)
Returns(b) == {k \in DOMAIN b.returned : LaneOf(b.returned[k]) = "urgent"}
FirstSteer(b) == IF Returns(b) # {} THEN b.returned[Min(Returns(b))]
                 ELSE IF b.urgent # <<>> THEN Head(b.urgent) ELSE 0
AfterSteer(b) == IF Returns(b) # {} THEN [b EXCEPT !.returned = RemoveAt(@, Min(Returns(b)))]
                 ELSE IF b.urgent # <<>> THEN [b EXCEPT !.urgent = Tail(@)] ELSE b

-----------------------------------------------------------------------------
(* The desk.                                                               *)

Answers(r, w, i) == w.id # 0 /\ sent[i].from = sent[w.id].to /\ sent[i].to = RoomOf[r]

(* Every signal of the slot into the lent queue. *)
CollectQueues(r, w) ==
    LET after[n \in 0 .. Len(slot[r])] ==
          IF n = 0 THEN [box |-> box[r], kept |-> w.kept, lost |-> {}]
          ELSE LET a == after[n - 1]
                   i == slot[r][n]
               IN  IF a.lost # {} \/ Sheds(a.box, i) THEN [a EXCEPT !.lost = @ \cup {i}]
                   ELSE [a EXCEPT !.box = Delivered(@, i)]
    IN  after[Len(slot[r])]

(* collect, and the loop of wait_out: the slot is emptied; the first reply *)
(* to the wait `w' is kept for it and every other signal is put in the     *)
(* lent queue, until one is shed, which loses the rest of what was taken.  *)
Collect(r, w) ==
    LET after[n \in 0 .. Len(slot[r])] ==
          IF n = 0 THEN [box |-> box[r], kept |-> w.kept, lost |-> {}]
          ELSE LET a == after[n - 1]
                   i == slot[r][n]
               IN  IF a.lost # {} THEN [a EXCEPT !.lost = @ \cup {i}]
                   ELSE IF a.kept = 0 /\ Answers(r, w, i) THEN [a EXCEPT !.kept = i]
                   ELSE IF Sheds(a.box, i) THEN [a EXCEPT !.lost = {i}]
                   ELSE [a EXCEPT !.box = Delivered(@, i)]
    IN  after[Len(slot[r])]

Emptied(r) == slot' = [slot EXCEPT ![r] = <<>>]

(* SignalDesk::take_steer, whose letter goes to the window or, in a        *)
(* back-off, to the stash.  A steer without words is consumed unread.      *)
TakeSteer(r, stashing) ==
    LET c == Collect(r, wait[r])
        s == IF c.lost = {} THEN FirstSteer(c.box) ELSE 0
        readable == s # 0 /\ sent[s].kind # "blank"
        unread == IF s = 0 \/ readable THEN {} ELSE {s}
    IN  /\ Emptied(r) /\ wait' = [wait EXCEPT ![r].kept = c.kept]
        /\ box' = [box EXCEPT ![r] = IF c.lost = {} THEN AfterSteer(c.box) ELSE c.box]
        /\ held' = [held EXCEPT ![r] = IF readable THEN Append(@, s) ELSE @]
        /\ stash' = [stash EXCEPT ![r] = IF stashing /\ readable THEN s ELSE @]
        /\ \/ consumed' = consumed \cup unread /\ dropped' = dropped \cup c.lost
           \/ /\ unread # {} /\ "unreadable" \in PostFails
              /\ dropped' = dropped \cup c.lost \cup unread /\ UNCHANGED consumed

(* Interrupting::ask.  What a back-off stashed comes first; the person or  *)
(* a policy may speak instead, and then the desk is not asked.             *)
Ask(r) ==
    \/ /\ stash[r] # 0 /\ stash' = [stash EXCEPT ![r] = 0]
       /\ UNCHANGED <<consumed, box, slot, held, wait, dropped>>
    \/ stash[r] = 0 /\ TakeSteer(r, FALSE)
    \/ stash[r] = 0 /\ UNCHANGED <<consumed, box, desks, dropped>>

-----------------------------------------------------------------------------
(* The accounting thread.                                                  *)

Move(r, place) == at' = [at EXCEPT ![r] = place]

(* RoomQueues::lend: the room's queue, or a spare nothing is put into. *)
Lend(r) ==
    /\ at[r] = "new" /\ relayed = <<>> /\ Move(r, "assemble")
    /\ IF holder[RoomOf[r]] = NoRun
       THEN /\ holder' = [holder EXCEPT ![RoomOf[r]] = r]
            /\ box' = [box EXCEPT ![r] = box[RoomOf[r]], ![RoomOf[r]] = EmptyBox]
       ELSE UNCHANGED <<holder, box>>
    /\ UNCHANGED <<ledger, relayed, desks, dropped, crashes>>

(* show_relayed, deliver_sent and RoomQueues::deliver: into the queue of a *)
(* room nobody works in, or the slot of the run that holds it.             *)
Deliver ==
    /\ relayed # <<>> /\ relayed' = Tail(relayed)
    /\ LET i == Head(relayed)
           m == sent[i].to
           r == holder[m]
           full == IF r = NoRun THEN Sheds(box[m], i) ELSE Len(slot[r]) >= Capacity
       IN  /\ dropped' = IF full THEN dropped \cup {i} ELSE dropped
           /\ box' = IF r = NoRun /\ ~full THEN [box EXCEPT ![m] = Delivered(@, i)] ELSE box
           /\ slot' = IF r # NoRun /\ ~full THEN [slot EXCEPT ![r] = Append(@, i)] ELSE slot
    /\ UNCHANGED <<ledger, holder, held, wait, stash, at, crashes>>

(* A room's queue taken home without what its holder held. *)
LeaveBare(r) ==
    /\ at[r] = "home" /\ relayed = <<>> /\ Move(r, "gone")
    /\ holder' = [m \in Rooms |-> IF holder[m] = r THEN NoRun ELSE holder[m]]
    /\ box' = [o \in DOMAIN box |-> IF o = r THEN EmptyBox
                                    ELSE IF o \in Rooms /\ holder[o] = r
                                    THEN GivenBack(box[r], slot[r]) ELSE box[o]]
    /\ Emptied(r) /\ held' = [held EXCEPT ![r] = <<>>]
    /\ wait' = [wait EXCEPT ![r] = NoWait] /\ stash' = [stash EXCEPT ![r] = 0]
    /\ UNCHANGED <<ledger, relayed, dropped, crashes>>

(* return_borrowed: take_inbox puts what the run held, the reply kept for  *)
(* its wait and what is still in the slot back at the front, and vacate    *)
(* takes the queue home; a spare has nothing to give back.                 *)
Leave(r) ==
    /\ at[r] = "home" /\ relayed = <<>> /\ Move(r, "gone")
    /\ LET kept == IF wait[r].kept = 0 THEN <<>> ELSE <<wait[r].kept>>
           back == GivenBack(box[r], held[r] \o kept \o slot[r])
       IN  box' = [o \in DOMAIN box |-> IF o = r THEN EmptyBox
                                        ELSE IF o \in Rooms /\ holder[o] = r THEN back ELSE box[o]]
    /\ holder' = [m \in Rooms |-> IF holder[m] = r THEN NoRun ELSE holder[m]]
    /\ Emptied(r) /\ held' = [held EXCEPT ![r] = <<>>]
    /\ wait' = [wait EXCEPT ![r] = NoWait] /\ stash' = [stash EXCEPT ![r] = 0]
    /\ UNCHANGED <<ledger, relayed, dropped, crashes>>

(* The process stops, and opens again on the fold of its ledger: what was  *)
(* enqueued and not consumed, in ledger order.  No run survives.           *)
Folded(m) ==
    LET after[n \in 0 .. Len(sent)] ==
          IF n = 0 THEN EmptyBox
          ELSE IF sent[n].to # m \/ n \in consumed \/ Sheds(after[n - 1], n) THEN after[n - 1]
          ELSE Delivered(after[n - 1], n)
    IN  after[Len(sent)]
Crash ==
    /\ crashes < MaxCrashes /\ crashes' = crashes + 1
    /\ relayed' = <<>> /\ holder' = [m \in Rooms |-> NoRun]
    /\ box' = [o \in DOMAIN box |-> IF o \in Rooms THEN Folded(o) ELSE EmptyBox]
    /\ dropped' = {i \in Ids \ consumed : i \notin Range(Lane(Folded(sent[i].to), LaneOf(i)))}
    /\ slot' = [r \in Runs |-> <<>>] /\ held' = [r \in Runs |-> <<>>]
    /\ wait' = [r \in Runs |-> NoWait] /\ stash' = [r \in Runs |-> 0]
    /\ at' = [r \in Runs |-> IF at[r] = "new" THEN "new" ELSE "gone"]
    /\ UNCHANGED ledger

(* The injected clock moves on. *)
Tick ==
    /\ \E r \in Runs : wait[r].left > 0
    /\ wait' = [r \in Runs |-> IF wait[r].left > 0 THEN [wait[r] EXCEPT !.left = @ - 1] ELSE wait[r]]
    /\ UNCHANGED <<ledger, relayed, holder, box, slot, held, stash, at, dropped, crashes>>

-----------------------------------------------------------------------------
(* One run between its safe points.                                        *)

(* ReplyWait::park fixes the deadline at the first stop, which is when the *)
(* wait's started line is posted.                                          *)
ParkedAgain(w) == [w EXCEPT !.left = Patience]   \* the deadline taken at every stop
Parked(w) == IF w.left < 0 THEN [w EXCEPT !.left = Patience] ELSE w
StartsAlways(w) == TRUE                          \* a started line at every stop
Starts(w) == w.left < 0
Logged(i, new) == waits' = [waits EXCEPT ![i] = @ \o new]

(* wait_out at the BeforeAssemble safe point, with its three posts.  A     *)
(* post that is refused lets the run go on, and the wait is kept.          *)
StartRefused(r) ==
    /\ at[r] = "assemble" /\ wait[r].id # 0 /\ Starts(wait[r]) /\ "wait_started" \in PostFails
    /\ Move(r, "asking")
    /\ UNCHANGED <<ledger, relayed, holder, box, desks, dropped, crashes>>

WaitOut(r) ==
    /\ at[r] = "assemble" /\ wait[r].id # 0 /\ Emptied(r)
    /\ LET id == wait[r].id
           w == Parked(wait[r])
           c == Collect(r, w)
           line == IF Starts(wait[r]) THEN <<"started">> ELSE <<>>
           over == c.lost = {} /\ (c.kept # 0 \/ w.left = 0)
           reply == IF c.kept = w.kept THEN {} ELSE {c.kept}   \* found now, kept nowhere yet
       IN  /\ box' = [box EXCEPT ![r] = c.box]
           /\ \/ /\ over /\ wait' = [wait EXCEPT ![r] = NoWait] /\ Move(r, "call")
                 /\ IF c.kept # 0
                    THEN Logged(id, line \o <<"reply">>)
                         /\ held' = [held EXCEPT ![r] = Append(@, c.kept)]
                    ELSE Logged(id, line \o <<"timeout">>) /\ UNCHANGED held
                 /\ UNCHANGED dropped
              \/ /\ ~over \/ "wait_ended" \in PostFails
                 /\ Logged(id, line) /\ wait' = [wait EXCEPT ![r] = w]
                 /\ IF c.lost = {} /\ ~over THEN UNCHANGED at ELSE Move(r, "asking")
                 /\ dropped' = dropped \cup c.lost \cup reply /\ UNCHANGED held
    /\ UNCHANGED <<sent, consumed, relayed, holder, stash, crashes>>

(* The run is stopped while it waits: wait_left. *)
StopWaiting(r) ==
    /\ at[r] = "assemble" /\ wait[r].left >= 0 /\ Move(r, "home")
    /\ box' = IF wait[r].kept = 0 THEN box
              ELSE [box EXCEPT ![r] = GivenBack(@, <<wait[r].kept>>)]
    /\ wait' = [wait EXCEPT ![r] = NoWait]
    /\ \/ Logged(wait[r].id, <<"left">>)
       \/ "wait_left" \in PostFails /\ UNCHANGED waits
    /\ UNCHANGED <<sent, consumed, relayed, holder, slot, held, stash, dropped, crashes>>

NotWaiting(r) ==
    /\ at[r] = "assemble" /\ wait[r].id = 0 /\ Move(r, "asking")
    /\ UNCHANGED <<ledger, relayed, holder, box, desks, dropped, crashes>>

(* The safe points that only ask, before the request is put together, at   *)
(* the wave, before a call of it, and before its lines are recorded.       *)
SafePoint(r) ==
    /\ \/ at[r] = "asking" /\ Move(r, "call")
       \/ at[r] = "boundary" /\ Move(r, "tools")
       \/ at[r] = "tools" /\ (Move(r, "tool") \/ Move(r, "spawn"))
       \/ at[r] = "spawn" /\ (Move(r, "assemble") \/ Move(r, "home"))
    /\ Ask(r)
    /\ UNCHANGED <<sent, waits, relayed, holder, crashes>>

(* BeforeCall: the request is already put together, so a steer that comes  *)
(* now joins the next one.                                                 *)
Call(r) ==
    /\ at[r] = "call" /\ Move(r, "answering") /\ Ask(r)
    /\ UNCHANGED <<sent, waits, relayed, holder, crashes>>

Answer(r) ==
    /\ at[r] = "answering" /\ Move(r, "wave")
    /\ UNCHANGED <<ledger, relayed, holder, box, desks, dropped, crashes>>

(* A call that fails is made again, at once or after a back-off, which     *)
(* asks for a halt and stashes what else it is told.                       *)
Fail(r) ==
    /\ at[r] = "answering" /\ (Move(r, "assemble") \/ Move(r, "backoff"))
    /\ UNCHANGED <<ledger, relayed, holder, box, desks, dropped, crashes>>
BackOff(r) ==
    /\ at[r] = "backoff"
    /\ \/ stash[r] = 0 /\ TakeSteer(r, TRUE) /\ UNCHANGED at
       \/ Move(r, "assemble") /\ UNCHANGED <<consumed, box, desks, dropped>>
    /\ UNCHANGED <<sent, waits, relayed, holder, crashes>>

(* SignalDesk::answered, at the BeforeWave safe point: one consumed line   *)
(* per signal held.  The answer itself is still among the run's held       *)
(* lines.  A refused post leaves the rest held.                            *)
Answered(r) ==
    /\ at[r] = "wave"
    /\ \/ /\ held[r] # <<>>
          /\ consumed' = consumed \cup {Head(held[r])}
          /\ held' = [held EXCEPT ![r] = Tail(@)] /\ UNCHANGED at
       \/ /\ held[r] = <<>> \/ "consumed" \in PostFails
          /\ Move(r, "boundary") /\ UNCHANGED <<consumed, held>>
    /\ UNCHANGED <<sent, waits, relayed, holder, box, slot, wait, stash, dropped, crashes>>

(* SignalDesk::send.  A second wait is refused before anything is posted.  *)
Send(r, to, kind, waiting) ==
    /\ at[r] = "tool" /\ Move(r, "tools") /\ Len(sent) < MaxSends
    /\ waiting => wait[r].id = 0
    /\ \/ /\ sent' = Append(sent, [from |-> RoomOf[r], to |-> to, kind |-> kind])
          /\ relayed' = Append(relayed, Len(sent'))
          /\ waits' = Append(waits, <<>>)
          /\ wait' = IF waiting THEN [wait EXCEPT ![r] = [NoWait EXCEPT !.id = Len(sent')]]
                     ELSE wait
       \/ "enqueued" \in PostFails /\ UNCHANGED <<sent, relayed, waits, wait>>
    /\ UNCHANGED <<consumed, holder, box, slot, held, stash, dropped, crashes>>

(* SignalDesk::pull.  The rows join the window with the wave's results. *)
Pull(r) ==
    /\ at[r] = "tool" /\ Move(r, "tools") /\ Emptied(r)
    /\ LET c == Collect(r, wait[r])
           whole == c.lost = {}
       IN  /\ wait' = [wait EXCEPT ![r].kept = c.kept]
           /\ box' = [box EXCEPT ![r] = IF whole THEN AfterPull(c.box) ELSE c.box]
           /\ held' = [held EXCEPT ![r] = IF whole THEN @ \o Pulled(c.box) ELSE @]
           /\ dropped' = dropped \cup c.lost
    /\ UNCHANGED <<ledger, relayed, holder, stash, crashes>>

(* A cancel or a failure ends the run where it is.                         *)
End(r) ==
    /\ at[r] \notin Out \cup {"home"} /\ Move(r, "home")
    /\ UNCHANGED <<ledger, relayed, holder, box, desks, dropped, crashes>>

Drives(r) ==
    \/ StartRefused(r) \/ WaitOut(r) \/ StopWaiting(r) \/ NotWaiting(r) \/ SafePoint(r) \/ Call(r)
    \/ Answer(r) \/ Fail(r) \/ BackOff(r) \/ Answered(r) \/ Pull(r) \/ End(r)
    \/ \E to \in Rooms, kind \in Kinds, waiting \in BOOLEAN : Send(r, to, kind, waiting)
Over == (\A r \in Runs : at[r] = "gone") /\ relayed = <<>> /\ UNCHANGED vars

Next == (\E r \in Runs : Lend(r) \/ Drives(r) \/ Leave(r)) \/ Deliver \/ Tick \/ Crash \/ Over

Spec == Init /\ [][Next]_vars

(* The clock runs, and a waiting run keeps asking it. *)
FairSpec == Spec /\ WF_vars(Tick) /\ \A r \in Runs : WF_vars(WaitOut(r)) /\ WF_vars(Leave(r))
                 /\ WF_vars(Deliver)

-----------------------------------------------------------------------------
(* Properties.                                                             *)

KeptReply(r) == IF wait[r].kept = 0 THEN <<>> ELSE <<wait[r].kept>>

(* The lines a signal can stand in, each with who keeps it.                *)
Lines == ((Rooms \cup Runs) \X {"returned", "urgent", "ordinary"})
           \cup (Runs \X {"slot", "held", "kept"}) \cup {<<NoRun, "relayed">>}
Standing(p) ==
    CASE p[2] = "relayed" -> relayed
      [] p[2] = "slot" -> slot[p[1]]
      [] p[2] = "held" -> held[p[1]]
      [] p[2] = "kept" -> KeptReply(p[1])
      [] OTHER -> box[p[1]][p[2]]
Spots(i) == UNION {{<<p, k>> : k \in {k \in DOMAIN Standing(p) : Standing(p)[k] = i}} : p \in Lines}

(* A signal on the ledger stands in exactly one place of the city's memory *)
(* - on its way, in a queue, in a slot, at a desk - until it is consumed,  *)
(* whoever leaves, cancels, fails or restarts, and in none afterwards; the *)
(* only others are those a full line shed or a refused post let go of      *)
(* (rooms.rs, SignalDesk::take_inbox, CollaborationFold::settle).          *)
PlacedOnce == \A i \in Ids : Cardinality(Spots(i)) = IF i \in consumed \cup dropped THEN 0 ELSE 1

(* Until they are taken, signals stand in the order of the ledger: what is *)
(* on its way to the rooms is newer than what stands in a slot, which is   *)
(* newer than everything its run was lent or has taken (the two lines, the *)
(* signals given back, held, or kept for its wait), and each of the two    *)
(* lines is in order, whatever is delivered late, lent, left, shed or      *)
(* folded again.  It stops short of what a desk puts back: take_inbox puts *)
(* a slot's letters ahead of older ones in the lines, so the order of the  *)
(* signals given back among themselves and against the lines is not kept.  *)
Due(m, lane) == {i \in Ids : sent[i].to = m /\ LaneOf(i) = lane}
InLine(m, lane) ==
    LET r == holder[m]
        queue == Lane(box[IF r = NoRun THEN m ELSE r], lane)
        line == queue \o (IF r = NoRun THEN <<>> ELSE slot[r]) \o relayed
        waiting == {k \in DOMAIN line : k <= Len(queue) \/ line[k] \in Due(m, lane)}
    IN  \A j, k \in waiting : j < k => line[j] < line[k]
Taken(o) == Range(box[o].returned) \cup IF o \in Runs THEN Range(held[o]) \cup Range(KeptReply(o)) ELSE {}
Coming(o) == Range(relayed) \cup IF o \in Runs THEN Range(slot[o]) ELSE {}
OrderKept ==
    /\ \A m \in Rooms, lane \in {"urgent", "ordinary"} : InLine(m, lane)
    /\ \A o \in Rooms \cup Runs : \A i \in Taken(o), j \in Coming(o) : i < j

(* Each wait the ledger holds started once, before its one end. *)
WaitsPair ==
    \A i \in Ids : waits[i] \in {<<>>, <<"started">>} \cup {<<"started", e>> : e \in {"reply", "timeout", "left"}}

(* A run that holds its room's queue is told that nobody replied only when *)
(* every reply sent after its question is still on its way, or it or a     *)
(* signal of that room before it was let go of unread (a desk that finds a *)
(* reply and then sheds, or is refused its line, loses it and has queued   *)
(* the next), however the reply's arrival fell between the send, the safe  *)
(* points and the deadline (collab D9, D15).                               *)
LetGo(r, w, i) == \E j \in dropped : j <= i /\ Answers(r, w, j)
ToldSilence ==
    \A r \in Runs : LET w == wait[r] IN
      /\ w.id # 0 /\ w.id \in DOMAIN waits' /\ waits'[w.id] # waits[w.id]
      /\ Last(waits'[w.id]) = "timeout" /\ holder[RoomOf[r]] = r
      => \A i \in Ids : i > w.id /\ Answers(r, w, i) => i \in Range(relayed) \/ LetGo(r, w, i)
TimeoutIsSilence == [][ToldSilence]_vars

(* A wait that started ends, whatever the others do: two runs that wait on *)
(* each other need no deadlock detection.                                  *)
WaitEnds == \A r \in Runs : wait[r].left >= 0 ~> wait[r].left < 0
=============================================================================
