------------------------------- MODULE Gate -------------------------------
(***************************************************************************)
(* One endpoint's gate (gateway::endpoint::permit): the threads of the     *)
(* calls that pass it, the lock and the condition variable they share, the *)
(* ticket queue, the permits and the prefix hold.                          *)
(*                                                                         *)
(* An action is what a thread does while it holds the lock, or between two *)
(* holds of it.  The code reads the clock before it takes the lock in four *)
(* places and hands that instant in: stamp keeps it, and any thread may    *)
(* run in between.  It drops the lock before notify_all, so a thread that  *)
(* still has to notify is in `notifying'.  A ticket is named by the call   *)
(* that holds it.  Values a call no longer needs are reset.                *)
(***************************************************************************)
EXTENDS Permits, Holds, SequencesExt

CONSTANTS
    Calls,            \* threads that call the endpoint
    NoKey,            \* the key of a call the hold does not concern
    QUEUE_WAIT_MAX,   \* how long a call may wait in the queue
    RetryAfters,      \* the waits a provider may ask for
    MaxNow,           \* the clock stops here
    MaxStarts         \* calls made

ASSUME GateAssumption ==
    /\ NoKey \notin Keys /\ IsFiniteSet(Calls)
    /\ QUEUE_WAIT_MAX \in Nat \ {0} /\ MaxNow \in Nat /\ MaxStarts \in Nat
    /\ RetryAfters \subseteq Nat

VARIABLES
    now,        \* the monotonic clock
    permits, holds,
    waiting,    \* the tickets in arrival order
    pc,         \* where each call is
    key,        \* the prefix key it carries to the hold
    on, until,  \* the pre-warm it waits for or sends, and that one's bound
    bound,      \* how long its pre-warm may wait in the queue
    stamp,      \* the instant it read before it took the lock
    answer,     \* what the provider answered
    dying,      \* the calls whose thread is unwinding
    asleep,     \* the calls asleep on the condition variable ...
    wake,       \* ... and until when at the latest
    notifying,  \* the calls that left the lock and have yet to notify_all
    starts,     \* calls made so far
    quiet       \* history: the latest instant a provider asked to be left alone

gate == <<permits, holds, waiting>>
prewarm == <<on, until, bound>>
vars == <<now, gate, pc, key, prewarm, stamp, answer, dying, asleep, wake,
          notifying, starts, quiet>>

Stages == {"idle", "arrive", "held", "send", "enter", "ticket", "queued", "flight",
           "settle", "drop", "answered", "release"}

(* What a model call answers, as far as the permits look at it.  `retry'   *)
(* holds the Retry-After of a 429, if it had one.                          *)
Answer(kind, retry) == [kind |-> kind, retry |-> retry]
NoAnswer == Answer("none", {})
Answers == {Answer("ok", {}), Answer("err", {}), Answer("429", {})}
             \cup {Answer("429", {wait}) : wait \in RetryAfters}

TypeOK ==
    /\ now \in 0 .. MaxNow
    /\ permits \in PermitsType /\ holds \in HoldsType /\ waiting \in Seq(Calls)
    /\ pc \in [Calls -> Stages] /\ key \in [Calls -> Keys \cup {NoKey}]
    /\ on \in [Calls -> Nat] /\ until \in [Calls -> Nat] /\ bound \in [Calls -> Nat]
    /\ stamp \in [Calls -> Nat] /\ answer \in [Calls -> Answers \cup {NoAnswer}]
    /\ dying \subseteq Calls /\ asleep \subseteq Calls /\ wake \in [Calls -> Nat]
    /\ notifying \subseteq Calls /\ starts \in 0 .. MaxStarts /\ quiet \in Nat

Init ==
    /\ now = 0 /\ permits = NewPermits /\ holds = NewHolds /\ waiting = <<>>
    /\ pc = [c \in Calls |-> "idle"] /\ key = [c \in Calls |-> NoKey]
    /\ on = [c \in Calls |-> 0] /\ until = [c \in Calls |-> 0]
    /\ bound = [c \in Calls |-> 0] /\ stamp = [c \in Calls |-> 0]
    /\ answer = [c \in Calls |-> NoAnswer]
    /\ dying = {} /\ asleep = {} /\ wake = [c \in Calls |-> 0]
    /\ notifying = {} /\ starts = 0 /\ quiet = 0

(* The thread runs: it is awake and has no notify_all to make first. *)
Runs(c, stage) == pc[c] = stage /\ c \notin asleep \cup notifying

GoTo(c, stage) == pc' = [pc EXCEPT ![c] = stage]
Set(f, c, value) == [f EXCEPT ![c] = value]
NotifiesNext(c) == notifying' = notifying \cup {c}

(* Past the hold, a call carries no pre-warm: until is zero.  One that     *)
(* sends a pre-warm passes the queue for it first.                         *)
Prewarms(c) == until[c] # 0
ForgetsPrewarm(c) ==
    on' = Set(on, c, 0) /\ until' = Set(until, c, 0) /\ bound' = Set(bound, c, 0)

-----------------------------------------------------------------------------
(* through and hold: from the call to a ticket.                            *)

(* A call with a key reads the clock on its way to the hold; any other     *)
(* goes straight to the queue.                                             *)
Start(c, k) ==
    /\ Runs(c, "idle") /\ starts < MaxStarts
    /\ starts' = starts + 1
    /\ IF k = NoKey
       THEN GoTo(c, "enter") /\ UNCHANGED <<key, stamp>>
       ELSE GoTo(c, "arrive") /\ key' = Set(key, c, k) /\ stamp' = Set(stamp, c, now)
    /\ UNCHANGED <<now, gate, prewarm, answer, dying, asleep, wake, notifying, quiet>>

(* Gate::arrive: warm, the call goes on; a pre-warm in flight holds it;    *)
(* otherwise it is the one to send.                                        *)
Arrive(c) ==
    /\ Runs(c, "arrive")
    /\ LET k == key[c]
           h == Expired(holds, stamp[c])
           ahead == WarmingKey(h, k)
       IN  IF IsWarm(h, k, stamp[c])
           THEN holds' = StaysWarm(h, k, stamp[c]) /\ GoTo(c, "enter")
                  /\ UNCHANGED <<on, until>>
           ELSE IF ahead # {}
           THEN \E w \in ahead :
                  /\ holds' = h /\ GoTo(c, "held")
                  /\ on' = Set(on, c, w.id) /\ until' = Set(until, c, w.since + HOLD_MAX)
           ELSE /\ holds' = StartsWarming(h, k, stamp[c]) /\ GoTo(c, "send")
                /\ on' = Set(on, c, h.next) /\ until' = Set(until, c, stamp[c] + HOLD_MAX)
    /\ key' = Set(key, c, NoKey) /\ stamp' = Set(stamp, c, 0)
    /\ NotifiesNext(c)
    /\ UNCHANGED <<now, permits, waiting, bound, answer, dying, asleep, wake, starts, quiet>>

(* One turn of wait_for's loop: the call goes on once its pre-warm no      *)
(* longer holds, and sleeps until the pre-warm's bound otherwise.          *)
Wait(c) ==
    /\ Runs(c, "held")
    /\ holds' = Expired(holds, now)
    /\ IF Waits(holds', on[c])
       THEN /\ asleep' = asleep \cup {c} /\ wake' = Set(wake, c, until[c])
            /\ UNCHANGED <<pc, on, until, bound, notifying>>
       ELSE /\ GoTo(c, "enter") /\ ForgetsPrewarm(c) /\ NotifiesNext(c)
            /\ UNCHANGED <<asleep, wake>>
    /\ UNCHANGED <<now, permits, waiting, key, stamp, answer, dying, starts, quiet>>

(* send: the pre-warm may queue for what is left of its hold. *)
Send(c) ==
    /\ Runs(c, "send")
    /\ bound' = Set(bound, c, IF until[c] > now THEN until[c] - now ELSE 0)
    /\ GoTo(c, "enter")
    /\ UNCHANGED <<now, gate, key, on, until, stamp, answer, dying, asleep, wake,
                   notifying, starts, quiet>>

-----------------------------------------------------------------------------
(* admit: a ticket, then a permit or a refusal.                            *)

(* The clock is read before the lock is taken. *)
Enter(c) ==
    /\ Runs(c, "enter")
    /\ stamp' = Set(stamp, c, now) /\ GoTo(c, "ticket")
    /\ UNCHANGED <<now, gate, key, prewarm, answer, dying, asleep, wake, notifying,
                   starts, quiet>>

Deadline(c) == stamp[c] + IF Prewarms(c) THEN bound[c] ELSE QUEUE_WAIT_MAX

(* An unwinding thread gone without releasing the calls behind it. *)
AfterForgetful(c) == IF Prewarms(c) /\ c \notin dying THEN "answered" ELSE "idle"

(* Where a call goes when its admission failed, or its call has ended: a   *)
(* pre-warm still has the calls behind it to release.                      *)
After(c) == IF Prewarms(c) THEN "answered" ELSE "idle"

(* One turn of admit's loop over the queue q, which holds c's ticket: its  *)
(* time is up, or it is at the head and a permit is free, or it waits.     *)
Shed(c) == Deadline(c) <= now
Granted(c, q) == ~Shed(c) /\ Head(q) = c /\ Grants(permits, now)

(* A refused call's ticket left in the queue. *)
QueueKeepsShed(c, q) == IF Granted(c, q) THEN Tail(q) ELSE q

QueueAfter(c, q) ==
    IF Shed(c) THEN RemoveAt(q, CHOOSE i \in DOMAIN q : q[i] = c)
    ELSE IF Granted(c, q) THEN Tail(q) ELSE q

(* A head that waits for the instant the provider asked for sleeps until   *)
(* then; any other ticket until its time is up.                            *)
SleepsUntil(c, q) ==
    IF Head(q) = c /\ HoldsOff(permits, now)
    THEN Min({permits.holdUntil, Deadline(c)}) ELSE Deadline(c)

(* The next ticket not told that the head was granted. *)
TellsQueueOfShed(c, q) == Shed(c)

(* A ticket that leaves the queue makes the next one the head: notify_all. *)
TellsQueue(c, q) == Shed(c) \/ Granted(c, q)

Attempt(c, q) ==
    /\ waiting' = QueueAfter(c, q)
    /\ permits' = IF Granted(c, q) THEN Taken(permits) ELSE permits
    /\ notifying' = IF TellsQueue(c, q) THEN notifying \cup {c} ELSE notifying
    /\ IF Shed(c) \/ Granted(c, q)
       THEN /\ GoTo(c, IF Shed(c) THEN After(c) ELSE "flight")
            /\ stamp' = Set(stamp, c, 0)
            /\ UNCHANGED <<asleep, wake>>
       ELSE /\ GoTo(c, "queued")
            /\ asleep' = asleep \cup {c} /\ wake' = Set(wake, c, SleepsUntil(c, q))
            /\ UNCHANGED stamp
    /\ UNCHANGED <<now, holds, key, prewarm, answer, dying, starts, quiet>>

TakeTicket(c) == Runs(c, "ticket") /\ Attempt(c, Append(waiting, c))
TryAgain(c) == Runs(c, "queued") /\ Attempt(c, waiting)

-----------------------------------------------------------------------------
(* The call itself, and giving the permit back.                            *)

(* The provider answers or the wire times out, and the call reads the      *)
(* clock.  A wait that would end past the end of time is not asked for.    *)
Answered(c, a) ==
    /\ Runs(c, "flight")
    /\ \A wait \in a.retry : now + wait <= MaxNow
    /\ answer' = Set(answer, c, a) /\ stamp' = Set(stamp, c, now)
    /\ GoTo(c, "settle")
    /\ UNCHANGED <<now, gate, key, prewarm, dying, asleep, wake, notifying, starts, quiet>>

(* Admitted::settle. *)
Settle(c) ==
    /\ Runs(c, "settle")
    /\ LET a == answer[c] IN
        /\ permits' = IF a.kind = "ok" THEN Succeeded(permits, stamp[c])
                      ELSE IF a.kind = "429" THEN RateLimited(permits, stamp[c], a.retry)
                      ELSE permits
        /\ quiet' = Max({quiet} \cup {stamp[c] + wait : wait \in a.retry})
    /\ answer' = Set(answer, c, NoAnswer) /\ stamp' = Set(stamp, c, 0)
    /\ GoTo(c, "drop")
    /\ UNCHANGED <<now, holds, waiting, key, prewarm, dying, asleep, wake, notifying, starts>>

(* The permit lost with the thread. *)
PanicLeaks(c) ==
    /\ Runs(c, "flight")
    /\ dying' = dying \cup {c} /\ GoTo(c, After(c))
    /\ UNCHANGED <<now, gate, key, prewarm, stamp, answer, asleep, wake, notifying,
                   starts, quiet>>

(* The thread unwinds with the call in flight: nothing is settled. *)
Panic(c) ==
    /\ Runs(c, "flight")
    /\ dying' = dying \cup {c} /\ GoTo(c, "drop")
    /\ UNCHANGED <<now, gate, key, prewarm, stamp, answer, asleep, wake, notifying,
                   starts, quiet>>

(* Admitted::drop. *)
Drop(c) ==
    /\ Runs(c, "drop")
    /\ permits' = GivenBack(permits)
    /\ GoTo(c, After(c)) /\ NotifiesNext(c)
    /\ dying' = IF Prewarms(c) THEN dying ELSE dying \ {c}
    /\ UNCHANGED <<now, holds, waiting, key, prewarm, stamp, answer, asleep, wake, starts,
                   quiet>>

-----------------------------------------------------------------------------
(* The end of a pre-warm, however it went: Sending::settle or its drop.    *)

PrewarmEnds(c) ==
    /\ Runs(c, "answered")
    /\ stamp' = Set(stamp, c, now) /\ GoTo(c, "release")
    /\ UNCHANGED <<now, gate, key, prewarm, answer, dying, asleep, wake, notifying, starts,
                   quiet>>

(* The calls behind it go on, and so does this one unless it is unwinding. *)
Release(c) ==
    /\ Runs(c, "release")
    /\ holds' = SettledHold(holds, on[c], stamp[c])
    /\ GoTo(c, IF c \in dying THEN "idle" ELSE "enter")
    /\ ForgetsPrewarm(c) /\ stamp' = Set(stamp, c, 0) /\ dying' = dying \ {c}
    /\ NotifiesNext(c)
    /\ UNCHANGED <<now, permits, waiting, key, answer, asleep, wake, starts, quiet>>

-----------------------------------------------------------------------------
(* The condition variable and the clock.                                   *)

NotifyAll(c) ==
    /\ c \in notifying
    /\ notifying' = notifying \ {c}
    /\ asleep' = {} /\ wake' = [d \in Calls |-> 0]
    /\ UNCHANGED <<now, gate, pc, key, prewarm, stamp, answer, dying, starts, quiet>>

WakesUp(c) ==
    /\ c \in asleep
    /\ asleep' = asleep \ {c} /\ wake' = Set(wake, c, 0)
    /\ UNCHANGED <<now, gate, pc, key, prewarm, stamp, answer, dying, notifying, starts,
                   quiet>>

TimesOut(c) == wake[c] <= now /\ WakesUp(c)

Tick ==
    /\ now < MaxNow
    /\ now' = now + 1
    /\ UNCHANGED <<gate, pc, key, prewarm, stamp, answer, dying, asleep, wake, notifying,
                   starts, quiet>>

-----------------------------------------------------------------------------
(* What a thread does once it is given the processor and its answer. *)
Step(c) ==
    \/ Arrive(c) \/ Wait(c) \/ Send(c) \/ Enter(c) \/ TakeTicket(c) \/ TryAgain(c)
    \/ \E a \in Answers : Answered(c, a)
    \/ Settle(c) \/ Drop(c) \/ PrewarmEnds(c) \/ Release(c)
    \/ NotifyAll(c) \/ TimesOut(c)

Next ==
    \/ \E c \in Calls :
        \/ Step(c)
        \/ \E k \in Keys \cup {NoKey} : Start(c, k)
        \/ Panic(c)
        \/ WakesUp(c)   \* a wakeup nobody asked for
    \/ Tick

Spec == Init /\ [][Next]_vars

(* Every thread gets the processor, every request is answered or times out *)
(* on the wire, and time goes on until it stops.                           *)
FairSpec == Spec /\ WF_vars(Tick) /\ \A c \in Calls : WF_vars(Step(c))

-----------------------------------------------------------------------------
(* Properties.                                                             *)

InFlight == {c \in Calls : pc[c] \in {"flight", "settle", "drop"}}

(* The permits in use are the permits held: none leaks when a call fails,  *)
(* is shed or unwinds, and none is given back twice.                       *)
PermitsAreHeld == permits.inUse = Cardinality(InFlight)

(* Nobody sleeps through its turn: a call that could have the next permit, *)
(* or whose pre-warm has ended, is awake, is about to be notified, or has  *)
(* a wait that is over.  (A call between settle and drop notifies when it  *)
(* drops.)                                                                 *)
CouldGo(c) ==
    \/ pc[c] = "queued" /\ Head(waiting) = c /\ Grants(permits, now)
    \/ pc[c] = "held" /\ ~Waits(holds, on[c])

NoLostWakeup ==
    \A c \in asleep :
        CouldGo(c) => \/ wake[c] <= now
                      \/ notifying # {}
                      \/ \E d \in Calls : pc[d] = "drop"

(* A call that has its ticket is in the queue exactly as long as it waits  *)
(* for its turn: none is forgotten there, none waits outside it.           *)
QueueIsWaiting ==
    /\ \A c \in Calls : pc[c] = "queued" <=> \E i \in DOMAIN waiting : waiting[i] = c
    /\ \A i, j \in DOMAIN waiting : waiting[i] = waiting[j] => i = j

(* No permit is granted before an instant some provider asked to be left   *)
(* alone until, whatever other calls answered in the meantime.             *)
RetryAfterIsKept == [][permits'.inUse > permits.inUse => quiet <= now]_vars

(* A pre-warm stops holding the calls behind it only when its own sender   *)
(* is done with it, or HOLD_MAX after it was sent: the late end of an      *)
(* earlier pre-warm of the same key releases nobody.                       *)
HoldsToTheEnd ==
    [][\A w \in holds.warming \ holds'.warming :
        \/ w.since + HOLD_MAX <= now
        \/ \E c \in Calls : pc[c] = "release" /\ on[c] = w.id]_vars

(* Every call that was made comes to an end, and every call held is let    *)
(* go, even when the clock stands still and no wait ever runs out: the     *)
(* notifications alone are enough.                                         *)
EveryCallEnds == \A c \in Calls : pc[c] # "idle" ~> pc[c] = "idle"
=============================================================================
