----------------------------- MODULE EventQueue -----------------------------
(***************************************************************************)
(* One event queue (storage::queue) and its memory of admitted keys.  The  *)
(* time an enqueue is called with is the signal's own stamp (Inbox::       *)
(* deliver), the moment its sender was dispatched: at or before the clock, *)
(* and in no order.                                                        *)
(***************************************************************************)
EXTENDS Integers, Sequences

CONSTANTS
    Keys,
    QueueCapacity,
    Window,   \* IDEM_WINDOW_MS
    MaxClock  \* the instance's last moment

ASSUME QueueAssumption ==
    QueueCapacity \in Nat /\ Window \in Nat \ {0} /\ MaxClock \in Nat

VARIABLES
    items,   \* the keys waiting, oldest first
    seen,    \* the stamp each key was admitted with, Never when unknown
    clock,
    last,    \* history: the stamp of each key's latest admission
    moment,  \* history: the clock at each key's latest admission
    peak     \* history: the latest stamp any enqueue has had since

queueVars == <<items, seen, clock, last, moment, peak>>

Never == -1
Stamps == Nat \cup {Never}

QueueTypeOK ==
    /\ items \in Seq(Keys) /\ Len(items) <= QueueCapacity
    /\ seen \in [Keys -> Stamps] /\ clock \in Nat
    /\ last \in [Keys -> Stamps] /\ moment \in [Keys -> Stamps] /\ peak \in [Keys -> Stamps]

QueueInit ==
    /\ items = <<>> /\ seen = [k \in Keys |-> Never] /\ clock = 0
    /\ last = [k \in Keys |-> Never] /\ moment = [k \in Keys |-> Never]
    /\ peak = [k \in Keys |-> Never]

(* A key forgotten a moment early. *)
KeptShort(now) == [k \in Keys |-> IF now >= Window - 1 /\ seen[k] <= now - Window + 1
                                  THEN Never ELSE seen[k]]

(* forget_stale: the keys admitted a window ago or more are dropped. *)
Kept(now) == [k \in Keys |-> IF now >= Window /\ seen[k] <= now - Window THEN Never ELSE seen[k]]

Later(now) == [k \in Keys |-> IF peak[k] < now THEN now ELSE peak[k]]

(* kernel::backpressure::admit, for an item of cost one. *)
Admits == Len(items) + 1 <= QueueCapacity

(* A repeat is dropped, and a new key is admitted if there is room for it  *)
(* and shed, unremembered, if not.                                         *)
Enqueue(key, now) ==
    /\ now <= clock /\ UNCHANGED clock
    /\ IF Kept(now)[key] = Never /\ Admits
       THEN /\ items' = Append(items, key)
            /\ seen' = [Kept(now) EXCEPT ![key] = now]
            /\ last' = [last EXCEPT ![key] = now] /\ moment' = [moment EXCEPT ![key] = clock]
            /\ peak' = [Later(now) EXCEPT ![key] = now]
       ELSE seen' = Kept(now) /\ peak' = Later(now) /\ UNCHANGED <<items, last, moment>>

Consume ==
    /\ items # <<>> /\ items' = Tail(items)
    /\ UNCHANGED <<seen, clock, last, moment, peak>>

QueueTick ==
    /\ clock < MaxClock /\ clock' = clock + 1
    /\ UNCHANGED <<items, seen, last, moment, peak>>

QueueNext == (\E key \in Keys, now \in 0 .. MaxClock : Enqueue(key, now)) \/ Consume \/ QueueTick

QueueSpec == QueueInit /\ [][QueueNext]_queueVars

-----------------------------------------------------------------------------

(* A key is remembered, whether or not its item was taken, until an        *)
(* enqueue comes whose stamp is a whole window past the key's admission:   *)
(* stamps that go back and forth never make the queue forget sooner.       *)
RememberedForWindow ==
    \A k \in Keys : last[k] # Never /\ peak[k] < last[k] + Window => seen[k] = last[k]

(* A key is remembered for a window after the moment it was admitted. *)
RecognisedInWindow ==
    \A k \in Keys : moment[k] # Never /\ clock < moment[k] + Window => seen[k] # Never
=============================================================================
