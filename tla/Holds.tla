------------------------------- MODULE Holds -------------------------------
(***************************************************************************)
(* The prefix hold of one endpoint (gateway::hold): which call sends the   *)
(* one pre-warm of a cold prefix and which calls wait for it.  A hold is a *)
(* record: `warm' maps a key to the instant it is warm until (0: no mark), *)
(* `warming' is the set of pre-warms in flight, `next' the number of the   *)
(* next one.  How a pre-warm ended is only recorded, and left out.         *)
(***************************************************************************)
EXTENDS Naturals

CONSTANTS
    Keys,             \* prefix keys: account and pre-warm body, digested
    HOLD_MAX,         \* how long one pre-warm holds the calls behind it
    CACHE_LIFETIME    \* how long a key stays warm

ASSUME HoldsAssumption == HOLD_MAX \in Nat \ {0} /\ CACHE_LIFETIME \in Nat \ {0}

Warming == [key : Keys, id : Nat, since : Nat]
HoldsType == [warm : [Keys -> Nat], warming : SUBSET Warming, next : Nat]

NewHolds == [warm |-> [k \in Keys |-> 0], warming |-> {}, next |-> 0]

IsWarm(h, key, now) == now < h.warm[key]

(* Whether a pre-warm of this key is in flight, or this very pre-warm. *)
WarmingKey(h, key) == {w \in h.warming : w.key = key}
Waits(h, id) == \E w \in h.warming : w.id = id

(* The given pre-warms no longer hold, and their keys are warm from now;   *)
(* `marks' are the marks there were.                                       *)
Ended(h, marks, gone, now) ==
    [warm |-> [k \in Keys |->
                  IF \E w \in gone : w.key = k THEN now + CACHE_LIFETIME ELSE marks[k]],
     warming |-> h.warming \ gone,
     next |-> h.next]

(* Holds::expire: the pre-warms sent HOLD_MAX ago, and the marks that ran  *)
(* out.                                                                    *)
Expired(h, now) ==
    Ended(h, [k \in Keys |-> IF now < h.warm[k] THEN h.warm[k] ELSE 0],
          {w \in h.warming : w.since + HOLD_MAX <= now}, now)

(* Whatever pre-warm is in flight ended by a late answer. *)
SettledAny(h, id, now) == Ended(h, h.warm, h.warming, now)

(* Holds::settle: by number, so a late answer ends no later pre-warm. *)
SettledHold(h, id, now) == Ended(h, h.warm, {w \in h.warming : w.id = id}, now)

(* Holds::arrive on a warm key, and on a cold one nobody is warming. *)
StaysWarm(h, key, now) == [h EXCEPT !.warm[key] = now + CACHE_LIFETIME]
StartsWarming(h, key, now) ==
    [warm |-> h.warm,
     warming |-> h.warming \cup {[key |-> key, id |-> h.next, since |-> now]},
     next |-> h.next + 1]
=============================================================================
