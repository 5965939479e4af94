------------------------------ MODULE Permits ------------------------------
(***************************************************************************)
(* One endpoint's concurrency permits (gateway::concurrency): a record of  *)
(* how many calls may be in flight, how many are, how many successes have  *)
(* come in a row, and the instant before which the provider asked for      *)
(* nothing to be sent.  holdUntil = 0 stands for None: no instant is       *)
(* before 0.                                                               *)
(***************************************************************************)
EXTENDS Naturals, FiniteSetsExt

CONSTANTS
    Cap,          \* the configured max_in_flight
    WIDEN_AFTER   \* successes in a row that widen a narrowed limit by one

ASSUME PermitsAssumption == Cap \in Nat \ {0} /\ WIDEN_AFTER \in Nat \ {0}

PermitsType ==
    [limit : 1 .. Cap, inUse : Nat, streak : 0 .. WIDEN_AFTER - 1, holdUntil : Nat]

NewPermits == [limit |-> Cap, inUse |-> 0, streak |-> 0, holdUntil |-> 0]

(* Permits::take answers WaitUntil(holdUntil) ... *)
HoldsOff(p, now) == now < p.holdUntil

(* ... or Granted, or Full. *)
Grants(p, now) == ~HoldsOff(p, now) /\ p.inUse < p.limit

Taken(p) == [p EXCEPT !.inUse = @ + 1]

(* give_back saturates at zero. *)
GivenBack(p) == [p EXCEPT !.inUse = IF @ = 0 THEN 0 ELSE @ - 1]

(* The latest Retry-After kept, not the one that ends last. *)
RateLimitedForgets(p, now, waits) ==
    [limit |-> Max({p.limit \div 2, 1}), inUse |-> p.inUse, streak |-> 0,
     holdUntil |-> IF waits = {} THEN p.holdUntil ELSE Max({now + wait : wait \in waits})]

(* A 429 halves the limit, and holds off when the provider said for how    *)
(* long; waits = {} is a 429 without Retry-After.                          *)
RateLimited(p, now, waits) ==
    [limit |-> Max({p.limit \div 2, 1}), inUse |-> p.inUse, streak |-> 0,
     holdUntil |-> Max({p.holdUntil} \cup {now + wait : wait \in waits})]

(* After WIDEN_AFTER successes in a row the limit grows by one, but never  *)
(* while the endpoint holds off.                                           *)
Succeeded(p, now) ==
    LET widens == p.streak + 1 >= WIDEN_AFTER /\ p.holdUntil <= now /\ p.limit < Cap
    IN  [limit |-> IF widens THEN p.limit + 1 ELSE p.limit,
         inUse |-> p.inUse,
         streak |-> IF widens THEN 0
                    ELSE IF p.streak + 1 < WIDEN_AFTER THEN p.streak + 1 ELSE p.streak,
         holdUntil |-> p.holdUntil]
=============================================================================
