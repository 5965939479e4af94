--------------------------- MODULE AccountRound ---------------------------
(***************************************************************************)
(* One account round (kernel::account_recovery): on which account of a     *)
(* provider one logical request goes out, and after a failed send whether  *)
(* it goes out again there, moves to another account, or stops.            *)
(*                                                                         *)
(* A round is a value; NextStep answers and changes nothing, Applied       *)
(* changes and answers nothing.  The counts are u32 and saturate.          *)
(***************************************************************************)
EXTENDS Integers, Sequences, FiniteSets

CONSTANTS
    Accounts,        \* the roster in priority order; fewer than two is a single account
    AccountRetries,  \* sends one account is given after its first
    Capped, Cap,     \* Retries::AtMost(Cap), or UntilHalted when not Capped
    CountMax,        \* where a count saturates (u32::MAX)
    NoAccount        \* the account of a single-account round

Listed == {Accounts[i] : i \in DOMAIN Accounts}
Several == Len(Accounts) >= 2

ASSUME RoundAssumption ==
    /\ Accounts \in Seq(Listed)
    /\ \A i, j \in DOMAIN Accounts : Accounts[i] = Accounts[j] => i = j
    /\ NoAccount \notin Listed
    /\ AccountRetries \in {1, 2}
    /\ Capped \in BOOLEAN /\ Cap \in Nat
    /\ CountMax \in Nat /\ Cap <= CountMax /\ AccountRetries + 1 < CountMax

(* A failure as the round reads it: AxError::retry and AxError::account.   *)
(* The constructors of the error give `advance' only beside `no'.          *)
Failure(retry, account) == [retry |-> retry, account |-> account]
Busy == Failure("yes", "keep")
Refused == Failure("no", "keep")
Unusable == Failure("no", "advance")
Lost == Failure("unknown", "keep")
Failures == {Busy, Refused, Unusable, Lost}

Rounds == [current : Listed \cup {NoAccount}, tried : SUBSET Listed,
           usable : SUBSET Listed, here : 0 .. CountMax, total : 0 .. CountMax]

(* The first account of S in roster order. *)
FirstOf(S) ==
    Accounts[CHOOSE i \in DOMAIN Accounts :
               Accounts[i] \in S /\ \A j \in DOMAIN Accounts : Accounts[j] \in S => i <= j]

(* start: the account held before opens the round while it is redeemable.  *)
CanStart(usable) == Several => usable # {}
Opening(usable, before) ==
    IF ~Several THEN NoAccount
    ELSE IF before \in usable THEN before ELSE FirstOf(usable)
Start(usable, before) ==
    LET account == Opening(usable, before)
    IN  [current |-> account, tried |-> {account} \ {NoAccount}, usable |-> usable,
         here |-> 1, total |-> 1]

Admits(sent) == Capped => sent <= Cap
Spare(r) == r.here <= AccountRetries

Step(act, to, why) == [act |-> act, to |-> to, why |-> why]
Stop(why) == Step("stop", NoAccount, why)
Resend(r) == IF Admits(r.total) THEN Step("resend", r.current, "none") ELSE Stop("cap")

(* Any other account taken for one not tried yet. *)
SwitchAnywhere(r) ==
    LET left == r.usable \ {r.current}
    IN  IF left = {} THEN Stop("exhausted")
        ELSE IF Admits(r.total) THEN Step("switch", FirstOf(left), "none")
        ELSE Stop("cap")

(* switch: running out is said before the ceiling is. *)
Switch(r) ==
    LET left == r.usable \ r.tried
    IN  IF left = {} THEN Stop("exhausted")
        ELSE IF Admits(r.total) THEN Step("switch", FirstOf(left), "none")
        ELSE Stop("cap")

NextStep(r, f) ==
    CASE ~Several /\ f.retry = "no"                                -> Stop("refused")
      [] ~Several /\ f.retry # "no"                                -> Resend(r)
      [] Several /\ f.retry = "unknown" /\ Spare(r)                -> Resend(r)
      [] Several /\ f.retry = "unknown" /\ ~Spare(r)               -> Stop("unknown")
      [] Several /\ f.retry # "unknown" /\ f.account = "advance"   -> Switch(r)
      [] Several /\ f = Busy /\ Spare(r)                           -> Resend(r)
      [] Several /\ f = Busy /\ ~Spare(r)                          -> Switch(r)
      [] Several /\ f = Refused                                    -> Stop("refused")

Count(n) == IF n < CountMax THEN n + 1 ELSE n

Applied(r, step) ==
    CASE step.act = "resend" ->
           [current |-> r.current, tried |-> r.tried, usable |-> r.usable,
            here |-> Count(r.here), total |-> Count(r.total)]
      [] step.act = "switch" ->
           [current |-> step.to, tried |-> r.tried \cup {step.to}, usable |-> r.usable,
            here |-> 1, total |-> Count(r.total)]
      [] step.act = "stop" -> r

(* The repair stage's send taken to be free with several accounts too. *)
RepairedUncounted(r) == r

(* The repair stage's send: with several accounts it spends the account's  *)
(* budget and the person's ceiling, with one it is let through uncounted.  *)
AdmitsRepair(r) == Several => Spare(r) /\ Admits(r.total)
Repaired(r) == IF Several THEN Applied(r, Step("resend", r.current, "none")) ELSE r
=============================================================================
