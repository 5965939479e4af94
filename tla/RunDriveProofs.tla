--------------------------- MODULE RunDriveProofs ---------------------------
(***************************************************************************)
(* Proofs about a driven run.                                              *)
(***************************************************************************)
EXTENDS RunDrive, FiniteSetTheorems, SequenceTheorems, WellFoundedInduction, TLAPS

-----------------------------------------------------------------------------
(* The account round.                                                      *)

(* A nonempty set of places of a sequence has a first one.                 *)
LEMMA FirstPlace ==
    ASSUME NEW S \in SUBSET Nat, S # {}
    PROVE  \E i \in S : \A j \in S : i <= j
<1> DEFINE R == OpToRel(<, Nat)
<1>1. R = {ss \in Nat \X Nat : ss[1] < ss[2]} BY Zenon DEF OpToRel
<1>2. IsWellFoundedOn(R, Nat) BY NatLessThanWellFounded, Zenon
<1> HIDE DEF R
<1>3. \E x \in S : \A y \in S : ~(<<y, x>> \in R) BY <1>2, WFMin
<1>4. \A x, y \in Nat : y < x => <<y, x>> \in R BY <1>1, Zenon
<1>5. PICK x \in S : \A y \in S : ~(<<y, x>> \in R) BY <1>3
<1>6. \A y \in S : ~(y < x) BY <1>4, <1>5
<1> QED BY <1>6

(* The first account of a set of listed accounts is one of the set.        *)
LEMMA FirstOfIn ==
    ASSUME NEW S \in SUBSET Listed, S # {}
    PROVE  FirstOf(S) \in S
<1> DEFINE I == {i \in DOMAIN Accounts : Accounts[i] \in S}
<1>1. I \in SUBSET Nat /\ I # {}
    BY RoundAssumption DEF Listed
<1>2. PICK i \in I : \A j \in I : i <= j
    BY <1>1, FirstPlace
<1>3. /\ i \in DOMAIN Accounts /\ Accounts[i] \in S
      /\ \A j \in DOMAIN Accounts : Accounts[j] \in S => i <= j
    BY <1>2
<1> QED
    BY <1>3 DEF FirstOf

(* A round that starts has sent nothing yet and stands on its one account. *)
LEMMA StartFacts ==
    ASSUME NEW usable \in SUBSET Listed, NEW before \in AllAccounts,
           ~Several => usable = {}, CanStart(usable), NEW r, r = Start(usable, before)
    PROVE  /\ r \in Rounds /\ r # NoRound /\ r.current \in AllAccounts
           /\ r.here = 1
           /\ Several => r.current \in Listed /\ r.tried = {r.current}
<1>1. Opening(usable, before) \in AllAccounts
      /\ (Several => Opening(usable, before) \in Listed)
    BY FirstOfIn DEF Opening, CanStart, AllAccounts
<1>2. 1 \in 0 .. CountMax
    BY RoundAssumption
<1>3. /\ r.current = Opening(usable, before) /\ r.tried = {Opening(usable, before)} \ {NoAccount}
      /\ r.here = 1
      /\ r = [current |-> Opening(usable, before), tried |-> {Opening(usable, before)} \ {NoAccount},
              usable |-> usable, here |-> 1, total |-> 1]
    BY DEF Start
<1>4. {Opening(usable, before)} \ {NoAccount} \in SUBSET Listed
    BY <1>1 DEF AllAccounts
<1>5. r \in Rounds
    BY <1>1, <1>2, <1>3, <1>4 DEF Rounds, AllAccounts
<1>6. r # NoRound
    BY <1>3 DEF NoRound
<1>7. Several => r.tried = {r.current}
    BY <1>1, <1>3, RoundAssumption
<1> QED
    BY <1>1, <1>3, <1>5, <1>6, <1>7

(* What a round answers to a failure: it stops, or it sends again on the   *)
(* account it is on, which has a send to spare if it is one of several, or *)
(* it moves to a usable account it has not tried.                          *)
Stays(r, step) == step.act = "resend" /\ step.to = r.current /\ (Several => Spare(r))
Moves(r, step) == step.act = "switch" /\ Several /\ step.to \in r.usable \ r.tried
Stopped(step) == step.act = "stop" /\ step.to = NoAccount

LEMMA NextStepFacts ==
    ASSUME NEW r \in Rounds, NEW f \in Failures, NEW step, step = NextStep(r, f)
    PROVE  /\ Stays(r, step) \/ Moves(r, step) \/ Stopped(step)
           /\ f = Refused => step = Stop("refused")
<1>1. \A why : Stopped(Stop(why))
    BY DEF Stop, Step, Stopped
<1>2. (Several => Spare(r)) => Stays(r, Resend(r)) \/ Stopped(Resend(r))
    BY <1>1 DEF Resend, Step, Stays
<1>3. Several => Moves(r, Switch(r)) \/ Stopped(Switch(r))
  <2>1. r.usable \ r.tried \in SUBSET Listed
      BY DEF Rounds
  <2>2. r.usable \ r.tried # {} => FirstOf(r.usable \ r.tried) \in r.usable \ r.tried
      BY <2>1, FirstOfIn
  <2> QED
      BY <2>2, <1>1 DEF Switch, Step, Moves
<1>4. CASE f = Busy
    BY <1>1, <1>2, <1>3, <1>4 DEF NextStep, Busy, Refused, Failure
<1>5. CASE f = Refused
    BY <1>1, <1>5 DEF NextStep, Busy, Refused, Failure
<1>6. CASE f = Unusable
    BY <1>1, <1>2, <1>3, <1>6 DEF NextStep, Busy, Refused, Unusable, Failure
<1>7. CASE f = Lost
    BY <1>1, <1>2, <1>3, <1>7 DEF NextStep, Busy, Refused, Lost, Failure
<1> QED
    BY <1>4, <1>5, <1>6, <1>7 DEF Failures

(* A round after the step it answered.                                     *)
LEMMA AppliedFacts ==
    ASSUME NEW r \in Rounds, NEW step, Stays(r, step) \/ Moves(r, step) \/ Stopped(step)
    PROVE  /\ Applied(r, step) \in Rounds
           /\ Stopped(step) => Applied(r, step) = r
           /\ Stays(r, step) => /\ Applied(r, step).current = r.current
                                /\ Applied(r, step).tried = r.tried
                                /\ Applied(r, step).here = Count(r.here)
           /\ Moves(r, step) => /\ Applied(r, step).current = step.to
                                /\ Applied(r, step).tried = r.tried \cup {step.to}
                                /\ Applied(r, step).here = 1
<1>1. /\ r.current \in Listed \cup {NoAccount} /\ r.tried \in SUBSET Listed
      /\ r.usable \in SUBSET Listed /\ r.here \in 0 .. CountMax /\ r.total \in 0 .. CountMax
    BY DEF Rounds
<1>2. \A n \in 0 .. CountMax : Count(n) \in 0 .. CountMax
    BY RoundAssumption DEF Count
<1>3. 1 \in 0 .. CountMax
    BY RoundAssumption
<1>4. CASE Stays(r, step)
  <2>1. Applied(r, step) = [current |-> r.current, tried |-> r.tried, usable |-> r.usable,
                            here |-> Count(r.here), total |-> Count(r.total)]
      BY <1>4 DEF Applied, Stays
  <2> QED
      BY <2>1, <1>1, <1>2, <1>4 DEF Rounds, Stays, Moves, Stopped
<1>5. CASE Moves(r, step)
  <2>1. Applied(r, step) = [current |-> step.to, tried |-> r.tried \cup {step.to},
                            usable |-> r.usable, here |-> 1, total |-> Count(r.total)]
      BY <1>5 DEF Applied, Moves
  <2>2. step.to \in Listed
      BY <1>1, <1>5 DEF Moves
  <2> QED
      BY <2>1, <2>2, <1>1, <1>2, <1>3, <1>5 DEF Rounds, Stays, Moves, Stopped
<1>6. CASE Stopped(step)
    BY <1>6 DEF Applied, Stopped, Stays, Moves
<1> QED
    BY <1>4, <1>5, <1>6

(* The repair stage's send, with several accounts, is one more here.       *)
LEMMA RepairedFacts ==
    ASSUME NEW r \in Rounds, AdmitsRepair(r)
    PROVE  /\ Repaired(r) \in Rounds /\ Repaired(r).current = r.current
           /\ Repaired(r).tried = r.tried
           /\ Several => Repaired(r).here = Count(r.here) /\ Spare(r)
<1>1. Several => Stays(r, Step("resend", r.current, "none"))
    BY DEF AdmitsRepair, Stays, Step
<1>2. CASE Several
    BY <1>1, <1>2, AppliedFacts DEF Repaired, AdmitsRepair
<1>3. CASE ~Several
    BY <1>3 DEF Repaired
<1> QED
    BY <1>2, <1>3

-----------------------------------------------------------------------------
(* The lines, and the barrier.                                             *)

(* The lines an action adds are lines.                                     *)
LEMMA LineType ==
    ASSUME NEW kind \in Kinds, NEW n \in Nat, NEW i \in Nat
    PROVE  Line(kind, n, i) \in Lines /\ <<Line(kind, n, i)>> \in Seq(Lines)
<1>1. Line(kind, n, i) \in Lines
    BY DEF Line, Lines
<1> QED
    BY <1>1

LEMMA SteeredType ==
    ASSUME NEW interrupt
    PROVE  Steered(interrupt) \in Seq(Lines)
<1>1. <<Line("steer_received", 0, 0)>> \in Seq(Lines)
    BY LineType DEF Kinds
<1> QED
    BY <1>1 DEF Steered

LEMMA CallTypes ==
    ASSUME sends \in Nat, NEW i \in Nat
    PROVE  /\ <<Called(i)>> \in Seq(Lines) /\ <<Result(i)>> \in Seq(Lines)
           /\ <<Called(i), Result(i)>> \in Seq(Lines)
<1>1. Called(i) \in Lines /\ Result(i) \in Lines
    BY LineType DEF Called, Result, Kinds
<1> QED
    BY <1>1

LineTypes == durable \in Seq(Lines) /\ held \in Seq(Lines) /\ cut \in BOOLEAN
Errors == Failures \cup {NoErr, Loadtime, Exhausted}

LEMMA HoldType ==
    ASSUME LineTypes, NEW new \in Seq(Lines), Hold(new)
    PROVE  LineTypes'
BY DEF LineTypes, Hold

LEMMA BarrierType ==
    ASSUME LineTypes, pc \in Places, err \in Errors, NEW new \in Seq(Lines),
           NEW stage \in Places, Barrier(new, stage)
    PROVE  LineTypes' /\ pc' \in Places /\ err' \in Errors
<1>1. CASE Lands(new, stage)
    BY <1>1 DEF LineTypes, Lands
<1>2. CASE Drops("failed") /\ err' \in {Loadtime, Refused}
    BY <1>2 DEF LineTypes, Drops, Places, Errors, Failures
<1> QED
    BY <1>1, <1>2 DEF Barrier

LEMMA FlushType ==
    ASSUME LineTypes, pc \in Places, err \in Errors, NEW stage \in Places, Flush(stage)
    PROVE  LineTypes' /\ pc' \in Places /\ err' \in Errors
<1>1. CASE Lands(<<>>, stage)
    BY <1>1 DEF LineTypes, Lands
<1>2. CASE Drops("dead") /\ UNCHANGED err
    BY <1>2 DEF LineTypes, Drops, Places, Ended
<1> QED
    BY <1>1, <1>2 DEF Flush

LEMMA AppendType ==
    ASSUME LineTypes, pc \in Places, err \in Errors, NEW line \in Lines,
           NEW stage \in Places, Append1(line, stage)
    PROVE  LineTypes' /\ pc' \in Places /\ err' \in Errors
<1>1. CASE durable' = Append(durable, line) /\ pc' = stage /\ UNCHANGED <<held, cut, err>>
    BY <1>1 DEF LineTypes
<1>2. CASE pc' = "dead" /\ UNCHANGED <<lines, err>>
    BY <1>2 DEF LineTypes, Places, Ended, lines
<1> QED
    BY <1>1, <1>2 DEF Append1

LEMMA CancelledType ==
    ASSUME LineTypes, pc \in Places, err \in Errors, Cancelled
    PROVE  /\ LineTypes' /\ pc' \in Places /\ err' \in Errors
           /\ ending' \in {"none", "done", "limit", "cancelled"}
<1>1. <<Line("cancel_received", 0, 0)>> \in Seq(Lines)
    BY LineType DEF Kinds
<1>2. "freeze" \in Places
    BY DEF Places
<1> QED
    BY <1>1, <1>2, BarrierType DEF Cancelled

(* The reads before the first write of a wave.                             *)
LEMMA LeadingReadsType ==
    ASSUME reply \in Replies
    PROVE  LeadingReads \in 0 .. Len(reply)
<1>1. reply \in Seq({"read", "write"})
    BY DriveAssumption
<1>2. CASE \E i \in DOMAIN reply : reply[i] = "write"
  <2> DEFINE W == {i \in DOMAIN reply : reply[i] = "write"}
  <2>1. W \in SUBSET Nat /\ W # {}
      BY <1>1, <1>2
  <2>2. PICK i \in W : \A j \in W : i <= j
      BY <2>1, FirstPlace
  <2>3. i \in DOMAIN reply /\ reply[i] = "write" /\ i \in 1 .. Len(reply)
      BY <1>1, <2>2
  <2>4. \A j \in 1 .. i - 1 : reply[j] = "read"
    <3> SUFFICES ASSUME NEW j \in 1 .. i - 1 PROVE reply[j] = "read"
        OBVIOUS
    <3>1. j \in DOMAIN reply /\ j < i /\ j \notin W
        BY <1>1, <2>2, <2>3
    <3> QED
        BY <3>1, <1>1
  <2>5. \E k \in DOMAIN reply : reply[k] = "write" /\ \A j \in 1 .. k - 1 : reply[j] = "read"
      BY <2>3, <2>4
  <2>6. PICK k \in DOMAIN reply : k - 1 = LeadingReads
      BY <2>5, <1>2 DEF LeadingReads
  <2> QED
      BY <2>6, <1>1
<1>3. CASE ~\E i \in DOMAIN reply : reply[i] = "write"
    BY <1>1, <1>3 DEF LeadingReads
<1> QED
    BY <1>2, <1>3

-----------------------------------------------------------------------------
(* Types.                                                                  *)

CallTypesOK ==
    /\ round \in Rounds /\ account \in AllAccounts /\ sends \in Nat
    /\ sentOn \in [AllAccounts -> Nat] /\ lost \subseteq AllAccounts
WaveTypes ==
    /\ reply \in Replies /\ next \in Nat /\ lead \in Nat /\ standing \subseteq Nat
    /\ halt \in BOOLEAN
RestTypes ==
    /\ turn \in Nat /\ prompted \in Nat /\ steers \in Nat
    /\ since \in {"not_yet", "checkpointed", "changed"} /\ unsaved \in BOOLEAN
    /\ acted \subseteq [effect : {"send", "write"}, n : Nat, i : Nat]
    /\ ending \in {"none", "done", "limit", "cancelled"}
Typed == pc \in Places /\ err \in Errors /\ LineTypes /\ CallTypesOK /\ WaveTypes /\ RestTypes

LEMMA TypedIsTypeOK == Typed <=> TypeOK
BY DEF Typed, TypeOK, Errors, LineTypes, CallTypesOK, WaveTypes, RestTypes

LEMMA TypedInit == Init => Typed
<1> SUFFICES ASSUME Init PROVE Typed
    OBVIOUS
<1>1. NoRound \in Rounds
    BY RoundAssumption DEF NoRound, Rounds
<1>2. account \in AllAccounts
    BY DEF Init, AllAccounts
<1>3. pc \in Places /\ err \in Errors
    BY DEF Init, Places, Errors
<1>4. LineTypes
  <2>1. durable = <<>> /\ held = <<>> /\ cut = FALSE
      BY DEF Init
  <2>2. <<>> \in Seq(Lines)
      OBVIOUS
  <2> QED
      BY <2>1, <2>2 DEF LineTypes
<1>5. CallTypesOK
    BY <1>1, <1>2 DEF Init, CallTypesOK
<1>6. WaveTypes
    BY DriveAssumption DEF Init, WaveTypes
<1>7. RestTypes
    BY DEF Init, RestTypes
<1> QED
    BY <1>3, <1>4, <1>5, <1>6, <1>7 DEF Typed

(* Every steer that is folded is counted. *)
LEMMA FoldedType ==
    ASSUME steers \in Nat, NEW interrupt, Folded(interrupt)
    PROVE  steers' \in Nat
BY DEF Folded

LEMMA GoesOutType ==
    ASSUME CallTypesOK, RestTypes, GoesOut
    PROVE  /\ sentOn' \in [AllAccounts -> Nat]
           /\ acted' \subseteq [effect : {"send", "write"}, n : Nat, i : Nat]
BY DEF CallTypesOK, RestTypes, GoesOut, Effect

LEMMA PrefixHeldType ==
    ASSUME sends \in Nat, NEW wait \in PrefixHeld
    PROVE  wait \in Seq(Lines)
<1>1. <<Line("prefix_held", sends, 0)>> \in Seq(Lines)
    BY LineType DEF Kinds
<1>2. wait = <<>> \/ wait = <<Line("prefix_held", sends, 0)>>
    BY Zenon DEF PrefixHeld
<1>3. <<>> \in Seq(Lines)
    OBVIOUS
<1> QED
    BY <1>1, <1>2, <1>3

LEMMA TypedTurn ==
    ASSUME Typed, NEW interrupt \in Interrupts,
           Assemble(interrupt) \/ Call(interrupt) \/ OpenWave(interrupt) \/ Alone(interrupt)
             \/ Record(interrupt)
    PROVE  Typed'
<1> USE DEF Typed
<1>0. /\ Steered(interrupt) \in Seq(Lines) /\ sends \in Nat /\ turn \in Nat /\ next \in Nat
      /\ reply \in Replies
    BY SteeredType DEF CallTypesOK, RestTypes, WaveTypes
<1>1. ASSUME Assemble(interrupt) PROVE Typed'
  <2>1. CallTypesOK' /\ WaveTypes'
      BY <1>1 DEF Assemble, CallTypesOK, WaveTypes, calling, wave
  <2>2. CASE interrupt = "cancel"
    <3>1. Cancelled /\ prompted' = prompted /\ turn' = turn /\ UNCHANGED <<tree, acted>>
          /\ Folded(interrupt)
        BY <1>1, <2>2 DEF Assemble
    <3>2. LineTypes' /\ pc' \in Places /\ err' \in Errors
          /\ ending' \in {"none", "done", "limit", "cancelled"}
        BY <3>1, CancelledType
    <3> QED
        BY <2>1, <3>1, <3>2, FoldedType DEF RestTypes, tree
  <2>3. CASE interrupt # "cancel"
    <3> DEFINE new == Steered(interrupt)
                        \o (IF prompted = turn + 1 THEN <<>>
                            ELSE <<Line("prompt_assembled", turn + 1, 0)>>)
                        \o <<Line("prompt_shape_compared", turn + 1, 0)>>
    <3>1. Hold(new) /\ prompted' = turn + 1 /\ pc' = "call" /\ UNCHANGED <<err, ending>>
          /\ turn' = turn /\ UNCHANGED <<tree, acted>> /\ Folded(interrupt)
        BY <1>1, <2>3 DEF Assemble
    <3>2. <<Line("prompt_assembled", turn + 1, 0)>> \in Seq(Lines)
          /\ <<Line("prompt_shape_compared", turn + 1, 0)>> \in Seq(Lines)
        BY <1>0, LineType DEF Kinds
    <3>3. new \in Seq(Lines)
        BY <1>0, <3>2
    <3> HIDE DEF new
    <3>4. LineTypes'
        BY <3>1, <3>3, HoldType
    <3> QED
        BY <2>1, <3>1, <3>4, <1>0, FoldedType DEF RestTypes, tree, Places
  <2> QED
      BY <2>2, <2>3
<1>2. ASSUME Call(interrupt) PROVE Typed'
  <2>1. WaveTypes' /\ turn' = turn /\ prompted' = prompted /\ UNCHANGED <<tree, acted>>
        /\ Folded(interrupt) /\ UNCHANGED <<round, account, sentOn, lost>>
      BY <1>2 DEF Call, WaveTypes, wave
  <2>2. CASE interrupt = "cancel"
    <3>1. Cancelled /\ sends' = sends
        BY <1>2, <2>2 DEF Call
    <3>2. LineTypes' /\ pc' \in Places /\ err' \in Errors
          /\ ending' \in {"none", "done", "limit", "cancelled"}
        BY <3>1, CancelledType
    <3> QED
        BY <2>1, <3>1, <3>2, FoldedType DEF RestTypes, tree, CallTypesOK
  <2>3. CASE interrupt # "cancel"
    <3>1. RecordsSend("sent", Steered(interrupt)) /\ ending' = ending
        BY <1>2, <2>3 DEF Call
    <3>2. <<Line("model_called", sends + 1, 0)>> \in Seq(Lines)
        BY <1>0, LineType DEF Kinds
    <3>3. Steered(interrupt) \o <<Line("model_called", sends + 1, 0)>> \in Seq(Lines)
        BY <1>0, <3>2
    <3>4. LineTypes' /\ pc' \in Places /\ err' \in Errors
        BY <3>1, <3>3, BarrierType DEF RecordsSend, Places
    <3>5. sends' \in Nat
        BY <3>1, <1>0 DEF RecordsSend
    <3> QED
        BY <2>1, <3>1, <3>4, <3>5, FoldedType DEF RestTypes, tree, CallTypesOK
  <2> QED
      BY <2>2, <2>3
<1>3. ASSUME OpenWave(interrupt) PROVE Typed'
  <2>1. CallTypesOK' /\ turn' = turn /\ prompted' = prompted /\ UNCHANGED <<tree, acted>>
      BY <1>3 DEF OpenWave, CallTypesOK, calling
  <2>2. CASE interrupt = "cancel"
    <3>1. Cancelled /\ UNCHANGED <<wave, steers>>
        BY <1>3, <2>2 DEF OpenWave
    <3>2. LineTypes' /\ pc' \in Places /\ err' \in Errors
          /\ ending' \in {"none", "done", "limit", "cancelled"}
        BY <3>1, CancelledType
    <3> QED
        BY <2>1, <3>1, <3>2 DEF RestTypes, tree, WaveTypes, wave
  <2>3. CASE interrupt # "cancel"
    <3>1. Hold(Steered(interrupt)) /\ pc' = "reads" /\ UNCHANGED <<reply, next, err, ending>>
        BY <1>3, <2>3 DEF OpenWave
    <3>2. PICK let \in 0 .. LeadingReads, before \in SUBSET (1 .. LeadingReads) :
             /\ lead' = let /\ halt' = (let < LeadingReads) /\ standing' = before
             /\ steers' = steers + Cardinality(before) + (IF interrupt = "steer" THEN 1 ELSE 0)
        BY <1>3, <2>3 DEF OpenWave
    <3>3. LeadingReads \in Nat
        BY <1>0, LeadingReadsType, DriveAssumption
    <3>4. IsFiniteSet(1 .. LeadingReads)
        BY <3>3, FS_Interval
    <3>5. IsFiniteSet(before)
        BY <3>4, FS_Subset
    <3>6. Cardinality(before) \in Nat
        BY <3>5, FS_CardinalityType
    <3>7. steers' \in Nat
        BY <3>2, <3>6 DEF RestTypes
    <3>8. lead' \in Nat /\ halt' \in BOOLEAN /\ standing' \subseteq Nat
        BY <3>2, <3>3
    <3>9. LineTypes'
        BY <3>1, <1>0, HoldType
    <3> QED
        BY <2>1, <3>1, <3>7, <3>8, <3>9 DEF RestTypes, tree, WaveTypes, Places
  <2> QED
      BY <2>2, <2>3
<1>4. ASSUME Alone(interrupt) PROVE Typed'
  <2>1. CallTypesOK' /\ turn' = turn /\ prompted' = prompted /\ UNCHANGED <<tree, acted>>
        /\ Folded(interrupt) /\ UNCHANGED <<reply, lead, standing, halt>>
      BY <1>4 DEF Alone, CallTypesOK, calling
  <2>2. CASE interrupt = "cancel" /\ Cancelled /\ UNCHANGED next
    <3>2. LineTypes' /\ pc' \in Places /\ err' \in Errors
          /\ ending' \in {"none", "done", "limit", "cancelled"}
        BY <2>2, CancelledType
    <3> QED
        BY <2>1, <2>2, <3>2, FoldedType DEF RestTypes, tree, WaveTypes
  <2>3. CASE /\ Hold(Steered(interrupt) \o <<Called(next), Result(next)>>)
             /\ next' = next + 1 /\ UNCHANGED <<pc, err, ending>>
    <3>1. Steered(interrupt) \o <<Called(next), Result(next)>> \in Seq(Lines)
        BY <1>0, CallTypes
    <3>2. LineTypes'
        BY <2>3, <3>1, HoldType
    <3> QED
        BY <2>1, <2>3, <3>2, FoldedType DEF RestTypes, tree, WaveTypes
  <2>4. CASE /\ Barrier(Steered(interrupt) \o <<Called(next)>>, "acting")
             /\ UNCHANGED <<next, ending>>
    <3>1. Steered(interrupt) \o <<Called(next)>> \in Seq(Lines)
        BY <1>0, CallTypes
    <3>2. LineTypes' /\ pc' \in Places /\ err' \in Errors
        BY <2>4, <3>1, BarrierType DEF Places
    <3> QED
        BY <2>1, <2>4, <3>2, FoldedType DEF RestTypes, tree, WaveTypes
  <2> QED
      BY <1>4, <2>2, <2>3, <2>4 DEF Alone
<1>5. ASSUME Record(interrupt) PROVE Typed'
  <2>1. WaveTypes' /\ prompted' = prompted /\ UNCHANGED <<tree, acted>>
        /\ Folded(interrupt) /\ UNCHANGED <<account, sends, sentOn, lost>>
      BY <1>5 DEF Record, WaveTypes, wave
  <2>2. CASE interrupt = "cancel"
    <3>1. Cancelled /\ UNCHANGED <<turn, round>>
        BY <1>5, <2>2 DEF Record
    <3>2. LineTypes' /\ pc' \in Places /\ err' \in Errors
          /\ ending' \in {"none", "done", "limit", "cancelled"}
        BY <3>1, CancelledType
    <3> QED
        BY <2>1, <3>1, <3>2, FoldedType DEF RestTypes, tree, CallTypesOK
  <2>3. CASE interrupt # "cancel"
    <3>1. Hold(Steered(interrupt)) /\ turn' = turn + 1 /\ UNCHANGED <<err, ending>>
          /\ (round' = round \/ round' = NoRound) /\ pc' \in {"concluded", "loop"}
        BY <1>5, <2>3 DEF Record
    <3>2. LineTypes'
        BY <3>1, <1>0, HoldType
    <3>3. NoRound \in Rounds
        BY RoundAssumption DEF NoRound, Rounds
    <3> QED
        BY <2>1, <3>1, <3>2, <3>3, FoldedType DEF RestTypes, tree, CallTypesOK, Places
  <2> QED
      BY <2>2, <2>3
<1> QED
    BY <1>1, <1>2, <1>3, <1>4, <1>5
LEMMA TypedCall ==
    ASSUME Typed,
           \/ \E calls \in Replies : Answer(calls)
           \/ \E failure \in Failures \cup {Loadtime} : Fails(failure) \/ TurnFails(failure)
           \/ Unreadable \/ Repair
    PROVE  Typed'
<1> USE DEF Typed
<1>0. sends \in Nat
    BY DEF CallTypesOK
<1>1. ASSUME NEW calls \in Replies, Answer(calls) PROVE Typed'
  <2>1. PICK wait \in PrefixHeld : Hold(wait \o <<Line("model_returned", sends, 0)>>)
      BY <1>1 DEF Answer
  <2>2. wait \o <<Line("model_returned", sends, 0)>> \in Seq(Lines)
      BY <1>0, PrefixHeldType, LineType DEF Kinds
  <2>3. LineTypes'
      BY <2>1, <2>2, HoldType
  <2>4. GoesOut /\ reply' = calls /\ next' = 1 /\ pc' = "returned"
        /\ UNCHANGED <<turn, prompted, round, account, sends, lost, err, lead, standing, halt,
                       steers, tree, ending>>
      BY <1>1 DEF Answer
  <2> QED
      BY <2>3, <2>4, GoesOutType DEF CallTypesOK, WaveTypes, RestTypes, tree, Places
<1>2. ASSUME NEW failure \in Failures \cup {Loadtime}, Fails(failure) PROVE Typed'
  <2>1. PICK wait \in PrefixHeld : Hold(wait)
      BY <1>2 DEF Fails
  <2>2. wait \in Seq(Lines)
      BY <1>0, PrefixHeldType
  <2>3. LineTypes'
      BY <2>1, <2>2, HoldType
  <2>4. GoesOut /\ err' = failure /\ pc' = "failed" /\ lost' \in {lost, lost \cup {account}}
        /\ UNCHANGED <<turn, prompted, round, account, sends, wave, steers, tree, ending>>
      BY <1>2 DEF Fails
  <2>5. err' \in Errors
      BY <2>4 DEF Errors
  <2> QED
      BY <2>3, <2>4, <2>5, GoesOutType DEF CallTypesOK, WaveTypes, RestTypes, wave, tree, Places
<1>3. ASSUME NEW failure \in Failures \cup {Loadtime}, TurnFails(failure) PROVE Typed'
  <2>1. err' \in Errors
      BY <1>3 DEF TurnFails, Errors
  <2> QED
      BY <1>3, <2>1 DEF TurnFails, LineTypes, lines, CallTypesOK, calling, WaveTypes, wave,
         RestTypes, tree, Places
<1>4. ASSUME Unreadable PROVE Typed'
  <2>1. PICK wait \in PrefixHeld : Hold(wait)
      BY <1>4 DEF Unreadable
  <2>2. wait \in Seq(Lines)
      BY <1>0, PrefixHeldType
  <2>3. LineTypes'
      BY <2>1, <2>2, HoldType
  <2>4. GoesOut /\ pc' = "repair" /\ round' = Repaired(round) /\ AdmitsRepair(round)
        /\ UNCHANGED <<turn, prompted, account, sends, lost, err, wave, steers, tree, ending>>
      BY <1>4 DEF Unreadable
  <2>5. round' \in Rounds
      BY <2>4, RepairedFacts DEF CallTypesOK
  <2> QED
      BY <2>3, <2>4, <2>5, GoesOutType DEF CallTypesOK, WaveTypes, RestTypes, wave, tree, Places
<1>5. ASSUME Repair PROVE Typed'
  <2>1. <<>> \o <<Line("model_called", sends + 1, 0)>> \in Seq(Lines)
      BY <1>0, LineType DEF Kinds
  <2>2. LineTypes' /\ pc' \in Places /\ err' \in Errors
      BY <1>5, <2>1, BarrierType DEF Repair, RecordsSend, Places
  <2>3. sends' \in Nat
      BY <1>5, <1>0 DEF Repair, RecordsSend
  <2> QED
      BY <1>5, <2>2, <2>3 DEF Repair, CallTypesOK, WaveTypes, wave, RestTypes, tree
<1> QED
    BY <1>1, <1>2, <1>3, <1>4, <1>5

LEMMA TypedWave ==
    ASSUME Typed, Checkpoint \/ AccountRead \/ ReadsDone \/ ToolWrites
    PROVE  Typed'
<1> USE DEF Typed
<1>0. sends \in Nat /\ next \in Nat /\ turn \in Nat
    BY DEF CallTypesOK, WaveTypes, RestTypes
<1>1. ASSUME Checkpoint PROVE Typed'
  <2>1. PICK new \in {<<>>, <<Line("checkpoint_committed", turn + 1, 0)>>} : Hold(new)
      BY <1>1 DEF Checkpoint
  <2>2. <<Line("checkpoint_committed", turn + 1, 0)>> \in Seq(Lines) /\ <<>> \in Seq(Lines)
      BY <1>0, LineType DEF Kinds
  <2>3. LineTypes'
      BY <2>1, <2>2, HoldType
  <2>4. since' \in {"not_yet", "checkpointed", "changed"} /\ unsaved' \in BOOLEAN
      BY <1>1 DEF Checkpoint, RestTypes
  <2> QED
      BY <1>1, <2>3, <2>4 DEF Checkpoint, CallTypesOK, calling, WaveTypes, wave, RestTypes, Places
<1>2. ASSUME AccountRead PROVE Typed'
  <2>1. PICK i \in {"steer", "none"} : Hold(Steered(i) \o <<Called(next), Result(next)>>)
      BY <1>2 DEF AccountRead
  <2>2. Steered(i) \o <<Called(next), Result(next)>> \in Seq(Lines)
      BY <1>0, SteeredType, CallTypes
  <2>3. LineTypes'
      BY <2>1, <2>2, HoldType
  <2> QED
      BY <1>2, <2>3, <1>0 DEF AccountRead, CallTypesOK, calling, WaveTypes, RestTypes, tree
<1>3. ASSUME ReadsDone PROVE Typed'
  <2>1. UNCHANGED <<turn, prompted, calling, wave, steers, tree, acted>>
      BY <1>3 DEF ReadsDone
  <2>2. CASE halt
    <3>1. Cancelled
        BY <1>3, <2>2 DEF ReadsDone
    <3>2. LineTypes' /\ pc' \in Places /\ err' \in Errors
          /\ ending' \in {"none", "done", "limit", "cancelled"}
        BY <3>1, CancelledType
    <3> QED
        BY <2>1, <3>2 DEF CallTypesOK, calling, WaveTypes, wave, RestTypes, tree
  <2>3. CASE ~halt
      BY <1>3, <2>1, <2>3 DEF ReadsDone, LineTypes, lines, CallTypesOK, calling, WaveTypes, wave,
         RestTypes, tree, Places
  <2> QED
      BY <2>2, <2>3
<1>4. ASSUME ToolWrites PROVE Typed'
  <2>1. unsaved' = TRUE /\ acted' = acted \cup {Effect("write", sends, next)}
        /\ UNCHANGED <<turn, prompted, calling, reply, lead, standing, halt, steers, since, ending>>
      BY <1>4 DEF ToolWrites
  <2>2. acted' \subseteq [effect : {"send", "write"}, n : Nat, i : Nat]
      BY <2>1, <1>0 DEF RestTypes, Effect
  <2>3. RestTypes' /\ CallTypesOK'
      BY <2>1, <2>2 DEF RestTypes, CallTypesOK, calling
  <2>4. CASE Hold(<<Result(next)>>) /\ next' = next + 1 /\ pc' = "alone" /\ UNCHANGED err
    <3>1. LineTypes'
        BY <2>4, <1>0, CallTypes, HoldType
    <3> QED
        BY <2>1, <2>3, <2>4, <3>1, <1>0 DEF WaveTypes, Places
  <2>5. CASE err' = Refused /\ pc' = "failed" /\ UNCHANGED <<lines, next>>
    <3>1. err' \in Errors /\ pc' \in Places /\ LineTypes'
        BY <2>5 DEF Errors, Failures, Places, LineTypes, lines
    <3> QED
        BY <2>1, <2>3, <2>5, <3>1 DEF WaveTypes
  <2> QED
      BY <1>4, <2>4, <2>5 DEF ToolWrites
<1> QED
    BY <1>1, <1>2, <1>3, <1>4
(* A turn that failed failed with something.                               *)
Failed == {"failed", "dispose"}
FailsWith == pc \in Failed => err # NoErr

LEMMA TypedEnds ==
    ASSUME Typed, FailsWith,
           \/ Dispatch \/ OpenRound \/ RoundStaysOpen \/ Conclude \/ FlushFailed \/ Dispose
           \/ (\E halted \in BOOLEAN : Wait(halted)) \/ Freeze \/ Crash \/ Over
    PROVE  Typed'
<1> USE DEF Typed
<1>0. sends \in Nat /\ round \in Rounds /\ account \in AllAccounts
    BY DEF CallTypesOK
<1>1. ASSUME Dispatch PROVE Typed'
  <2>1. Line("job_pinned", 0, 0) \in Lines /\ Line("run_started", 0, 0) \in Lines
      BY LineType DEF Kinds
  <2>2. "dispatch" \in Places /\ "loop" \in Places
      BY DEF Places
  <2>3. LineTypes' /\ pc' \in Places /\ err' \in Errors
      BY <1>1, <2>1, <2>2, AppendType DEF Dispatch
  <2> QED
      BY <1>1, <2>3 DEF Dispatch, CallTypesOK, calling, WaveTypes, wave, RestTypes, tree
<1>2. ASSUME OpenRound PROVE Typed'
  <2>1. PICK usable \in SUBSET Listed :
          /\ ~Several => usable = {}
          /\ IF CanStart(usable)
             THEN /\ round' = Start(usable, account) /\ account' = round'.current
                  /\ pc' = "assemble" /\ UNCHANGED err
             ELSE /\ err' = Exhausted /\ pc' = "failed" /\ UNCHANGED <<round, account>>
      BY <1>2 DEF OpenRound
  <2>2. round' \in Rounds /\ account' \in AllAccounts /\ pc' \in Places /\ err' \in Errors
    <3>1. CASE CanStart(usable)
        BY <2>1, <3>1, <1>0, StartFacts DEF Places
    <3>2. CASE ~CanStart(usable)
        BY <2>1, <3>2, <1>0 DEF Places, Errors
    <3> QED
        BY <3>1, <3>2
  <2>3. sentOn' \in [AllAccounts -> Nat] /\ lost' = {}
        /\ UNCHANGED <<lines, turn, prompted, sends, wave, steers, tree, acted, ending>>
      BY <1>2 DEF OpenRound
  <2> QED
      BY <2>2, <2>3 DEF LineTypes, lines, CallTypesOK, WaveTypes, wave, RestTypes, tree
<1>3. ASSUME RoundStaysOpen PROVE Typed'
    BY <1>3 DEF RoundStaysOpen, LineTypes, lines, CallTypesOK, calling, WaveTypes, wave,
       RestTypes, tree, Places
<1>4. ASSUME Conclude PROVE Typed'
  <2>1. <<>> \in Seq(Lines) /\ "freeze" \in Places
      BY DEF Places
  <2>2. LineTypes' /\ pc' \in Places /\ err' \in Errors
      BY <1>4, <2>1, BarrierType DEF Conclude
  <2> QED
      BY <1>4, <2>2 DEF Conclude, CallTypesOK, calling, WaveTypes, wave, RestTypes, tree
<1>5. ASSUME FlushFailed PROVE Typed'
  <2>1. LineTypes' /\ pc' \in Places /\ err' \in Errors
      BY <1>5, FlushType DEF FlushFailed, Places
  <2> QED
      BY <1>5, <2>1 DEF FlushFailed, CallTypesOK, calling, WaveTypes, wave, RestTypes, tree
<1>6. ASSUME Dispose PROVE Typed'
  <2>1. UNCHANGED <<turn, prompted, sends, sentOn, lost, wave, steers, tree, acted>>
        /\ pc = "dispose"
      BY <1>6 DEF Dispose
  <2>2. ASSUME NEW step, Disposes(step), Stays(round, step) \/ Moves(round, step) \/ Stopped(step)
        PROVE  /\ LineTypes' /\ pc' \in Places /\ err' \in Errors /\ account' \in AllAccounts
               /\ ending' \in {"none", "done", "limit", "cancelled"}
    <3>1. /\ Line("accounts_exhausted", sends, 0) \in Lines /\ Line("carrier", sends, 0) \in Lines
          /\ Line("watchdog_fired", sends, 0) \in Lines
        BY <1>0, LineType DEF Kinds
    <3>2. "freeze" \in Places /\ "loop" \in Places /\ "wait" \in Places
        BY DEF Places
    <3>3. CASE step.act = "stop"
      <4>1. PICK kind \in {"accounts_exhausted", "carrier"} : Append1(Line(kind, sends, 0), "freeze")
          BY <2>2, <3>3 DEF Disposes
      <4>2. Line(kind, sends, 0) \in Lines
          BY <3>1
      <4>3. LineTypes' /\ pc' \in Places /\ err' \in Errors
          BY <4>1, <4>2, <3>2, AppendType
      <4>4. ending' = "cancelled" /\ account' = account
          BY <2>2, <3>3 DEF Disposes
      <4> QED
          BY <4>3, <4>4, <1>0
    <3>4. CASE step.act # "stop"
      <4>1. PICK stage \in {"loop", "wait"} : Append1(Line("watchdog_fired", sends, 0), stage)
          BY <2>2, <3>4 DEF Disposes
      <4>2. LineTypes' /\ pc' \in Places /\ err' \in Errors
          BY <4>1, <3>1, <3>2, AppendType
      <4>3. ending' = ending /\ account' = step.to
          BY <2>2, <3>4 DEF Disposes
      <4>4. step.to \in AllAccounts
          BY <2>2, <3>4, <1>0 DEF Stays, Moves, Stopped, Rounds, AllAccounts
      <4> QED
          BY <4>2, <4>3, <4>4 DEF RestTypes
    <3> QED
        BY <3>3, <3>4
  <2>3. CASE err = Loadtime
    <3>1. pc' = "freeze" /\ ending' = "cancelled" /\ UNCHANGED <<lines, err, round, account>>
        BY <1>6, <2>3 DEF Dispose
    <3> QED
        BY <2>1, <3>1 DEF LineTypes, lines, CallTypesOK, WaveTypes, wave, RestTypes, tree, Places
  <2>4. CASE err # Loadtime /\ err = Exhausted
    <3>1. Disposes(Stop("exhausted")) /\ round' = round
        BY <1>6, <2>4 DEF Dispose
    <3>2. Stopped(Stop("exhausted"))
        BY DEF Stopped, Stop, Step
    <3>3. /\ LineTypes' /\ pc' \in Places /\ err' \in Errors /\ account' \in AllAccounts
          /\ ending' \in {"none", "done", "limit", "cancelled"}
        BY <2>2, <3>1, <3>2
    <3> QED
        BY <2>1, <3>1, <3>3 DEF CallTypesOK, WaveTypes, wave, RestTypes, tree
  <2>5. CASE err # Loadtime /\ err # Exhausted
    <3>1. err \in Failures
        BY <2>1, <2>5 DEF Errors, FailsWith, Failed
    <3>2. PICK step : step = NextStep(round, err)
        OBVIOUS
    <3>3. Disposes(step) /\ round' = Applied(round, step)
        BY <1>6, <2>5, <3>2 DEF Dispose
    <3>4. Stays(round, step) \/ Moves(round, step) \/ Stopped(step)
        BY <3>1, <3>2, <1>0, NextStepFacts
    <3>5. round' \in Rounds
        BY <3>3, <3>4, <1>0, AppliedFacts
    <3>6. /\ LineTypes' /\ pc' \in Places /\ err' \in Errors /\ account' \in AllAccounts
          /\ ending' \in {"none", "done", "limit", "cancelled"}
        BY <2>2, <3>3, <3>4
    <3> QED
        BY <2>1, <3>5, <3>6 DEF CallTypesOK, WaveTypes, wave, RestTypes, tree
  <2> QED
      BY <2>3, <2>4, <2>5
<1>7. ASSUME NEW halted \in BOOLEAN, Wait(halted) PROVE Typed'
    BY <1>7 DEF Wait, LineTypes, lines, CallTypesOK, calling, WaveTypes, wave, RestTypes, tree,
       Places
<1>8. ASSUME Freeze PROVE Typed'
  <2>1. Line("handoff_written", 0, 0) \in Lines /\ Line("run_frozen", sends, 0) \in Lines
      BY <1>0, LineType DEF Kinds
  <2>2. "handoff" \in Places /\ "close" \in Places /\ "frozen" \in Places
      BY DEF Places, Ended
  <2>3. LineTypes' /\ pc' \in Places /\ err' \in Errors
      BY <1>8, <2>1, <2>2, AppendType, FlushType DEF Freeze
  <2> QED
      BY <1>8, <2>3 DEF Freeze, CallTypesOK, calling, WaveTypes, wave, RestTypes, tree
<1>9. ASSUME Crash PROVE Typed'
  <2>1. LineTypes'
    <3>1. <<>> \in Seq(Lines)
        OBVIOUS
    <3> QED
        BY <1>9, <3>1 DEF Crash, LineTypes
  <2> QED
      BY <1>9, <2>1 DEF Crash, CallTypesOK, calling, WaveTypes, wave, RestTypes, tree, Places,
         Ended
<1>10. ASSUME Over PROVE Typed'
    BY <1>10 DEF Over, vars, LineTypes, lines, CallTypesOK, calling, WaveTypes, wave, RestTypes,
       tree
<1> QED
    BY <1>1, <1>2, <1>3, <1>4, <1>5, <1>6, <1>7, <1>8, <1>9, <1>10
-----------------------------------------------------------------------------
(* What is held, and what a cut leaves to do.                              *)

Ending == {"freeze", "handoff", "close"} \cup Ended
Final(e) == e \in {Refused, Loadtime}
Durable == {"dispatch", "dispose", "handoff", "close", "sent", "resent", "acting"}

(* Nothing is held where a line goes straight to the ledger or an effect   *)
(* goes out, and a run that lost lines holds none and is on its way to its *)
(* end: the failure it met is one that the round never retries.            *)
LinesInv ==
    /\ FailsWith
    /\ pc \in Durable => held = <<>>
    /\ cut => held = <<>> /\ (pc \in Ending \/ (pc \in Failed /\ Final(err)))

LEMMA LinesInit == Init => LinesInv
BY DEF Init, LinesInv, FailsWith, Failed

LEMMA FinalIsSome == \A e : Final(e) => e # NoErr
BY DEF Final, NoErr, Refused, Loadtime, Failure

LEMMA BarrierLines ==
    ASSUME ~cut, NEW new, NEW stage \in Places \ (Failed \cup Ended), Barrier(new, stage)
    PROVE  LinesInv'
<1>1. CASE Lands(new, stage)
    BY <1>1 DEF Lands, LinesInv, FailsWith
<1>2. CASE Drops("failed") /\ err' \in {Loadtime, Refused}
    BY <1>2, FinalIsSome DEF Drops, LinesInv, FailsWith, Final, Failed, Durable
<1> QED
    BY <1>1, <1>2 DEF Barrier

LEMMA CancelledLines ==
    ASSUME ~cut, Cancelled
    PROVE  LinesInv'
BY BarrierLines DEF Cancelled, Places, Failed, Ended

LEMMA LinesStep ==
    ASSUME Typed, LinesInv, [Next]_vars
    PROVE  LinesInv'
<1>0. pc \notin Ending \cup Failed => ~cut
    BY DEF LinesInv
<1> USE DEF Failed
<1>1. ASSUME Dispatch PROVE LinesInv'
    BY <1>1, <1>0 DEF Dispatch, Append1, LinesInv, FailsWith, Durable, Ending, Ended, lines
<1>2. ASSUME OpenRound PROVE LinesInv'
  <2>1. ~cut /\ cut' = cut /\ held' = held
      BY <1>2, <1>0 DEF OpenRound, Ending, Ended, lines
  <2>2. pc' = "assemble" \/ (pc' = "failed" /\ err' = Exhausted)
      BY <1>2 DEF OpenRound
  <2>3. Exhausted # NoErr
      BY DEF Exhausted, NoErr, Failure
  <2> QED
      BY <2>1, <2>2, <2>3 DEF LinesInv, FailsWith, Durable
<1>3. ASSUME RoundStaysOpen PROVE LinesInv'
    BY <1>3, <1>0 DEF RoundStaysOpen, LinesInv, FailsWith, Durable, Ending, Ended, lines
<1>4. ASSUME NEW interrupt \in Interrupts, Assemble(interrupt) PROVE LinesInv'
  <2>1. ~cut
      BY <1>4, <1>0 DEF Assemble, Ending, Ended
  <2>2. CASE interrupt = "cancel"
      BY <1>4, <2>1, <2>2, CancelledLines DEF Assemble
  <2>3. CASE interrupt # "cancel"
      BY <1>4, <2>1, <2>3 DEF Assemble, Hold, LinesInv, FailsWith, Durable
  <2> QED
      BY <2>2, <2>3
<1>5. ASSUME NEW interrupt \in Interrupts, Call(interrupt) PROVE LinesInv'
  <2>1. ~cut
      BY <1>5, <1>0 DEF Call, Ending, Ended
  <2>2. CASE interrupt = "cancel"
      BY <1>5, <2>1, <2>2, CancelledLines DEF Call
  <2>3. CASE interrupt # "cancel"
      BY <1>5, <2>1, <2>3, BarrierLines DEF Call, RecordsSend, Places, Ended
  <2> QED
      BY <2>2, <2>3
<1>6. ASSUME NEW calls \in Replies, Answer(calls) PROVE LinesInv'
    BY <1>6, <1>0 DEF Answer, Hold, LinesInv, FailsWith, Durable, Ending, Ended
<1>7. ASSUME NEW failure \in Failures \cup {Loadtime}, Fails(failure) PROVE LinesInv'
  <2>1. ~cut /\ cut' = cut /\ pc' = "failed" /\ err' = failure
      BY <1>7, <1>0 DEF Fails, Hold, Ending, Ended
  <2>2. failure # NoErr
      BY DEF Failures, Loadtime, NoErr, Busy, Refused, Unusable, Lost, Failure
  <2> QED
      BY <2>1, <2>2 DEF LinesInv, FailsWith, Durable
<1>8. ASSUME NEW failure \in Failures \cup {Loadtime}, TurnFails(failure) PROVE LinesInv'
  <2>1. ~cut /\ cut' = cut /\ pc' = "failed" /\ err' = failure /\ Final(failure)
      BY <1>8, <1>0 DEF TurnFails, Final, Ending, Ended, lines
  <2> QED
      BY <2>1, FinalIsSome DEF LinesInv, FailsWith, Durable
<1>9. ASSUME Unreadable PROVE LinesInv'
    BY <1>9, <1>0 DEF Unreadable, Hold, LinesInv, FailsWith, Durable, Ending, Ended
<1>10. ASSUME Repair PROVE LinesInv'
  <2>1. ~cut
      BY <1>10, <1>0 DEF Repair, Ending, Ended
  <2> QED
      BY <1>10, <2>1, BarrierLines DEF Repair, RecordsSend, Places, Ended
<1>11. ASSUME Checkpoint PROVE LinesInv'
    BY <1>11, <1>0 DEF Checkpoint, Hold, LinesInv, FailsWith, Durable, Ending, Ended
<1>12. ASSUME NEW interrupt \in Interrupts, OpenWave(interrupt) PROVE LinesInv'
  <2>1. ~cut
      BY <1>12, <1>0 DEF OpenWave, Ending, Ended
  <2>2. CASE interrupt = "cancel"
      BY <1>12, <2>1, <2>2, CancelledLines DEF OpenWave
  <2>3. CASE interrupt # "cancel"
      BY <1>12, <2>1, <2>3 DEF OpenWave, Hold, LinesInv, FailsWith, Durable
  <2> QED
      BY <2>2, <2>3
<1>13. ASSUME AccountRead PROVE LinesInv'
    BY <1>13, <1>0 DEF AccountRead, Hold, LinesInv, FailsWith, Durable, Ending, Ended
<1>14. ASSUME ReadsDone PROVE LinesInv'
  <2>1. ~cut
      BY <1>14, <1>0 DEF ReadsDone, Ending, Ended
  <2>2. CASE halt
      BY <1>14, <2>1, <2>2, CancelledLines DEF ReadsDone
  <2>3. CASE ~halt
      BY <1>14, <2>1, <2>3 DEF ReadsDone, LinesInv, FailsWith, Durable, lines
  <2> QED
      BY <2>2, <2>3
<1>15. ASSUME NEW interrupt \in Interrupts, Alone(interrupt) PROVE LinesInv'
  <2>1. ~cut /\ pc = "alone"
      BY <1>15, <1>0 DEF Alone, Ending, Ended
  <2>2. CASE Cancelled
      BY <2>1, <2>2, CancelledLines
  <2>3. CASE /\ Hold(Steered(interrupt) \o <<Called(next), Result(next)>>)
             /\ UNCHANGED <<pc, err, ending>>
      BY <2>1, <2>3 DEF Hold, LinesInv, FailsWith, Durable
  <2>4. CASE Barrier(Steered(interrupt) \o <<Called(next)>>, "acting")
      BY <2>1, <2>4, BarrierLines DEF Places, Ended
  <2> QED
      BY <1>15, <2>2, <2>3, <2>4 DEF Alone
<1>16. ASSUME ToolWrites PROVE LinesInv'
  <2>1. ~cut /\ cut' = cut
      BY <1>16, <1>0 DEF ToolWrites, Hold, lines, Ending, Ended
  <2>2. pc' = "alone" \/ (pc' = "failed" /\ err' = Refused)
      BY <1>16 DEF ToolWrites
  <2> QED
      BY <2>1, <2>2, FinalIsSome DEF LinesInv, FailsWith, Durable, Final
<1>17. ASSUME NEW interrupt \in Interrupts, Record(interrupt) PROVE LinesInv'
  <2>1. ~cut
      BY <1>17, <1>0 DEF Record, Ending, Ended
  <2>2. CASE interrupt = "cancel"
      BY <1>17, <2>1, <2>2, CancelledLines DEF Record
  <2>3. CASE interrupt # "cancel"
      BY <1>17, <2>1, <2>3 DEF Record, Hold, LinesInv, FailsWith, Durable
  <2> QED
      BY <2>2, <2>3
<1>18. ASSUME Conclude PROVE LinesInv'
  <2>1. ~cut
      BY <1>18, <1>0 DEF Conclude, Ending, Ended
  <2> QED
      BY <1>18, <2>1, BarrierLines DEF Conclude, Places, Ended
<1>19. ASSUME FlushFailed PROVE LinesInv'
  <2>1. pc = "failed" /\ err # NoErr
      BY <1>19 DEF FlushFailed, LinesInv, FailsWith
  <2>2. CASE Lands(<<>>, "dispose")
      BY <2>1, <2>2 DEF Lands, LinesInv, FailsWith, Ending, Ended
  <2>3. CASE Drops("dead")
      BY <2>3 DEF Drops, LinesInv, FailsWith, Durable, Ending, Ended
  <2> QED
      BY <1>19, <2>2, <2>3 DEF FlushFailed, Flush
<1>20. ASSUME Dispose PROVE LinesInv'
  <2>1. pc = "dispose" /\ held = <<>>
      BY <1>20 DEF Dispose, LinesInv, Durable
  <2>2. held' = held /\ cut' = cut
      BY <1>20 DEF Dispose, Disposes, Append1, lines
  <2>3. pc' \in {"freeze", "dead", "loop", "wait"}
      BY <1>20 DEF Dispose, Disposes, Append1
  <2>4. cut => pc' \in {"freeze", "dead"}
    <3> SUFFICES ASSUME cut PROVE pc' \in {"freeze", "dead"}
        OBVIOUS
    <3>1. err \in {Refused, Loadtime}
        BY <2>1 DEF LinesInv, Final, Ending, Ended
    <3>2. CASE err = Loadtime
        BY <1>20, <3>2 DEF Dispose
    <3>3. CASE err = Refused /\ err # Loadtime
      <4>1. Refused # Exhausted /\ Refused \in Failures /\ round \in Rounds
          BY DEF Refused, Exhausted, Failure, Failures, Typed, CallTypesOK
      <4>2. NextStep(round, Refused) = Stop("refused")
          BY <4>1, NextStepFacts
      <4>3. Disposes(Stop("refused"))
          BY <1>20, <3>3, <4>1, <4>2 DEF Dispose
      <4>4. Stop("refused").act = "stop"
          BY DEF Stop, Step
      <4> QED
          BY <4>3, <4>4 DEF Disposes, Append1
    <3> QED
        BY <3>1, <3>2, <3>3
  <2> QED
      BY <2>1, <2>2, <2>3, <2>4 DEF LinesInv, FailsWith, Ending, Ended
<1>21. ASSUME NEW halted \in BOOLEAN, Wait(halted) PROVE LinesInv'
    BY <1>21, <1>0 DEF Wait, LinesInv, FailsWith, Durable, Ending, Ended, lines
<1>22. ASSUME Freeze PROVE LinesInv'
  <2>1. CASE pc = "freeze" /\ Flush("handoff")
      BY <2>1 DEF Flush, Lands, Drops, LinesInv, FailsWith, Durable, Ending, Ended
  <2>2. CASE pc = "handoff" /\ Append1(Line("handoff_written", 0, 0), "close")
      BY <2>2 DEF Append1, LinesInv, FailsWith, Durable, Ending, Ended, lines
  <2>3. CASE pc = "close" /\ Append1(Line("run_frozen", sends, 0), "frozen")
      BY <2>3 DEF Append1, LinesInv, FailsWith, Durable, Ending, Ended, lines
  <2> QED
      BY <1>22, <2>1, <2>2, <2>3 DEF Freeze
<1>23. ASSUME Crash PROVE LinesInv'
    BY <1>23 DEF Crash, LinesInv, FailsWith, Durable, Ending, Ended
<1>24. ASSUME UNCHANGED vars PROVE LinesInv'
    BY <1>24 DEF vars, lines, LinesInv, FailsWith
<1> QED
    BY <1>1, <1>2, <1>3, <1>4, <1>5, <1>6, <1>7, <1>8, <1>9, <1>10, <1>11, <1>12, <1>13, <1>14,
       <1>15, <1>16, <1>17, <1>18, <1>19, <1>20, <1>21, <1>22, <1>23, <1>24
       DEF Next, Drives, Over
LEMMA TypedStep ==
    ASSUME Typed, LinesInv, [Next]_vars
    PROVE  Typed'
<1>1. FailsWith
    BY DEF LinesInv
<1>2. CASE Next
    BY <1>1, <1>2, TypedTurn, TypedCall, TypedWave, TypedEnds DEF Next, Drives
<1>3. CASE UNCHANGED vars
    BY <1>3 DEF vars, Typed, LineTypes, lines, CallTypesOK, calling, WaveTypes, wave, RestTypes,
       tree
<1> QED
    BY <1>2, <1>3

(* Every reachable state has its types, and what is held is as above.      *)
LEMMA RunLines == Spec => [](Typed /\ LinesInv)
<1>1. Init => Typed /\ LinesInv
    BY TypedInit, LinesInit
<1>2. Typed /\ LinesInv /\ [Next]_vars => (Typed /\ LinesInv)'
    BY TypedStep, LinesStep
<1> QED
    BY <1>1, <1>2, PTL DEF Spec

(* A driven run keeps the types of its state, whatever it meets: the       *)
(* account round's counts stay within their width, and every line it       *)
(* appends is a line (run::drive).                                         *)
THEOREM RunTypes == Spec => []TypeOK
<1>1. Typed /\ LinesInv => TypeOK
    BY TypedIsTypeOK
<1> QED
    BY <1>1, RunLines, PTL

-----------------------------------------------------------------------------
(* The tree against its last checkpoint.                                   *)

(* A write in no commit is known to the policy as a changed tree; during a *)
(* wave that may write the policy already says so, and only such a wave    *)
(* writes.                                                                 *)
TreeInv ==
    /\ unsaved => since = "changed"
    /\ pc \in {"boundary", "reads", "alone", "acting"} /\ MayWrite => since = "changed"
    /\ pc = "acting" => MayWrite
    /\ next # 0
    /\ WritesAreSaved

LEMMA TreeInit == Init => TreeInv
BY DEF Init, TreeInv, WritesAreSaved

(* A step that leaves the tree and the wave alone and opens no wave.       *)
LEMMA TreeRests ==
    ASSUME TreeInv, since' = since, unsaved' = unsaved, reply' = reply, next' # 0,
           pc' # "boundary", pc' = "acting" => MayWrite,
           pc' \in {"reads", "alone", "acting"} => pc \in {"boundary", "reads", "alone", "acting"}
    PROVE  TreeInv'
<1>1. MayWrite' <=> MayWrite
    BY DEF MayWrite
<1> QED
    BY <1>1 DEF TreeInv, WritesAreSaved

LEMMA TreeStep ==
    ASSUME Typed, TreeInv, [Next]_vars
    PROVE  TreeInv'
<1>0. next # 0 /\ next \in Nat
    BY DEF Typed, WaveTypes, TreeInv
<1>1. ASSUME Checkpoint PROVE TreeInv'
  <2>1. MayWrite' <=> MayWrite
      BY <1>1 DEF Checkpoint, MayWrite, wave
  <2>0. next' = next
      BY <1>1 DEF Checkpoint, wave
  <2>2. /\ unsaved' = (unsaved /\ ~Stages)
        /\ since' = IF MayWrite THEN "changed" ELSE IF Stages THEN "checkpointed" ELSE since
        /\ pc' = "boundary"
      BY <1>1 DEF Checkpoint
  <2>3. unsaved => Stages
      BY DEF TreeInv, Stages
  <2>4. unsaved \in BOOLEAN /\ unsaved' = FALSE
      BY <2>2, <2>3 DEF Typed, RestTypes
  <2> QED
      BY <1>0, <2>0, <2>1, <2>2, <2>4 DEF TreeInv, WritesAreSaved
<1>2. ASSUME ToolWrites PROVE TreeInv'
  <2>1. MayWrite' <=> MayWrite
      BY <1>2 DEF ToolWrites, MayWrite
  <2>2. since = "changed" /\ since' = since /\ pc' \in {"alone", "failed"} /\ next' # 0
      BY <1>0, <1>2 DEF ToolWrites, TreeInv
  <2> QED
      BY <2>1, <2>2 DEF TreeInv, WritesAreSaved
<1>3. ASSUME NEW calls \in Replies, Answer(calls) PROVE TreeInv'
    BY <1>3 DEF Answer, TreeInv, WritesAreSaved, tree
<1>4. ASSUME NEW interrupt \in Interrupts, Alone(interrupt) PROVE TreeInv'
  <2>1. pc = "alone" /\ next \in DOMAIN reply
    <3>1. reply \in Seq({"read", "write"}) /\ next \in Nat
        BY DriveAssumption DEF Typed, WaveTypes
    <3>2. next # 0
        BY DEF TreeInv
    <3> QED
        BY <1>4, <3>1, <3>2 DEF Alone
  <2>2. reply[next] = "write" => MayWrite
      BY <2>1 DEF MayWrite, Range
  <2>3. /\ pc' \in {"freeze", "failed", "alone", "acting"}
        /\ pc' = "acting" => reply[next] = "write"
      BY <1>4, <2>1 DEF Alone, Cancelled, Barrier, Lands, Drops
  <2> QED
      BY <1>0, <1>4, <2>1, <2>2, <2>3, TreeRests DEF Alone, tree
<1>5. ASSUME NEW interrupt \in Interrupts, OpenWave(interrupt) PROVE TreeInv'
  <2>1. pc' \in {"freeze", "failed", "reads"} /\ reply' = reply /\ next' = next
      BY <1>5 DEF OpenWave, Cancelled, Barrier, Lands, Drops, wave
  <2> QED
      BY <1>0, <1>5, <2>1, TreeRests DEF OpenWave, tree
<1>6. ASSUME NEW interrupt \in Interrupts, Assemble(interrupt) \/ Call(interrupt) \/ Record(interrupt)
      PROVE  TreeInv'
  <2>1. UNCHANGED <<wave, tree>>
      BY <1>6 DEF Assemble, Call, Record
  <2>2. pc' \in {"freeze", "failed", "call", "sent", "concluded", "loop"}
      BY <1>6 DEF Assemble, Call, Record, RecordsSend, Cancelled, Barrier, Lands, Drops
  <2> QED
      BY <1>0, <2>1, <2>2, TreeRests DEF wave, tree
<1>7. ASSUME NEW failure \in Failures \cup {Loadtime}, Fails(failure) \/ TurnFails(failure)
      PROVE  TreeInv'
  <2>1. UNCHANGED <<wave, tree>> /\ pc' = "failed"
      BY <1>7 DEF Fails, TurnFails
  <2> QED
      BY <1>0, <2>1, TreeRests DEF wave, tree
<1>8. ASSUME AccountRead PROVE TreeInv'
  <2>1. next' # 0
      BY <1>0, <1>8 DEF AccountRead
  <2>2. pc = "reads" /\ pc' = pc /\ reply' = reply /\ UNCHANGED tree
      BY <1>8 DEF AccountRead
  <2> QED
      BY <2>1, <2>2, TreeRests DEF tree
<1>9. ASSUME ReadsDone PROVE TreeInv'
  <2>1. UNCHANGED <<wave, tree>> /\ pc = "reads"
      BY <1>9 DEF ReadsDone
  <2>2. pc' \in {"freeze", "failed", "alone"}
      BY <1>9 DEF ReadsDone, Cancelled, Barrier, Lands, Drops
  <2> QED
      BY <1>0, <2>1, <2>2, TreeRests DEF wave, tree
<1>10. ASSUME \/ Dispatch \/ OpenRound \/ RoundStaysOpen \/ Unreadable \/ Repair \/ Conclude
              \/ FlushFailed \/ Dispose \/ (\E halted \in BOOLEAN : Wait(halted)) \/ Freeze \/ Crash
       PROVE  TreeInv'
  <2>1. UNCHANGED <<wave, tree>>
      BY <1>10 DEF Dispatch, OpenRound, RoundStaysOpen, Unreadable, Repair, Conclude, FlushFailed,
         Dispose, Wait, Freeze, Crash
  <2>2. pc' \notin {"boundary", "reads", "alone", "acting"}
      BY <1>10 DEF Dispatch, OpenRound, RoundStaysOpen, Unreadable, Repair, Conclude, FlushFailed,
         Dispose, Disposes, Wait, Freeze, Crash, RecordsSend, Barrier, Flush, Append1, Lands, Drops
  <2> QED
      BY <1>0, <2>1, <2>2, TreeRests DEF wave, tree
<1>11. ASSUME UNCHANGED vars PROVE TreeInv'
  <2>1. (MayWrite' <=> MayWrite) /\ UNCHANGED <<pc, since, unsaved, next>>
      BY <1>11 DEF vars, wave, tree, MayWrite
  <2> QED
      BY <2>1 DEF TreeInv, WritesAreSaved
<1> QED
    BY <1>1, <1>2, <1>3, <1>4, <1>5, <1>6, <1>7, <1>8, <1>9, <1>10, <1>11 DEF Next, Drives, Over

(* A wave that may write starts on a tree whose earlier writes are all in  *)
(* a commit, for every roster, every reply and every order of interrupts,  *)
(* failed calls and refusals before it (CheckpointPolicy, wave.rs).        *)
THEOREM WavesStartSaved == Spec => []WritesAreSaved
<1>1. Init => TreeInv
    BY TreeInit
<1>2. Typed /\ TreeInv /\ [Next]_vars => TreeInv'
    BY TreeStep
<1>3. TreeInv => WritesAreSaved
    BY DEF TreeInv
<1> QED
    BY <1>1, <1>2, <1>3, RunLines, PTL DEF Spec
-----------------------------------------------------------------------------
(* What one request sends, account by account.                             *)

Open == round # NoRound
Turning == Places \ (Ending \cup Failed \cup {"dispatch", "loop"})

(* Where the send the round has counted last has not gone out.             *)
Unsent == {"loop", "assemble", "call", "sent", "repair", "resent", "wait"}

(* The round stands on an account it has tried, its count of sends there   *)
(* covers every send that went out there, one more while the last is still *)
(* to go out, and nothing went out on an account it has not tried.         *)
Covers(r, on, unsent) ==
    /\ r.current \in r.tried /\ r.here \in 1 .. AccountRetries + 1
    /\ on[r.current] <= IF unsent THEN r.here - 1 ELSE r.here
    /\ \A a \in Listed \ r.tried : on[a] = 0

RoundInv ==
    /\ pc \in Turning => Open
    /\ pc = "dispatch" => ~Open
    /\ pc \in Failed /\ ~Open => err = Exhausted
    /\ Open => account = round.current
    /\ Several /\ Open => Covers(round, sentOn, pc \in Unsent)
    /\ SendBudget

LEMMA RoundInit == Init => RoundInv
<1> SUFFICES ASSUME Init PROVE RoundInv
    OBVIOUS
<1>1. ~Open /\ pc = "dispatch"
    BY DEF Init, Open
<1>2. \A a \in Listed : sentOn[a] = 0
    BY DEF Init, AllAccounts
<1>3. 0 <= AccountRetries + 1
    BY RoundAssumption
<1> QED
    BY <1>1, <1>2, <1>3 DEF RoundInv, SendBudget, Turning, Failed

(* A step that calls nobody: the round and its counts stay.                *)
LEMMA RoundRests ==
    ASSUME Typed, RoundInv, UNCHANGED <<round, account, sentOn>>,
           pc' = "dispatch" => pc = "dispatch", pc' \in Turning => Open,
           pc' \in Failed => Open \/ err' = Exhausted,
           pc' \in Unsent => pc \in Unsent \cup {"dispatch"}
    PROVE  RoundInv'
<1>1. Open' <=> Open
    BY DEF Open
<1>2. SendBudget'
    BY DEF RoundInv, SendBudget
<1>3. ASSUME Several, Open PROVE Covers(round, sentOn, pc \in Unsent)'
  <2>1. Covers(round, sentOn, pc \in Unsent) /\ (pc' \in Unsent => pc \in Unsent)
      BY <1>3 DEF RoundInv
  <2>2. round.current \in AllAccounts /\ sentOn \in [AllAccounts -> Nat]
      BY DEF Typed, CallTypesOK, Rounds, AllAccounts
  <2>3. sentOn[round.current] \in Nat /\ round.here \in Nat
      BY <2>1, <2>2, RoundAssumption DEF Covers
  <2> QED
      BY <2>1, <2>3 DEF Covers
<1> QED
    BY <1>1, <1>2, <1>3 DEF RoundInv

(* A send goes out on the account the round counted it on.                 *)
LEMMA GoesOutCounts ==
    ASSUME Typed, RoundInv, pc \in {"sent", "resent"}, GoesOut, Several
    PROVE  /\ Covers(round, sentOn', FALSE)
           /\ \A a \in Listed : sentOn'[a] <= AccountRetries + 1
           /\ round.here \in Nat
<1>1. Open /\ account = round.current /\ Covers(round, sentOn, TRUE)
    BY DEF RoundInv, Turning, Places, Ending, Ended, Failed, Unsent
<1>2. account \in AllAccounts /\ sentOn \in [AllAccounts -> Nat] /\ sentOn[account] \in Nat
    BY DEF Typed, CallTypesOK
<1>3. sentOn' = [sentOn EXCEPT ![account] = @ + 1]
    BY DEF GoesOut
<1>4. sentOn'[account] = sentOn[account] + 1
    BY <1>2, <1>3
<1>5. \A a \in Listed : a # account => sentOn'[a] = sentOn[a]
    BY <1>2, <1>3 DEF AllAccounts
<1>6. round.here \in 1 .. AccountRetries + 1 /\ AccountRetries \in Nat
    BY <1>1, RoundAssumption DEF Covers
<1>7. sentOn'[account] <= round.here
    BY <1>1, <1>2, <1>4, <1>6 DEF Covers
<1>8. \A a \in Listed : sentOn'[a] <= AccountRetries + 1
    BY <1>4, <1>5, <1>6, <1>7, <1>2 DEF RoundInv, SendBudget
<1>9. \A a \in Listed \ round.tried : a # account
    BY <1>1 DEF Covers
<1> QED
    BY <1>1, <1>5, <1>6, <1>7, <1>8, <1>9 DEF Covers

LEMMA RoundTurn ==
    ASSUME Typed, RoundInv, NEW interrupt \in Interrupts,
           Assemble(interrupt) \/ Call(interrupt) \/ OpenWave(interrupt) \/ Alone(interrupt)
             \/ Record(interrupt)
    PROVE  RoundInv'
<1>0. pc \in {"assemble", "call", "boundary", "alone"} /\ Open
  <2>1. pc \in {"assemble", "call", "boundary", "alone"}
      BY DEF Assemble, Call, OpenWave, Alone, Record
  <2> QED
      BY <2>1 DEF RoundInv, Turning, Places, Ending, Ended, Failed
<1>1. /\ UNCHANGED <<account, sentOn>>
      /\ round' = round \/ (round' = NoRound /\ Record(interrupt) /\ pc' = "loop")
    BY DEF Assemble, Call, OpenWave, Alone, Record, calling
<1>2. CASE round' = round
  <2>1. pc' # "dispatch" /\ (pc' \in Unsent => pc \in Unsent)
    <3>1. CASE Assemble(interrupt) \/ Call(interrupt)
        BY <3>1 DEF Assemble, Call, RecordsSend, Cancelled, Barrier, Lands, Drops, Unsent
    <3>2. CASE OpenWave(interrupt) \/ Alone(interrupt)
        BY <3>2 DEF OpenWave, Alone, Cancelled, Barrier, Lands, Drops, Unsent
    <3>3. CASE Record(interrupt)
        BY <1>0, <1>2, <3>3 DEF Record, Cancelled, Barrier, Lands, Drops, Unsent, Open
    <3> QED
        BY <3>1, <3>2, <3>3
  <2> QED
      BY <1>0, <1>1, <1>2, <2>1, RoundRests
<1>3. CASE round' = NoRound /\ pc' = "loop"
  <2>1. SendBudget' /\ ~Open'
      BY <1>1, <1>3 DEF RoundInv, SendBudget, Open
  <2> QED
      BY <1>3, <2>1 DEF RoundInv, Turning, Failed
<1> QED
    BY <1>1, <1>2, <1>3
LEMMA RoundCall ==
    ASSUME Typed, RoundInv,
           \/ \E calls \in Replies : Answer(calls)
           \/ \E failure \in Failures \cup {Loadtime} : Fails(failure)
           \/ Unreadable
    PROVE  RoundInv'
<1>0. pc \in {"sent", "resent"} /\ GoesOut /\ account' = account
    BY DEF Answer, Fails, Unreadable
<1>1. Open /\ account = round.current /\ round \in Rounds
    BY <1>0 DEF RoundInv, Turning, Places, Ending, Ended, Failed, Typed, CallTypesOK
<1>2. Several => /\ Covers(round, sentOn', FALSE) /\ round.here \in Nat
                 /\ \A a \in Listed : sentOn'[a] <= AccountRetries + 1
    BY <1>0, GoesOutCounts
<1>3. SendBudget'
    BY <1>2 DEF SendBudget
<1>4. ASSUME \/ \E calls \in Replies : Answer(calls)
             \/ \E failure \in Failures \cup {Loadtime} : Fails(failure)
      PROVE  RoundInv'
  <2>1. round' = round /\ pc' \in {"returned", "failed"}
      BY <1>4 DEF Answer, Fails
  <2>2. Open' /\ account' = round'.current
      BY <1>0, <1>1, <2>1 DEF Open
  <2>3. Several => Covers(round, sentOn, pc \in Unsent)'
      BY <1>2, <2>1 DEF Covers, Unsent
  <2> QED
      BY <1>3, <2>1, <2>2, <2>3 DEF RoundInv
<1>5. ASSUME Unreadable PROVE RoundInv'
  <2>1. round' = Repaired(round) /\ AdmitsRepair(round) /\ pc' = "repair"
      BY <1>5 DEF Unreadable
  <2>2. /\ round'.current = round.current /\ round'.tried = round.tried
        /\ Several => round'.here = Count(round.here) /\ Spare(round)
      BY <2>1, <1>1, RepairedFacts
  <2>3. Several => round'.here = round.here + 1 /\ round'.here \in 1 .. AccountRetries + 1
    <3> SUFFICES ASSUME Several
                 PROVE  round'.here = round.here + 1 /\ round'.here \in 1 .. AccountRetries + 1
        OBVIOUS
    <3>1. round.here \in Nat /\ round.here <= AccountRetries
        BY <1>2, <2>2 DEF Spare
    <3> QED
        BY <2>2, <3>1, RoundAssumption DEF Count
  <2>4. Open'
    <3>1. CASE Several
      <4>1. round'.here # 0
          BY <2>3, <3>1, RoundAssumption
      <4> QED
          BY <4>1 DEF Open, NoRound
    <3>2. CASE ~Several
        BY <1>1, <2>1, <3>2 DEF Open, Repaired
    <3> QED
        BY <3>1, <3>2
  <2>5. Several => Covers(round, sentOn, pc \in Unsent)'
    <3> SUFFICES ASSUME Several PROVE Covers(round', sentOn', pc' \in Unsent)
        OBVIOUS
    <3>1. Covers(round, sentOn', FALSE) /\ round.here \in Nat
        BY <1>2
    <3>2. sentOn'[round'.current] <= round'.here - 1
        BY <2>2, <2>3, <3>1 DEF Covers
    <3>3. round'.current \in round'.tried /\ \A a \in Listed \ round'.tried : sentOn'[a] = 0
        BY <2>2, <3>1 DEF Covers
    <3> QED
        BY <2>1, <2>3, <3>2, <3>3 DEF Covers, Unsent
  <2> QED
      BY <1>0, <1>1, <1>3, <2>1, <2>2, <2>4, <2>5 DEF RoundInv, Failed
<1> QED
    BY <1>4, <1>5

LEMMA RoundOpens ==
    ASSUME Typed, RoundInv, OpenRound
    PROVE  RoundInv'
<1>1. PICK usable \in SUBSET Listed :
        /\ ~Several => usable = {}
        /\ IF CanStart(usable)
           THEN /\ round' = Start(usable, account) /\ account' = round'.current
                /\ pc' = "assemble" /\ UNCHANGED err
           ELSE /\ err' = Exhausted /\ pc' = "failed" /\ UNCHANGED <<round, account>>
    BY DEF OpenRound
<1>2. sentOn' = [a \in AllAccounts |-> 0] /\ round = NoRound
    BY DEF OpenRound
<1>3. \A a \in Listed : sentOn'[a] = 0
    BY <1>2 DEF AllAccounts
<1>4. SendBudget'
    BY <1>3, RoundAssumption DEF SendBudget
<1>5. CASE CanStart(usable)
  <2>1. account \in AllAccounts
      BY DEF Typed, CallTypesOK
  <2>2. /\ round' # NoRound /\ round'.here = 1
        /\ Several => round'.current \in Listed /\ round'.tried = {round'.current}
      BY <1>1, <1>5, <2>1, StartFacts
  <2>3. Several => Covers(round', sentOn', TRUE)
      BY <2>2, <1>3, RoundAssumption DEF Covers
  <2> QED
      BY <1>1, <1>4, <1>5, <2>2, <2>3 DEF RoundInv, Open, Unsent, Failed
<1>6. CASE ~CanStart(usable)
    BY <1>1, <1>2, <1>4, <1>6 DEF RoundInv, Open, Turning, Failed
<1> QED
    BY <1>5, <1>6

(* The watchdog's step, on the round of the failed send.                   *)
LEMMA DisposeCases ==
    ASSUME Typed, LinesInv, RoundInv, Dispose
    PROVE  \/ UNCHANGED <<round, account>> /\ pc' \in Ending
           \/ /\ Open /\ \E step : /\ Stays(round, step) \/ Moves(round, step)
                                   /\ round' = Applied(round, step) /\ account' = step.to
              /\ pc' \in {"loop", "wait", "dead"}
<1>1. pc = "dispose" /\ round \in Rounds
    BY DEF Dispose, Typed, CallTypesOK
<1>2. ASSUME NEW step, Disposes(step), Stopped(step)
      PROVE  account' = account /\ pc' \in Ending
    BY <1>2 DEF Disposes, Stopped, Append1, Ending, Ended
<1>3. CASE err = Loadtime
    BY <1>3 DEF Dispose, Ending
<1>4. CASE err # Loadtime /\ err = Exhausted
  <2>1. Stopped(Stop("exhausted"))
      BY DEF Stopped, Stop, Step
  <2> QED
      BY <1>2, <1>4, <2>1 DEF Dispose
<1>5. CASE err # Loadtime /\ err # Exhausted
  <2>1. err \in Failures /\ Open
      BY <1>1, <1>5 DEF Typed, Errors, LinesInv, FailsWith, Failed, RoundInv
  <2>2. PICK step : step = NextStep(round, err)
      OBVIOUS
  <2>3. Disposes(step) /\ round' = Applied(round, step)
      BY <1>5, <2>2 DEF Dispose
  <2>4. Stays(round, step) \/ Moves(round, step) \/ Stopped(step)
      BY <1>1, <2>1, <2>2, NextStepFacts
  <2>5. CASE Stopped(step)
      BY <1>1, <1>2, <2>3, <2>5, AppliedFacts
  <2>6. CASE Stays(round, step) \/ Moves(round, step)
    <3>1. account' = step.to /\ pc' \in {"loop", "wait", "dead"}
        BY <2>3, <2>6 DEF Disposes, Stays, Moves, Append1
    <3> QED
        BY <2>1, <2>3, <2>6, <3>1
  <2> QED
      BY <2>4, <2>5, <2>6
<1> QED
    BY <1>3, <1>4, <1>5

LEMMA RoundDisposes ==
    ASSUME Typed, LinesInv, RoundInv, Dispose
    PROVE  RoundInv'
<1>0. sentOn' = sentOn /\ pc = "dispose" /\ round \in Rounds
    BY DEF Dispose, Typed, CallTypesOK
<1>1. CASE UNCHANGED <<round, account>> /\ pc' \in Ending
  <2>1. pc' \notin Turning \cup Failed \cup Unsent \cup {"dispatch"}
      BY <1>1 DEF Ending, Ended, Turning, Failed, Unsent
  <2> QED
      BY <1>0, <1>1, <2>1, RoundRests
<1>2. ASSUME Open, NEW step, Stays(round, step) \/ Moves(round, step),
             round' = Applied(round, step), account' = step.to, pc' \in {"loop", "wait", "dead"}
      PROVE  RoundInv'
  <2>1. SendBudget'
      BY <1>0 DEF RoundInv, SendBudget
  <2>2. account' = round'.current
      BY <1>0, <1>2, AppliedFacts DEF Stays
  <2>3. Several => Covers(round, sentOn, FALSE) /\ round.here \in Nat /\ AccountRetries \in Nat
      BY <1>0, <1>2, RoundAssumption DEF RoundInv, Covers, Unsent
  <2>4. ASSUME Stays(round, step)
        PROVE  Open' /\ (Several => Covers(round', sentOn', TRUE))
    <3>1. /\ round'.current = round.current /\ round'.tried = round.tried
          /\ round'.here = Count(round.here) /\ round.here \in 0 .. CountMax
        BY <1>0, <1>2, <2>4, AppliedFacts DEF Rounds
    <3>2. round'.here # 0
        BY <3>1, RoundAssumption DEF Count
    <3>3. Open'
        BY <3>2 DEF Open, NoRound
    <3>4. Several => round'.here = round.here + 1 /\ round'.here \in 1 .. AccountRetries + 1
      <4> SUFFICES ASSUME Several
                   PROVE  round'.here = round.here + 1 /\ round'.here \in 1 .. AccountRetries + 1
          OBVIOUS
      <4>1. round.here <= AccountRetries
          BY <2>4 DEF Stays, Spare
      <4> QED
          BY <2>3, <3>1, <4>1, RoundAssumption DEF Count
    <3>5. Several => sentOn'[round'.current] <= round'.here - 1
        BY <1>0, <2>3, <3>1, <3>4 DEF Covers
    <3>6. Several => round'.current \in round'.tried
                     /\ \A a \in Listed \ round'.tried : sentOn'[a] = 0
        BY <1>0, <2>3, <3>1 DEF Covers
    <3> QED
        BY <3>3, <3>4, <3>5, <3>6 DEF Covers
  <2>5. ASSUME Moves(round, step)
        PROVE  Open' /\ (Several => Covers(round', sentOn', TRUE))
    <3>1. /\ round'.current = step.to /\ round'.tried = round.tried \cup {step.to}
          /\ round'.here = 1
        BY <1>0, <1>2, <2>5, AppliedFacts
    <3>2. Open'
        BY <3>1 DEF Open, NoRound
    <3>3. Several /\ step.to \in Listed \ round.tried
        BY <1>0, <2>5 DEF Moves, Rounds
    <3>4. sentOn'[round'.current] = 0 /\ \A a \in Listed \ round'.tried : sentOn'[a] = 0
        BY <1>0, <2>3, <3>1, <3>3 DEF Covers
    <3> QED
        BY <2>3, <3>1, <3>2, <3>3, <3>4 DEF Covers
  <2>6. Open' /\ (Several => Covers(round', sentOn', TRUE))
      BY <1>2, <2>4, <2>5
  <2>7. pc' \notin Failed \cup {"dispatch"}
      BY <1>2 DEF Failed
  <2>8. Several => Covers(round, sentOn, pc \in Unsent)'
    <3> SUFFICES ASSUME Several PROVE Covers(round', sentOn', pc' \in Unsent)
        OBVIOUS
    <3>1. Covers(round', sentOn', TRUE) /\ round'.current \in AllAccounts
        BY <2>6, <1>0, <1>2, AppliedFacts DEF Rounds, AllAccounts
    <3>2. sentOn'[round'.current] \in Nat
        BY <1>0, <3>1 DEF Typed, CallTypesOK
    <3>3. round'.here \in Nat
        BY <3>1, <2>3 DEF Covers
    <3> QED
        BY <3>1, <3>2, <3>3 DEF Covers
  <2> QED
      BY <2>1, <2>2, <2>6, <2>7, <2>8 DEF RoundInv
<1> QED
    BY <1>1, <1>2, DisposeCases
LEMMA RoundStep ==
    ASSUME Typed, LinesInv, RoundInv, [Next]_vars
    PROVE  RoundInv'
<1>1. ASSUME \/ \E failure \in Failures \cup {Loadtime} : TurnFails(failure)
             \/ RoundStaysOpen \/ Repair \/ Checkpoint \/ AccountRead \/ ReadsDone \/ ToolWrites
             \/ Conclude \/ (\E halted \in BOOLEAN : Wait(halted))
      PROVE  RoundInv'
  <2>1. UNCHANGED <<round, account, sentOn>>
      BY <1>1 DEF TurnFails, RoundStaysOpen, Repair, Checkpoint, AccountRead, ReadsDone,
         ToolWrites, Conclude, Wait, calling
  <2>2. pc \in Turning \/ RoundStaysOpen
      BY <1>1 DEF TurnFails, RoundStaysOpen, Repair, Checkpoint, AccountRead, ReadsDone,
         ToolWrites, Conclude, Wait, Turning, Places, Ending, Ended, Failed
  <2>3. Open
      BY <2>2 DEF RoundInv, RoundStaysOpen, Open
  <2>4. pc' # "dispatch"
      BY <1>1 DEF TurnFails, RoundStaysOpen, Repair, Checkpoint, AccountRead, ReadsDone,
         ToolWrites, Conclude, Wait, RecordsSend, Cancelled, Barrier, Lands, Drops
  <2>5. pc' \in Unsent => pc \in Unsent
      BY <1>1 DEF TurnFails, RoundStaysOpen, Repair, Checkpoint, AccountRead, ReadsDone,
         ToolWrites, Conclude, Wait, RecordsSend, Cancelled, Barrier, Lands, Drops, Unsent
  <2> QED
      BY <2>1, <2>3, <2>4, <2>5, RoundRests
<1>2. ASSUME Dispatch PROVE RoundInv'
  <2>1. UNCHANGED <<round, account, sentOn>> /\ pc = "dispatch" /\ pc' \in {"dispatch", "loop", "dead"}
      BY <1>2 DEF Dispatch, Append1, calling
  <2> QED
      BY <2>1, RoundRests DEF Turning, Places, Ending, Ended, Failed
<1>3. ASSUME FlushFailed \/ Freeze \/ Crash PROVE RoundInv'
  <2>1. UNCHANGED <<round, account, sentOn>>
      BY <1>3 DEF FlushFailed, Freeze, Crash, calling
  <2>2. pc' \in Ending \/ (pc = "failed" /\ pc' = "dispose" /\ err' = err)
      BY <1>3 DEF FlushFailed, Freeze, Crash, Flush, Append1, Lands, Drops, Ending, Ended
  <2>3. pc' \in Failed => Open \/ err' = Exhausted
      BY <2>2 DEF RoundInv, Failed, Ending, Ended
  <2> QED
      BY <2>1, <2>2, <2>3, RoundRests DEF Turning, Ending, Ended, Failed, Unsent
<1>4. ASSUME UNCHANGED vars PROVE RoundInv'
    BY <1>4 DEF vars, calling, RoundInv, Open, SendBudget, Covers
<1> QED
    BY <1>1, <1>2, <1>3, <1>4, RoundTurn, RoundCall, RoundOpens, RoundDisposes
       DEF Next, Drives, Over

LEMMA RunRounds == Spec => [](Typed /\ LinesInv /\ RoundInv)
<1>1. Init => RoundInv
    BY RoundInit
<1>2. Typed /\ LinesInv /\ RoundInv /\ [Next]_vars => RoundInv'
    BY RoundStep
<1> QED
    BY <1>1, <1>2, RunLines, PTL DEF Spec

(* A request with several accounts goes out on one account no more often   *)
(* than its retries allow, the repair stage's sends included, whatever the *)
(* roster, the ceiling and the failures (account_recovery.rs,              *)
(* BlockingResend).                                                        *)
THEOREM SendsBounded == Spec => []SendBudget
<1>1. RoundInv => SendBudget
    BY DEF RoundInv
<1> QED
    BY <1>1, RunRounds, PTL

(* A round never moves to an account it has already sent on: the step the  *)
(* watchdog applies goes to an account the round has not tried, and it     *)
(* has sent on none of those (account_recovery.rs switch).                 *)
THEOREM NeverBackHolds == Spec => NeverBack
<1>1. ASSUME Typed, LinesInv, RoundInv, [Next]_vars
      PROVE  [pc = "dispose" /\ account' # account => sentOn[account'] = 0]_vars
  <2> SUFFICES ASSUME pc = "dispose", account' # account PROVE sentOn[account'] = 0
      OBVIOUS
  <2>1. Dispose
      BY <1>1 DEF Next, Drives, Dispatch, OpenRound, RoundStaysOpen, Assemble, Call, OpenWave, Alone,
         Record, Answer, Fails, TurnFails, Unreadable, Repair, Checkpoint, AccountRead, ReadsDone,
         ToolWrites, Conclude, FlushFailed, Wait, Freeze, Crash, Over, vars, calling
  <2>2. PICK step : Open /\ (Stays(round, step) \/ Moves(round, step)) /\ account' = step.to
      BY <1>1, <2>1, DisposeCases
  <2>3. Moves(round, step)
      BY <1>1, <2>2 DEF Stays, RoundInv
  <2>4. Several /\ account' \in Listed \ round.tried
      BY <1>1, <2>2, <2>3 DEF Moves, Typed, CallTypesOK, Rounds
  <2> QED
      BY <1>1, <2>2, <2>4 DEF RoundInv, Covers
<1> QED
    BY <1>1, RunRounds, PTL DEF Spec, NeverBack
-----------------------------------------------------------------------------
(* The run's history.                                                      *)

Log == durable \o held

(* What was acted was announced durably, and so is what acts next.         *)
Announced(history) == History!Announced(history)
ActedInv ==
    /\ acted \subseteq Announced(durable)
    /\ pc \in {"sent", "resent"} => Effect("send", sends, 0) \in Announced(durable)
    /\ pc = "acting" => Effect("write", sends, next) \in Announced(durable)

LEMMA AnnouncedConcat ==
    ASSUME NEW s \in Seq(Lines), NEW t \in Seq(Lines)
    PROVE  Announced(s) \cup Announced(t) \subseteq Announced(s \o t)
<1>0. DOMAIN s = 1 .. Len(s) /\ DOMAIN t = 1 .. Len(t)
    OBVIOUS
<1>1. \A i \in 1 .. Len(s) : i \in DOMAIN (s \o t) /\ (s \o t)[i] = s[i]
    OBVIOUS
<1>2. \A i \in 1 .. Len(t) : Len(s) + i \in DOMAIN (s \o t) /\ (s \o t)[Len(s) + i] = t[i]
    OBVIOUS
<1>3. History!Range(s) \subseteq History!Range(s \o t)
    BY <1>0, <1>1 DEF History!Range
<1>4. History!Range(t) \subseteq History!Range(s \o t)
    BY <1>0, <1>2 DEF History!Range
<1> QED
    BY <1>3, <1>4 DEF Announced, History!Announced

LEMMA LineAnnounces ==
    ASSUME NEW n, NEW i
    PROVE  /\ Effect("send", n, 0) \in Announced(<<Line("model_called", n, 0)>>)
           /\ Effect("write", n, i) \in Announced(<<Line("tool_called", n, i)>>)
<1>1. Announces(Line("model_called", n, 0)) = {Effect("send", n, 0)}
    BY DEF Announces, Line
<1>2. Announces(Line("tool_called", n, i)) = {Effect("write", n, i)}
    BY DEF Announces, Line
<1>3. \A line : line \in History!Range(<<line>>)
    BY DEF History!Range
<1> QED
    BY <1>1, <1>2, <1>3 DEF Announced, History!Announced

LEMMA PrefixConcat ==
    ASSUME NEW s \in Seq(Lines), NEW t \in Seq(Lines)
    PROVE  History!IsPrefix(s, s \o t)
<1>1. Len(s) \in Nat /\ Len(s \o t) = Len(s) + Len(t) /\ Len(t) \in Nat
    OBVIOUS
<1>2. SubSeq(s, 1, Len(s)) = SubSeq(s \o t, 1, Len(s))
  <2>1. \A i \in 1 .. Len(s) : (s \o t)[i] = s[i]
      OBVIOUS
  <2>2. /\ SubSeq(s, 1, Len(s)) \in Seq(Lines) /\ SubSeq(s \o t, 1, Len(s)) \in Seq(Lines)
        /\ Len(SubSeq(s, 1, Len(s))) = Len(s) /\ Len(SubSeq(s \o t, 1, Len(s))) = Len(s)
        /\ \A i \in 1 .. Len(s) : SubSeq(s, 1, Len(s))[i] = s[i]
                                  /\ SubSeq(s \o t, 1, Len(s))[i] = (s \o t)[i]
      BY <1>1
  <2> QED
      BY <2>1, <2>2, <1>1, SeqEqual
<1> QED
    BY <1>1, <1>2 DEF History!IsPrefix

Keeps == ActedInv' /\ [History!Next]_(History!vars)

(* Lines added to the history, which after a cut only close the run.       *)
LEMMA WriteKeeps ==
    ASSUME LineTypes, NEW new \in Seq(Lines), Log' = Log \o new, UNCHANGED <<acted, cut>>,
           cut => \A i \in 1 .. Len(new) : Closes(new[i])
    PROVE  [History!Next]_(History!vars)
<1>1. Log \in Seq(Lines)
    BY DEF LineTypes, Log
<1>2. History!IsPrefix(Log, Log \o new)
    BY <1>1, PrefixConcat
<1>3. ASSUME cut, NEW i \in Len(Log) + 1 .. Len(Log') PROVE Closes(Log'[i])
  <2>1. i - Len(Log) \in 1 .. Len(new) /\ (Log \o new)[i] = new[i - Len(Log)]
      BY <1>1, <1>3
  <2> QED
      BY <1>3, <2>1
<1>4. CASE Log' = Log
    BY <1>4 DEF History!vars, Log
<1>5. CASE Log' # Log
    BY <1>2, <1>3, <1>5 DEF History!Next, History!Write, Log
<1> QED
    BY <1>4, <1>5
(* A step that only holds lines, before any cut.                           *)
LEMMA HoldKeeps ==
    ASSUME LineTypes, ActedInv, ~cut, NEW new \in Seq(Lines), Hold(new), acted' = acted,
           pc' \notin {"sent", "resent", "acting"}
    PROVE  Keeps
<1>1. Log' = Log \o new
  <2>1. durable' = durable /\ held' = held \o new
      BY DEF Hold
  <2>2. durable \o (held \o new) = (durable \o held) \o new
      BY ConcatAssociative DEF LineTypes
  <2> QED
      BY <2>1, <2>2 DEF Log
<1>2. [History!Next]_(History!vars)
    BY <1>1, WriteKeeps DEF Hold
<1>3. ActedInv'
    BY DEF Hold, ActedInv
<1> QED
    BY <1>2, <1>3 DEF Keeps

(* A step that leaves the lines alone.                                     *)
LEMMA RestKeeps ==
    ASSUME ActedInv, UNCHANGED <<lines, acted>>, pc' \notin {"sent", "resent", "acting"}
    PROVE  Keeps
<1>1. UNCHANGED History!vars
    BY DEF lines, History!vars
<1>2. ActedInv'
    BY DEF lines, ActedInv
<1> QED
    BY <1>1, <1>2 DEF Keeps

(* What is held is lost: the tail of the history it was announced no       *)
(* effect that was acted.                                                  *)
LEMMA LossKeeps ==
    ASSUME LineTypes, ActedInv, durable' = durable, held' = <<>>, cut' = TRUE, acted' = acted,
           pc' \notin {"sent", "resent", "acting"}
    PROVE  Keeps
<1>1. durable \o <<>> = durable
    BY DEF LineTypes
<1>2. History!IsPrefix(durable, durable \o held)
    BY PrefixConcat DEF LineTypes
<1>3. Log' = durable
    BY <1>1 DEF Log
<1>4. History!LoseTail
    BY <1>2, <1>3 DEF History!LoseTail, Log, ActedInv, Announced
<1>5. ActedInv'
    BY DEF ActedInv
<1> QED
    BY <1>4, <1>5 DEF Keeps, History!Next

(* A barrier before any cut: what it lands may announce what acts next.    *)
LEMMA BarrierKeeps ==
    ASSUME LineTypes, ActedInv, ~cut, NEW new \in Seq(Lines), NEW stage, Barrier(new, stage),
           acted' = acted,
           stage \in {"sent", "resent"} => Effect("send", sends', 0) \in Announced(new),
           stage = "acting" => Effect("write", sends', next') \in Announced(new)
    PROVE  Keeps
<1>1. CASE Lands(new, stage)
  <2>1. durable' = durable \o held \o new /\ held' = <<>> /\ pc' = stage /\ cut' = cut
      BY <1>1 DEF Lands
  <2>2. Log \in Seq(Lines) /\ durable \in Seq(Lines) /\ durable' \in Seq(Lines)
      BY <2>1 DEF LineTypes, Log
  <2>3. Log' = Log \o new
    <3>1. durable' \o <<>> = durable'
        BY <2>2
    <3> QED
        BY <2>1, <3>1 DEF Log
  <2>4. [History!Next]_(History!vars)
      BY <2>1, <2>3, WriteKeeps
  <2>5. Announced(durable) \subseteq Announced(Log)
      BY AnnouncedConcat DEF LineTypes, Log
  <2>6. Announced(Log) \cup Announced(new) \subseteq Announced(Log \o new)
      BY <2>2, AnnouncedConcat
  <2>7. durable' = Log \o new
      BY <2>1 DEF Log
  <2>8. ActedInv'
    <3>1. Announced(durable') = Announced(Log \o new)
        BY <2>7
    <3> QED
        BY <2>1, <2>5, <2>6, <3>1 DEF ActedInv, Announced
  <2> QED
      BY <2>4, <2>8 DEF Keeps
<1>2. CASE Drops("failed")
    BY <1>2, LossKeeps DEF Drops
<1> QED
    BY <1>1, <1>2 DEF Barrier

LEMMA CancelledKeeps ==
    ASSUME LineTypes, ActedInv, ~cut, Cancelled, acted' = acted
    PROVE  Keeps
<1>1. <<Line("cancel_received", 0, 0)>> \in Seq(Lines)
    BY LineType DEF Kinds
<1> QED
    BY <1>1, BarrierKeeps DEF Cancelled

(* A flush outside a turn.                                                 *)
LEMMA FlushKeeps ==
    ASSUME LineTypes, ActedInv, cut => held = <<>>, NEW stage, Flush(stage), acted' = acted,
           stage \notin {"sent", "resent", "acting"}
    PROVE  Keeps
<1>1. CASE Lands(<<>>, stage)
  <2>1. durable' = durable \o held \o <<>> /\ held' = <<>> /\ pc' = stage /\ cut' = cut
      BY <1>1 DEF Lands
  <2>2. Log \in Seq(Lines) /\ durable \in Seq(Lines)
      BY DEF LineTypes, Log
  <2>3. durable' = Log
      BY <2>1, <2>2 DEF Log
  <2>4. Log' = Log \o <<>> /\ Log \o <<>> = Log
      BY <2>1, <2>2, <2>3 DEF Log
  <2>5. [History!Next]_(History!vars)
      BY <2>1, <2>4 DEF History!vars, Log
  <2>6. Announced(durable) \subseteq Announced(Log)
      BY AnnouncedConcat DEF LineTypes, Log
  <2>7. ActedInv'
      BY <2>1, <2>3, <2>6 DEF ActedInv, Announced
  <2> QED
      BY <2>5, <2>7 DEF Keeps
<1>2. CASE Drops("dead")
    BY <1>2, LossKeeps DEF Drops
<1> QED
    BY <1>1, <1>2 DEF Flush

(* A line that goes straight to the ledger, with nothing held.             *)
LEMMA AppendKeeps ==
    ASSUME LineTypes, ActedInv, held = <<>>, NEW line \in Lines, NEW stage, Append1(line, stage),
           acted' = acted, stage \notin {"sent", "resent", "acting"}, cut => Closes(line)
    PROVE  Keeps
<1>1. CASE durable' = Append(durable, line) /\ pc' = stage /\ UNCHANGED <<held, cut, err>>
  <2>1. durable \in Seq(Lines) /\ <<line>> \in Seq(Lines)
      BY DEF LineTypes
  <2>2. Append(durable, line) = durable \o <<line>> /\ durable \o <<>> = durable
      BY <2>1
  <2>3. durable' = durable \o <<line>> /\ durable' \in Seq(Lines)
      BY <1>1, <2>1, <2>2
  <2>4. durable' \o <<>> = durable'
      BY <2>3
  <2>5. Log' = Log \o <<line>>
      BY <1>1, <2>2, <2>3, <2>4 DEF Log
  <2>6. \A i \in 1 .. Len(<<line>>) : <<line>>[i] = line
      OBVIOUS
  <2>7. [History!Next]_(History!vars)
      BY <1>1, <2>1, <2>5, <2>6, WriteKeeps
  <2>8. Announced(durable) \subseteq Announced(durable \o <<line>>)
      BY <2>1, AnnouncedConcat
  <2>9. ActedInv'
      BY <1>1, <2>3, <2>8 DEF ActedInv, Announced
  <2> QED
      BY <2>7, <2>9 DEF Keeps
<1>2. CASE pc' = "dead" /\ UNCHANGED <<lines, err>>
    BY <1>2, RestKeeps
<1> QED
    BY <1>1, <1>2 DEF Append1
(* An effect goes out, announced durably, and lines of it are held.        *)
LEMMA ActKeeps ==
    ASSUME LineTypes, ActedInv, ~cut, NEW e \in Announced(durable), acted' = acted \cup {e},
           NEW new \in Seq(Lines), Hold(new), pc' \notin {"sent", "resent", "acting"}
    PROVE  Keeps
<1>1. Log' = Log \o new
  <2>1. durable' = durable /\ held' = held \o new
      BY DEF Hold
  <2>2. durable \o (held \o new) = (durable \o held) \o new
      BY ConcatAssociative DEF LineTypes
  <2> QED
      BY <2>1, <2>2 DEF Log
<1>2. Log \in Seq(Lines)
    BY DEF LineTypes, Log
<1>3. History!IsPrefix(Log, Log')
    BY <1>1, <1>2, PrefixConcat
<1>4. Announced(durable) \subseteq Announced(Log)
    BY AnnouncedConcat DEF LineTypes, Log
<1>5. acted' \subseteq Announced(durable)
    BY DEF ActedInv
<1>6. History!Act
    BY <1>3, <1>4, <1>5 DEF History!Act, Announced, Log, Hold
<1>7. ActedInv'
    BY <1>5 DEF ActedInv, Announced, Hold
<1> QED
    BY <1>6, <1>7 DEF Keeps, History!Next

LEMMA KeepsStep ==
    ASSUME Typed, LinesInv, ActedInv, [Next]_vars
    PROVE  Keeps
<1>0. /\ LineTypes /\ sends \in Nat /\ next \in Nat /\ turn \in Nat
      /\ pc \notin Ending \cup Failed => ~cut
    BY DEF Typed, CallTypesOK, WaveTypes, RestTypes, LinesInv
<1> USE DEF Failed
<1>1. ASSUME Dispatch PROVE Keeps
  <2>1. held = <<>> /\ ~cut /\ acted' = acted
      BY <1>0, <1>1 DEF Dispatch, LinesInv, Durable, Ending, Ended
  <2>2. Line("job_pinned", 0, 0) \in Lines /\ Line("run_started", 0, 0) \in Lines
      BY LineType DEF Kinds
  <2> QED
      BY <1>0, <1>1, <2>1, <2>2, AppendKeeps DEF Dispatch
<1>2. ASSUME OpenRound \/ RoundStaysOpen PROVE Keeps
    BY <1>2, RestKeeps DEF OpenRound, RoundStaysOpen
<1>3. ASSUME NEW interrupt \in Interrupts, Assemble(interrupt) PROVE Keeps
  <2>1. ~cut /\ acted' = acted
      BY <1>0, <1>3 DEF Assemble, Ending, Ended
  <2>2. CASE interrupt = "cancel"
      BY <1>0, <1>3, <2>1, <2>2, CancelledKeeps DEF Assemble
  <2>3. CASE interrupt # "cancel"
    <3>1. /\ <<Line("prompt_assembled", turn + 1, 0)>> \in Seq(Lines)
          /\ <<Line("prompt_shape_compared", turn + 1, 0)>> \in Seq(Lines)
          /\ Steered(interrupt) \in Seq(Lines)
        BY <1>0, LineType, SteeredType DEF Kinds
    <3> DEFINE new == Steered(interrupt)
                        \o (IF prompted = turn + 1 THEN <<>>
                            ELSE <<Line("prompt_assembled", turn + 1, 0)>>)
                        \o <<Line("prompt_shape_compared", turn + 1, 0)>>
    <3>2. new \in Seq(Lines)
        BY <3>1
    <3>3. Hold(new) /\ pc' = "call"
        BY <1>3, <2>3 DEF Assemble
    <3> HIDE DEF new
    <3> QED
        BY <1>0, <2>1, <3>2, <3>3, HoldKeeps
  <2> QED
      BY <2>2, <2>3
<1>4. ASSUME NEW interrupt \in Interrupts, Call(interrupt) PROVE Keeps
  <2>1. ~cut /\ acted' = acted
      BY <1>0, <1>4 DEF Call, Ending, Ended
  <2>2. CASE interrupt = "cancel"
      BY <1>0, <1>4, <2>1, <2>2, CancelledKeeps DEF Call
  <2>3. CASE interrupt # "cancel"
    <3> DEFINE new == Steered(interrupt) \o <<Line("model_called", sends + 1, 0)>>
    <3>1. /\ <<Line("model_called", sends + 1, 0)>> \in Seq(Lines)
          /\ Steered(interrupt) \in Seq(Lines)
        BY <1>0, LineType, SteeredType DEF Kinds
    <3>2. Announced(<<Line("model_called", sends + 1, 0)>>) \subseteq Announced(new)
        BY <3>1, AnnouncedConcat
    <3>3. Effect("send", sends + 1, 0) \in Announced(new)
        BY <3>2, LineAnnounces
    <3>4. new \in Seq(Lines)
        BY <3>1
    <3>5. Barrier(new, "sent") /\ sends' = sends + 1
        BY <1>4, <2>3 DEF Call, RecordsSend
    <3> HIDE DEF new
    <3> QED
        BY <1>0, <2>1, <3>3, <3>4, <3>5, BarrierKeeps
  <2> QED
      BY <2>2, <2>3
<1>5. ASSUME NEW calls \in Replies, Answer(calls) PROVE Keeps
  <2>1. PICK wait \in PrefixHeld : Hold(wait \o <<Line("model_returned", sends, 0)>>)
      BY <1>5 DEF Answer
  <2>2. wait \o <<Line("model_returned", sends, 0)>> \in Seq(Lines)
      BY <1>0, PrefixHeldType, LineType DEF Kinds
  <2>3. /\ Effect("send", sends, 0) \in Announced(durable) /\ ~cut
        /\ acted' = acted \cup {Effect("send", sends, 0)} /\ pc' = "returned"
      BY <1>0, <1>5 DEF Answer, GoesOut, ActedInv, Ending, Ended
  <2> QED
      BY <1>0, <2>1, <2>2, <2>3, ActKeeps
<1>6. ASSUME \/ \E failure \in Failures \cup {Loadtime} : Fails(failure)
             \/ Unreadable
      PROVE  Keeps
  <2>1. PICK wait \in PrefixHeld : Hold(wait)
      BY <1>6 DEF Fails, Unreadable
  <2>2. wait \in Seq(Lines)
      BY <1>0, PrefixHeldType
  <2>3. /\ Effect("send", sends, 0) \in Announced(durable) /\ ~cut
        /\ acted' = acted \cup {Effect("send", sends, 0)} /\ pc' \in {"failed", "repair"}
      BY <1>0, <1>6 DEF Fails, Unreadable, GoesOut, ActedInv, Ending, Ended
  <2> QED
      BY <1>0, <2>1, <2>2, <2>3, ActKeeps
<1>7. ASSUME NEW failure \in Failures \cup {Loadtime}, TurnFails(failure) PROVE Keeps
    BY <1>7, RestKeeps DEF TurnFails
<1>8. ASSUME Repair PROVE Keeps
  <2>1. ~cut /\ acted' = acted /\ sends' = sends + 1
      BY <1>0, <1>8 DEF Repair, RecordsSend, Ending, Ended
  <2>2. <<Line("model_called", sends + 1, 0)>> \in Seq(Lines)
      BY <1>0, LineType DEF Kinds
  <2>3. <<>> \o <<Line("model_called", sends + 1, 0)>> = <<Line("model_called", sends + 1, 0)>>
      BY <2>2
  <2>4. Barrier(<<Line("model_called", sends + 1, 0)>>, "resent")
      BY <1>8, <2>3 DEF Repair, RecordsSend
  <2>5. Effect("send", sends + 1, 0) \in Announced(<<Line("model_called", sends + 1, 0)>>)
      BY LineAnnounces
  <2> QED
      BY <1>0, <2>1, <2>2, <2>4, <2>5, BarrierKeeps
<1>9. ASSUME Checkpoint PROVE Keeps
  <2>1. PICK new \in {<<>>, <<Line("checkpoint_committed", turn + 1, 0)>>} : Hold(new)
      BY <1>9 DEF Checkpoint
  <2>2. <<Line("checkpoint_committed", turn + 1, 0)>> \in Seq(Lines) /\ <<>> \in Seq(Lines)
      BY <1>0, LineType DEF Kinds
  <2>3. ~cut /\ acted' = acted /\ pc' = "boundary"
      BY <1>0, <1>9 DEF Checkpoint, Ending, Ended
  <2> QED
      BY <1>0, <2>1, <2>2, <2>3, HoldKeeps
<1>10. ASSUME NEW interrupt \in Interrupts, OpenWave(interrupt) PROVE Keeps
  <2>1. ~cut /\ acted' = acted
      BY <1>0, <1>10 DEF OpenWave, Ending, Ended
  <2>2. CASE interrupt = "cancel"
      BY <1>0, <1>10, <2>1, <2>2, CancelledKeeps DEF OpenWave
  <2>3. CASE interrupt # "cancel"
    <3>1. Hold(Steered(interrupt)) /\ pc' = "reads"
        BY <1>10, <2>3 DEF OpenWave
    <3> QED
        BY <1>0, <2>1, <3>1, SteeredType, HoldKeeps
  <2> QED
      BY <2>2, <2>3
<1>11. ASSUME AccountRead PROVE Keeps
  <2>1. PICK i \in {"steer", "none"} : Hold(Steered(i) \o <<Called(next), Result(next)>>)
      BY <1>11 DEF AccountRead
  <2>2. Steered(i) \o <<Called(next), Result(next)>> \in Seq(Lines)
      BY <1>0, SteeredType, CallTypes
  <2>3. ~cut /\ acted' = acted /\ pc' = "reads"
      BY <1>0, <1>11 DEF AccountRead, Ending, Ended
  <2> QED
      BY <1>0, <2>1, <2>2, <2>3, HoldKeeps
<1>12. ASSUME ReadsDone PROVE Keeps
  <2>1. ~cut /\ acted' = acted
      BY <1>0, <1>12 DEF ReadsDone, Ending, Ended
  <2>2. CASE halt
      BY <1>0, <1>12, <2>1, <2>2, CancelledKeeps DEF ReadsDone
  <2>3. CASE ~halt
      BY <1>12, <2>3, RestKeeps DEF ReadsDone
  <2> QED
      BY <2>2, <2>3
<1>13. ASSUME NEW interrupt \in Interrupts, Alone(interrupt) PROVE Keeps
  <2>1. ~cut /\ acted' = acted /\ pc = "alone" /\ UNCHANGED sends
      BY <1>0, <1>13 DEF Alone, Ending, Ended, calling
  <2>2. CASE Cancelled
      BY <1>0, <2>1, <2>2, CancelledKeeps
  <2>3. CASE Hold(Steered(interrupt) \o <<Called(next), Result(next)>>) /\ pc' = pc
    <3>1. Steered(interrupt) \o <<Called(next), Result(next)>> \in Seq(Lines)
        BY <1>0, SteeredType, CallTypes
    <3> QED
        BY <1>0, <2>1, <2>3, <3>1, HoldKeeps
  <2>4. CASE Barrier(Steered(interrupt) \o <<Called(next)>>, "acting") /\ next' = next
    <3> DEFINE new == Steered(interrupt) \o <<Called(next)>>
    <3>1. <<Called(next)>> \in Seq(Lines) /\ Steered(interrupt) \in Seq(Lines)
        BY <1>0, SteeredType, CallTypes
    <3>2. Effect("write", sends, next) \in Announced(<<Called(next)>>)
        BY LineAnnounces DEF Called
    <3>3. Announced(<<Called(next)>>) \subseteq Announced(new)
        BY <3>1, AnnouncedConcat
    <3>4. new \in Seq(Lines)
        BY <3>1
    <3>5. Barrier(new, "acting") /\ Effect("write", sends, next) \in Announced(new)
        BY <2>4, <3>2, <3>3
    <3> HIDE DEF new
    <3> QED
        BY <1>0, <2>1, <2>4, <3>4, <3>5, BarrierKeeps
  <2> QED
      BY <1>13, <2>2, <2>3, <2>4 DEF Alone
<1>14. ASSUME ToolWrites PROVE Keeps
  <2>1. /\ Effect("write", sends, next) \in Announced(durable) /\ ~cut
        /\ acted' = acted \cup {Effect("write", sends, next)} /\ pc' \in {"alone", "failed"}
      BY <1>0, <1>14 DEF ToolWrites, ActedInv, Ending, Ended
  <2>2. <<Result(next)>> \in Seq(Lines) /\ <<>> \in Seq(Lines) /\ held \in Seq(Lines)
      BY <1>0, CallTypes DEF LineTypes
  <2>3. UNCHANGED lines => Hold(<<>>)
      BY <2>2 DEF lines, Hold
  <2>4. PICK new \in {<<Result(next)>>, <<>>} : Hold(new)
      BY <1>14, <2>3 DEF ToolWrites
  <2> QED
      BY <1>0, <2>1, <2>2, <2>4, ActKeeps
<1>15. ASSUME NEW interrupt \in Interrupts, Record(interrupt) PROVE Keeps
  <2>1. ~cut /\ acted' = acted
      BY <1>0, <1>15 DEF Record, Ending, Ended
  <2>2. CASE interrupt = "cancel"
      BY <1>0, <1>15, <2>1, <2>2, CancelledKeeps DEF Record
  <2>3. CASE interrupt # "cancel"
    <3>1. Hold(Steered(interrupt)) /\ pc' \in {"concluded", "loop"}
        BY <1>15, <2>3 DEF Record
    <3> QED
        BY <1>0, <2>1, <3>1, SteeredType, HoldKeeps
  <2> QED
      BY <2>2, <2>3
<1>16. ASSUME Conclude PROVE Keeps
  <2>1. ~cut /\ acted' = acted /\ Barrier(<<>>, "freeze") /\ <<>> \in Seq(Lines)
      BY <1>0, <1>16 DEF Conclude, Ending, Ended
  <2> QED
      BY <1>0, <2>1, BarrierKeeps
<1>17. ASSUME FlushFailed PROVE Keeps
  <2>1. (cut => held = <<>>) /\ acted' = acted /\ Flush("dispose")
      BY <1>17 DEF FlushFailed, LinesInv
  <2> QED
      BY <1>0, <2>1, FlushKeeps
<1>18. ASSUME Dispose PROVE Keeps
  <2>1. pc = "dispose" /\ held = <<>> /\ acted' = acted
      BY <1>18 DEF Dispose, LinesInv, Durable
  <2>2. ASSUME NEW step, Disposes(step),
               cut => step.act = "stop" /\ step.why # "exhausted"
        PROVE  Keeps
    <3>1. /\ Line("accounts_exhausted", sends, 0) \in Lines /\ Line("carrier", sends, 0) \in Lines
          /\ Line("watchdog_fired", sends, 0) \in Lines /\ Closes(Line("carrier", sends, 0))
        BY <1>0, LineType DEF Kinds, Closes, Line
    <3>2. CASE step.act = "stop"
      <4>1. PICK kind \in {"accounts_exhausted", "carrier"} :
              /\ Append1(Line(kind, sends, 0), "freeze")
              /\ cut => kind = "carrier"
          BY <2>2, <3>2 DEF Disposes
      <4>2. Line(kind, sends, 0) \in Lines /\ (cut => Closes(Line(kind, sends, 0)))
          BY <3>1, <4>1
      <4> QED
          BY <1>0, <2>1, <4>1, <4>2, AppendKeeps
    <3>3. CASE step.act # "stop"
      <4>1. PICK stage \in {"loop", "wait"} : Append1(Line("watchdog_fired", sends, 0), stage)
          BY <2>2, <3>3 DEF Disposes
      <4> QED
          BY <1>0, <2>1, <2>2, <3>1, <3>3, <4>1, AppendKeeps
    <3> QED
        BY <3>2, <3>3
  <2>3. cut => err \in {Refused, Loadtime}
      BY <2>1 DEF LinesInv, Final, Ending, Ended
  <2>4. CASE err = Loadtime
      BY <1>18, <2>1, <2>4, RestKeeps DEF Dispose
  <2>5. CASE err # Loadtime /\ err = Exhausted
    <3>1. Refused # Exhausted
        BY DEF Refused, Exhausted, Failure
    <3>2. ~cut /\ Disposes(Stop("exhausted"))
        BY <1>18, <2>3, <2>5, <3>1 DEF Dispose
    <3> QED
        BY <2>2, <3>2
  <2>6. CASE err # Loadtime /\ err # Exhausted
    <3>1. PICK step : step = NextStep(round, err)
        OBVIOUS
    <3>2. Disposes(step)
        BY <1>18, <2>6, <3>1 DEF Dispose
    <3>3. cut => step = Stop("refused")
        BY <2>3, <2>6, <3>1, NextStepFacts DEF Typed, CallTypesOK, Failures
    <3>4. Stop("refused").act = "stop" /\ Stop("refused").why = "refused"
        BY DEF Stop, Step
    <3> QED
        BY <2>2, <3>2, <3>3, <3>4
  <2> QED
      BY <2>4, <2>5, <2>6
<1>19. ASSUME NEW halted \in BOOLEAN, Wait(halted) PROVE Keeps
    BY <1>19, RestKeeps DEF Wait
<1>20. ASSUME Freeze PROVE Keeps
  <2>1. /\ Line("handoff_written", 0, 0) \in Lines /\ Closes(Line("handoff_written", 0, 0))
        /\ Line("run_frozen", sends, 0) \in Lines /\ Closes(Line("run_frozen", sends, 0))
      BY <1>0, LineType DEF Kinds, Closes, Line
  <2>2. acted' = acted /\ (cut => held = <<>>)
      BY <1>20 DEF Freeze, LinesInv
  <2>3. CASE pc = "freeze" /\ Flush("handoff")
      BY <1>0, <2>2, <2>3, FlushKeeps
  <2>4. CASE pc = "handoff" /\ Append1(Line("handoff_written", 0, 0), "close")
      BY <1>0, <2>1, <2>2, <2>4, AppendKeeps DEF LinesInv, Durable
  <2>5. CASE pc = "close" /\ Append1(Line("run_frozen", sends, 0), "frozen")
      BY <1>0, <2>1, <2>2, <2>5, AppendKeeps DEF LinesInv, Durable
  <2> QED
      BY <1>20, <2>3, <2>4, <2>5 DEF Freeze
<1>21. ASSUME Crash PROVE Keeps
  <2>1. durable' = durable /\ held' = <<>> /\ cut' = TRUE /\ acted' = acted /\ pc' = "crashed"
      BY <1>21 DEF Crash
  <2> QED
      BY <1>0, <2>1, LossKeeps
<1>22. ASSUME UNCHANGED vars PROVE Keeps
  <2>1. UNCHANGED <<durable, held, cut, acted, pc, sends, next>>
      BY <1>22 DEF vars, lines, calling, wave
  <2>2. UNCHANGED History!vars
      BY <2>1 DEF History!vars
  <2>3. ActedInv'
      BY <2>1 DEF ActedInv, Announced
  <2> QED
      BY <2>2, <2>3 DEF Keeps
<1> QED
    BY <1>1, <1>2, <1>3, <1>4, <1>5, <1>6, <1>7, <1>8, <1>9, <1>10, <1>11, <1>12, <1>13, <1>14,
       <1>15, <1>16, <1>17, <1>18, <1>19, <1>20, <1>21, <1>22 DEF Next, Drives, Over

(* A driven run implements RunSpec: read together, its durable lines and   *)
(* the ones it holds are one history that only grows, an effect is acted   *)
(* only after the line that announces it, and what a refusing ledger or a  *)
(* crash takes away announced nothing that was acted (wave.rs,             *)
(* HeldLines::barrier), for every roster, reply and interrupt.             *)
THEOREM RunIsHistory == Spec => ImplementsHistory
<1>1. Init => History!Init
  <2> SUFFICES ASSUME Init PROVE History!Init
      OBVIOUS
  <2>1. durable = <<>> /\ held = <<>> /\ acted = {} /\ cut = FALSE
      BY DEF Init
  <2>2. <<>> \o <<>> = <<>>
      OBVIOUS
  <2> QED
      BY <2>1, <2>2 DEF History!Init
<1>2. Init => ActedInv
    BY DEF Init, ActedInv
<1>3. Typed /\ LinesInv /\ ActedInv /\ [Next]_vars => ActedInv' /\ [History!Next]_(History!vars)
    BY KeepsStep DEF Keeps
<1> QED
    BY <1>1, <1>2, <1>3, RunLines, PTL DEF Spec, ImplementsHistory, History!Spec
-----------------------------------------------------------------------------
(* The steers of the conversation and of the history.                      *)

Steers(log) == {k \in DOMAIN log : log[k].kind = "steer_received"}
Number(log) == Cardinality(Steers(log))

LEMMA SteersFinite ==
    ASSUME NEW s \in Seq(Lines)
    PROVE  Steers(s) \subseteq 1 .. Len(s) /\ IsFiniteSet(Steers(s)) /\ Number(s) \in Nat
<1>1. Steers(s) \subseteq 1 .. Len(s) /\ Len(s) \in Nat
    BY DEF Steers
<1>2. IsFiniteSet(1 .. Len(s))
    BY <1>1, FS_Interval
<1>3. IsFiniteSet(Steers(s))
    BY <1>1, <1>2, FS_Subset
<1> QED
    BY <1>1, <1>3, FS_CardinalityType DEF Number

(* Lines one after the other are counted one after the other.              *)
LEMMA NumberConcat ==
    ASSUME NEW s \in Seq(Lines), NEW t \in Seq(Lines)
    PROVE  Number(s \o t) = Number(s) + Number(t)
<1> DEFINE B == Steers(t)
           T == {Len(s) + k : k \in B}
           f == [k \in B |-> Len(s) + k]
<1>1. /\ Len(s) \in Nat /\ Len(t) \in Nat /\ Len(s \o t) = Len(s) + Len(t) /\ s \o t \in Seq(Lines)
      /\ DOMAIN s = 1 .. Len(s) /\ DOMAIN t = 1 .. Len(t)
      /\ DOMAIN (s \o t) = 1 .. Len(s) + Len(t)
    OBVIOUS
<1>2. /\ Steers(s) \subseteq 1 .. Len(s) /\ IsFiniteSet(Steers(s)) /\ Number(s) \in Nat
      /\ B \subseteq 1 .. Len(t) /\ IsFiniteSet(B) /\ Number(t) \in Nat
    BY SteersFinite
<1>3. \A k \in 1 .. Len(s) : (s \o t)[k] = s[k]
    OBVIOUS
<1>4. \A k \in 1 .. Len(t) : (s \o t)[Len(s) + k] = t[k]
    OBVIOUS
<1>5. Steers(s \o t) = Steers(s) \cup T
  <2>1. ASSUME NEW k \in Steers(s \o t) PROVE k \in Steers(s) \cup T
    <3>1. k \in 1 .. Len(s) + Len(t) /\ (s \o t)[k].kind = "steer_received"
        BY <1>1 DEF Steers
    <3>2. CASE k \in 1 .. Len(s)
        BY <1>1, <1>3, <3>1, <3>2 DEF Steers
    <3>3. CASE k \notin 1 .. Len(s)
      <4>1. k - Len(s) \in 1 .. Len(t) /\ Len(s) + (k - Len(s)) = k
          BY <1>1, <3>1, <3>3
      <4>2. k - Len(s) \in B
          BY <1>1, <1>4, <3>1, <4>1 DEF Steers
      <4> QED
          BY <4>1, <4>2
    <3> QED
        BY <3>2, <3>3
  <2>2. ASSUME NEW k \in Steers(s) PROVE k \in Steers(s \o t)
      BY <1>1, <1>3 DEF Steers
  <2>3. ASSUME NEW k \in B PROVE Len(s) + k \in Steers(s \o t)
    <3>1. k \in 1 .. Len(t) /\ t[k].kind = "steer_received"
        BY <1>1 DEF Steers
    <3>2. Len(s) + k \in 1 .. Len(s) + Len(t) /\ (s \o t)[Len(s) + k].kind = "steer_received"
        BY <1>1, <1>4, <3>1
    <3> QED
        BY <1>1, <3>2 DEF Steers
  <2> QED
      BY <2>1, <2>2, <2>3
<1>6. f \in Bijection(B, T)
  <2>1. f \in [B -> T]
      OBVIOUS
  <2>2. \A a, b \in B : f[a] = f[b] => a = b
      BY <1>1, <1>2
  <2>3. \A y \in T : \E x \in B : f[x] = y
      OBVIOUS
  <2> QED
      BY <2>1, <2>2, <2>3 DEF Bijection, Injection, Surjection, IsInjective
<1>7. IsFiniteSet(T) /\ Cardinality(T) = Cardinality(B)
    BY <1>2, <1>6, FS_Bijection DEF ExistsBijection
<1>8. Steers(s) \cap T = {}
    BY <1>1, <1>2
<1>9. Cardinality(Steers(s) \cup T)
        = Cardinality(Steers(s)) + Cardinality(T) - Cardinality(Steers(s) \cap T)
    BY <1>2, <1>7, FS_Union
<1>10. Cardinality(Steers(s) \cap T) = 0
    BY <1>8, FS_EmptySet
<1> QED
    BY <1>2, <1>5, <1>7, <1>9, <1>10 DEF Number

LEMMA NumberOne ==
    ASSUME NEW line \in Lines
    PROVE  Number(<<line>>) = IF line.kind = "steer_received" THEN 1 ELSE 0
<1>1. CASE line.kind = "steer_received"
  <2>1. Steers(<<line>>) = {1}
      BY <1>1 DEF Steers
  <2> QED
      BY <1>1, <2>1, FS_Singleton DEF Number
<1>2. CASE line.kind # "steer_received"
  <2>1. Steers(<<line>>) = {}
      BY <1>2 DEF Steers
  <2> QED
      BY <1>2, <2>1, FS_EmptySet DEF Number
<1> QED
    BY <1>1, <1>2

LEMMA NumberNone == Number(<<>>) = 0
<1>1. Steers(<<>>) = {}
    BY DEF Steers
<1> QED
    BY <1>1, FS_EmptySet DEF Number

(* A line that is not a steer counts for nothing.                          *)
LEMMA NumberLine ==
    ASSUME NEW kind \in Kinds \ {"steer_received"}, NEW n \in Nat, NEW i \in Nat
    PROVE  Number(<<Line(kind, n, i)>>) = 0 /\ <<Line(kind, n, i)>> \in Seq(Lines)
<1>1. Line(kind, n, i) \in Lines /\ Line(kind, n, i).kind # "steer_received"
    BY DEF Line, Lines
<1> QED
    BY <1>1, NumberOne

LEMMA NumberSteered ==
    ASSUME NEW interrupt
    PROVE  Number(Steered(interrupt)) = IF interrupt = "steer" THEN 1 ELSE 0
<1>1. Line("steer_received", 0, 0) \in Lines /\ Line("steer_received", 0, 0).kind = "steer_received"
    BY DEF Line, Lines, Kinds
<1>2. Number(<<Line("steer_received", 0, 0)>>) = 1
    BY <1>1, NumberOne
<1> QED
    BY <1>2, NumberNone DEF Steered

LEMMA NumberCall ==
    ASSUME sends \in Nat, NEW i \in Nat
    PROVE  /\ Number(<<Called(i)>>) = 0 /\ Number(<<Result(i)>>) = 0
           /\ Number(<<Called(i), Result(i)>>) = 0
<1>1. /\ Number(<<Called(i)>>) = 0 /\ <<Called(i)>> \in Seq(Lines)
      /\ Number(<<Result(i)>>) = 0 /\ <<Result(i)>> \in Seq(Lines)
    BY NumberLine DEF Called, Result, Kinds
<1>2. Called(i).kind # "steer_received" /\ Result(i).kind # "steer_received"
    BY DEF Called, Result, Line
<1>3. Steers(<<Called(i), Result(i)>>) = {}
  <2> SUFFICES ASSUME NEW k \in 1 .. 2 PROVE <<Called(i), Result(i)>>[k].kind # "steer_received"
      BY DEF Steers
  <2>1. <<Called(i), Result(i)>>[k] \in {Called(i), Result(i)}
      OBVIOUS
  <2> QED
      BY <1>2, <2>1
<1> QED
    BY <1>1, <1>3, FS_EmptySet DEF Number

(* Every steer folded so far is in the history, but for `n' of them.       *)
Recorded(n) == Number(Log) + n = steers
Coming == {j \in standing : j >= next}

(* Before a wave's reads are accounted, the steers that came before reads  *)
(* still to be accounted are missing from the history, one per such read;  *)
(* anywhere else no steer is, unless the turn failed for good.             *)
SteerInv ==
    /\ pc = "reads" => Recorded(Cardinality(Coming)) /\ standing \subseteq 1 .. lead
    /\ pc \in {"returned", "boundary"} => next = 1
    /\ pc \in Failed => Recorded(0) \/ Final(err)
    /\ pc \in Places \ (Ending \cup Failed \cup {"reads"}) => Recorded(0)

LEMMA SteerInit == Init => SteerInv
<1> SUFFICES ASSUME Init PROVE SteerInv
    OBVIOUS
<1>1. Log = <<>> /\ steers = 0 /\ pc = "dispatch"
    BY DEF Init, Log
<1>2. Recorded(0)
    BY <1>1, NumberNone DEF Recorded
<1> QED
    BY <1>1, <1>2 DEF SteerInv, Failed

(* Lines held are counted.                                                 *)
LEMMA HoldNumber ==
    ASSUME LineTypes, NEW new \in Seq(Lines), Hold(new)
    PROVE  Number(Log') = Number(Log) + Number(new)
<1>1. durable' = durable /\ held' = held \o new
    BY DEF Hold
<1>2. durable \o (held \o new) = (durable \o held) \o new
    BY ConcatAssociative DEF LineTypes
<1>3. Log \in Seq(Lines) /\ Log' = Log \o new
    BY <1>1, <1>2 DEF LineTypes, Log
<1> QED
    BY <1>3, NumberConcat

LEMMA LandNumber ==
    ASSUME LineTypes, NEW new \in Seq(Lines), NEW stage, Lands(new, stage)
    PROVE  Number(Log') = Number(Log) + Number(new)
<1>1. durable' = durable \o held \o new /\ held' = <<>>
    BY DEF Lands
<1>2. Log \in Seq(Lines) /\ durable' = Log \o new /\ Log \o new \in Seq(Lines)
    BY <1>1 DEF LineTypes, Log
<1>3. Log' = Log \o new
    BY <1>1, <1>2, ConcatEmptySeq DEF Log
<1> QED
    BY <1>2, <1>3, NumberConcat

LEMMA AppendNumber ==
    ASSUME LineTypes, held = <<>>, NEW kind \in Kinds \ {"steer_received"},
           NEW n \in Nat, NEW i \in Nat, NEW stage, Append1(Line(kind, n, i), stage)
    PROVE  Number(Log') = Number(Log)
<1>1. CASE UNCHANGED lines
    BY <1>1 DEF lines, Log
<1>2. CASE durable' = Append(durable, Line(kind, n, i)) /\ held' = held
  <2>1. <<Line(kind, n, i)>> \in Seq(Lines) /\ Number(<<Line(kind, n, i)>>) = 0
        /\ durable \in Seq(Lines) /\ Line(kind, n, i) \in Lines
      BY NumberLine, LineType DEF LineTypes
  <2>2. PICK line : line = Line(kind, n, i)
      OBVIOUS
  <2>3. Append(durable, line) = durable \o <<line>> /\ durable \o <<>> = durable
        /\ Append(durable, line) \in Seq(Lines)
      BY <2>1, <2>2
  <2>4. durable' \o <<>> = durable'
      BY <1>2, <2>2, <2>3
  <2>5. Log' = durable \o <<line>> /\ Log = durable
      BY <1>2, <2>2, <2>3, <2>4 DEF Log
  <2>6. Number(durable \o <<line>>) = Number(durable) + Number(<<line>>)
      BY <2>1, <2>2, NumberConcat
  <2>7. Number(durable) \in Nat
      BY <2>1, SteersFinite
  <2> QED
      BY <2>1, <2>2, <2>5, <2>6, <2>7
<1> QED
    BY <1>1, <1>2 DEF Append1

(* A step between two places where every steer is recorded.                *)
LEMMA SteerKeeps ==
    ASSUME LineTypes, steers \in Nat, Recorded(0), NEW n \in Nat, Number(Log') = Number(Log) + n,
           steers' = steers + n, pc' # "reads", pc' \in {"returned", "boundary"} => next' = 1
    PROVE  SteerInv'
<1>1. Log \in Seq(Lines)
    BY DEF LineTypes, Log
<1>2. Number(Log) \in Nat
    BY <1>1, SteersFinite
<1>3. Recorded(0)'
    BY <1>2 DEF Recorded
<1> QED
    BY <1>3 DEF SteerInv

LEMMA BarrierSteers ==
    ASSUME LineTypes, steers \in Nat, Recorded(0), NEW new \in Seq(Lines), NEW stage,
           Barrier(new, stage), steers' = steers + Number(new),
           stage \notin {"reads", "returned", "boundary"}
    PROVE  SteerInv'
<1>1. Number(new) \in Nat
    BY SteersFinite
<1>2. CASE Lands(new, stage)
  <2>1. Number(Log') = Number(Log) + Number(new) /\ pc' = stage
      BY <1>2, LandNumber DEF Lands
  <2> QED
      BY <1>1, <2>1, SteerKeeps
<1>3. CASE Drops("failed") /\ err' \in {Loadtime, Refused}
    BY <1>3 DEF Drops, SteerInv, Final, Failed
<1> QED
    BY <1>2, <1>3 DEF Barrier

(* A cancelled run ends, whatever it left unrecorded.                      *)
LEMMA CancelledSteers == Cancelled => SteerInv'
BY DEF Cancelled, Barrier, Lands, Drops, SteerInv, Final, Failed, Ending
LEMMA SteerTurn ==
    ASSUME Typed, LinesInv, SteerInv, NEW interrupt \in Interrupts,
           Assemble(interrupt) \/ Call(interrupt) \/ Alone(interrupt) \/ Record(interrupt)
    PROVE  SteerInv'
<1>0. /\ LineTypes /\ sends \in Nat /\ next \in Nat /\ turn \in Nat /\ steers \in Nat
      /\ pc \in {"assemble", "call", "alone"} /\ Folded(interrupt)
    BY DEF Typed, CallTypesOK, WaveTypes, RestTypes, Assemble, Call, Alone, Record
<1>1. Recorded(0)
    BY <1>0 DEF SteerInv, Places, Ending, Ended, Failed
<1>2. Steered(interrupt) \in Seq(Lines) /\ steers' = steers + Number(Steered(interrupt))
    BY <1>0, SteeredType, NumberSteered DEF Folded
<1>3. ASSUME NEW t \in Seq(Lines), Number(t) = 0
      PROVE  /\ Steered(interrupt) \o t \in Seq(Lines)
             /\ Number(Steered(interrupt) \o t) = Number(Steered(interrupt))
             /\ Number(Steered(interrupt)) \in Nat
    BY <1>2, <1>3, NumberConcat, SteersFinite
<1>4. Cancelled => SteerInv'
    BY CancelledSteers
<1>5. ASSUME NEW new \in Seq(Lines), Number(new) = Number(Steered(interrupt)), Hold(new),
             pc' \notin {"reads", "returned", "boundary"}
      PROVE  SteerInv'
  <2>1. Number(Log') = Number(Log) + Number(new) /\ Number(new) \in Nat
      BY <1>0, <1>5, HoldNumber, SteersFinite
  <2> QED
      BY <1>0, <1>1, <1>2, <1>5, <2>1, SteerKeeps
<1>6. ASSUME NEW new \in Seq(Lines), Number(new) = Number(Steered(interrupt)),
             NEW stage \in {"sent", "acting"}, Barrier(new, stage)
      PROVE  SteerInv'
  <2>1. steers' = steers + Number(new) /\ stage \notin {"reads", "returned", "boundary"}
      BY <1>2, <1>6
  <2> QED
      BY <1>0, <1>1, <1>6, <2>1, BarrierSteers
<1>7. ASSUME Assemble(interrupt), interrupt # "cancel" PROVE SteerInv'
  <2> DEFINE shape == <<Line("prompt_shape_compared", turn + 1, 0)>>
             prompt == IF prompted = turn + 1 THEN <<>>
                       ELSE <<Line("prompt_assembled", turn + 1, 0)>>
             new == Steered(interrupt) \o prompt \o shape
  <2>1. Number(shape) = 0 /\ shape \in Seq(Lines)
      BY <1>0, NumberLine DEF Kinds
  <2>2. Number(prompt) = 0 /\ prompt \in Seq(Lines)
    <3>1. /\ Number(<<Line("prompt_assembled", turn + 1, 0)>>) = 0
          /\ <<Line("prompt_assembled", turn + 1, 0)>> \in Seq(Lines)
        BY <1>0, NumberLine DEF Kinds
    <3>2. <<>> \in Seq(Lines)
        OBVIOUS
    <3> QED
        BY <3>1, <3>2, NumberNone
  <2>3. Hold(new) /\ pc' = "call"
      BY <1>7 DEF Assemble
  <2> HIDE DEF shape, prompt
  <2>4. /\ Steered(interrupt) \o prompt \in Seq(Lines)
        /\ Number(Steered(interrupt) \o prompt) = Number(Steered(interrupt))
        /\ Number(Steered(interrupt)) \in Nat
      BY <1>3, <2>2
  <2>5. PICK both \in Seq(Lines) : both = Steered(interrupt) \o prompt
      BY <2>4
  <2>6. both \o shape \in Seq(Lines) /\ Number(both \o shape) = Number(both) + Number(shape)
      BY <2>1, NumberConcat
  <2>7. new \in Seq(Lines) /\ Number(new) = Number(Steered(interrupt))
      BY <2>1, <2>4, <2>5, <2>6
  <2> HIDE DEF new
  <2> QED
      BY <1>5, <2>3, <2>7
<1>8. ASSUME Call(interrupt), interrupt # "cancel" PROVE SteerInv'
  <2> DEFINE t == <<Line("model_called", sends + 1, 0)>>
             new == Steered(interrupt) \o t
  <2>1. Number(t) = 0 /\ t \in Seq(Lines)
      BY <1>0, NumberLine DEF Kinds
  <2>2. Barrier(new, "sent")
      BY <1>8 DEF Call, RecordsSend
  <2> HIDE DEF t
  <2>3. new \in Seq(Lines) /\ Number(new) = Number(Steered(interrupt))
      BY <1>3, <2>1
  <2> HIDE DEF new
  <2> QED
      BY <1>6, <2>2, <2>3
<1>9. ASSUME Alone(interrupt), ~Cancelled PROVE SteerInv'
  <2>1. CASE Hold(Steered(interrupt) \o <<Called(next), Result(next)>>) /\ pc' = pc
    <3>1. Number(<<Called(next), Result(next)>>) = 0 /\ <<Called(next), Result(next)>> \in Seq(Lines)
        BY <1>0, NumberCall, CallTypes
    <3>2. PICK t \in Seq(Lines) : t = <<Called(next), Result(next)>>
        BY <3>1
    <3>3. /\ Steered(interrupt) \o t \in Seq(Lines) /\ Hold(Steered(interrupt) \o t)
          /\ Number(Steered(interrupt) \o t) = Number(Steered(interrupt))
        BY <1>3, <2>1, <3>1, <3>2
    <3>4. pc' = "alone"
        BY <1>9, <2>1 DEF Alone
    <3> QED
        BY <1>5, <3>3, <3>4
  <2>2. CASE Barrier(Steered(interrupt) \o <<Called(next)>>, "acting")
    <3>1. Number(<<Called(next)>>) = 0 /\ <<Called(next)>> \in Seq(Lines)
        BY <1>0, NumberCall, CallTypes
    <3>2. PICK t \in Seq(Lines) : t = <<Called(next)>>
        BY <3>1
    <3>3. /\ Steered(interrupt) \o t \in Seq(Lines) /\ Barrier(Steered(interrupt) \o t, "acting")
          /\ Number(Steered(interrupt) \o t) = Number(Steered(interrupt))
        BY <1>3, <2>2, <3>1, <3>2
    <3> QED
        BY <1>6, <3>3
  <2> QED
      BY <1>9, <2>1, <2>2 DEF Alone
<1>10. ASSUME Record(interrupt), interrupt # "cancel" PROVE SteerInv'
    BY <1>2, <1>5, <1>10 DEF Record
<1> QED
    BY <1>4, <1>7, <1>8, <1>9, <1>10 DEF Assemble, Call, Record

(* The wave opens with the steers its safe points took, each before one of *)
(* the reads let through.                                                  *)
LEMMA SteerOpens ==
    ASSUME Typed, LinesInv, SteerInv, NEW interrupt \in Interrupts, OpenWave(interrupt)
    PROVE  SteerInv'
<1>0. /\ LineTypes /\ steers \in Nat /\ pc = "boundary" /\ reply \in Replies
    BY DEF Typed, RestTypes, WaveTypes, OpenWave
<1>1. Recorded(0) /\ next = 1
    BY <1>0 DEF SteerInv, Places, Ending, Ended, Failed
<1>2. CASE interrupt = "cancel"
    BY <1>2, CancelledSteers DEF OpenWave
<1>3. CASE interrupt # "cancel"
  <2>1. Hold(Steered(interrupt)) /\ pc' = "reads" /\ next' = next
      BY <1>3 DEF OpenWave
  <2>2. PICK let \in 0 .. LeadingReads, before \in SUBSET (1 .. LeadingReads) :
          /\ before \subseteq 1 .. let /\ lead' = let /\ standing' = before
          /\ steers' = steers + Cardinality(before) + (IF interrupt = "steer" THEN 1 ELSE 0)
      BY <1>3 DEF OpenWave
  <2>3. Number(Steered(interrupt)) = (IF interrupt = "steer" THEN 1 ELSE 0)
        /\ Steered(interrupt) \in Seq(Lines)
      BY NumberSteered, SteeredType
  <2>4. Number(Log') = Number(Log) + Number(Steered(interrupt))
      BY <1>0, <2>1, <2>3, HoldNumber
  <2>5. LeadingReads \in Nat
      BY <1>0, LeadingReadsType, DriveAssumption
  <2>6. Coming' = {j \in before : j >= 1}
      BY <1>1, <2>1, <2>2 DEF Coming
  <2>7. \A j \in before : j >= 1
      BY <2>2, <2>5
  <2>8. Coming' = before
      BY <2>6, <2>7
  <2>9. IsFiniteSet(before) /\ Cardinality(before) \in Nat
    <3>1. IsFiniteSet(1 .. LeadingReads)
        BY <2>5, FS_Interval
    <3> QED
        BY <3>1, FS_Subset, FS_CardinalityType
  <2>10. Log \in Seq(Lines)
      BY <1>0 DEF LineTypes, Log
  <2>11. Number(Log) \in Nat
      BY <2>10, SteersFinite
  <2>12. Recorded(Cardinality(Coming))'
      BY <1>0, <1>1, <2>2, <2>3, <2>4, <2>8, <2>9, <2>11 DEF Recorded
  <2> QED
      BY <2>1, <2>2, <2>12 DEF SteerInv, Failed
<1> QED
    BY <1>2, <1>3

(* A read is accounted with the steer that came before it.                 *)
LEMMA SteerReads ==
    ASSUME Typed, LinesInv, SteerInv, AccountRead
    PROVE  SteerInv'
<1> DEFINE i == IF next \in standing THEN "steer" ELSE "none"
           new == Steered(i) \o <<Called(next), Result(next)>>
<1>0. /\ LineTypes /\ steers \in Nat /\ sends \in Nat /\ next \in Nat /\ pc = "reads"
      /\ lead \in Nat
    BY DEF Typed, RestTypes, CallTypesOK, WaveTypes, AccountRead
<1>1. Recorded(Cardinality(Coming)) /\ standing \subseteq 1 .. lead
    BY <1>0 DEF SteerInv
<1>2. /\ Hold(new) /\ next' = next + 1 /\ UNCHANGED <<pc, lead, standing, steers>>
    BY DEF AccountRead
<1>3. Number(new) = (IF next \in standing THEN 1 ELSE 0) /\ new \in Seq(Lines)
  <2>1. Number(<<Called(next), Result(next)>>) = 0 /\ <<Called(next), Result(next)>> \in Seq(Lines)
      BY <1>0, NumberCall, CallTypes
  <2>2. PICK t \in Seq(Lines) : t = <<Called(next), Result(next)>>
      BY <2>1
  <2>3. Steered(i) \in Seq(Lines) /\ Number(Steered(i)) = IF next \in standing THEN 1 ELSE 0
      BY SteeredType, NumberSteered
  <2>4. Steered(i) \o t \in Seq(Lines) /\ Number(Steered(i) \o t) = Number(Steered(i)) + Number(t)
      BY <2>3, NumberConcat
  <2> QED
      BY <2>1, <2>2, <2>3, <2>4
<1> HIDE DEF new
<1>4. Number(Log') = Number(Log) + Number(new)
    BY <1>0, <1>2, <1>3, HoldNumber
<1>5. IsFiniteSet(Coming) /\ Cardinality(Coming) \in Nat
  <2>1. Coming \in SUBSET (1 .. lead)
      BY <1>1 DEF Coming
  <2>2. IsFiniteSet(1 .. lead)
      BY <1>0, FS_Interval
  <2> QED
      BY <2>1, <2>2, FS_Subset, FS_CardinalityType
<1>6. Coming' = Coming \ {next}
  <2>1. Coming' = {j \in standing : j >= next + 1}
      BY <1>2 DEF Coming
  <2>2. \A j \in standing : j >= next + 1 <=> j >= next /\ j # next
      BY <1>0, <1>1
  <2> QED
      BY <2>1, <2>2 DEF Coming
<1>7. next \in Coming <=> next \in standing
    BY <1>0 DEF Coming
<1>8. Cardinality(Coming') = Cardinality(Coming) - (IF next \in standing THEN 1 ELSE 0)
    BY <1>5, <1>6, <1>7, FS_RemoveElement
<1>9. Number(Log) \in Nat
  <2>1. Log \in Seq(Lines)
      BY <1>0 DEF LineTypes, Log
  <2> QED
      BY <2>1, SteersFinite
<1>10. Recorded(Cardinality(Coming))'
    BY <1>0, <1>1, <1>2, <1>3, <1>4, <1>5, <1>8, <1>9 DEF Recorded
<1> QED
    BY <1>0, <1>1, <1>2, <1>10 DEF SteerInv, Failed
LEMMA SteerRest ==
    ASSUME Typed, LinesInv, SteerInv,
           \/ Dispatch \/ OpenRound \/ RoundStaysOpen \/ Unreadable \/ Repair \/ Checkpoint
           \/ ToolWrites \/ Conclude \/ (\E calls \in Replies : Answer(calls))
           \/ (\E failure \in Failures \cup {Loadtime} : Fails(failure))
           \/ (\E halted \in BOOLEAN : Wait(halted))
    PROVE  SteerInv'
<1>0. /\ LineTypes /\ sends \in Nat /\ next \in Nat /\ turn \in Nat /\ steers \in Nat
      /\ steers' = steers
    BY DEF Typed, CallTypesOK, WaveTypes, RestTypes, Dispatch, OpenRound, RoundStaysOpen,
       Unreadable, Repair, Checkpoint, ToolWrites, Conclude, Answer, Fails, Wait
<1>1. Recorded(0)
    BY DEF SteerInv, Places, Ending, Ended, Failed, Dispatch, OpenRound, RoundStaysOpen,
       Unreadable, Repair, Checkpoint, ToolWrites, Conclude, Answer, Fails, Wait
<1>2. Log \in Seq(Lines) /\ Number(Log) \in Nat
  <2>1. Log \in Seq(Lines)
      BY <1>0 DEF LineTypes, Log
  <2> QED
      BY <2>1, SteersFinite
<1>3. ASSUME Number(Log') = Number(Log), pc' # "reads",
             pc' \in {"returned", "boundary"} => next' = 1
      PROVE  SteerInv'
    BY <1>0, <1>1, <1>2, <1>3, SteerKeeps
<1>4. ASSUME NEW new \in Seq(Lines), Number(new) = 0, Hold(new)
      PROVE  Number(Log') = Number(Log)
    BY <1>0, <1>2, <1>4, HoldNumber
<1>5. ASSUME NEW new \in Seq(Lines), Number(new) = 0, NEW stage \in {"resent", "freeze"},
             Barrier(new, stage)
      PROVE  SteerInv'
  <2>1. steers' = steers + Number(new) /\ stage \notin {"reads", "returned", "boundary"}
      BY <1>0, <1>5
  <2> QED
      BY <1>0, <1>1, <1>5, <2>1, BarrierSteers
<1>6. UNCHANGED lines => Number(Log') = Number(Log)
    BY DEF lines, Log
<1>7. ASSUME NEW wait \in PrefixHeld PROVE wait \in Seq(Lines) /\ Number(wait) = 0
  <2>1. /\ Number(<<Line("prefix_held", sends, 0)>>) = 0
        /\ <<Line("prefix_held", sends, 0)>> \in Seq(Lines)
      BY <1>0, NumberLine DEF Kinds
  <2>2. wait = <<>> \/ wait = <<Line("prefix_held", sends, 0)>>
      BY <1>7, Zenon DEF PrefixHeld
  <2>3. <<>> \in Seq(Lines)
      OBVIOUS
  <2> QED
      BY <2>1, <2>2, <2>3, NumberNone
<1>8. CASE Dispatch
  <2>1. held = <<>> /\ pc' \in {"dispatch", "loop", "dead"}
      BY <1>8 DEF Dispatch, Append1, LinesInv, Durable
  <2>2. Number(Log') = Number(Log)
      BY <1>0, <1>8, <2>1, AppendNumber DEF Dispatch, Kinds
  <2> QED
      BY <1>3, <2>1, <2>2
<1>9. CASE OpenRound \/ RoundStaysOpen \/ (\E halted \in BOOLEAN : Wait(halted))
    BY <1>3, <1>6, <1>9 DEF OpenRound, RoundStaysOpen, Wait
<1>10. CASE \E calls \in Replies : Answer(calls)
  <2>1. PICK wait \in PrefixHeld : Hold(wait \o <<Line("model_returned", sends, 0)>>)
      BY <1>10 DEF Answer
  <2>2. pc' = "returned" /\ next' = 1
      BY <1>10 DEF Answer
  <2>3. /\ Number(<<Line("model_returned", sends, 0)>>) = 0
        /\ <<Line("model_returned", sends, 0)>> \in Seq(Lines)
      BY <1>0, NumberLine DEF Kinds
  <2>4. PICK t \in Seq(Lines) : t = <<Line("model_returned", sends, 0)>>
      BY <2>3
  <2>5. wait \o t \in Seq(Lines) /\ Number(wait \o t) = 0 /\ Hold(wait \o t)
    <3>1. wait \in Seq(Lines) /\ Number(wait) = 0 /\ Number(t) = 0
        BY <1>7, <2>3, <2>4
    <3>2. Number(wait \o t) = Number(wait) + Number(t)
        BY <3>1, NumberConcat
    <3>3. wait \o t \in Seq(Lines)
        BY <3>1
    <3> QED
        BY <2>1, <2>4, <3>1, <3>2, <3>3
  <2>6. Number(Log') = Number(Log)
      BY <1>4, <2>5
  <2> QED
      BY <1>3, <2>2, <2>6
<1>11. CASE Unreadable \/ \E failure \in Failures \cup {Loadtime} : Fails(failure)
  <2>1. PICK wait \in PrefixHeld : Hold(wait)
      BY <1>11 DEF Fails, Unreadable
  <2>2. Number(Log') = Number(Log)
      BY <1>4, <1>7, <2>1
  <2>3. pc' \in {"failed", "repair"}
      BY <1>11 DEF Fails, Unreadable
  <2> QED
      BY <1>3, <2>2, <2>3
<1>12. CASE Repair
  <2>1. /\ Number(<<Line("model_called", sends + 1, 0)>>) = 0
        /\ <<Line("model_called", sends + 1, 0)>> \in Seq(Lines)
      BY <1>0, NumberLine DEF Kinds
  <2>2. <<>> \o <<Line("model_called", sends + 1, 0)>> = <<Line("model_called", sends + 1, 0)>>
      BY <2>1, ConcatEmptySeq
  <2>3. Barrier(<<Line("model_called", sends + 1, 0)>>, "resent")
      BY <1>12, <2>2 DEF Repair, RecordsSend
  <2> QED
      BY <1>5, <2>1, <2>3
<1>13. CASE Checkpoint
  <2>1. /\ Number(<<Line("checkpoint_committed", turn + 1, 0)>>) = 0
        /\ <<Line("checkpoint_committed", turn + 1, 0)>> \in Seq(Lines)
      BY <1>0, NumberLine DEF Kinds
  <2>2. PICK new \in {<<>>, <<Line("checkpoint_committed", turn + 1, 0)>>} : Hold(new)
      BY <1>13 DEF Checkpoint
  <2>3. new \in Seq(Lines) /\ Number(new) = 0
    <3>1. <<>> \in Seq(Lines)
        OBVIOUS
    <3>2. CASE new = <<>>
        BY <3>1, <3>2, NumberNone
    <3>3. CASE new = <<Line("checkpoint_committed", turn + 1, 0)>>
        BY <2>1, <3>3
    <3> QED
        BY <2>2, <3>2, <3>3
  <2>4. Number(Log') = Number(Log)
      BY <1>4, <2>2, <2>3
  <2>5. next = 1 /\ next' = next /\ pc' = "boundary"
      BY <1>13 DEF Checkpoint, wave, SteerInv
  <2> QED
      BY <1>3, <2>4, <2>5
<1>14. CASE ToolWrites
  <2>1. <<Result(next)>> \in Seq(Lines) /\ Number(<<Result(next)>>) = 0
      BY <1>0, CallTypes, NumberCall
  <2>2. Hold(<<Result(next)>>) \/ UNCHANGED lines
      BY <1>14 DEF ToolWrites
  <2>3. Number(Log') = Number(Log)
      BY <1>4, <1>6, <2>1, <2>2
  <2>4. pc' \in {"alone", "failed"}
      BY <1>14 DEF ToolWrites
  <2> QED
      BY <1>3, <2>3, <2>4
<1>15. CASE Conclude
  <2>1. <<>> \in Seq(Lines) /\ Barrier(<<>>, "freeze")
      BY <1>15 DEF Conclude
  <2> QED
      BY <1>5, <2>1, NumberNone
<1> QED
    BY <1>8, <1>9, <1>10, <1>11, <1>12, <1>13, <1>14, <1>15

LEMMA SteerStep ==
    ASSUME Typed, LinesInv, SteerInv, [Next]_vars
    PROVE  SteerInv'
<1>0. LineTypes /\ steers \in Nat /\ sends \in Nat
    BY DEF Typed, RestTypes, CallTypesOK
<1>1. ASSUME NEW failure \in Failures \cup {Loadtime}, TurnFails(failure) PROVE SteerInv'
    BY <1>1 DEF TurnFails, SteerInv, Final, Failed
<1>2. ASSUME ReadsDone PROVE SteerInv'
  <2>1. CASE halt
      BY <1>2, <2>1, CancelledSteers DEF ReadsDone
  <2>2. CASE ~halt
    <3>1. /\ pc = "reads" /\ next = lead + 1 /\ pc' = "alone" /\ UNCHANGED <<lines, steers>>
          /\ lead \in Nat
        BY <1>2, <2>2 DEF ReadsDone, Typed, WaveTypes
    <3>2. Coming = {}
        BY <3>1 DEF SteerInv, Coming
    <3>3. Recorded(0)
        BY <3>1, <3>2, FS_EmptySet DEF SteerInv
    <3>4. Number(Log') = Number(Log)
        BY <3>1 DEF lines, Log
    <3>5. Recorded(0)'
        BY <3>1, <3>3, <3>4 DEF Recorded
    <3> QED
        BY <3>1, <3>5 DEF SteerInv, Failed
  <2> QED
      BY <2>1, <2>2
<1>3. ASSUME FlushFailed PROVE SteerInv'
  <2>1. pc = "failed" /\ steers' = steers
      BY <1>3 DEF FlushFailed
  <2>2. CASE Drops("dead")
      BY <2>2 DEF Drops, SteerInv, Failed, Ending, Ended
  <2>3. CASE Lands(<<>>, "dispose")
    <3>1. <<>> \in Seq(Lines)
        OBVIOUS
    <3>2. Number(Log') = Number(Log) + 0
        BY <1>0, <2>3, <3>1, LandNumber, NumberNone
    <3>3. Log \in Seq(Lines)
        BY <1>0 DEF LineTypes, Log
    <3>4. Number(Log) \in Nat
        BY <3>3, SteersFinite
    <3>5. Recorded(0) => Recorded(0)'
        BY <2>1, <3>2, <3>4 DEF Recorded
    <3>6. pc' = "dispose" /\ err' = err
        BY <2>3 DEF Lands
    <3> QED
        BY <2>1, <3>5, <3>6 DEF SteerInv, Failed
  <2> QED
      BY <1>3, <2>2, <2>3 DEF FlushFailed, Flush
<1>4. ASSUME Dispose PROVE SteerInv'
  <2>1. pc = "dispose" /\ steers' = steers /\ held = <<>> /\ round \in Rounds
      BY <1>4 DEF Dispose, LinesInv, Durable, Failed, Typed, CallTypesOK
  <2>2. ASSUME pc' \in Ending PROVE SteerInv'
      BY <2>2 DEF SteerInv, Failed, Ending, Ended
  <2>3. CASE err = Loadtime
      BY <1>4, <2>2, <2>3 DEF Dispose, Ending
  <2>4. ASSUME NEW step, Disposes(step), step.act = "stop" PROVE SteerInv'
      BY <2>2, <2>4 DEF Disposes, Append1, Ending, Ended
  <2>5. CASE err # Loadtime /\ err = Exhausted
    <3>1. Disposes(Stop("exhausted")) /\ Stop("exhausted").act = "stop"
        BY <1>4, <2>5 DEF Dispose, Stop, Step
    <3> QED
        BY <2>4, <3>1
  <2>6. CASE err # Loadtime /\ err # Exhausted
    <3>1. PICK step : step = NextStep(round, err)
        OBVIOUS
    <3>2. Disposes(step)
        BY <1>4, <2>6, <3>1 DEF Dispose
    <3>3. CASE step.act = "stop"
        BY <2>4, <3>2, <3>3
    <3>4. CASE step.act # "stop"
      <4>1. err # Refused
        <5>1. err = Refused => step = Stop("refused")
            BY <2>1, <3>1, NextStepFacts DEF Failures
        <5> QED
            BY <3>4, <5>1 DEF Stop, Step
      <4>2. Recorded(0)
          BY <2>1, <2>6, <4>1 DEF SteerInv, Final, Failed
      <4>3. PICK stage \in {"loop", "wait"} : Append1(Line("watchdog_fired", sends, 0), stage)
          BY <3>2, <3>4 DEF Disposes
      <4>4. Number(Log') = Number(Log) /\ pc' \in {"loop", "wait", "dead"}
          BY <1>0, <2>1, <4>3, AppendNumber DEF Kinds, Append1
      <4>5. Recorded(0)'
          BY <2>1, <4>2, <4>4 DEF Recorded
      <4> QED
          BY <4>4, <4>5 DEF SteerInv, Failed
    <3> QED
        BY <3>3, <3>4
  <2> QED
      BY <2>3, <2>5, <2>6
<1>5. ASSUME Freeze \/ Crash PROVE SteerInv'
  <2>1. pc' \in Ending
      BY <1>5 DEF Freeze, Crash, Flush, Lands, Drops, Append1, Ending, Ended
  <2> QED
      BY <2>1 DEF SteerInv, Failed, Ending, Ended
<1>6. ASSUME UNCHANGED vars PROVE SteerInv'
    BY <1>6 DEF vars, lines, wave, SteerInv, Recorded, Log, Coming
<1> QED
    BY <1>1, <1>2, <1>3, <1>4, <1>5, <1>6, SteerTurn, SteerOpens, SteerReads, SteerRest
       DEF Next, Drives, Over

(* Between two turns every steer the conversation took is a line of the    *)
(* run's history, once, for every number of steers, reads and failed calls *)
(* before (consume_boundary, the leading reads of a wave).                 *)
THEOREM SteersAreRecorded == Spec => []SteersRecorded
<1>1. Init => SteerInv
    BY SteerInit
<1>2. Typed /\ LinesInv /\ SteerInv /\ [Next]_vars => SteerInv'
    BY SteerStep
<1>3. Typed /\ SteerInv => SteersRecorded
  <2> SUFFICES ASSUME Typed, SteerInv, pc \in {"loop", "concluded"} PROVE Number(Log) = steers
      BY DEF SteersRecorded, Number, Steers, Log
  <2>1. Recorded(0)
      BY DEF SteerInv, Places, Ending, Ended, Failed
  <2>2. Log \in Seq(Lines)
      BY DEF Typed, LineTypes, Log
  <2>3. Number(Log) \in Nat
      BY <2>2, SteersFinite
  <2> QED
      BY <2>1, <2>3 DEF Recorded
<1> QED
    BY <1>1, <1>2, <1>3, RunLines, PTL DEF Spec
=============================================================================
