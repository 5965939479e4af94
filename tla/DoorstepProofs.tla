--------------------------- MODULE DoorstepProofs ---------------------------
(***************************************************************************)
(* The desk's keys, how often a command is carried out, and a refusal as   *)
(* the last word on it, for every set of commands, every number of lines,  *)
(* and any number of repeats, lifted interrupts, refusals and restarts.    *)
(***************************************************************************)
EXTENDS Doorstep, TLAPS

-----------------------------------------------------------------------------
(* The elements of sequences.                                              *)

(* No element of the sequence is in it twice.                              *)
Once(s) == \A i, j \in DOMAIN s : s[i] = s[j] => i = j

(* The elements after an append.                                           *)
LEMMA ToSetAppend ==
    ASSUME NEW S, NEW s \in Seq(S), NEW e \in S
    PROVE  Append(s, e) \in Seq(S) /\ ToSet(Append(s, e)) = ToSet(s) \cup {e}
<1>1. Append(s, e) \in Seq(S) /\ Len(Append(s, e)) = Len(s) + 1
    OBVIOUS
<1>2. \A i \in 1..Len(s) : Append(s, e)[i] = s[i]
    OBVIOUS
<1>3. Append(s, e)[Len(s) + 1] = e
    OBVIOUS
<1>4. DOMAIN s = 1..Len(s) /\ DOMAIN Append(s, e) = 1..(Len(s) + 1) /\ Len(s) \in Nat
    OBVIOUS
<1>5. ToSet(Append(s, e)) \subseteq ToSet(s) \cup {e}
    BY <1>2, <1>3, <1>4 DEF ToSet
<1>6. ToSet(s) \cup {e} \subseteq ToSet(Append(s, e))
    BY <1>2, <1>3, <1>4 DEF ToSet
<1> QED
    BY <1>1, <1>5, <1>6

(* A new element keeps the elements apart.                                 *)
LEMMA OnceAppend ==
    ASSUME NEW S, NEW s \in Seq(S), NEW e \in S, Once(s), e \notin ToSet(s)
    PROVE  Once(Append(s, e))
<1>1. DOMAIN s = 1..Len(s) /\ DOMAIN Append(s, e) = 1..(Len(s) + 1) /\ Len(s) \in Nat
    OBVIOUS
<1>2. \A i \in 1..Len(s) : Append(s, e)[i] = s[i] /\ s[i] # e
    BY <1>1 DEF ToSet
<1>3. Append(s, e)[Len(s) + 1] = e
    OBVIOUS
<1>4. ASSUME NEW i \in 1..(Len(s) + 1), NEW j \in 1..(Len(s) + 1),
             Append(s, e)[i] = Append(s, e)[j]
      PROVE  i = j
  <2>1. CASE i \in 1..Len(s) /\ j \in 1..Len(s)
      BY <2>1, <1>1, <1>2, <1>4 DEF Once
  <2>2. CASE i = Len(s) + 1 /\ j \in 1..Len(s)
      BY <2>2, <1>2, <1>3, <1>4
  <2>3. CASE j = Len(s) + 1 /\ i \in 1..Len(s)
      BY <2>3, <1>2, <1>3, <1>4
  <2> QED
      BY <2>1, <2>2, <2>3, <1>1
<1> QED
    BY <1>1, <1>4 DEF Once

(* The length of two sequences joined.                                     *)
LEMMA Joined ==
    ASSUME NEW S, NEW s \in Seq(S), NEW t \in Seq(S)
    PROVE  s \o t \in Seq(S) /\ Len(s \o t) = Len(s) + Len(t)
    OBVIOUS

(* A sequence with one of its places taken out.                            *)
LEMMA RemoveAtItems ==
    ASSUME NEW S, NEW s \in Seq(S), NEW i \in DOMAIN s
    PROVE  /\ RemoveAt(s, i) \in Seq(S) /\ DOMAIN RemoveAt(s, i) = 1..(Len(s) - 1)
           /\ \A j \in 1..(Len(s) - 1) :
                RemoveAt(s, i)[j] = IF j < i THEN s[j] ELSE s[j + 1]
<1>1. Len(s) \in Nat /\ DOMAIN s = 1..Len(s) /\ i \in 1..Len(s)
    OBVIOUS
<1> DEFINE before == SubSeq(s, 1, i - 1)
           after == SubSeq(s, i + 1, Len(s))
<1>2. before \in Seq(S) /\ Len(before) = i - 1 /\ \A j \in 1..(i - 1) : before[j] = s[j]
    BY <1>1
<1>3. after \in Seq(S) /\ Len(after) = Len(s) - i
      /\ \A j \in 1..(Len(s) - i) : after[j] = s[i + j]
    BY <1>1
<1> HIDE DEF before, after
<1>4. RemoveAt(s, i) = before \o after
    BY DEF RemoveAt, before, after
<1>5. before \o after \in Seq(S) /\ Len(before \o after) = Len(s) - 1
  <2>1. before \o after \in Seq(S) /\ Len(before \o after) = Len(before) + Len(after)
      BY <1>2, <1>3, Joined
  <2>2. (i - 1) + (Len(s) - i) = Len(s) - 1
      BY <1>1
  <2> QED
      BY <2>1, <2>2, <1>2, <1>3
<1>6. DOMAIN (before \o after) = 1..(Len(s) - 1)
    BY <1>5
<1>7. ASSUME NEW j \in 1..(Len(s) - 1)
      PROVE  (before \o after)[j] = IF j < i THEN s[j] ELSE s[j + 1]
  <2>1. CASE j < i
      BY <2>1, <1>1, <1>2, <1>3
  <2>2. CASE ~(j < i)
    <3>1. j - (i - 1) \in 1..(Len(s) - i) /\ i + (j - (i - 1)) = j + 1
        BY <2>2, <1>1
    <3>2. (before \o after)[j] = after[j - (i - 1)]
        BY <2>2, <1>1, <1>2, <1>3
    <3> QED
        BY <2>2, <3>1, <3>2, <1>3
  <2> QED
      BY <2>1, <2>2
<1> QED
    BY <1>4, <1>5, <1>6, <1>7

(* What is taken out was in no other place, and the others are left.       *)
LEMMA OnceRemove ==
    ASSUME NEW S, NEW s \in Seq(S), NEW i \in DOMAIN s, Once(s)
    PROVE  /\ RemoveAt(s, i) \in Seq(S) /\ Once(RemoveAt(s, i))
           /\ s[i] \in S /\ s[i] \notin ToSet(RemoveAt(s, i))
           /\ ToSet(s) = ToSet(RemoveAt(s, i)) \cup {s[i]}
<1> DEFINE rest == RemoveAt(s, i)
           From(j) == IF j < i THEN j ELSE j + 1
<1>1. Len(s) \in Nat /\ DOMAIN s = 1..Len(s) /\ i \in 1..Len(s) /\ s[i] \in S
    OBVIOUS
<1>2. rest \in Seq(S) /\ DOMAIN rest = 1..(Len(s) - 1)
      /\ \A j \in 1..(Len(s) - 1) : rest[j] = IF j < i THEN s[j] ELSE s[j + 1]
    BY RemoveAtItems
<1> HIDE DEF rest
<1>3. \A j \in 1..(Len(s) - 1) : From(j) \in 1..Len(s) /\ From(j) # i /\ rest[j] = s[From(j)]
    BY <1>1, <1>2
<1>4. \A j, k \in 1..(Len(s) - 1) : From(j) = From(k) => j = k
    BY <1>1
<1>5. \A m \in 1..Len(s) : m # i => \E j \in 1..(Len(s) - 1) : From(j) = m
  <2> SUFFICES ASSUME NEW m \in 1..Len(s), m # i
               PROVE  \E j \in 1..(Len(s) - 1) : From(j) = m
      OBVIOUS
  <2>1. CASE m < i
      BY <2>1, <1>1
  <2>2. CASE m > i
    <3>1. m - 1 \in 1..(Len(s) - 1) /\ From(m - 1) = m
        BY <2>2, <1>1
    <3> QED
        BY <3>1
  <2> QED
      BY <2>1, <2>2, <1>1
<1> HIDE DEF From
<1>6. Once(rest)
    BY <1>1, <1>2, <1>3, <1>4 DEF Once
<1>7. s[i] \notin ToSet(rest)
    BY <1>1, <1>2, <1>3 DEF Once, ToSet
<1>8. ToSet(rest) \cup {s[i]} \subseteq ToSet(s)
    BY <1>1, <1>2, <1>3 DEF ToSet
<1>9. ToSet(s) \subseteq ToSet(rest) \cup {s[i]}
  <2> SUFFICES ASSUME NEW m \in 1..Len(s) PROVE s[m] \in ToSet(rest) \cup {s[i]}
      BY <1>1 DEF ToSet
  <2>1. CASE m = i
      BY <2>1
  <2>2. CASE m # i
    <3>1. PICK j \in 1..(Len(s) - 1) : From(j) = m
        BY <2>2, <1>5
    <3>2. rest[j] = s[m] /\ j \in DOMAIN rest
        BY <3>1, <1>2, <1>3
    <3> QED
        BY <3>2 DEF ToSet
  <2> QED
      BY <2>1, <2>2
<1> QED
    BY <1>1, <1>2, <1>6, <1>7, <1>8, <1>9 DEF rest

-----------------------------------------------------------------------------

(* The desk: its types, no command twice in line, none in line and carried. *)
Types ==
    /\ queue \in Seq(Commands) /\ Once(queue)
    /\ hand \in [cmd : Commands \cup {NoCommand}, at : {"none", "taken", "carrying"}, lines : Nat]
    /\ hand.at = "none" => hand = NoHand
    /\ hand.at # "none" => hand.cmd \in Commands
    /\ hand.at = "taken" => hand.lines = 0
    /\ hand.cmd \notin ToSet(queue)
    /\ keys = (ToSet(queue) \cup {hand.cmd}) \ {NoCommand}
    /\ seen \subseteq Commands /\ refused \subseteq seen
    /\ away \in [Commands -> {"no", "out", "flying", "home"}]
    /\ ledger \in Seq(Commands \cup {NoCommand})
    /\ done \in [Commands -> Nat] /\ frames \in [Commands -> Nat] /\ crashes \in Nat

(* A plain command that writes no line.                                    *)
Lineless(c) == KindOf[c] = "plain" /\ LinesOf[c] = 0

(* How far each command is: one being carried out is not answered, one     *)
(* that is finished later is answered and not refused, and has not begun   *)
(* while it is out.                                                        *)
Progress(c) ==
    /\ hand.at = "carrying" /\ hand.cmd = c =>
        c \notin seen /\ (hand.lines > 0 => c \in ToSet(ledger))
    /\ away[c] # "no" => c \in seen /\ KindOf[c] \in {"errand", "dispatch"}
    /\ away[c] = "out" => done[c] = 0 /\ c \notin refused

(* How often each command was done, and what remembers it: the history,    *)
(* the entrance of this process, or for an interrupt nothing but the       *)
(* frames that were sent and are not in line any more.                     *)
Counted(c) ==
    /\ ~Interrupt(c) /\ ~Lineless(c) /\ done[c] # 0 =>
        done[c] = 1 /\ c \in seen /\ c \in ToSet(ledger)
    /\ Lineless(c) => done[c] <= crashes + (IF c \in seen THEN 1 ELSE 0)
    /\ Interrupt(c) => done[c] + (IF c \in ToSet(queue) THEN 1 ELSE 0) <= frames[c]

IInv == Types /\ \A c \in Commands : Progress(c) /\ Counted(c)

LEMMA InitHolds == Init => IInv
<1> SUFFICES ASSUME Init PROVE IInv
    OBVIOUS
<1>1. ToSet(queue) = {} /\ Once(queue)
    BY DEF Init, ToSet, Once
<1> QED
    BY <1>1, DoorstepAssumption DEF Init, IInv, Types, Progress, Counted, NoHand

(* The kinds a command may be counted by.                                  *)
LEMMA KindsApart ==
    ASSUME NEW c \in Commands
    PROVE  /\ Interrupt(c) => KindOf[c] \notin {"plain", "errand", "dispatch"}
           /\ ~Interrupt(c) => KindOf[c] \in {"plain", "errand", "dispatch"}
    BY DoorstepAssumption DEF Interrupt, Interrupting, Kinds

LEMMA PostStep ==
    ASSUME IInv, NEW c \in Commands, Post(c)
    PROVE  IInv'
<1>1. /\ UNCHANGED <<hand, seen, refused, away, ledger, done, crashes>>
      /\ frames' = [frames EXCEPT ![c] = @ + 1]
    BY DEF Post, entrance, history
<1>2. /\ frames' \in [Commands -> Nat] /\ frames'[c] = frames[c] + 1
      /\ \A d \in Commands \ {c} : frames'[d] = frames[d]
    BY <1>1 DEF IInv, Types
<1>3. \A d \in Commands : frames[d] \in Nat /\ done[d] \in Nat
    BY DEF IInv, Types
<1>4. CASE c \in keys
  <2>1. queue' = queue /\ keys' = keys
      BY <1>4 DEF Post, Admitted, desk
  <2>2. Types' /\ \A d \in Commands : Progress(d)'
      BY <1>1, <1>2, <2>1 DEF IInv, Types, Progress, NoHand
  <2>3. \A d \in Commands : Counted(d)'
      BY <1>1, <1>2, <1>3, <2>1 DEF IInv, Counted, Lineless, Interrupt
  <2> QED
      BY <2>2, <2>3 DEF IInv
<1>5. CASE c \notin keys
  <2>1. queue' = Append(queue, c) /\ keys' = keys \cup {c}
      BY <1>5 DEF Post, Admitted
  <2>3. c \notin ToSet(queue) /\ c # hand.cmd /\ c # NoCommand
      BY <1>5, DoorstepAssumption DEF IInv, Types
  <2>4. queue' \in Seq(Commands) /\ ToSet(queue') = ToSet(queue) \cup {c} /\ Once(queue')
      BY <2>1, <2>3, ToSetAppend, OnceAppend DEF IInv, Types
  <2>5. keys' = (ToSet(queue') \cup {hand'.cmd}) \ {NoCommand} /\ hand'.cmd \notin ToSet(queue')
      BY <1>1, <2>1, <2>3, <2>4 DEF IInv, Types
  <2>6. Types' /\ \A d \in Commands : Progress(d)'
      BY <1>1, <1>2, <2>4, <2>5 DEF IInv, Types, Progress, NoHand
  <2>7. ASSUME NEW d \in Commands PROVE Counted(d)'
    <3>1. CASE d = c
        BY <3>1, <1>1, <1>2, <1>3, <2>3, <2>4 DEF IInv, Counted, Lineless, Interrupt
    <3>2. CASE d # c
        BY <3>2, <1>1, <1>2, <1>3, <2>4 DEF IInv, Counted, Lineless, Interrupt
    <3> QED
        BY <3>1, <3>2
  <2> QED
      BY <2>6, <2>7 DEF IInv
<1> QED
    BY <1>4, <1>5

LEMMA TakeStep == IInv /\ Take => IInv'
<1> SUFFICES ASSUME IInv, Take PROVE IInv'
    OBVIOUS
<1>1. PICK i \in DOMAIN queue :
      /\ hand = NoHand /\ queue' = RemoveAt(queue, i)
      /\ hand' = [cmd |-> queue[i], at |-> "taken", lines |-> 0]
      /\ UNCHANGED <<keys, seen, refused, away, ledger, done, frames, crashes>>
    BY DEF Take, entrance, history, bounds
<1>2. /\ queue' \in Seq(Commands) /\ Once(queue') /\ queue[i] \in Commands
      /\ queue[i] \notin ToSet(queue') /\ ToSet(queue) = ToSet(queue') \cup {queue[i]}
    BY <1>1, OnceRemove DEF IInv, Types
<1>3. keys' = (ToSet(queue') \cup {hand'.cmd}) \ {NoCommand}
    BY <1>1, <1>2 DEF IInv, Types, NoHand
<1>4. Types' /\ \A d \in Commands : Progress(d)'
    BY <1>1, <1>2, <1>3 DEF IInv, Types, Progress, NoHand
<1>5. \A d \in Commands : frames[d] \in Nat /\ done[d] \in Nat
    BY DEF IInv, Types
<1>6. \A d \in Commands : Counted(d)'
    BY <1>1, <1>2, <1>5 DEF IInv, Counted, Lineless, Interrupt
<1> QED
    BY <1>4, <1>6 DEF IInv

(* A lifted interrupt moves from the line to the ones that were done.      *)
LEMMA LiftStep ==
    ASSUME IInv, NEW r \in Commands, Lift(r)
    PROVE  IInv'
<1>1. PICK i \in DOMAIN queue :
      /\ IsNextFor(r, i) /\ away[r] = "flying"
      /\ queue' = RemoveAt(queue, i) /\ keys' = keys \ {queue[i]}
      /\ done' = [done EXCEPT ![queue[i]] = @ + 1]
      /\ away' = away \/ away' = [away EXCEPT ![r] = "home"]
      /\ UNCHANGED <<hand, seen, refused, ledger, frames, crashes>>
    BY DEF Lift, Done, Moves, entrance, bounds
<1>2. /\ queue' \in Seq(Commands) /\ Once(queue') /\ queue[i] \in Commands
      /\ queue[i] \notin ToSet(queue') /\ ToSet(queue) = ToSet(queue') \cup {queue[i]}
    BY <1>1, OnceRemove DEF IInv, Types
<1>3. PICK c \in Commands : c = queue[i]
    BY <1>2
<1>4. Interrupt(c)
    BY <1>1, <1>3 DEF IsNextFor
<1>5. done' \in [Commands -> Nat] /\ done'[c] = done[c] + 1
      /\ \A d \in Commands \ {c} : done'[d] = done[d]
    BY <1>1, <1>3 DEF IInv, Types
<1>6. /\ away' \in [Commands -> {"no", "out", "flying", "home"}]
      /\ \A d \in Commands : (away'[d] # "no" <=> away[d] # "no")
                            /\ (away'[d] = "out" <=> away[d] = "out")
    BY <1>1 DEF IInv, Types
<1>7. keys' = (ToSet(queue') \cup {hand'.cmd}) \ {NoCommand} /\ hand'.cmd \notin ToSet(queue')
    BY <1>1, <1>2 DEF IInv, Types
<1>8. Types'
    BY <1>1, <1>2, <1>5, <1>6, <1>7 DEF IInv, Types, NoHand
<1>9. away[c] = "no"
    BY <1>4, KindsApart DEF IInv, Types, Progress
<1>10. ASSUME NEW d \in Commands PROVE Progress(d)'
    BY <1>1, <1>5, <1>6, <1>9 DEF IInv, Progress
<1>11. \A d \in Commands : frames[d] \in Nat /\ done[d] \in Nat
    BY DEF IInv, Types
<1>12. ASSUME NEW d \in Commands PROVE Counted(d)'
  <2>1. CASE d = c
    <3>1. ~Lineless(c)
        BY <1>4, KindsApart DEF Lineless
    <3>2. c \in ToSet(queue) /\ c \notin ToSet(queue')
        BY <1>2, <1>3
    <3>3. done[c] + 1 <= frames[c]
        BY <1>4, <3>2 DEF IInv, Counted
    <3> QED
        BY <2>1, <1>1, <1>4, <1>5, <1>11, <3>1, <3>2, <3>3 DEF Counted, Lineless, Interrupt
  <2>2. CASE d # c
    <3>1. d \in ToSet(queue) <=> d \in ToSet(queue')
        BY <2>2, <1>2, <1>3
    <3> QED
        BY <2>2, <1>1, <1>5, <3>1 DEF IInv, Counted, Lineless, Interrupt
  <2> QED
      BY <2>1, <2>2
<1> QED
    BY <1>8, <1>10, <1>12 DEF IInv

(* Putting the command down frees its key and no other.                    *)
LEMMA PutDownKeys ==
    ASSUME Types, hand.at # "none", PutDown
    PROVE  /\ queue' = queue /\ hand' = NoHand
           /\ queue' \in Seq(Commands) /\ Once(queue') /\ hand'.cmd \notin ToSet(queue')
           /\ keys' = (ToSet(queue') \cup {hand'.cmd}) \ {NoCommand}
<1>1. queue' = queue /\ hand' = NoHand /\ keys' = keys \ {hand.cmd}
    BY DEF PutDown, Drops
<1>2. NoCommand \notin ToSet(queue)
    BY DoorstepAssumption DEF Types, ToSet
<1>3. hand.cmd # NoCommand
    BY DoorstepAssumption DEF Types
<1> QED
    BY <1>1, <1>2, <1>3 DEF Types, NoHand

LEMMA AnsweredStep == IInv /\ (Unproven \/ Repeated) => IInv'
<1> SUFFICES ASSUME IInv, Unproven \/ Repeated PROVE IInv'
    OBVIOUS
<1>1. /\ hand.at # "none" /\ PutDown
      /\ UNCHANGED <<seen, refused, away, ledger, done, frames, crashes>>
    BY DEF Unproven, Repeated, entrance, bounds
<1>2. Types'
    BY <1>1, PutDownKeys DEF IInv, Types, NoHand
<1>3. queue' = queue /\ hand' = NoHand
    BY <1>1, PutDownKeys DEF IInv
<1> QED
    BY <1>1, <1>2, <1>3 DEF IInv, Progress, Counted, Lineless, Interrupt, NoHand

LEMMA BeginStep == IInv /\ Begin => IInv'
<1> SUFFICES ASSUME IInv, Begin PROVE IInv'
    OBVIOUS
<1>1. /\ hand.at = "taken" /\ hand.cmd \notin seen /\ hand' = [hand EXCEPT !.at = "carrying"]
      /\ UNCHANGED <<queue, keys, seen, refused, away, ledger, done, frames, crashes>>
    BY DEF Begin, Answered, desk, entrance, history, bounds
<1>2. /\ hand'.cmd = hand.cmd /\ hand'.at = "carrying" /\ hand'.lines = hand.lines
      /\ hand' \in [cmd : Commands \cup {NoCommand}, at : {"none", "taken", "carrying"}, lines : Nat]
    BY <1>1 DEF IInv, Types
<1>3. Types'
    BY <1>1, <1>2 DEF IInv, Types
<1>4. hand.lines = 0
    BY <1>1 DEF IInv, Types
<1> QED
    BY <1>1, <1>2, <1>3, <1>4 DEF IInv, Progress, Counted, Lineless, Interrupt

LEMMA WriteStep == IInv /\ Write => IInv'
<1> SUFFICES ASSUME IInv, Write PROVE IInv'
    OBVIOUS
<1>1. /\ hand.at = "carrying" /\ hand' = [hand EXCEPT !.lines = @ + 1]
      /\ ledger' = Append(ledger, hand.cmd)
      /\ UNCHANGED <<queue, keys, seen, refused, away, done, frames, crashes>>
    BY DEF Write, desk, entrance, history, bounds
<1>2. /\ hand'.cmd = hand.cmd /\ hand'.at = "carrying" /\ hand.cmd \in Commands
      /\ hand' \in [cmd : Commands \cup {NoCommand}, at : {"none", "taken", "carrying"}, lines : Nat]
  <2>1. /\ hand \in [cmd : Commands \cup {NoCommand}, at : {"none", "taken", "carrying"}, lines : Nat]
        /\ hand.cmd \in Commands
      BY <1>1 DEF IInv, Types
  <2>2. hand' = [cmd |-> hand.cmd, at |-> hand.at, lines |-> hand.lines + 1]
      BY <1>1, <2>1
  <2> QED
      BY <1>1, <2>1, <2>2
<1>3. ledger' \in Seq(Commands \cup {NoCommand}) /\ ToSet(ledger') = ToSet(ledger) \cup {hand.cmd}
  <2>1. ledger \in Seq(Commands \cup {NoCommand}) /\ hand.cmd \in Commands \cup {NoCommand}
      BY <1>2 DEF IInv, Types
  <2> QED
      BY <1>1, <2>1, ToSetAppend
<1>4. Types'
    BY <1>1, <1>2, <1>3 DEF IInv, Types
<1> QED
    BY <1>1, <1>2, <1>3, <1>4 DEF IInv, Progress, Counted, Lineless, Interrupt

LEMMA RefuseStep == IInv /\ Refuse => IInv'
<1> SUFFICES ASSUME IInv, Refuse PROVE IInv'
    OBVIOUS
<1>1. /\ hand.at = "carrying" /\ PutDown /\ hand.cmd \in Commands
      /\ seen' = seen \cup {hand.cmd} /\ refused' = refused \cup {hand.cmd}
      /\ UNCHANGED <<away, ledger, done, frames, crashes>>
    BY DEF Refuse, Settle, IInv, Types
<1>2. /\ queue' = queue /\ hand' = NoHand
      /\ queue' \in Seq(Commands) /\ Once(queue') /\ hand'.cmd \notin ToSet(queue')
      /\ keys' = (ToSet(queue') \cup {hand'.cmd}) \ {NoCommand}
    BY <1>1, PutDownKeys DEF IInv
<1>3. Types'
    BY <1>1, <1>2 DEF IInv, Types, NoHand
<1>4. away[hand.cmd] = "no"
    BY <1>1 DEF IInv, Progress
<1>5. \A d \in Commands : Progress(d)'
    BY <1>1, <1>2, <1>4 DEF IInv, Progress, NoHand
<1>6. \A d \in Commands : crashes \in Nat /\ done[d] \in Nat
    BY DEF IInv, Types
<1>7. \A d \in Commands : Counted(d)'
    BY <1>1, <1>2, <1>6 DEF IInv, Counted, Lineless, Interrupt
<1> QED
    BY <1>3, <1>5, <1>7 DEF IInv

LEMMA FinishStep == IInv /\ Finish => IInv'
<1> SUFFICES ASSUME IInv, Finish PROVE IInv'
    OBVIOUS
<1>0. PICK c \in Commands : c = hand.cmd
    BY DEF IInv, Types, Finish
<1>1. /\ hand.at = "carrying" /\ PutDown /\ hand.lines = LinesOf[c] /\ ~Interrupt(c)
      /\ seen' = seen \cup {c} /\ refused' = refused /\ UNCHANGED <<ledger, frames, crashes>>
    BY <1>0 DEF Finish, Settle, bounds
<1>2. /\ queue' = queue /\ hand' = NoHand
      /\ queue' \in Seq(Commands) /\ Once(queue') /\ hand'.cmd \notin ToSet(queue')
      /\ keys' = (ToSet(queue') \cup {hand'.cmd}) \ {NoCommand}
    BY <1>1, PutDownKeys DEF IInv
<1>3. c \notin seen /\ c \notin refused /\ away[c] = "no" /\ (hand.lines > 0 => c \in ToSet(ledger))
    BY <1>0, <1>1 DEF IInv, Types, Progress
<1>4. done[c] \in Nat /\ crashes \in Nat /\ (~Lineless(c) => done[c] = 0)
      /\ (Lineless(c) => done[c] <= crashes)
    BY <1>1, <1>3 DEF IInv, Types, Counted
<1>5. CASE KindOf[c] = "plain"
  <2>1. away' = away /\ done' = [done EXCEPT ![c] = @ + 1]
      BY <1>0, <1>5 DEF Finish, Done
  <2>2. done' \in [Commands -> Nat] /\ done'[c] = done[c] + 1
        /\ \A d \in Commands \ {c} : done'[d] = done[d]
      BY <2>1, <1>1, <1>3 DEF IInv, Types
  <2>3. ~Lineless(c) => c \in ToSet(ledger)
    <3>1. LinesOf[c] \in Nat
        BY DoorstepAssumption
    <3> QED
        BY <3>1, <1>1, <1>3, <1>5 DEF Lineless
  <2>4. Types'
      BY <1>1, <1>2, <2>1, <2>2 DEF IInv, Types, NoHand
  <2>5. \A d \in Commands : Progress(d)'
      BY <1>1, <1>2, <1>3, <2>1, <2>2 DEF IInv, Progress, NoHand
  <2>6. Counted(c)'
      BY <1>1, <1>4, <2>2, <2>3 DEF Counted, Lineless, Interrupt
  <2>7. ASSUME NEW d \in Commands, d # c PROVE Counted(d)'
      BY <1>1, <1>2, <2>2, <2>7 DEF IInv, Counted, Lineless, Interrupt
  <2> QED
      BY <2>4, <2>5, <2>6, <2>7 DEF IInv
<1>6. CASE KindOf[c] # "plain"
  <2>1. away' = [away EXCEPT ![c] = "out"] /\ done' = done
      BY <1>0, <1>6 DEF Finish, Moves
  <2>2. away' \in [Commands -> {"no", "out", "flying", "home"}] /\ away'[c] = "out"
        /\ \A d \in Commands \ {c} : away'[d] = away[d]
      BY <2>1 DEF IInv, Types
  <2>3. Types'
      BY <1>1, <1>2, <2>1, <2>2 DEF IInv, Types, NoHand
  <2>4. KindOf[c] \in {"errand", "dispatch"} /\ ~Lineless(c)
      BY <1>1, <1>6, KindsApart DEF Lineless
  <2>5. \A d \in Commands : Progress(d)'
      BY <1>1, <1>2, <1>3, <1>4, <2>1, <2>2, <2>4 DEF IInv, Progress, NoHand
  <2>6. \A d \in Commands : Counted(d)'
      BY <1>1, <1>2, <2>1, <2>4 DEF IInv, Counted, Lineless, Interrupt
  <2> QED
      BY <2>3, <2>5, <2>6 DEF IInv
<1> QED
    BY <1>5, <1>6

(* A command finished later: its line is written and it is done, or it is  *)
(* refused; its lane may fly and come home.                                *)
LEMMA LaterStep ==
    ASSUME IInv, NEW c \in Commands, Answer(c) \/ Fly(c) \/ ComeHome(c) \/ Land(c)
    PROVE  IInv'
<1>0. \/ away' = [away EXCEPT ![c] = "no"] \/ away' = [away EXCEPT ![c] = "flying"]
      \/ away' = [away EXCEPT ![c] = "home"]
    BY DEF Answer, Fly, ComeHome, Land, Moves
<1>1. /\ away[c] # "no" /\ c \in seen /\ KindOf[c] \in {"errand", "dispatch"}
      /\ UNCHANGED <<queue, keys, hand, frames, crashes>>
    BY DEF Answer, Fly, ComeHome, Land, IInv, Progress, desk, bounds
<1>2. /\ ~(hand.at = "carrying" /\ hand.cmd = c)
      /\ ~Interrupt(c) /\ ~Lineless(c)
    BY <1>1, KindsApart DEF IInv, Progress, Lineless
<1>3. /\ away' \in [Commands -> {"no", "out", "flying", "home"}] /\ away'[c] # "out"
      /\ \A d \in Commands \ {c} : away'[d] = away[d]
    BY <1>0 DEF IInv, Types
<1>4. CASE /\ ledger' = Append(ledger, c) /\ done' = [done EXCEPT ![c] = @ + 1]
           /\ away[c] = "out" /\ UNCHANGED <<seen, refused>>
  <2>1. ledger' \in Seq(Commands \cup {NoCommand}) /\ ToSet(ledger') = ToSet(ledger) \cup {c}
    <3>1. ledger \in Seq(Commands \cup {NoCommand}) /\ c \in Commands \cup {NoCommand}
        BY DEF IInv, Types
    <3> QED
        BY <1>4, <3>1, ToSetAppend
  <2>2. done[c] = 0
      BY <1>4 DEF IInv, Progress
  <2>3. done' \in [Commands -> Nat] /\ done'[c] = 1
        /\ \A d \in Commands \ {c} : done'[d] = done[d]
      BY <1>4, <2>2 DEF IInv, Types
  <2>4. Types'
      BY <1>1, <1>3, <1>4, <2>1, <2>3 DEF IInv, Types, NoHand
  <2>5. \A d \in Commands : Progress(d)'
      BY <1>1, <1>2, <1>3, <1>4, <2>1, <2>3 DEF IInv, Progress
  <2>6. Counted(c)'
      BY <1>1, <1>2, <1>4, <2>1, <2>3 DEF Counted, Lineless, Interrupt
  <2>7. ASSUME NEW d \in Commands, d # c PROVE Counted(d)'
      BY <1>1, <1>4, <2>1, <2>3, <2>7 DEF IInv, Counted, Lineless, Interrupt
  <2> QED
      BY <2>4, <2>5, <2>6, <2>7 DEF IInv
<1>5. CASE /\ UNCHANGED <<ledger, done>> /\ seen' = seen
           /\ refused' \in {refused, refused \cup {c}}
  <2>1. Types'
      BY <1>1, <1>3, <1>5 DEF IInv, Types, NoHand
  <2>2. \A d \in Commands : Progress(d)'
      BY <1>1, <1>2, <1>3, <1>5 DEF IInv, Progress
  <2>3. \A d \in Commands : Counted(d)'
      BY <1>1, <1>5 DEF IInv, Counted, Lineless, Interrupt
  <2> QED
      BY <2>1, <2>2, <2>3 DEF IInv
<1>6. seen \cup {c} = seen
    BY <1>1
<1>7. CASE Answer(c)
    BY <1>4, <1>5, <1>6, <1>7 DEF Answer, Done, entrance
<1>8. CASE Fly(c)
    BY <1>4, <1>5, <1>8 DEF Fly, Stamp, Done, entrance
<1>9. CASE ComeHome(c) \/ Land(c)
    BY <1>5, <1>9 DEF ComeHome, Land, entrance, history
<1> QED
    BY <1>7, <1>8, <1>9

LEMMA RestartStep == IInv /\ Restart => IInv'
<1> SUFFICES ASSUME IInv, Restart PROVE IInv'
    OBVIOUS
<1>1. /\ queue' = <<>> /\ keys' = {} /\ hand' = NoHand /\ away' = [c \in Commands |-> "no"]
      /\ seen' = ToSet(ledger) \cap Commands /\ refused' = {} /\ crashes' = crashes + 1
      /\ UNCHANGED <<ledger, done, frames>>
    BY DEF Restart
<1>2. ToSet(queue') = {} /\ Once(queue') /\ queue' \in Seq(Commands)
    BY <1>1 DEF ToSet, Once
<1>3. Types'
    BY <1>1, <1>2, DoorstepAssumption DEF IInv, Types, NoHand
<1>4. \A d \in Commands : frames[d] \in Nat /\ done[d] \in Nat /\ crashes \in Nat
    BY DEF IInv, Types
<1>5. ASSUME NEW d \in Commands PROVE Counted(d)'
    BY <1>1, <1>2, <1>4 DEF IInv, Counted, Lineless, Interrupt
<1> QED
    BY <1>1, <1>3, <1>5 DEF IInv, Progress, NoHand

LEMMA NextStep == IInv /\ [Next]_vars => IInv'
<1> SUFFICES ASSUME IInv, [Next]_vars PROVE IInv'
    OBVIOUS
<1>1. CASE Prove \/ UNCHANGED vars
  <2>1. UNCHANGED <<queue, keys, hand, seen, refused, away, ledger, done, frames, crashes>>
      BY <1>1 DEF Prove, vars, desk, entrance, history, bounds
  <2> QED
      BY <2>1 DEF IInv, Types, Progress, Counted, Lineless, Interrupt, NoHand
<1>2. CASE Serve
    BY <1>2, TakeStep, AnsweredStep, BeginStep, WriteStep, RefuseStep, FinishStep DEF Serve
<1>3. ASSUME NEW c \in Commands, Post(c) \/ Lift(c) PROVE IInv'
    BY <1>3, PostStep, LiftStep
<1>4. ASSUME NEW c \in Commands, Answer(c) \/ Fly(c) \/ ComeHome(c) \/ Land(c) PROVE IInv'
    BY <1>4, LaterStep
<1> QED
    BY <1>1, <1>2, <1>3, <1>4, RestartStep DEF Next

(* The keys in flight are those of the commands in line and of the one     *)
(* carried out, whatever repeats arrive, whatever a lane lifts out of the  *)
(* line and wherever the process restarts.                                 *)
THEOREM DoorTypes == Spec => []TypeOK
<1>1. IInv => TypeOK
  <2> SUFFICES ASSUME IInv PROVE TypeOK
      OBVIOUS
  <2>1. ToSet(ledger) \subseteq Commands \cup {NoCommand}
      BY DEF IInv, Types, ToSet
  <2> QED
      BY <2>1 DEF IInv, Types, TypeOK
<1> QED
    BY <1>1, InitHolds, NextStep, PTL DEF Spec

(* A command that writes a line is carried out at most once over all its   *)
(* frames and all restarts: what is done is stamped on the history, and    *)
(* what is on the history is answered.  One that writes none is done once  *)
(* in a process, and a cancel or steer once for each frame.                *)
THEOREM CarriedOutOnce == Spec => []DoneOnce
<1>1. IInv => DoneOnce
  <2> SUFFICES ASSUME IInv, NEW c \in Commands PROVE done[c] <= Times(c)
      BY DEF DoneOnce
  <2>1. done[c] \in Nat /\ frames[c] \in Nat /\ crashes \in Nat
      BY DEF IInv, Types
  <2>2. CASE Interrupt(c)
      BY <2>1, <2>2 DEF IInv, Counted, Times
  <2>3. CASE Lineless(c)
    <3>1. ~Interrupt(c)
        BY <2>3, KindsApart DEF Lineless
    <3> QED
        BY <2>1, <2>3, <3>1 DEF IInv, Counted, Times, Lineless
  <2>4. CASE ~Interrupt(c) /\ ~Lineless(c)
      BY <2>1, <2>4 DEF IInv, Counted, Times, Lineless
  <2> QED
      BY <2>2, <2>3, <2>4
<1> QED
    BY <1>1, InitHolds, NextStep, PTL DEF Spec

(***************************************************************************)
(* What a command was told.                                                *)
(***************************************************************************)
(* The entrance tells silence and refusal apart: who was told a refusal is *)
(* among the refused, who was told silence by the door is known and not    *)
(* refused, unless it is an errand whose provider refused it later.        *)
Heard(c) ==
    ~Interrupt(c) =>
        /\ "refusal" \in ToSet(told[c]) => c \in refused
        /\ KindOf[c] # "errand" /\ "silence" \in ToSet(told[c]) => c \in seen \ refused
        /\ \A i, j \in DOMAIN told[c] :
            i < j /\ told[c][i] = "refusal" => told[c][j] # "silence"

Said == {"unproven", "silence", "refusal", "failed"}
Answers == told \in [Commands -> Seq(Said)] /\ \A c \in Commands : Heard(c)

(* An answer is the last of its command's, and nobody else's.              *)
LEMMA TellAdds ==
    ASSUME told \in [Commands -> Seq(Said)], NEW c \in Commands, NEW answer \in Said,
           Tell(c, answer)
    PROVE  /\ told' \in [Commands -> Seq(Said)]
           /\ ToSet(told'[c]) = ToSet(told[c]) \cup {answer}
           /\ DOMAIN told[c] = 1..Len(told[c]) /\ Len(told[c]) \in Nat
           /\ DOMAIN told'[c] = 1..(Len(told[c]) + 1)
           /\ \A i \in 1..Len(told[c]) : told'[c][i] = told[c][i]
           /\ told'[c][Len(told[c]) + 1] = answer
           /\ \A d \in Commands \ {c} : told'[d] = told[d]
<1>1. told' = [told EXCEPT ![c] = Append(told[c], answer)] /\ told[c] \in Seq(Said)
    BY DEF Tell
<1>2. Append(told[c], answer) \in Seq(Said)
      /\ ToSet(Append(told[c], answer)) = ToSet(told[c]) \cup {answer}
    BY <1>1, ToSetAppend
<1>3. told' \in [Commands -> Seq(Said)] /\ told'[c] = Append(told[c], answer)
      /\ \A d \in Commands \ {c} : told'[d] = told[d]
    BY <1>1, <1>2
<1> QED
    BY <1>1, <1>2, <1>3

(* One command is told something, and the entrance changes for it alone.   *)
(* Silence is told to one that is not refused.                             *)
LEMMA OneTold ==
    ASSUME IInv, Answers, NEW c \in Commands, NEW answer \in Said, Tell(c, answer),
           \A d \in Commands \ {c} : (d \in seen' <=> d \in seen) /\ (d \in refused' <=> d \in refused),
           c \in seen => c \in seen', c \in refused => c \in refused',
           answer = "refusal" => c \in refused',
           c \in refused' => c \in refused \/ KindOf[c] = "errand" \/ "silence" \notin ToSet(told[c]),
           answer = "silence" => c \notin refused /\ c \in seen' /\ c \notin refused'
    PROVE  Answers'
<1>1. /\ told' \in [Commands -> Seq(Said)]
      /\ ToSet(told'[c]) = ToSet(told[c]) \cup {answer}
      /\ DOMAIN told[c] = 1..Len(told[c]) /\ Len(told[c]) \in Nat
      /\ DOMAIN told'[c] = 1..(Len(told[c]) + 1)
      /\ \A i \in 1..Len(told[c]) : told'[c][i] = told[c][i]
      /\ told'[c][Len(told[c]) + 1] = answer
      /\ \A d \in Commands \ {c} : told'[d] = told[d]
  <2>1. told \in [Commands -> Seq(Said)]
      BY DEF Answers
  <2> QED
      BY <2>1, TellAdds
<1>2. Heard(c)
    BY DEF Answers
<1>3. ASSUME ~Interrupt(c) PROVE Heard(c)'
  <2>1. "refusal" \in ToSet(told'[c]) => c \in refused'
      BY <1>1, <1>2, <1>3 DEF Heard
  <2>2. KindOf[c] # "errand" /\ "silence" \in ToSet(told'[c]) => c \in seen' \ refused'
      BY <1>1, <1>2, <1>3 DEF Heard
  <2>3. ASSUME NEW i \in DOMAIN told'[c], NEW j \in DOMAIN told'[c], i < j,
               told'[c][i] = "refusal"
        PROVE  told'[c][j] # "silence"
    <3>1. i \in 1..Len(told[c]) /\ told[c][i] = "refusal"
        BY <1>1, <2>3
    <3>2. CASE j \in 1..Len(told[c])
        BY <3>1, <3>2, <1>1, <1>2, <1>3, <2>3 DEF Heard
    <3>3. CASE j = Len(told[c]) + 1
      <4>1. "refusal" \in ToSet(told[c])
          BY <3>1, <1>1 DEF ToSet
      <4> QED
          BY <4>1, <3>3, <1>1, <1>2, <1>3 DEF Heard
    <3> QED
        BY <3>2, <3>3, <1>1
  <2> QED
      BY <2>1, <2>2, <2>3 DEF Heard
<1>4. Heard(c)'
    BY <1>3 DEF Heard, Interrupt
<1>5. ASSUME NEW d \in Commands, d # c PROVE Heard(d)'
  <2>1. told'[d] = told[d] /\ Heard(d)
      BY <1>1, <1>5 DEF Answers
  <2> QED
      BY <1>5, <2>1 DEF Heard, Interrupt
<1> QED
    BY <1>1, <1>4, <1>5 DEF Answers

(* A step that answers nobody and leaves the entrance as it is.            *)
LEMMA SilentStep ==
    ASSUME Answers, told' = told, refused' = refused,
           \A c \in Commands : c \in seen => c \in seen'
    PROVE  Answers'
    BY DEF Answers, Heard, Interrupt

(* The answer goes to the command in hand.                                 *)
LEMMA HandAnswers ==
    ASSUME IInv, Answers, Unproven \/ Repeated \/ Refuse
    PROVE  Answers'
<1>0. PICK c \in Commands : c = hand.cmd
    BY DEF IInv, Types, Unproven, Repeated, Refuse
<1>2. CASE Unproven
  <2>1. Tell(c, "unproven") /\ seen' = seen /\ refused' = refused
      BY <1>0, <1>2 DEF Unproven, entrance
  <2> QED
      BY <2>1, OneTold DEF Said
<1>3. CASE Repeated
  <2>1. Tell(c, IF c \in refused THEN "refusal" ELSE "silence") /\ seen' = seen
        /\ refused' = refused /\ c \in seen
      BY <1>0, <1>3 DEF Repeated, entrance, Answered
  <2>2. CASE c \in refused
    <3>1. Tell(c, "refusal")
        BY <2>1, <2>2
    <3> QED
        BY <2>1, <2>2, <3>1, OneTold DEF Said
  <2>3. CASE c \notin refused
    <3>1. Tell(c, "silence")
        BY <2>1, <2>3
    <3> QED
        BY <2>1, <2>3, <3>1, OneTold DEF Said
  <2> QED
      BY <2>2, <2>3
<1>4. CASE Refuse
  <2>1. Tell(c, "refusal") /\ seen' = seen \cup {c} /\ refused' = refused \cup {c} /\ c \notin seen
      BY <1>0, <1>4 DEF Refuse, Settle, IInv, Progress
  <2>2. CASE Interrupt(c)
      BY <2>1, <2>2, TellAdds DEF Answers, Heard, Interrupt, Said
  <2>3. CASE ~Interrupt(c)
    <3>1. KindOf[c] = "errand" \/ "silence" \notin ToSet(told[c])
        BY <2>1, <2>3 DEF Answers, Heard
    <3> QED
        BY <2>1, <3>1, OneTold DEF Said
  <2> QED
      BY <2>2, <2>3
<1> QED
    BY <1>2, <1>3, <1>4

(* A command that returns was not known before, and is not refused.        *)
LEMMA FinishAnswers ==
    ASSUME IInv, Answers, Finish
    PROVE  Answers'
<1>0. PICK c \in Commands : c = hand.cmd
    BY DEF IInv, Types, Finish
<1>1. seen' = seen \cup {c} /\ refused' = refused /\ c \notin seen /\ c \notin refused
    BY <1>0 DEF IInv, Types, Progress, Finish, Settle
<1>2. CASE KindOf[c] = "errand"
  <2>1. told' = told
      BY <1>0, <1>2 DEF Finish
  <2> QED
      BY <1>1, <2>1, SilentStep
<1>3. CASE KindOf[c] # "errand"
  <2>1. Tell(c, "silence")
      BY <1>0, <1>3 DEF Finish
  <2> QED
      BY <1>1, <2>1, OneTold DEF Said
<1> QED
    BY <1>2, <1>3

(* What a provider answers changes the entrance for an errand only, and a  *)
(* failed landing for nobody.                                              *)
LEMMA LaterAnswers ==
    ASSUME IInv, Answers, NEW c \in Commands, Answer(c) \/ Land(c)
    PROVE  Answers'
<1>1. CASE Answer(c)
  <2>1. KindOf[c] = "errand" /\ c \in seen /\ c \notin refused
      BY <1>1 DEF Answer, IInv, Progress
  <2>2. CASE Tell(c, "silence") /\ seen' = seen /\ refused' = refused
      BY <2>1, <2>2, OneTold DEF Said
  <2>3. CASE Tell(c, "refusal") /\ seen' = seen \cup {c} /\ refused' = refused \cup {c}
      BY <2>1, <2>3, OneTold DEF Said
  <2> QED
      BY <1>1, <2>2, <2>3 DEF Answer, entrance
<1>2. CASE Land(c)
  <2>1. seen' = seen /\ refused' = refused /\ (told' = told \/ Tell(c, "failed"))
      BY <1>2 DEF Land, entrance
  <2>2. CASE told' = told
      BY <2>1, <2>2, SilentStep
  <2>3. CASE Tell(c, "failed")
      BY <2>1, <2>3, OneTold DEF Said
  <2> QED
      BY <2>1, <2>2, <2>3
<1> QED
    BY <1>1, <1>2

(* A lane's silence is told to interrupts only.                            *)
LEMMA LiftAnswers ==
    ASSUME IInv, Answers, NEW r \in Commands, Lift(r)
    PROVE  Answers'
<1>1. PICK i \in DOMAIN queue : IsNextFor(r, i) /\ Tell(queue[i], "silence")
    BY DEF Lift
<1>2. seen' = seen /\ refused' = refused
    BY DEF Lift, entrance
<1>3. PICK c \in Commands : c = queue[i]
    BY <1>1 DEF IInv, Types
<1>4. Interrupt(c) /\ Tell(c, "silence")
    BY <1>1, <1>3 DEF IsNextFor
<1>5. told \in [Commands -> Seq(Said)] /\ "silence" \in Said
    BY DEF Answers, Said
<1>6. told' \in [Commands -> Seq(Said)] /\ \A d \in Commands \ {c} : told'[d] = told[d]
    BY <1>4, <1>5, TellAdds
<1>7. ASSUME NEW d \in Commands PROVE Heard(d)'
  <2>1. CASE d = c
      BY <2>1, <1>4 DEF Heard, Interrupt
  <2>2. CASE d # c
      BY <2>2, <1>2, <1>6 DEF Answers, Heard, Interrupt
  <2> QED
      BY <2>1, <2>2
<1> QED
    BY <1>6, <1>7 DEF Answers

LEMMA NextAnswers == IInv /\ Answers /\ [Next]_vars => Answers'
<1> SUFFICES ASSUME IInv, Answers, [Next]_vars PROVE Answers'
    OBVIOUS
<1>1. CASE \/ Take \/ Begin \/ Write \/ Prove \/ UNCHANGED vars
           \/ \E c \in Commands : Post(c) \/ Fly(c) \/ ComeHome(c)
  <2>1. told' = told /\ seen' = seen /\ refused' = refused
      BY <1>1 DEF Take, Begin, Write, Prove, Post, Fly, ComeHome, vars, entrance, history
  <2> QED
      BY <2>1, SilentStep
<1>2. CASE Restart
  <2>1. told' = [c \in Commands |-> <<>>]
      BY <1>2 DEF Restart, Unsaid
  <2>2. \A c \in Commands : ToSet(told'[c]) = {} /\ DOMAIN told'[c] = {}
      BY <2>1 DEF ToSet
  <2> QED
      BY <2>1, <2>2 DEF Answers, Heard
<1> QED
    BY <1>1, <1>2, HandAnswers, FinishAnswers, LaterAnswers, LiftAnswers DEF Next, Serve

(* In one process a refusal by the door is the last word on a command, and *)
(* a plain command or a dispatch is told the same by the door at every     *)
(* ask: the entrance remembers a refusal as well as a success, and moves   *)
(* no key from one to the other but an errand's.                           *)
THEOREM RepeatsHearTheSame == Spec => []AnswersAgree
<1>1. Init => Answers
  <2> SUFFICES ASSUME Init PROVE Answers
      OBVIOUS
  <2>1. told = [c \in Commands |-> <<>>]
      BY DEF Init, Unsaid
  <2>2. \A c \in Commands : ToSet(told[c]) = {} /\ DOMAIN told[c] = {}
      BY <2>1 DEF ToSet
  <2> QED
      BY <2>1, <2>2 DEF Answers, Heard
<1>2. Answers => AnswersAgree
  <2>1. \A c \in Commands : Verdicts(c) \subseteq ToSet(told[c])
      BY DEF Verdicts, ToSet
  <2> QED
      BY <2>1 DEF Answers, Heard, AnswersAgree
<1> QED
    BY <1>1, <1>2, InitHolds, NextStep, NextAnswers, PTL DEF Spec
=============================================================================
