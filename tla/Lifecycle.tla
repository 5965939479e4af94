------------------------------ MODULE Lifecycle ------------------------------
(***************************************************************************)
(* Which face a served process shows and what each event does to it        *)
(* (sprawling::console::lifecycle), as operators: the table has no state   *)
(* of its own.  Who asked is left out, except that a close because serving *)
(* failed is told apart from one somebody chose.                           *)
(***************************************************************************)
EXTENDS Naturals

Modes == {"Drain", "Interrupt"}

(* A face, and how a stopping or a gone process stands: the mode and the   *)
(* terminal's sinks, or the handoff.                                       *)
Face(at) == [at |-> at, how |-> "-", sinks |-> "Held"]
Stopping(mode, sinks) == [at |-> "Stopping", how |-> mode, sinks |-> sinks]
Gone(handoff) == [at |-> "Gone", how |-> handoff, sinks |-> "-"]

Faces == {Face(at) : at \in {"Opening", "Cli", "QuietHost", "Headless"}}
         \cup {Stopping(m, s) : m \in Modes, s \in {"Held", "Cut"}}
         \cup {Gone(h) : h \in {"Written", "Skipped"}}

(* What reaches the process from outside; Landed and Deadline are its own. *)
Outside == {"ReadyCli", "ReadyQuietHost", "ReadyHeadless", "Web", "Back", "QuitDrain",
            "QuitInterrupt", "InterruptSignal", "BreakSignal", "Terminate", "TerminalLost",
            "Failed"}

Armed(face) == face.at = "Stopping" /\ face.how = "Interrupt"
Interactive(face) == face.at \in {"Cli", "QuietHost"}

(* The close an event asks of a face that still serves, if it is one.      *)
AskedMode(face, event) ==
    CASE event = "QuitDrain" -> "Drain"
      [] event = "QuitInterrupt" -> "Interrupt"
      [] event = "InterruptSignal" /\ ~Interactive(face) -> "Drain"
      [] event = "BreakSignal" -> "Drain"
      [] event = "Terminate" -> "Interrupt"
      [] event = "TerminalLost" /\ Interactive(face) -> "Interrupt"
      [] event = "Failed" -> "Drain"
      [] OTHER -> "no"

Serving(face, event) ==
    IF AskedMode(face, event) # "no"
    THEN Stopping(AskedMode(face, event), IF event = "TerminalLost" THEN "Cut" ELSE "Held")
    ELSE CASE face.at = "Opening" /\ event = "ReadyCli" -> Face("Cli")
           [] face.at = "QuietHost" /\ event = "Back" -> Face("Cli")
           [] face.at = "Opening" /\ event = "ReadyQuietHost" -> Face("QuietHost")
           [] face.at = "Cli" /\ event = "Web" -> Face("QuietHost")
           [] face.at = "Opening" /\ event = "ReadyHeadless" -> Face("Headless")
           [] OTHER -> face

(* A second explicit stop: a drain becomes an interrupt, an interrupt ends *)
(* the process.                                                            *)
Again(face) ==
    IF face.how = "Drain" THEN Stopping("Interrupt", face.sinks) ELSE Gone("Skipped")

WhileStopping(face, event) ==
    CASE event \in {"QuitDrain", "QuitInterrupt", "InterruptSignal", "BreakSignal"} -> Again(face)
      [] event = "Terminate" -> Gone("Skipped")
      [] event = "TerminalLost" -> Stopping("Interrupt", "Cut")
      [] event = "Landed" -> Gone("Written")
      [] event = "Deadline" /\ face.how = "Interrupt" -> Gone("Skipped")
      [] OTHER -> face

Step(face, event) ==
    CASE face.at = "Stopping" -> WhileStopping(face, event)
      [] face.at = "Gone" -> face
      [] OTHER -> Serving(face, event)
=============================================================================
