---------------------------- MODULE CommandOutput ----------------------------
(***************************************************************************)
(* What exec run and exec deploy promise of a command that was let through *)
(* to the person at the controller: its output as it comes, each of the    *)
(* two in order and, while the screen takes it, without a gap; and at the  *)
(* end either an exit code, when the command and everything it left behind *)
(* are over and all they wrote was put on the screen, or an error, at any  *)
(* time.  A failing screen goes unnoticed.  ExecStream implements it.      *)
(***************************************************************************)
EXTENDS Integers, Sequences

CONSTANTS
  Outputs,   \* the outputs of a command
  Faithful   \* the exit codes that are reported as they are

VARIABLES
  life,     \* "alive", "exited" with descendants that may still write, or "over"
  code,     \* what the command exited with
  wrote,    \* wrote[o]: how often output o was written to; write n carries n
  shown,    \* shown[o]: what is on the screen
  failed,   \* the outputs of which the screen has refused some
  outcome   \* what the controller ended with: its kind and, of "exit", the code

vars == <<life, code, wrote, shown, failed, outcome>>

\* The first n writes of an output.
First(n) == [k \in 1 .. n |-> k]

Pending == [kind |-> "none", code |-> 0]

Init ==
  /\ life = "alive" /\ code = 0
  /\ wrote = [o \in Outputs |-> 0]
  /\ shown = [o \in Outputs |-> << >>]
  /\ failed = {}
  /\ outcome = Pending

Write(o) ==
  /\ life # "over"
  /\ wrote' = [wrote EXCEPT ![o] = @ + 1]
  /\ UNCHANGED <<life, code, shown, failed, outcome>>

\* The command exits, the last of its family or not.
Exit ==
  /\ life = "alive"
  /\ life' \in {"exited", "over"}
  /\ code' \in Int
  /\ UNCHANGED <<wrote, shown, failed, outcome>>

FamilyEnds ==
  /\ life = "exited"
  /\ life' = "over"
  /\ UNCHANGED <<code, wrote, shown, failed, outcome>>

\* More of an output appears: what comes next, and nothing else.
Show(o) ==
  /\ outcome = Pending
  /\ o \notin failed
  /\ \E n \in Len(shown[o]) + 1 .. wrote[o] : shown' = [shown EXCEPT ![o] = First(n)]
  /\ UNCHANGED <<life, code, wrote, failed, outcome>>

\* What was written later than all that is on the screen.
Later(o, n) == n \in 1 .. wrote[o] /\ \A i \in 1 .. Len(shown[o]) : shown[o][i] < n

\* The screen refuses some of an output, now or before: of what comes later, some
\* may appear, in order.
ShowWithGaps(o) ==
  /\ outcome = Pending
  /\ failed' = failed \union {o}
  /\ \E n \in 0 .. wrote[o] : \E more \in [1 .. n -> 1 .. wrote[o]] :
       /\ \A i \in 1 .. n : Later(o, more[i])
       /\ \A i, j \in 1 .. n : i < j => more[i] < more[j]
       /\ shown' = [shown EXCEPT ![o] = @ \o more]
  /\ UNCHANGED <<life, code, wrote, outcome>>

\* A code is reported, as it is if it can be, and as success only if it is that.
ReportCode ==
  /\ outcome = Pending
  /\ life = "over"
  /\ \A o \in Outputs : o \notin failed => shown[o] = First(wrote[o])
  /\ outcome' \in [kind : {"exit"}, code : Int]
  /\ outcome'.code = 0 <=> code = 0
  /\ code \in Faithful => outcome'.code = code
  /\ UNCHANGED <<life, code, wrote, shown, failed>>

ReportError ==
  /\ outcome = Pending
  /\ outcome' = [kind |-> "error", code |-> 0]
  /\ UNCHANGED <<life, code, wrote, shown, failed>>

Next ==
  \/ \E o \in Outputs : Write(o) \/ Show(o) \/ ShowWithGaps(o)
  \/ Exit \/ FamilyEnds
  \/ ReportCode \/ ReportError

Spec == Init /\ [][Next]_vars
===============================================================================
