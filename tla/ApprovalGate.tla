----------------------------- MODULE ApprovalGate -----------------------------
(***************************************************************************)
(* What the approvals of Deploy promise, with no lock, no calls and no     *)
(* process: an approval is offered for one command, is taken at most once, *)
(* and only then, for that command, lets one command start.  It may lapse  *)
(* at any moment before.  DeployGate is shown to implement this.           *)
(***************************************************************************)
EXTENDS Naturals

CONSTANTS
  Ids,        \* the values randID may return
  Commands,   \* the commands an approval may be for
  None

VARIABLES
  status,     \* status[i]: where approval i is in its life
  subject,    \* subject[i]: the command approval i was offered for
  runs        \* runs[i]: the commands started on approval i

vars == <<status, subject, runs>>

Init ==
  /\ status = [i \in Ids |-> "unissued"]
  /\ subject = [i \in Ids |-> None]
  /\ runs = [i \in Ids |-> 0]

Offer(i, command) ==
  /\ status[i] = "unissued"
  /\ status' = [status EXCEPT ![i] = "offered"]
  /\ subject' = [subject EXCEPT ![i] = command]
  /\ UNCHANGED runs

\* A call that presented the id and the command has been accepted.
Take(i) ==
  /\ status[i] = "offered"
  /\ status' = [status EXCEPT ![i] = "taken"]
  /\ UNCHANGED <<subject, runs>>

\* The command starts.
Use(i) ==
  /\ status[i] = "taken"
  /\ status' = [status EXCEPT ![i] = "over"]
  /\ runs' = [runs EXCEPT ![i] = @ + 1]
  /\ UNCHANGED subject

\* Approvals lapse: too old, presented for another command, the command did
\* not start, or the agent went down with all of them.
Lapse(S) ==
  /\ \A i \in S : status[i] \in {"offered", "taken"}
  /\ status' = [i \in Ids |-> IF i \in S THEN "over" ELSE status[i]]
  /\ UNCHANGED <<subject, runs>>

Next ==
  \/ \E i \in Ids : Take(i) \/ Use(i) \/ \E command \in Commands : Offer(i, command)
  \/ \E S \in SUBSET Ids : Lapse(S)

Spec == Init /\ [][Next]_vars
===============================================================================
