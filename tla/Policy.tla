-------------------------------- MODULE Policy --------------------------------
(***************************************************************************)
(* internal/policy/policy.go: how the agent's policy.yaml is loaded and how *)
(* it decides on a destructive command.  No state: DeployGate holds the    *)
(* policy that was loaded.                                                 *)
(***************************************************************************)
EXTENDS Naturals

CONSTANTS
  Commands,   \* the commands a request may name
  NoFile,     \* policy.yaml does not exist
  BadFile     \* policy.yaml cannot be read or is not YAML of a policy

\* The modes the code knows, the empty one a file without the key gives, and
\* "other" for any string the code does not know.
Modes == {"deny", "allow", "ask", "", "other"}

\* The fields of Policy; the lists are only ever searched.
Policies == [destructive : Modes, allow : SUBSET Commands, deny : SUBSET Commands]

ASSUME PolicyAssumption ==
  /\ NoFile # BadFile
  /\ {NoFile, BadFile} \intersect Policies = {}

Default == [destructive |-> "deny", allow |-> {}, deny |-> {}]

\* Whether Load returns a policy for policy.yaml in state f.
Loads(f) == f # BadFile

\* The policy it returns: the default for a missing file, the deny mode for a
\* file that names none.  A mode the code does not know is kept as it is.
Load(f) ==
  IF f = NoFile THEN Default
  ELSE IF f.destructive = "" THEN [f EXCEPT !.destructive = "deny"]
  ELSE f

\* The decision on a command: the deny list first, then the mode.  An empty
\* allow list restricts nothing in allow mode.
Evaluate(p, command) ==
  IF command \in p.deny THEN "deny"
  ELSE CASE p.destructive = "allow" ->
              IF p.allow = {} \/ command \in p.allow THEN "allow" ELSE "deny"
         [] p.destructive = "ask" -> IF command \in p.allow THEN "allow" ELSE "ask"
         [] OTHER -> "deny"
===============================================================================
