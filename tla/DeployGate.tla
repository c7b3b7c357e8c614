------------------------------ MODULE DeployGate ------------------------------
(***************************************************************************)
(* internal/agentserver with internal/policy: how the daemon admits the    *)
(* commands of Run and Deploy.  The policy is loaded once per process, the *)
(* approvals of the ask mode live in the process, and many calls run at    *)
(* the same time as the operator edits policy.yaml, restarts the daemon or *)
(* the daemon dies.  One action per step of a handler that another call    *)
(* can fall between; calls here have passed the authz interceptor.         *)
(***************************************************************************)
EXTENDS Policy

CONSTANTS
  Calls,      \* slots for concurrent Run and Deploy calls
  Ids,        \* the values randID may return
  Stranger,   \* an approval id no Issue ever returned
  NoId,       \* a request without an approval id
  Files,      \* what the operator may make of policy.yaml
  TTL,        \* approvalTTL
  MaxTime,    \* bound on the clock
  None

ASSUME GateAssumption ==
  /\ {Stranger, NoId, None} \intersect Ids = {}
  /\ Stranger # NoId
  /\ None \notin Commands
  /\ Files \subseteq Policies \union {NoFile, BadFile}
  /\ TTL \in Nat
  /\ MaxTime \in Nat

VARIABLES
  file,       \* policy.yaml
  daemon,     \* "down", "up", or "draining": inside GracefulStop
  pol,        \* Server.policy
  grants,     \* Grants.m: id -> [command, expiry]
  now,        \* the clock
  pc,         \* pc[c]: the step call c does next
  req,        \* req[c]: its request
  got,        \* got[c]: the id it was issued
  given,      \* ids a controller has received in a NeedsApproval
  offers,     \* history: id -> [command, at] as issued
  past,       \* history: ids issued by a process that is gone
  runs        \* history: runs[i]: commands started on approval i

callVars == <<pc, req, got>>
history == <<offers, past, runs>>
vars == <<file, daemon, pol, grants, now, callVars, given, history>>

\* Bound on the history counter: two runs on one approval are one too many.
RunCap == 2

Requests ==
  [method : {"run", "deploy"}, command : Commands, id : Ids \union {Stranger, NoId}]

Init ==
  /\ file \in Files
  /\ daemon = "down"
  /\ pol = Default
  /\ grants = << >>
  /\ now = 0
  /\ pc = [c \in Calls |-> "idle"]
  /\ req = [c \in Calls |-> None]
  /\ got = [c \in Calls |-> NoId]
  /\ given = {}
  /\ offers = << >>
  /\ past = {}
  /\ runs = [i \in Ids |-> 0]

Goto(c, step) == pc' = [pc EXCEPT ![c] = step]

\* The handler of call c returns.
Return(c) ==
  /\ Goto(c, "idle")
  /\ req' = [req EXCEPT ![c] = None]
  /\ got' = [got EXCEPT ![c] = NoId]

-------------------------------------------------------------------------------
(* The process *)

\* The operator rewrites policy.yaml, whatever the daemon is doing.
EditPolicy(f) ==
  /\ file' = f
  /\ UNCHANGED <<daemon, pol, grants, now, callVars, given, history>>

\* The approvals of a new process.  Mutant: those of the one before.
KeptGrants == grants
NewGrants == << >>

\* serveAgent: load the policy and make an empty approval store; a policy file
\* that does not load keeps the daemon from serving.
Boot ==
  /\ daemon = "down"
  /\ Loads(file)
  /\ daemon' = "up"
  /\ pol' = Load(file)
  /\ grants' = NewGrants
  /\ UNCHANGED <<file, now, callVars, given, history>>

\* The context of serveAgent is cancelled: GracefulStop takes no more calls.
Stop ==
  /\ daemon = "up"
  /\ daemon' = "draining"
  /\ UNCHANGED <<file, pol, grants, now, callVars, given, history>>

\* GracefulStop returns when the last handler has, and the process ends.
Drained ==
  /\ daemon = "draining"
  /\ \A c \in Calls : pc[c] = "idle"
  /\ daemon' = "down"
  /\ past' = DOMAIN offers
  /\ UNCHANGED <<file, pol, grants, now, callVars, given, offers, runs>>

\* The process dies with its handlers.
Crash ==
  /\ daemon # "down"
  /\ daemon' = "down"
  /\ pc' = [c \in Calls |-> "idle"]
  /\ req' = [c \in Calls |-> None]
  /\ got' = [c \in Calls |-> NoId]
  /\ past' = DOMAIN offers
  /\ UNCHANGED <<file, pol, grants, now, given, offers, runs>>

Tick ==
  /\ now < MaxTime
  /\ now' = now + 1
  /\ UNCHANGED <<file, daemon, pol, grants, callVars, given, history>>

-------------------------------------------------------------------------------
(* The calls *)

\* Whether the server takes new calls.
Accepting == daemon = "up"

\* A call reaches its handler.  Run goes straight to runStream; Deploy carries
\* no approval id, one some controller was given, or one that never was.
Request(c, r) ==
  /\ Accepting
  /\ pc[c] = "idle"
  /\ r.method = "run" => r.id = NoId
  /\ r.id \in given \union {Stranger, NoId}
  /\ req' = [req EXCEPT ![c] = r]
  /\ Goto(c, IF r.method = "run" THEN "start" ELSE "deploy")
  /\ UNCHANGED <<file, daemon, pol, grants, now, got, given, history>>

\* Mutants of Accepted: the command is not compared; the age is not.
AcceptedAnyCommand(r) == r.id \in DOMAIN grants /\ ~ (now > grants[r.id].expiry)
AcceptedAnyAge(r) == r.id \in DOMAIN grants /\ grants[r.id].command = r.command

\* Grants.Consume accepts the id, under its mutex: it is there, young enough,
\* and was issued for this command.
Accepted(r) ==
  /\ r.id \in DOMAIN grants
  /\ ~ (now > grants[r.id].expiry)
  /\ grants[r.id].command = r.command

\* The table without a grant.  Mutant: with it.
With(f, x) == f
Without(f, x) == [y \in DOMAIN f \ {x} |-> f[y]]

\* Mutant of ConsumeGrant: an id that is refused is asked about like none.
AskInstead(c) ==
  /\ pc[c] = "deploy"
  /\ req[c].id # NoId
  /\ grants' = Without(grants, req[c].id)
  /\ Goto(c, IF Accepted(req[c]) THEN "start" ELSE "ask")
  /\ UNCHANGED <<file, daemon, pol, now, req, got, given, history>>

\* Deploy with an approval id: Grants.Consume takes the grant out whatever it
\* answers; the policy is not asked again.
ConsumeGrant(c) ==
  /\ pc[c] = "deploy"
  /\ req[c].id # NoId
  /\ grants' = Without(grants, req[c].id)
  /\ IF Accepted(req[c]) THEN Goto(c, "start") /\ UNCHANGED <<req, got>> ELSE Return(c)
  /\ UNCHANGED <<file, daemon, pol, now, given, history>>

\* Deploy without one: the policy decides.
Decide(c) ==
  /\ pc[c] = "deploy"
  /\ req[c].id = NoId
  /\ \/ Evaluate(pol, req[c].command) = "allow" /\ Goto(c, "start") /\ UNCHANGED <<req, got>>
     \/ Evaluate(pol, req[c].command) = "ask" /\ Goto(c, "ask") /\ UNCHANGED <<req, got>>
     \/ Evaluate(pol, req[c].command) = "deny" /\ Return(c)
  /\ UNCHANGED <<file, daemon, pol, grants, now, given, history>>

\* Grants.Issue: a random id no other grant has, for the command alone.
IssueGrant(c, i) ==
  /\ pc[c] = "ask"
  /\ i \notin DOMAIN offers
  /\ grants' = [j \in DOMAIN grants \union {i} |->
                  IF j = i THEN [command |-> req[c].command, expiry |-> now + TTL]
                  ELSE grants[j]]
  /\ offers' = [j \in DOMAIN offers \union {i} |->
                  IF j = i THEN [command |-> req[c].command, at |-> now]
                  ELSE offers[j]]
  /\ got' = [got EXCEPT ![c] = i]
  /\ Goto(c, "offer")
  /\ UNCHANGED <<file, daemon, pol, now, req, given, past, runs>>

\* Grants.Issue fails with randID, here also when the ids of the model run out.
IssueFails(c) ==
  /\ pc[c] = "ask"
  /\ Return(c)
  /\ UNCHANGED <<file, daemon, pol, grants, now, given, history>>

\* The id in NeedsApproval.  Mutant: the one the request carried.
RequestId(c) == req[c].id
IssuedId(c) == got[c]

\* Mutant of SendApproval: Deploy stays to wait for the answer.
AwaitAnswer(c) ==
  /\ pc[c] = "offer"
  /\ given' = given \union {IssuedId(c)}
  /\ UNCHANGED <<file, daemon, pol, grants, now, callVars, history>>

\* Deploy sends NeedsApproval and returns; the controller may be gone.
SendApproval(c) ==
  /\ pc[c] = "offer"
  /\ given' \in {given, given \union {IssuedId(c)}}
  /\ Return(c)
  /\ UNCHANGED <<file, daemon, pol, grants, now, history>>

\* execute.Run starts the command.
Start(c) ==
  /\ pc[c] = "start"
  /\ runs' = IF req[c].id \in Ids /\ runs[req[c].id] < RunCap
             THEN [runs EXCEPT ![req[c].id] = @ + 1] ELSE runs
  /\ Goto(c, "running")
  /\ UNCHANGED <<file, daemon, pol, grants, now, req, got, given, offers, past>>

\* execute.Run cannot start it: no such program, or the call was cancelled.
StartFails(c) ==
  /\ pc[c] = "start"
  /\ Return(c)
  /\ UNCHANGED <<file, daemon, pol, grants, now, given, history>>

\* The command ends, or is killed because the controller cancelled the call.
Finish(c) ==
  /\ pc[c] = "running"
  /\ Return(c)
  /\ UNCHANGED <<file, daemon, pol, grants, now, given, history>>

-------------------------------------------------------------------------------

\* The steps of a handler that wait for nothing.
Handle(c) ==
  \/ ConsumeGrant(c) \/ Decide(c)
  \/ \E i \in Ids : IssueGrant(c, i)
  \/ IssueFails(c) \/ SendApproval(c)
  \/ Start(c) \/ StartFails(c)

Next ==
  \/ \E f \in Files : EditPolicy(f)
  \/ Boot \/ Stop \/ Drained \/ Crash \/ Tick
  \/ \E c \in Calls : Handle(c) \/ Finish(c) \/ \E r \in Requests : Request(c, r)

Spec == Init /\ [][Next]_vars

-------------------------------------------------------------------------------

\* Every variable holds a value of its kind.
TypeOK ==
  /\ file \in Files
  /\ daemon \in {"down", "up", "draining"}
  /\ pol \in Policies
  /\ DOMAIN grants \subseteq Ids
  /\ \A i \in DOMAIN grants : grants[i] \in [command : Commands, expiry : Nat]
  /\ now \in Nat
  /\ pc \in [Calls -> {"idle", "deploy", "ask", "offer", "start", "running"}]
  /\ req \in [Calls -> Requests \union {None}]
  /\ got \in [Calls -> Ids \union {NoId}]
  /\ given \subseteq Ids
  /\ DOMAIN offers \subseteq Ids
  /\ \A i \in DOMAIN offers : offers[i] \in [command : Commands, at : Nat]
  /\ past \subseteq Ids
  /\ runs \in [Ids -> 0 .. RunCap]

\* Call c is a Deploy whose command has been let through.
LetThrough(c) == pc[c] \in {"start", "running"} /\ req[c].method = "deploy"

\* A command the policy in force denies is never let through Deploy, with an
\* approval or without one, though an approved call skips Evaluate: the policy
\* of a process never changes and no approval outlives its process
\* (policy.go: the deny list "wins over everything").
DenialHolds == \A c \in Calls : LetThrough(c) => Evaluate(pol, req[c].command) # "deny"

\* A command the policy asks about is only let through on an approval that this
\* process issued for that command and that is no longer in the table
\* (grants.go: "requiring it to match command"; "can never be reused").
AskedAndApproved ==
  \A c \in Calls :
    LetThrough(c) /\ Evaluate(pol, req[c].command) = "ask" =>
      /\ req[c].id \in DOMAIN offers \ past
      /\ offers[req[c].id].command = req[c].command
      /\ req[c].id \notin DOMAIN grants

\* However many calls present it at once, an approval starts one command at
\* most (grants.go: "permanently removes the approval").
OneRunPerApproval == \A i \in Ids : runs[i] <= 1

\* An approval is accepted no later than approvalTTL after it was issued, and
\* by the process that issued it.
InTime ==
  [][\A c \in Calls :
       pc[c] = "deploy" /\ req[c].id # NoId /\ pc'[c] = "start" =>
         /\ req[c].id \notin past
         /\ now <= offers[req[c].id].at + TTL]_vars

\* Where an approval is in the life of ApprovalGate, and what it is for.
Taken(i) == \E c \in Calls : pc[c] = "start" /\ req[c].id = i
Status(i) ==
  IF Taken(i) THEN "taken"
  ELSE IF i \notin DOMAIN offers THEN "unissued"
  ELSE IF i \in DOMAIN grants \ past THEN "offered"
  ELSE "over"
Subject(i) == IF i \in DOMAIN offers THEN offers[i].command ELSE None

\* The calls, the table and the restarts implement the life of an approval in
\* ApprovalGate: offered for one command, taken once, used once.
AG == INSTANCE ApprovalGate WITH
  status <- [i \in Ids |-> Status(i)],
  subject <- [i \in Ids |-> Subject(i)]
ImplementsApprovalGate == AG!Spec

\* If the commands it runs end, the daemon comes to its end once it is told to
\* stop: GracefulStop takes no new calls and outlasts every handler.
DrainEnds == daemon = "draining" ~> daemon = "down"
===============================================================================
