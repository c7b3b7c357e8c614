------------------------------ MODULE Controller ------------------------------
(***************************************************************************)
(* rexec exec run and exec deploy (cmd/rexec/controllercmds.go) with the   *)
(* agent of DeployGate: a process per call slot dials, sends one request,  *)
(* or two when the policy asks and --yes answers, and ends with what the   *)
(* stream told it.  The agent may be restarted and the connection lost     *)
(* between any two steps; an operator carries printed approval ids from    *)
(* one process to another.                                                 *)
(***************************************************************************)
EXTENDS DeployGate, Authz

CONSTANTS
  Certs,       \* the certificate organizations of the controllers
  MaxProcs     \* bound on the processes that are started

ASSUME ControllerAssumption ==
  /\ \A orgs \in Certs : orgs = NoCert \/ orgs \subseteq DOMAIN rank
  /\ MaxProcs \in Nat
  /\ {"none", "error", "zero", "nonzero"} \intersect Ids = {}

VARIABLES
  cli,      \* cli[c]: "idle", the "first" or "second" send, or how c ended
  inv,      \* inv[c]: its arguments and certificate
  reply,    \* reply[c]: the answer to its send that it has not looked at
  printed,  \* ids some process printed with APPROVAL_REQUIRED
  ran,      \* history: ran[c]: commands the agent started for c
  procs     \* history: processes started so far

session == <<cli, inv, reply, printed, ran, procs>>
cvars == <<vars, session>>

Replies == {"none", "error", "zero", "nonzero"} \union Ids
Outcomes == {"success", "failed", "error", "approval", "again"}
Invocations ==
  [method : {"run", "deploy"}, command : Commands, id : Ids \union {Stranger, NoId},
   yes : BOOLEAN, orgs : Certs]

CInit ==
  /\ Init
  /\ cli = [c \in Calls |-> "idle"]
  /\ inv = [c \in Calls |-> None]
  /\ reply = [c \in Calls |-> "none"]
  /\ printed = {}
  /\ ran = [c \in Calls |-> 0]
  /\ procs = 0

\* A process is inside send, or between its two sends.
Waiting(c) == cli[c] \in {"first", "second"}

\* The full name of a method, as the interceptor gets it.
FullMethod(v) == IF v.method = "run" THEN "Run" ELSE "Deploy"

\* The request of invocation v with approval id i.
ExecRequest(v, i) == [method |-> v.method, command |-> v.command, id |-> i]

\* What a command line may hold: run has no --approval and no --yes, and an
\* operator has the ids that were printed, or makes one up.
CommandLine(v) ==
  /\ v.method = "run" => v.id = NoId /\ ~ v.yes
  /\ v.id \in printed \union {Stranger, NoId}

-------------------------------------------------------------------------------
(* A process and its streams *)

\* A process starts in slot c.
Launch(c) ==
  /\ ~ Waiting(c)
  /\ pc[c] = "idle"
  /\ procs < MaxProcs
  /\ procs' = procs + 1
  /\ ran' = [ran EXCEPT ![c] = 0]

\* Its request gets past the interceptor.
Invoke(c, v) ==
  /\ Launch(c)
  /\ CommandLine(v)
  /\ Intercept(FullMethod(v), v.orgs) = "handler"
  /\ Request(c, ExecRequest(v, v.id))
  /\ cli' = [cli EXCEPT ![c] = "first"]
  /\ inv' = [inv EXCEPT ![c] = v]
  /\ UNCHANGED <<reply, printed>>

\* It never gets to a handler: a --set-env without a key, no credential, no
\* agent, or the interceptor refuses it.
Refused(c) ==
  /\ Launch(c)
  /\ cli' = [cli EXCEPT ![c] = "error"]
  /\ inv' = [inv EXCEPT ![c] = None]
  /\ UNCHANGED <<vars, reply, printed>>

\* The handler of c returns answer r; nobody reads it once the process is gone.
Answer(c, r) ==
  reply' = IF Waiting(c) THEN [reply EXCEPT ![c] = r] ELSE reply

\* A step of the handler, and what consumeStream will receive of it.
Serve(c) ==
  /\ \/ /\ ConsumeGrant(c) \/ Decide(c) \/ IssueFails(c) \/ StartFails(c)
        /\ IF pc'[c] = "idle" THEN Answer(c, "error") ELSE UNCHANGED reply
        /\ UNCHANGED ran
     \/ /\ \E i \in Ids : IssueGrant(c, i)
        /\ UNCHANGED <<reply, ran>>
     \/ /\ SendApproval(c)
        /\ given' = given \union (IF Waiting(c) THEN {IssuedId(c)} ELSE {})
        /\ Answer(c, IssuedId(c))
        /\ UNCHANGED ran
     \/ /\ Start(c)
        /\ ran' = [ran EXCEPT ![c] = IF @ < RunCap THEN @ + 1 ELSE @]
        /\ UNCHANGED reply
  /\ UNCHANGED <<cli, inv, printed, procs>>

\* The command ends with exit code zero or another.
Exits(c) ==
  /\ Finish(c)
  /\ \E r \in {"zero", "nonzero"} : Answer(c, r)
  /\ UNCHANGED <<cli, inv, printed, ran, procs>>

\* The process returns with outcome o.
Ends(c, o) ==
  /\ cli' = [cli EXCEPT ![c] = o]
  /\ inv' = [inv EXCEPT ![c] = None]
  /\ reply' = [reply EXCEPT ![c] = "none"]
  /\ UNCHANGED <<ran, procs>>

\* deploy has an approval from consumeStream, which run does not look for.
\* Mutant: NeedsApproval is skipped like a chunk that is not known, so that the
\* stream ends with exit code zero.
NoneNeeded(c) == FALSE
NeedsApproval(c) == reply[c] \in Ids /\ inv[c].method = "deploy"

\* --yes.  Mutant: taken for given.
YesAlways(c) == TRUE
AutoYes(c) == inv[c].yes

\* Recv has returned the end of the stream or an error.  Mutant: an error does
\* not end the loop of consumeStream.
ErrorsSkipped(c) == reply[c] \notin {"none", "error"}
StreamEnded(c) == reply[c] # "none"

\* The answer ends the process: an error, an exit code, or, after --yes, one
\* more approval.
Report(c) ==
  /\ Waiting(c)
  /\ StreamEnded(c)
  /\ NeedsApproval(c) => cli[c] = "second"
  /\ Ends(c, IF NeedsApproval(c) THEN "again"
             ELSE IF reply[c] = "error" THEN "error"
             ELSE IF reply[c] = "nonzero" THEN "failed" ELSE "success")
  /\ UNCHANGED <<vars, printed>>

\* Without --yes the approval id is printed for the operator.
AskOperator(c) ==
  /\ cli[c] = "first"
  /\ NeedsApproval(c) /\ ~ AutoYes(c)
  /\ printed' = printed \union {reply[c]}
  /\ Ends(c, "approval")
  /\ UNCHANGED vars

\* With --yes the request is sent once more with the id, on the connection and
\* with the certificate the process has, to whatever agent answers by now.
AutoApprove(c) ==
  /\ cli[c] = "first"
  /\ NeedsApproval(c) /\ AutoYes(c)
  /\ Request(c, ExecRequest(inv[c], reply[c]))
  /\ cli' = [cli EXCEPT ![c] = "second"]
  /\ reply' = [reply EXCEPT ![c] = "none"]
  /\ UNCHANGED <<inv, printed, ran, procs>>

\* The second send finds no agent that takes calls.
AutoApproveFails(c) ==
  /\ cli[c] = "first"
  /\ NeedsApproval(c) /\ AutoYes(c)
  /\ ~ Accepting
  /\ Ends(c, "error")
  /\ UNCHANGED <<vars, printed>>

\* The connection is lost, with whatever is on it: the process ends with an
\* error, the handler goes on until it notices.
Disconnect(c) ==
  /\ Waiting(c)
  /\ cli' = [cli EXCEPT ![c] = "error"]
  /\ reply' = [reply EXCEPT ![c] = "none"]
  /\ UNCHANGED <<vars, inv, printed, ran, procs>>

\* The agent dies: Recv fails where no answer has arrived.
AgentDies ==
  /\ Crash
  /\ reply' = [c \in Calls |-> IF Waiting(c) /\ reply[c] = "none" THEN "error" ELSE reply[c]]
  /\ UNCHANGED <<cli, inv, printed, ran, procs>>

-------------------------------------------------------------------------------

Consume(c) == Report(c) \/ AskOperator(c) \/ AutoApprove(c) \/ AutoApproveFails(c)

\* What the agent process and its operator do besides.
Agent == (\E f \in Files : EditPolicy(f)) \/ Boot \/ Stop \/ Drained \/ Tick

CNext ==
  \/ Agent /\ UNCHANGED session
  \/ AgentDies
  \/ \E c \in Calls :
       \/ \E v \in Invocations : Invoke(c, v)
       \/ Refused(c) \/ Serve(c) \/ Exits(c) \/ Consume(c) \/ Disconnect(c)

CSpec == CInit /\ [][CNext]_cvars

\* The handlers run, GracefulStop returns once they have, the commands end, and
\* the controllers read their streams.
CPatientSpec ==
  /\ CSpec
  /\ WF_cvars(Drained /\ UNCHANGED session)
  /\ \A c \in Calls : WF_cvars(Serve(c)) /\ WF_cvars(Exits(c)) /\ WF_cvars(Consume(c))

-------------------------------------------------------------------------------

\* Every variable holds a value of its kind.
CTypeOK ==
  /\ TypeOK
  /\ cli \in [Calls -> {"idle", "first", "second"} \union Outcomes]
  /\ inv \in [Calls -> Invocations \union {None}]
  /\ reply \in [Calls -> Replies]
  /\ printed \subseteq Ids
  /\ ran \in [Calls -> 0 .. RunCap]
  /\ procs \in 0 .. MaxProcs

\* A request that carries an approval is never answered with another request
\* for approval, whatever was edited or restarted between the two sends: the
\* error "agent still requests approval after --yes" is never seen.
NeverAsksTwice == \A c \in Calls : cli[c] # "again"

\* However it was approved, an invocation starts its command once at most; one
\* that ends with an exit code started it, one that ends with APPROVAL_REQUIRED
\* did not.  An error says nothing either way.
OutcomeIsTrue ==
  \A c \in Calls :
    /\ ran[c] <= 1
    /\ cli[c] \in {"success", "failed"} => ran[c] = 1
    /\ cli[c] = "approval" => ran[c] = 0

\* A command of exec deploy runs for a certificate with the admin role, under a
\* policy that does not deny it, and, when that policy asks, for a controller
\* that said --yes or brought an id printed for its operator (the three
\* independent checks of the design).
ThreeChecks ==
  \A c \in Calls :
    LetThrough(c) =>
      /\ RoleFromCert(inv[c].orgs) = "rex:admin"
      /\ Evaluate(pol, inv[c].command) # "deny"
      /\ Evaluate(pol, inv[c].command) = "ask" => inv[c].yes \/ inv[c].id \in printed

\* If the commands it runs end, every exec run and exec deploy comes to its
\* end: after a refusal, a restart, a lost connection and a second send alike.
CommandEnds == \A c \in Calls : Waiting(c) ~> ~ Waiting(c)
===============================================================================
