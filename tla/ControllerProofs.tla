--------------------------- MODULE ControllerProofs ---------------------------
(***************************************************************************)
(* What exec run and exec deploy guarantee together with the agent, for    *)
(* every number of processes, approvals, policy files and certificates and *)
(* every restart: the agent they drive is that of DeployGate, so that what *)
(* is proved of the gate holds here; and of the processes, that they are   *)
(* never asked twice, that their outcome is true, and that a command of    *)
(* exec deploy has passed all three checks.                                *)
(***************************************************************************)
EXTENDS Controller, DeployGateProofs

\* Call slot c has a handler, the process of which may be gone.
Busy(c) == pc[c] # "idle"

\* The invocation of a slot that is in use, and the request made of it.
SlotsOK ==
  \A c \in Calls :
    /\ Waiting(c) \/ Busy(c) =>
         inv[c] \in Invocations /\ Intercept(FullMethod(inv[c]), inv[c].orgs) = "handler"
    /\ Busy(c) =>
         /\ cli[c] \in {"first", "second", "error"}
         /\ reply[c] = "none"
         /\ req[c].method = inv[c].method /\ req[c].command = inv[c].command
    /\ reply[c] # "none" => Waiting(c)

\* Where the approval id of a request is from, and who may be asked for one.
AskedOnce ==
  \A c \in Calls :
    /\ Busy(c) =>
         inv[c].yes \/ (req[c].id = inv[c].id /\ inv[c].id \in printed \union {Stranger, NoId})
    /\ pc[c] \in {"ask", "offer"} => req[c].id = NoId /\ inv[c].method = "deploy"
    /\ cli[c] = "second" => (Busy(c) => req[c].id # NoId) /\ reply[c] \notin Ids
    /\ reply[c] \in Ids => inv[c].method = "deploy"
    /\ cli[c] # "again"

\* What a process has started, at each step and in each outcome.
RanOK ==
  \A c \in Calls :
    /\ ran[c] <= 1
    /\ Busy(c) => ran[c] = IF pc[c] = "running" THEN 1 ELSE 0
    /\ reply[c] \in {"zero", "nonzero"} => ran[c] = 1
    /\ reply[c] \in Ids => ran[c] = 0
    /\ cli[c] \in {"success", "failed"} => ran[c] = 1
    /\ cli[c] = "approval" => ran[c] = 0

SessionType ==
  /\ cli \in [Calls -> {"idle", "first", "second"} \union Outcomes]
  /\ inv \in [Calls -> Invocations \union {None}]
  /\ reply \in [Calls -> Replies]
  /\ printed \subseteq Ids
  /\ ran \in [Calls -> 0 .. RunCap]
  /\ procs \in 0 .. MaxProcs

SessionInv == SessionType /\ SlotsOK /\ AskedOnce /\ RanOK

CInv == GateInv /\ SessionInv
-------------------------------------------------------------------------------
(* The agent is that of DeployGate *)

\* What serves a process is a handler of DeployGate.
LEMMA ServeIsHandle ==
  ASSUME NEW c \in Calls, Serve(c)
  PROVE  Handle(c)
BY DEF Serve, Handle

\* What a process does to the agent is a step of DeployGate, or nothing.
LEMMA GateStep == SessionInv /\ [CNext]_cvars => [Next]_vars
<1> SUFFICES ASSUME SessionInv, [CNext]_cvars PROVE [Next]_vars
  OBVIOUS
<1>1. CASE Agent
  BY <1>1 DEF Agent, Next
<1>2. CASE AgentDies
  BY <1>2 DEF AgentDies, Next
<1>3. ASSUME NEW c \in Calls, NEW v \in Invocations, Invoke(c, v) PROVE Next
  <2>1. ExecRequest(v, v.id) \in Requests
    BY DEF ExecRequest, Invocations, Requests
  <2> QED
    BY <1>3, <2>1 DEF Invoke, Next
<1>4. ASSUME NEW c \in Calls, Serve(c) PROVE Next
  BY <1>4, ServeIsHandle DEF Next
<1>5. ASSUME NEW c \in Calls, Exits(c) PROVE Next
  BY <1>5 DEF Exits, Next
<1>6. ASSUME NEW c \in Calls, AutoApprove(c) PROVE Next
  <2>1. inv[c] \in Invocations /\ reply[c] \in Ids
    BY <1>6 DEF AutoApprove, NeedsApproval, Waiting, SessionInv, SlotsOK
  <2>2. ExecRequest(inv[c], reply[c]) \in Requests
    BY <2>1 DEF ExecRequest, Invocations, Requests
  <2> QED
    BY <1>6, <2>2 DEF AutoApprove, Next
<1>7. ASSUME NEW c \in Calls,
             Refused(c) \/ Report(c) \/ AskOperator(c) \/ AutoApproveFails(c) \/ Disconnect(c)
      PROVE  UNCHANGED vars
  BY <1>7 DEF Refused, Report, AskOperator, AutoApproveFails, Disconnect
<1>8. CASE UNCHANGED cvars
  BY <1>8 DEF cvars
<1> QED
  BY <1>1, <1>2, <1>3, <1>4, <1>5, <1>6, <1>7, <1>8 DEF CNext, Consume
-------------------------------------------------------------------------------
(* The processes *)

\* No process has started yet.
LEMMA SessionInit == CInit => SessionInv
BY ControllerAssumption, GateAssumption
DEF CInit, Init, SessionInv, SessionType, SlotsOK, AskedOnce, RanOK, Busy, Waiting,
    Outcomes, Replies, RunCap

\* A step of the agent's process that touches no call.
LEMMA AgentStep ==
  ASSUME SessionInv, UNCHANGED <<session, callVars>>
  PROVE  SessionInv'
BY DEF SessionInv, SessionType, SlotsOK, AskedOnce, RanOK, Busy, Waiting, session, callVars
\* A process starts: its slot was free, and so is its handler.
LEMMA StartStep ==
  ASSUME CInv, NEW c \in Calls,
         Refused(c) \/ \E v \in Invocations : Invoke(c, v)
  PROVE  SessionInv'
<1> USE ControllerAssumption, GateAssumption
    DEF CInv, SessionInv, SessionType, Launch, Waiting, Busy, Outcomes, Replies, RunCap
<1>1. CASE Refused(c)
  <2>1. UNCHANGED <<callVars, reply, printed>>
    BY <1>1 DEF Refused, vars
  <2>2. SessionType'
    BY <1>1, <2>1 DEF Refused
  <2>3. SlotsOK'
    BY <1>1, <2>1 DEF Refused, SlotsOK, callVars
  <2>4. AskedOnce'
    BY <1>1, <2>1 DEF Refused, AskedOnce, SlotsOK, callVars
  <2>5. RanOK'
    BY <1>1, <2>1 DEF Refused, RanOK, SlotsOK, callVars
  <2> QED
    BY <2>2, <2>3, <2>4, <2>5
<1>2. ASSUME NEW v \in Invocations, Invoke(c, v) PROVE SessionInv'
  <2> DEFINE first == IF v.method = "run" THEN "start" ELSE "deploy"
  <2>1. /\ pc' = [pc EXCEPT ![c] = first]
        /\ req' = [req EXCEPT ![c] = ExecRequest(v, v.id)]
        /\ UNCHANGED <<reply, printed>>
    BY <1>2 DEF Invoke, Request, Goto, ExecRequest
  <2>2. SessionType'
    BY <1>2, <2>1 DEF Invoke
  <2>3. SlotsOK'
    BY <1>2, <2>1 DEF Invoke, SlotsOK, ExecRequest, GateInv, TypeInv, TypeOK
  <2>4. AskedOnce'
    BY <1>2, <2>1 DEF Invoke, AskedOnce, SlotsOK, CommandLine, ExecRequest, GateInv, TypeInv, TypeOK
  <2>5. RanOK'
    BY <1>2, <2>1 DEF Invoke, RanOK, SlotsOK, GateInv, TypeInv, TypeOK
  <2> QED
    BY <2>2, <2>3, <2>4, <2>5
<1> QED
  BY <1>1, <1>2
\* The handler of c goes on, or returns with an answer.
LEMMA ServeStep ==
  ASSUME CInv, NEW c \in Calls, Serve(c) \/ Exits(c)
  PROVE  SessionInv'
<1> USE ControllerAssumption, GateAssumption
    DEF CInv, GateInv, TypeInv, TypeOK, CallsOK, SessionInv, SessionType, SlotsOK, AskedOnce, RanOK,
        Waiting, Busy, Replies, RunCap, Goto, Return
<1>1. UNCHANGED <<cli, inv, printed, procs>>
  BY DEF Serve, Exits
<1>2. ASSUME ConsumeGrant(c), IF pc'[c] = "idle" THEN Answer(c, "error") ELSE UNCHANGED reply,
             UNCHANGED ran
      PROVE  SessionInv'
  BY <1>1, <1>2 DEF ConsumeGrant, Answer
<1>3. ASSUME Decide(c), IF pc'[c] = "idle" THEN Answer(c, "error") ELSE UNCHANGED reply,
             UNCHANGED ran
      PROVE  SessionInv'
  <2>1. CASE Evaluate(pol, req[c].command) = "deny"
    BY <1>1, <1>3, <2>1 DEF Decide, Answer
  <2>2. CASE Evaluate(pol, req[c].command) # "deny"
    BY <1>1, <1>3, <2>2 DEF Decide, Answer
  <2> QED
    BY <2>1, <2>2
<1>4. ASSUME IssueFails(c) \/ StartFails(c),
             IF pc'[c] = "idle" THEN Answer(c, "error") ELSE UNCHANGED reply,
             UNCHANGED ran
      PROVE  SessionInv'
  BY <1>1, <1>4 DEF IssueFails, StartFails, Answer
<1>5. ASSUME NEW i \in Ids, IssueGrant(c, i), UNCHANGED <<reply, ran>> PROVE SessionInv'
  BY <1>1, <1>5 DEF IssueGrant
<1>6. ASSUME SendApproval(c), Answer(c, IssuedId(c)), UNCHANGED ran PROVE SessionInv'
  BY <1>1, <1>6 DEF SendApproval, Answer, IssuedId
<1>7. ASSUME Start(c), ran' = [ran EXCEPT ![c] = IF @ < RunCap THEN @ + 1 ELSE @], UNCHANGED reply
      PROVE  SessionInv'
  BY <1>1, <1>7 DEF Start
<1>8. ASSUME Exits(c) PROVE SessionInv'
  BY <1>1, <1>8 DEF Exits, Finish, Answer
<1> QED
  BY <1>2, <1>3, <1>4, <1>5, <1>6, <1>7, <1>8 DEF Serve

\* The process of c looks at an answer, or loses its connection.
LEMMA ConsumeStep ==
  ASSUME CInv, NEW c \in Calls, Consume(c) \/ Disconnect(c)
  PROVE  SessionInv'
<1> USE ControllerAssumption, GateAssumption
    DEF CInv, GateInv, TypeInv, TypeOK, SessionInv, SessionType, SlotsOK, AskedOnce, RanOK,
        Waiting, Busy, Replies, Outcomes, RunCap, Ends, NeedsApproval, AutoYes
<1>1. CASE Report(c)
  <2>1. UNCHANGED <<callVars, printed, ran, procs>>
    BY <1>1 DEF Report, vars
  <2>2. ~ Busy(c) /\ ~ NeedsApproval(c)
    BY <1>1 DEF Report, StreamEnded
  <2> QED
    BY <1>1, <2>1, <2>2 DEF Report, StreamEnded, callVars
<1>2. CASE AskOperator(c)
  <2>1. UNCHANGED <<callVars, ran, procs>>
    BY <1>2 DEF AskOperator, vars
  <2> QED
    BY <1>2, <2>1 DEF AskOperator, callVars
<1>3. CASE AutoApprove(c)
  <2>1. inv[c] \in Invocations /\ inv[c].method = "deploy" /\ reply[c] \in Ids /\ ran[c] = 0
    BY <1>3 DEF AutoApprove
  <2>2. /\ pc' = [pc EXCEPT ![c] = "deploy"]
        /\ req' = [req EXCEPT ![c] = ExecRequest(inv[c], reply[c])]
        /\ UNCHANGED <<inv, printed, ran, procs>>
    BY <1>3, <2>1 DEF AutoApprove, Request, Goto, ExecRequest
  <2> QED
    BY <1>3, <2>1, <2>2 DEF AutoApprove, ExecRequest
<1>4. CASE AutoApproveFails(c)
  <2>1. UNCHANGED <<callVars, printed, ran, procs>>
    BY <1>4 DEF AutoApproveFails, vars
  <2> QED
    BY <1>4, <2>1 DEF AutoApproveFails, callVars
<1>5. CASE Disconnect(c)
  <2>1. UNCHANGED <<callVars, inv, printed, ran, procs>>
    BY <1>5 DEF Disconnect, vars
  <2> QED
    BY <1>5, <2>1 DEF Disconnect, callVars
<1> QED
  BY <1>1, <1>2, <1>3, <1>4, <1>5 DEF Consume

\* Every step of the agent, of its operator and of the processes.
LEMMA SessionStep == CInv /\ [CNext]_cvars => SessionInv'
<1> SUFFICES ASSUME CInv, [CNext]_cvars PROVE SessionInv'
  OBVIOUS
<1>1. CASE Agent /\ UNCHANGED session
  <2>1. UNCHANGED callVars
    BY <1>1 DEF Agent, EditPolicy, Boot, Stop, Drained, Tick
  <2> QED
    BY <1>1, <2>1, AgentStep DEF CInv
<1>2. CASE AgentDies
  BY <1>2, ControllerAssumption, GateAssumption
  DEF AgentDies, Crash, CInv, SessionInv, SessionType, SlotsOK, AskedOnce, RanOK, Waiting, Busy, Replies
<1>3. CASE UNCHANGED cvars
  BY <1>3, AgentStep DEF cvars, vars, CInv
<1> QED
  BY <1>1, <1>2, <1>3, StartStep, ServeStep, ConsumeStep DEF CNext

\* The agent is down and no process has started.
LEMMA CInvInit == CInit => CInv
BY GateInit, SessionInit DEF CInit, CInv

\* Every step keeps the invariant of the gate and of the processes, and is a
\* step of the gate or none.
LEMMA CInvStep == CInv /\ [CNext]_cvars => CInv' /\ [Next]_vars
<1> SUFFICES ASSUME CInv, [CNext]_cvars PROVE CInv' /\ [Next]_vars
  OBVIOUS
<1>1. [Next]_vars
  BY GateStep DEF CInv
<1>2. GateInv'
  BY <1>1, TypeStep, TableStep, ReasonsStep, OnceStep DEF CInv, GateInv
<1> QED
  BY <1>1, <1>2, SessionStep DEF CInv

\* What holds of the gate and of the processes always holds: every request is
\* made of the invocation of its slot, nobody is asked twice, and commands are
\* counted where they are started.
THEOREM ControllerInvariant == CSpec => []CInv
BY CInvInit, CInvStep, PTL DEF CSpec
-------------------------------------------------------------------------------
(* The theorems *)

\* The agent a controller talks to is the agent of DeployGate, whatever the
\* processes do: AutoApprove, which sends the answer of one call as the request
\* of the next, is a request that the gate knows.
THEOREM ControllerImplementsGate == CSpec => Spec
<1>1. CInit => Init
  BY DEF CInit
<1> QED
  BY <1>1, CInvInit, CInvStep, PTL DEF CSpec, Spec

\* What is proved of the gate therefore holds of exec run and exec deploy: of
\* denials, of approvals and their one use, of their time, of their life.
THEOREM GateHoldsHere ==
  CSpec => [](DenialHolds /\ AskedAndApproved /\ OneRunPerApproval) /\ InTime /\ ImplementsApprovalGate
BY ControllerImplementsGate, DenialAlwaysHolds, AlwaysAskedAndApproved, AlwaysOneRunPerApproval,
   AlwaysInTime, ImplementsApprovalGateHolds, PTL

\* Every variable of the agent and of the processes keeps to its type.
THEOREM CTypeCorrect == CSpec => []CTypeOK
<1>1. CInv => CTypeOK
  BY DEF CInv, GateInv, TypeInv, SessionInv, SessionType, CTypeOK
<1> QED
  BY <1>1, ControllerInvariant, PTL

\* A request that carries an approval is never answered with another one,
\* whatever policy.yaml became and whoever restarted the agent meanwhile.
THEOREM NeverAsksTwiceHolds == CSpec => []NeverAsksTwice
<1>1. CInv => NeverAsksTwice
  BY DEF CInv, SessionInv, AskedOnce, NeverAsksTwice
<1> QED
  BY <1>1, ControllerInvariant, PTL

\* An invocation starts its command once at most, and what it ends with says
\* whether it did.
THEOREM OutcomeIsTrueHolds == CSpec => []OutcomeIsTrue
<1>1. CInv => OutcomeIsTrue
  BY DEF CInv, SessionInv, RanOK, OutcomeIsTrue
<1> QED
  BY <1>1, ControllerInvariant, PTL

\* Only the highest role reaches Deploy.
LEMMA DeployNeedsAdmin ==
  ASSUME NEW orgs, Intercept("Deploy", orgs) = "handler"
  PROVE  RoleFromCert(orgs) = "rex:admin"
<1>1. AgentTable["Deploy"] = "rex:admin" /\ "Deploy" \in DOMAIN AgentTable
  BY DEF AgentTable
<1>2. Rank(RoleFromCert(orgs)) >= Rank("rex:admin")
  BY <1>1 DEF Intercept, Allowed, RolePublic
<1> QED
  BY <1>2 DEF Rank, rank

\* A command of exec deploy has passed the three independent checks: the role
\* of the certificate, the policy, and the approval where the policy asks.
THEOREM ThreeChecksHold == CSpec => []ThreeChecks
<1>1. CInv => ThreeChecks
  <2> SUFFICES ASSUME CInv, NEW c \in Calls, LetThrough(c)
               PROVE  /\ RoleFromCert(inv[c].orgs) = "rex:admin"
                      /\ Evaluate(pol, inv[c].command) # "deny"
                      /\ Evaluate(pol, inv[c].command) = "ask" =>
                           inv[c].yes \/ inv[c].id \in printed
    BY DEF ThreeChecks
  <2>1. /\ Busy(c) /\ inv[c] \in Invocations
        /\ inv[c].method = "deploy" /\ req[c].command = inv[c].command
        /\ Intercept(FullMethod(inv[c]), inv[c].orgs) = "handler"
    BY DEF LetThrough, Busy, CInv, SessionInv, SlotsOK
  <2>2. RoleFromCert(inv[c].orgs) = "rex:admin"
    BY <2>1, DeployNeedsAdmin DEF FullMethod
  <2>3. Evaluate(pol, inv[c].command) # "deny"
    BY <2>1 DEF CInv, GateInv, ReasonsOK
  <2>4. ASSUME Evaluate(pol, inv[c].command) = "ask", ~ inv[c].yes
        PROVE  inv[c].id \in printed
    <3>1. req[c].id # NoId /\ req[c].id \in Ids
      BY <2>1, <2>4 DEF CInv, GateInv, ReasonsOK
    <3>2. req[c].id = inv[c].id /\ inv[c].id \in printed \union {Stranger, NoId}
      BY <2>1, <2>4 DEF CInv, SessionInv, AskedOnce
    <3> QED
      BY <3>1, <3>2, GateAssumption
  <2> QED
    BY <2>2, <2>3, <2>4
<1> QED
  BY <1>1, ControllerInvariant, PTL
===============================================================================
