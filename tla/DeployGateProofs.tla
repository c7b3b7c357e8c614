--------------------------- MODULE DeployGateProofs ---------------------------
(***************************************************************************)
(* What the gate of Deploy guarantees for every policy file, every number  *)
(* of concurrent calls and ids, every clock and every restart: its types,  *)
(* that a denied command is never let through, that an asked-for command   *)
(* needs its own approval, that an approval starts one command at most and *)
(* in time, and that the gate implements ApprovalGate.                     *)
(***************************************************************************)
EXTENDS DeployGate, TLAPS

\* The steps of a call that was let through to runStream.
Admitted == {"start", "running"}

\* The request and the id of a call at each step.
CallsOK ==
  \A c \in Calls :
    /\ pc[c] # "idle" => daemon # "down" /\ req[c] \in Requests
    /\ pc[c] \in {"deploy", "ask", "offer"} => req[c].method = "deploy"
    /\ pc[c] = "offer" => got[c] \in Ids
    /\ pc[c] # "idle" /\ req[c].method = "run" => req[c].id = NoId

TypeInv == TypeOK /\ CallsOK

\* The table holds the approvals this process issued and nobody presented, as
\* they were issued, for commands its policy asks about.
TableOK ==
  /\ past \subseteq DOMAIN offers
  /\ DOMAIN grants \subseteq DOMAIN offers
  /\ IF daemon = "down" THEN past = DOMAIN offers ELSE DOMAIN grants \intersect past = {}
  /\ \A i \in DOMAIN grants \ past :
       /\ grants[i].command = offers[i].command
       /\ grants[i].expiry = offers[i].at + TTL
       /\ Evaluate(pol, grants[i].command) = "ask"

\* Why each call is where it is.
ReasonsOK ==
  \A c \in Calls :
    /\ pc[c] = "ask" => Evaluate(pol, req[c].command) = "ask"
    /\ LetThrough(c) /\ req[c].id = NoId => Evaluate(pol, req[c].command) = "allow"
    /\ LetThrough(c) /\ req[c].id # NoId =>
         /\ Evaluate(pol, req[c].command) = "ask"
         /\ req[c].id \in Ids
         /\ req[c].id \in DOMAIN offers \ past
         /\ req[c].id \notin DOMAIN grants
         /\ offers[req[c].id].command = req[c].command

\* An approval admits one call, and starts one command.
OnceOK ==
  /\ \A c, d \in Calls :
       LetThrough(c) /\ LetThrough(d) /\ req[c].id # NoId /\ req[c].id = req[d].id => c = d
  /\ \A c \in Calls : pc[c] = "start" /\ req[c].id \in Ids => runs[req[c].id] = 0
  /\ \A i \in Ids :
       /\ runs[i] <= 1
       /\ runs[i] > 0 => i \in DOMAIN offers /\ i \notin DOMAIN grants \ past

GateInv == TypeInv /\ TableOK /\ ReasonsOK /\ OnceOK
-------------------------------------------------------------------------------
(* Types *)

\* Load makes a policy of a file that loads.
LEMMA LoadIsPolicy ==
  ASSUME NEW f \in Files, Loads(f)
  PROVE  Load(f) \in Policies
BY GateAssumption DEF Loads, Load, Default, Policies, Modes

\* The initial values are of their types.
LEMMA TypeInit == Init => TypeInv
BY DEF Init, TypeInv, TypeOK, CallsOK, Default, Policies, Modes, RunCap

\* Every step keeps every variable in its type.
LEMMA TypeStep == TypeInv /\ [Next]_vars => TypeInv'
<1> SUFFICES ASSUME TypeInv, [Next]_vars PROVE TypeInv'
  OBVIOUS
<1> USE GateAssumption
    DEF TypeInv, TypeOK, CallsOK, RunCap, Requests, Goto, Return, callVars, history
<1>1. CASE \E f \in Files : EditPolicy(f)
  BY <1>1 DEF EditPolicy
<1>2. CASE Boot
  BY <1>2, LoadIsPolicy DEF Boot, NewGrants
<1>3. CASE Stop
  BY <1>3 DEF Stop
<1>4. CASE Drained
  BY <1>4 DEF Drained
<1>5. CASE Crash
  BY <1>5 DEF Crash
<1>6. CASE Tick
  BY <1>6 DEF Tick
<1>7. ASSUME NEW c \in Calls, NEW r \in Requests, Request(c, r) PROVE TypeInv'
  BY <1>7 DEF Request, Accepting
<1>8. ASSUME NEW c \in Calls, ConsumeGrant(c) PROVE TypeInv'
  BY <1>8 DEF ConsumeGrant, Without
<1>9. ASSUME NEW c \in Calls, Decide(c) PROVE TypeInv'
  <2>1. CASE Evaluate(pol, req[c].command) = "deny"
    BY <1>9, <2>1 DEF Decide
  <2>2. CASE Evaluate(pol, req[c].command) = "allow"
    BY <1>9, <2>2 DEF Decide
  <2>3. CASE Evaluate(pol, req[c].command) = "ask"
    BY <1>9, <2>3 DEF Decide
  <2> QED
    BY <1>9, <2>1, <2>2, <2>3 DEF Decide
<1>10. ASSUME NEW c \in Calls, NEW i \in Ids, IssueGrant(c, i) PROVE TypeInv'
  BY <1>10 DEF IssueGrant
<1>11. ASSUME NEW c \in Calls, IssueFails(c) PROVE TypeInv'
  BY <1>11 DEF IssueFails
<1>12. ASSUME NEW c \in Calls, SendApproval(c) PROVE TypeInv'
  BY <1>12 DEF SendApproval, IssuedId
<1>13. ASSUME NEW c \in Calls, Start(c) PROVE TypeInv'
  BY <1>13 DEF Start
<1>14. ASSUME NEW c \in Calls, StartFails(c) PROVE TypeInv'
  BY <1>14 DEF StartFails
<1>15. ASSUME NEW c \in Calls, Finish(c) PROVE TypeInv'
  BY <1>15 DEF Finish
<1>16. CASE UNCHANGED vars
  BY <1>16 DEF vars
<1> QED
  BY <1>1, <1>2, <1>3, <1>4, <1>5, <1>6, <1>7, <1>8, <1>9, <1>10, <1>11, <1>12, <1>13, <1>14, <1>15, <1>16 DEF Next, Handle

\* Every variable keeps to its type, whatever the calls, the operator and the
\* crashes do.
THEOREM TypeCorrect == Spec => []TypeOK
<1>1. Init => TypeInv
  BY TypeInit
<1>2. TypeInv /\ [Next]_vars => TypeInv'
  BY TypeStep
<1>3. TypeInv => TypeOK
  BY DEF TypeInv
<1> QED
  BY <1>1, <1>2, <1>3, PTL DEF Spec
-------------------------------------------------------------------------------
(* The gate *)

\* With no process, no call and no approval there is nothing to break.
LEMMA GateInit == Init => GateInv
BY TypeInit, GateAssumption
DEF Init, GateInv, TableOK, ReasonsOK, OnceOK, LetThrough

\* Every step keeps the table.
LEMMA TableStep ==
  ASSUME GateInv, TypeInv', [Next]_vars
  PROVE  TableOK'
<1> USE GateAssumption
    DEF GateInv, TypeInv, TypeOK, TableOK, CallsOK, ReasonsOK, LetThrough, Requests, RunCap,
        Goto, Return, callVars, history
<1>1. CASE \E f \in Files : EditPolicy(f)
  BY <1>1 DEF EditPolicy
<1>2. CASE Boot
  BY <1>2 DEF Boot, NewGrants
<1>3. CASE Stop
  BY <1>3 DEF Stop
<1>4. CASE Drained
  BY <1>4 DEF Drained
<1>5. CASE Crash
  BY <1>5 DEF Crash
<1>6. CASE Tick
  BY <1>6 DEF Tick
<1>7. ASSUME NEW c \in Calls, NEW r \in Requests, Request(c, r) PROVE TableOK'
  BY <1>7 DEF Request, Accepting
<1>8. ASSUME NEW c \in Calls, ConsumeGrant(c) PROVE TableOK'
  BY <1>8 DEF ConsumeGrant, Accepted, Without
<1>9. ASSUME NEW c \in Calls, Decide(c) PROVE TableOK'
  BY <1>9 DEF Decide
<1>10. ASSUME NEW c \in Calls, NEW i \in Ids, IssueGrant(c, i) PROVE TableOK'
  BY <1>10 DEF IssueGrant
<1>11. ASSUME NEW c \in Calls, IssueFails(c) PROVE TableOK'
  BY <1>11 DEF IssueFails
<1>12. ASSUME NEW c \in Calls, SendApproval(c) PROVE TableOK'
  BY <1>12 DEF SendApproval, IssuedId
<1>13. ASSUME NEW c \in Calls, Start(c) PROVE TableOK'
  BY <1>13 DEF Start
<1>14. ASSUME NEW c \in Calls, StartFails(c) PROVE TableOK'
  BY <1>14 DEF StartFails
<1>15. ASSUME NEW c \in Calls, Finish(c) PROVE TableOK'
  BY <1>15 DEF Finish
<1>16. CASE UNCHANGED vars
  BY <1>16 DEF vars
<1> QED
  BY <1>1, <1>2, <1>3, <1>4, <1>5, <1>6, <1>7, <1>8, <1>9, <1>10, <1>11, <1>12, <1>13, <1>14, <1>15, <1>16 DEF Next, Handle

\* Every step keeps the reasons.
LEMMA ReasonsStep ==
  ASSUME GateInv, TypeInv', [Next]_vars
  PROVE  ReasonsOK'
<1> USE GateAssumption
    DEF GateInv, TypeInv, TypeOK, TableOK, CallsOK, ReasonsOK, LetThrough, Requests, RunCap,
        Goto, Return, callVars, history
<1>1. CASE \E f \in Files : EditPolicy(f)
  BY <1>1 DEF EditPolicy
<1>2. CASE Boot
  BY <1>2 DEF Boot, NewGrants
<1>3. CASE Stop
  BY <1>3 DEF Stop
<1>4. CASE Drained
  BY <1>4 DEF Drained
<1>5. CASE Crash
  BY <1>5 DEF Crash
<1>6. CASE Tick
  BY <1>6 DEF Tick
<1>7. ASSUME NEW c \in Calls, NEW r \in Requests, Request(c, r) PROVE ReasonsOK'
  BY <1>7 DEF Request, Accepting
<1>8. ASSUME NEW c \in Calls, ConsumeGrant(c) PROVE ReasonsOK'
  BY <1>8 DEF ConsumeGrant, Accepted, Without
<1>9. ASSUME NEW c \in Calls, Decide(c) PROVE ReasonsOK'
  BY <1>9 DEF Decide
<1>10. ASSUME NEW c \in Calls, NEW i \in Ids, IssueGrant(c, i) PROVE ReasonsOK'
  BY <1>10 DEF IssueGrant
<1>11. ASSUME NEW c \in Calls, IssueFails(c) PROVE ReasonsOK'
  BY <1>11 DEF IssueFails
<1>12. ASSUME NEW c \in Calls, SendApproval(c) PROVE ReasonsOK'
  BY <1>12 DEF SendApproval, IssuedId
<1>13. ASSUME NEW c \in Calls, Start(c) PROVE ReasonsOK'
  BY <1>13 DEF Start
<1>14. ASSUME NEW c \in Calls, StartFails(c) PROVE ReasonsOK'
  BY <1>14 DEF StartFails
<1>15. ASSUME NEW c \in Calls, Finish(c) PROVE ReasonsOK'
  BY <1>15 DEF Finish
<1>16. CASE UNCHANGED vars
  BY <1>16 DEF vars
<1> QED
  BY <1>1, <1>2, <1>3, <1>4, <1>5, <1>6, <1>7, <1>8, <1>9, <1>10, <1>11, <1>12, <1>13, <1>14, <1>15, <1>16 DEF Next, Handle

\* Every step keeps approvals to one call and one command.
LEMMA OnceStep ==
  ASSUME GateInv, TypeInv', [Next]_vars
  PROVE  OnceOK'
<1> USE GateAssumption
    DEF GateInv, TypeInv, TypeOK, TableOK, CallsOK, ReasonsOK, OnceOK, LetThrough, Requests, RunCap,
        Goto, Return, callVars, history
<1>1. CASE \E f \in Files : EditPolicy(f)
  BY <1>1 DEF EditPolicy
<1>2. CASE Boot
  BY <1>2 DEF Boot, NewGrants
<1>3. CASE Stop
  BY <1>3 DEF Stop
<1>4. CASE Drained
  BY <1>4 DEF Drained
<1>5. CASE Crash
  BY <1>5 DEF Crash
<1>6. CASE Tick
  BY <1>6 DEF Tick
<1>7. ASSUME NEW c \in Calls, NEW r \in Requests, Request(c, r) PROVE OnceOK'
  BY <1>7 DEF Request, Accepting
<1>8. ASSUME NEW c \in Calls, ConsumeGrant(c) PROVE OnceOK'
  <2>1. /\ DOMAIN grants' \subseteq DOMAIN grants
        /\ UNCHANGED <<offers, past, runs>>
    BY <1>8 DEF ConsumeGrant, Without
  <2>2. CASE Accepted(req[c])
    <3>1. /\ pc' = [pc EXCEPT ![c] = "start"]
          /\ UNCHANGED req
      BY <1>8, <2>2 DEF ConsumeGrant
    <3>2. /\ req[c].id \in DOMAIN grants
          /\ req[c].id \notin past
      BY <1>8, <2>2 DEF ConsumeGrant, Accepted
    <3>3. runs[req[c].id] = 0
      BY <3>2
    <3>4. \A d \in Calls : LetThrough(d) /\ req[d].id # NoId => req[d].id # req[c].id
      BY <3>2
    <3> QED
      BY <2>1, <3>1, <3>3, <3>4
  <2>3. CASE ~ Accepted(req[c])
    <3>1. /\ pc' = [pc EXCEPT ![c] = "idle"]
          /\ req' = [req EXCEPT ![c] = None]
      BY <1>8, <2>3 DEF ConsumeGrant
    <3> QED
      BY <2>1, <3>1
  <2> QED
    BY <2>2, <2>3
<1>9. ASSUME NEW c \in Calls, Decide(c) PROVE OnceOK'
  BY <1>9 DEF Decide
<1>10. ASSUME NEW c \in Calls, NEW i \in Ids, IssueGrant(c, i) PROVE OnceOK'
  BY <1>10 DEF IssueGrant
<1>11. ASSUME NEW c \in Calls, IssueFails(c) PROVE OnceOK'
  BY <1>11 DEF IssueFails
<1>12. ASSUME NEW c \in Calls, SendApproval(c) PROVE OnceOK'
  BY <1>12 DEF SendApproval, IssuedId
<1>13. ASSUME NEW c \in Calls, Start(c) PROVE OnceOK'
  BY <1>13 DEF Start
<1>14. ASSUME NEW c \in Calls, StartFails(c) PROVE OnceOK'
  BY <1>14 DEF StartFails
<1>15. ASSUME NEW c \in Calls, Finish(c) PROVE OnceOK'
  BY <1>15 DEF Finish
<1>16. CASE UNCHANGED vars
  BY <1>16 DEF vars
<1> QED
  BY <1>1, <1>2, <1>3, <1>4, <1>5, <1>6, <1>7, <1>8, <1>9, <1>10, <1>11, <1>12, <1>13, <1>14, <1>15, <1>16 DEF Next, Handle

\* The inductive invariant of the gate: an approval in the table, or in the hands
\* of a call, is this process's own, for a command its policy asks about.
THEOREM GateInvariant == Spec => []GateInv
<1>1. Init => GateInv
  BY GateInit
<1>2. GateInv /\ [Next]_vars => GateInv'
  BY TypeStep, TableStep, ReasonsStep, OnceStep DEF GateInv
<1> QED
  BY <1>1, <1>2, PTL DEF Spec

\* No restart, edit of policy.yaml, second approval or concurrent call lets a
\* command through Deploy that the policy in force denies.
THEOREM DenialAlwaysHolds == Spec => []DenialHolds
<1>1. GateInv => DenialHolds
  BY DEF GateInv, ReasonsOK, DenialHolds
<1> QED
  BY <1>1, GateInvariant, PTL

\* A command the policy asks about always has an approval of its own.
THEOREM AlwaysAskedAndApproved == Spec => []AskedAndApproved
<1>1. GateInv => AskedAndApproved
  BY DEF GateInv, ReasonsOK, AskedAndApproved
<1> QED
  BY <1>1, GateInvariant, PTL

\* An approval starts one command at most.
THEOREM AlwaysOneRunPerApproval == Spec => []OneRunPerApproval
<1>1. GateInv => OneRunPerApproval
  BY DEF GateInv, OnceOK, OneRunPerApproval
<1> QED
  BY <1>1, GateInvariant, PTL

\* An approval is accepted in time and by the process that issued it.
THEOREM AlwaysInTime == Spec => InTime
<1> DEFINE Timely == \A c \in Calls :
      pc[c] = "deploy" /\ req[c].id # NoId /\ pc'[c] = "start" =>
        /\ req[c].id \notin past
        /\ now <= offers[req[c].id].at + TTL
<1>1. GateInv /\ [Next]_vars => [Timely]_vars
  <2> SUFFICES ASSUME GateInv, Next, NEW c \in Calls,
                      pc[c] = "deploy", req[c].id # NoId, pc'[c] = "start"
               PROVE  req[c].id \notin past /\ now <= offers[req[c].id].at + TTL
    BY DEF vars, callVars
  <2> USE DEF GateInv, TypeInv, TypeOK, Goto, Return, callVars
  <2>1. daemon # "down"
    BY DEF CallsOK
  <2>2. ConsumeGrant(c)
    <3>1. ASSUME NEW d \in Calls, Handle(d) \/ Finish(d) PROVE ConsumeGrant(c)
      BY <3>1
      DEF Handle, ConsumeGrant, Decide, IssueGrant, IssueFails, SendApproval, Start,
          StartFails, Finish
    <3>2. ASSUME NEW d \in Calls, NEW r \in Requests, Request(d, r) PROVE FALSE
      BY <3>2 DEF Request, Accepting
    <3> QED
      BY <3>1, <3>2 DEF Next, EditPolicy, Boot, Stop, Drained, Crash, Tick
  <2>3. Accepted(req[c])
    BY <2>2 DEF ConsumeGrant
  <2>4. req[c].id \in DOMAIN grants \ past
    BY <2>1, <2>3 DEF Accepted, TableOK
  <2>5. now <= grants[req[c].id].expiry
    BY <2>3, <2>4 DEF Accepted
  <2> QED
    BY <2>4, <2>5 DEF TableOK
<1> QED
  BY <1>1, GateInvariant, PTL DEF Spec, InTime
-------------------------------------------------------------------------------
(* The gate implements ApprovalGate *)

\* No approval was issued yet.
LEMMA RefineInit == Init => AG!Init
<1> SUFFICES ASSUME Init PROVE AG!Init
  OBVIOUS
<1>1. \A i \in Ids : Status(i) = "unissued" /\ Subject(i) = None
  BY DEF Init, Status, Subject, Taken
<1> QED
  BY <1>1 DEF Init, AG!Init

\* A step that leaves each approval where it is stutters.
LEMMA Stutter ==
  ASSUME runs' = runs, \A i \in Ids : Status(i)' = Status(i) /\ Subject(i)' = Subject(i)
  PROVE  UNCHANGED AG!vars
BY DEF AG!vars

\* A step that takes approvals from "offered" or "taken" to "over" is a lapse.
LEMMA Lapses ==
  ASSUME runs' = runs,
         \A i \in Ids : Subject(i)' = Subject(i),
         NEW S \in SUBSET Ids,
         \A i \in S : Status(i) \in {"offered", "taken"} /\ Status(i)' = "over",
         \A i \in Ids \ S : Status(i)' = Status(i)
  PROVE  AG!Next
<1>1. AG!Lapse(S)
  BY DEF AG!Lapse
<1> QED
  BY <1>1 DEF AG!Next

\* An approval a call has taken was issued, is out of the table and unused.
LEMMA TakenIsOut ==
  ASSUME GateInv, NEW i \in Ids, NEW c \in Calls, pc[c] = "start", req[c].id = i
  PROVE  /\ LetThrough(c)
         /\ i \in DOMAIN offers \ past /\ i \notin DOMAIN grants
         /\ runs[i] = 0
         /\ \A d \in Calls : pc[d] = "start" /\ req[d].id = i => d = c
<1>1. req[c] \in Requests /\ i # NoId
  BY GateAssumption DEF GateInv, TypeInv, CallsOK
<1>2. \A d \in Calls : pc[d] = "start" /\ req[d].id = i => LetThrough(d)
  BY <1>1 DEF GateInv, TypeInv, CallsOK, LetThrough, Requests
<1>3. LetThrough(c)
  BY <1>2
<1>4. i \in DOMAIN offers \ past /\ i \notin DOMAIN grants
  BY <1>1, <1>3 DEF GateInv, ReasonsOK
<1>5. runs[i] = 0
  BY DEF GateInv, OnceOK
<1>6. \A d \in Calls : pc[d] = "start" /\ req[d].id = i => d = c
  BY <1>1, <1>2, <1>3 DEF GateInv, OnceOK
<1> QED
  BY <1>3, <1>4, <1>5, <1>6

\* A step after which the process and its calls are gone.
LEMMA RefineEnd ==
  ASSUME GateInv, runs' = runs, offers' = offers,
         past' = DOMAIN offers, \A c \in Calls : pc'[c] = "idle"
  PROVE  AG!Next
<1> DEFINE S == {i \in Ids : Status(i) \in {"offered", "taken"}}
<1>1. \A i \in Ids : Subject(i)' = Subject(i)
  BY DEF Subject
<1>2. \A i \in Ids : Status(i)' = IF i \in DOMAIN offers THEN "over" ELSE "unissued"
  BY DEF Status, Taken
<1>3. \A i \in S : i \in DOMAIN offers
  BY TakenIsOut DEF Status, Taken
<1>4. \A i \in Ids \ S : Status(i) = IF i \in DOMAIN offers THEN "over" ELSE "unissued"
  BY DEF Status
<1> QED
  BY <1>1, <1>2, <1>3, <1>4, Lapses

\* The steps of the operator and of the process.
LEMMA RefineProcess ==
  ASSUME GateInv,
         (\E f \in Files : EditPolicy(f)) \/ Boot \/ Stop \/ Drained \/ Crash \/ Tick
  PROVE  AG!Next \/ UNCHANGED AG!vars
<1>1. CASE (\E f \in Files : EditPolicy(f)) \/ Stop \/ Tick
  BY <1>1, Stutter DEF EditPolicy, Stop, Tick, callVars, history, Status, Subject, Taken
<1>2. CASE Boot
  <2>1. \A i \in Ids : Status(i)' = Status(i) /\ Subject(i)' = Subject(i)
    BY <1>2 DEF Boot, NewGrants, GateInv, TableOK, callVars, history, Status, Subject, Taken
  <2> QED
    BY <1>2, <2>1, Stutter DEF Boot, history
<1>3. CASE Drained
  BY <1>3, RefineEnd DEF Drained, callVars
<1>4. CASE Crash
  BY <1>4, RefineEnd DEF Crash
<1> QED
  BY <1>1, <1>2, <1>3, <1>4

\* Grants.Consume takes an approval, or makes it lapse.
LEMMA RefineConsume ==
  ASSUME GateInv, NEW c \in Calls, ConsumeGrant(c)
  PROVE  AG!Next \/ UNCHANGED AG!vars
<1> USE DEF ConsumeGrant, Goto, Return, callVars, history
<1>1. /\ pc \in [Calls -> {"idle", "deploy", "ask", "offer", "start", "running"}]
      /\ req \in [Calls -> Requests \union {None}]
      /\ daemon # "down" /\ DOMAIN grants \intersect past = {}
      /\ DOMAIN grants \subseteq Ids /\ DOMAIN grants \subseteq DOMAIN offers
      /\ DOMAIN grants' = DOMAIN grants \ {req[c].id}
  BY DEF GateInv, TypeInv, TypeOK, CallsOK, TableOK, Without
<1>2. \A i \in Ids : Subject(i)' = Subject(i)
  BY DEF Subject
<1>3. \A i \in Ids : i # req[c].id => Taken(i)' = Taken(i) /\ Status(i)' = Status(i)
  BY <1>1 DEF Taken, Status
<1>4. CASE Accepted(req[c])
  <2>1. PICK i \in Ids : i = req[c].id
    BY <1>1, <1>4 DEF Accepted
  <2>2. Status(i) = "offered"
    BY <1>1, <1>4, <2>1, TakenIsOut DEF Accepted, Status, Taken
  <2>3. Status(i)' = "taken"
    BY <1>1, <1>4, <2>1 DEF Status, Taken
  <2>4. AG!Take(i)
    BY <1>2, <1>3, <2>1, <2>2, <2>3 DEF AG!Take
  <2> QED
    BY <2>4 DEF AG!Next
<1>5. CASE ~ Accepted(req[c]) /\ req[c].id \in DOMAIN grants
  <2>1. PICK i \in Ids : i = req[c].id
    BY <1>1, <1>5
  <2>2. ~ Taken(i) /\ Status(i) = "offered"
    BY <1>1, <1>5, <2>1, TakenIsOut DEF Status, Taken
  <2>3. Status(i)' = "over"
    BY <1>1, <1>5, <2>1, <2>2 DEF Status, Taken
  <2> QED
    BY <1>2, <1>3, <2>1, <2>2, <2>3, Lapses, {i} \in SUBSET Ids
<1>6. CASE req[c].id \notin DOMAIN grants
  <2>1. DOMAIN grants' = DOMAIN grants /\ \A i \in Ids : Taken(i)' = Taken(i)
    BY <1>1, <1>6 DEF Taken, Accepted
  <2> QED
    BY <1>2, <2>1, Stutter DEF Status
<1> QED
  BY <1>4, <1>5, <1>6

\* Grants.Issue offers an approval for the command of the call.
LEMMA RefineIssue ==
  ASSUME GateInv, NEW c \in Calls, NEW i \in Ids, IssueGrant(c, i)
  PROVE  AG!Next
<1> USE DEF IssueGrant, Goto
<1>1. /\ i \notin DOMAIN offers /\ past \subseteq DOMAIN offers
      /\ DOMAIN offers' = DOMAIN offers \union {i}
      /\ DOMAIN grants' = DOMAIN grants \union {i}
      /\ req[c].command \in Commands /\ offers'[i].command = req[c].command
  BY DEF GateInv, TypeInv, CallsOK, TableOK, Requests
<1>2. \A j \in Ids : Taken(j)' = Taken(j)
  BY DEF Taken, GateInv, TypeInv, TypeOK
<1>3. Status(i) = "unissued" /\ ~ Taken(i)
  BY <1>1, TakenIsOut DEF Status, Taken
<1>4. Status(i)' = "offered" /\ Subject(i)' = req[c].command
  BY <1>1, <1>2, <1>3 DEF Status, Subject
<1>5. \A j \in Ids : j # i => Status(j)' = Status(j) /\ Subject(j)' = Subject(j)
  BY <1>1, <1>2 DEF Status, Subject
<1>6. PICK command \in Commands : command = req[c].command
  BY <1>1
<1>7. AG!Offer(i, command)
  BY <1>3, <1>4, <1>5, <1>6 DEF AG!Offer
<1> QED
  BY <1>7 DEF AG!Next

\* The start of a command uses the approval of the call, its failure makes the
\* approval lapse, and neither matters for a call without one.
LEMMA RefineStart ==
  ASSUME GateInv, NEW c \in Calls, Start(c) \/ StartFails(c)
  PROVE  AG!Next \/ UNCHANGED AG!vars
<1> USE DEF Start, StartFails, Goto, Return, history
<1>1. \A j \in Ids : Subject(j)' = Subject(j)
  BY DEF Subject
<1>2. \A j \in Ids : j # req[c].id => Taken(j)' = Taken(j) /\ Status(j)' = Status(j)
  BY DEF Taken, Status, GateInv, TypeInv, TypeOK
<1>3. CASE req[c].id \in Ids
  <2>1. PICK i \in Ids : i = req[c].id
    BY <1>3
  <2>2. /\ i \in DOMAIN offers /\ i \notin DOMAIN grants /\ runs[i] = 0
        /\ \A d \in Calls : pc[d] = "start" /\ req[d].id = i => d = c
    BY <2>1, TakenIsOut
  <2>3. Status(i) = "taken"
    BY <2>1 DEF Status, Taken
  <2>4. ~ Taken(i)'
    BY <2>1, <2>2 DEF Taken, GateInv, TypeInv, TypeOK
  <2>5. Status(i)' = "over"
    BY <2>2, <2>4 DEF Status
  <2>6. CASE Start(c)
    <3>1. req[c].id \in Ids /\ runs[req[c].id] < RunCap
      BY <2>1, <2>2 DEF RunCap
    <3>2. runs' = [runs EXCEPT ![req[c].id] = @ + 1]
      BY <2>6, <3>1
    <3>3. runs' = [runs EXCEPT ![i] = @ + 1]
      BY <2>1, <3>2
    <3>4. AG!Use(i)
      BY <1>1, <1>2, <2>1, <2>3, <2>5, <3>3 DEF AG!Use
    <3> QED
      BY <3>4 DEF AG!Next
  <2>7. CASE StartFails(c)
    BY <1>1, <1>2, <2>1, <2>3, <2>5, <2>7, Lapses, {i} \in SUBSET Ids
  <2> QED
    BY <2>6, <2>7
<1>4. CASE req[c].id \notin Ids
  BY <1>1, <1>2, <1>4, Stutter
<1> QED
  BY <1>3, <1>4

\* Every step of the gate is a step in the life of approvals, or none.
LEMMA RefineStep ==
  ASSUME GateInv, [Next]_vars
  PROVE  AG!Next \/ UNCHANGED AG!vars
<1> USE DEF Goto, Return, callVars, history
<1>1. CASE (\E f \in Files : EditPolicy(f)) \/ Boot \/ Stop \/ Drained \/ Crash \/ Tick
  BY <1>1, RefineProcess
<1>2. ASSUME NEW c \in Calls, NEW r \in Requests, Request(c, r)
      PROVE  UNCHANGED AG!vars
  <2>1. \A i \in Ids : Taken(i)' = Taken(i)
    BY <1>2, GateAssumption DEF Request, Taken, GateInv, TypeInv, TypeOK
  <2> QED
    BY <1>2, <2>1, Stutter DEF Request, Status, Subject
<1>3. ASSUME NEW c \in Calls, ConsumeGrant(c) PROVE AG!Next \/ UNCHANGED AG!vars
  BY <1>3, RefineConsume
<1>4. ASSUME NEW c \in Calls, NEW i \in Ids, IssueGrant(c, i) PROVE AG!Next
  BY <1>4, RefineIssue
<1>5. ASSUME NEW c \in Calls, Start(c) \/ StartFails(c) PROVE AG!Next \/ UNCHANGED AG!vars
  BY <1>5, RefineStart
<1>6. ASSUME NEW c \in Calls, Decide(c) \/ IssueFails(c) \/ SendApproval(c) \/ Finish(c)
      PROVE  UNCHANGED AG!vars
  <2>1. \A i \in Ids : Taken(i)' = Taken(i)
    BY <1>6, GateAssumption
    DEF Decide, IssueFails, SendApproval, Finish, Taken, GateInv, TypeInv, TypeOK
  <2> QED
    BY <1>6, <2>1, Stutter DEF Decide, IssueFails, SendApproval, Finish, Status, Subject
<1>7. CASE UNCHANGED vars
  BY <1>7, Stutter DEF vars, Status, Subject, Taken
<1> QED
  BY <1>1, <1>2, <1>3, <1>4, <1>5, <1>6, <1>7 DEF Next, Handle

\* The policy, the table, the calls and the restarts implement the life of an
\* approval: offered for one command, taken once, used once, or lapsed.
THEOREM ImplementsApprovalGateHolds == Spec => ImplementsApprovalGate
<1>1. Init => AG!Init
  BY RefineInit
<1>2. GateInv /\ [Next]_vars => [AG!Next]_AG!vars
  BY RefineStep
<1> QED
  BY <1>1, <1>2, GateInvariant, PTL DEF Spec, ImplementsApprovalGate, AG!Spec
===============================================================================
