--------------------------- MODULE EnrollmentProofs ---------------------------
(***************************************************************************)
(* What enrolment guarantees for every number of processes, tokens, roles, *)
(* credential files and CAs, whatever is lost, retried or dies: its types, *)
(* that a call costs a token of a high enough role, which was granted once *)
(* unless handlers met in the token store, that a daemon serves its own    *)
(* CA only, that the two loads of `agent identity` agree when it finds its *)
(* pin to match, and that a credential only goes for one just earned.      *)
(***************************************************************************)
EXTENDS Enrollment, TLAPS

\* A credential as Enroll returned it, for a token that was granted.
Earned(x) ==
  /\ x \in Credentials
  /\ tokRole[x.token] \in IssueRoles /\ wins[x.token] > 0
  /\ x.orgs = {tokRole[x.token]}
  /\ x.ca = x.signer /\ x.fingerprint = x.signer

\* A token in the store, in a handler's hand or granted was issued for a role.
TokensOK ==
  \A k \in Tokens :
    k \in store \/ wins[k] > 0 \/ (\E c \in Clis : k \in view[c]) => tokRole[k] \in IssueRoles

\* A handler serves a token, and has been granted its role from "sign" on.
HandlersOK ==
  \A c \in Clis :
    /\ hpc[c] # "none" => agent # 0 /\ tok[c] \in Tokens
    /\ hpc[c] \in {"sign", "reply"} => wins[tok[c]] > 0
    /\ hpc[c] = "reply" => reply[c] # None
    /\ reply[c] # None => Earned(reply[c])

\* While no two handlers have met in mutate, the one inside has the lock and has
\* read the store as it is, and a token that was granted is in it no more.
OneByOne ==
  ~ overlapped =>
    /\ \A c, d \in Inside : c = d
    /\ \A c \in Inside : locked
    /\ \A c \in Clis : hpc[c] = "rewrite" => view[c] \subseteq store
    /\ \A c \in Clis : hpc[c] = "grant" /\ tok[c] \in view[c] =>
         wins[tok[c]] = 0 /\ tok[c] \notin store
    /\ \A k \in Tokens : wins[k] <= 1 /\ (k \in store => wins[k] = 0)

\* The steps at which a process has a credential in memory.
Holding == {"save", "write", "dial", "open", "handling", "done", "failed"}

\* Every credential there is, in memory or in a file, has been earned.
CredentialsOK ==
  /\ \A c \in Clis :
       /\ cpc[c] \in Holding => mem[c] # None
       /\ cpc[c] \in {"wait", "save", "write"} => path[c] \in Paths
       /\ mem[c] # None => Earned(mem[c])
  /\ \A p \in Paths : Usable(cred[p]) => Earned(cred[p])

\* An open connection is one the agent that is up has verified, a call on it
\* has passed the interceptor, and a pin is compared last.
ConnectionsOK ==
  \A c \in Clis :
    /\ cpc[c] \in {"open", "handling"} => agent # 0 /\ mem[c].signer = agent
    /\ cpc[c] = "handling" =>
         method[c] # "Enroll" /\ Intercept(method[c], mem[c].orgs) = "handler"
    /\ compared[c] => cpc[c] \in {"done", "failed"}
    /\ cpc[c] = "done" /\ compared[c] => pin[c] = mem[c].fingerprint

EnrollInv == TypeOK /\ TokensOK /\ HandlersOK /\ OneByOne /\ CredentialsOK /\ ConnectionsOK
-------------------------------------------------------------------------------
(* Types *)

\* Enroll is a method of the agent, the one without a role.
LEMMA EnrollIsMethod == "Enroll" \in DOMAIN AgentTable
BY DEF AgentTable

\* No token, credential or connection is there yet.
LEMMA EnrollInit == Init => EnrollInv
<1> SUFFICES ASSUME Init PROVE EnrollInv
  OBVIOUS
<1> USE EnrollAssumption DEF Init
<1>1. TypeOK
  <2>1. /\ tokRole \in [Tokens -> IssueRoles \union {None}] /\ wins \in [Tokens -> 0 .. 2]
        /\ store \subseteq Tokens /\ expired \subseteq Tokens
        /\ dataCA \in CAs /\ agent \in CAs \union {0}
    BY DEF CAs
  <2>2. /\ view \in [Clis -> SUBSET Tokens]
        /\ reply \in [Clis -> Credentials \union {None}] /\ mem \in [Clis -> Credentials \union {None}]
        /\ path \in [Clis -> Paths \union {None}] /\ tok \in [Clis -> Tokens \union {None}]
        /\ pin \in [Clis -> CAs \union {NoPin, None}]
        /\ cred \in [Paths -> Credentials \union {None, Torn, Empty}]
    OBVIOUS
  <2>3. method \in [Clis -> DOMAIN AgentTable]
    BY EnrollIsMethod
  <2>4. locked \in BOOLEAN /\ overlapped \in BOOLEAN /\ compared \in [Clis -> BOOLEAN]
    BY Zenon
  <2> QED
    BY <2>1, <2>2, <2>3, <2>4 DEF TypeOK
<1>2. TokensOK /\ HandlersOK
  BY DEF TokensOK, HandlersOK
<1>3. OneByOne
  BY DEF OneByOne, Inside
<1>4. CredentialsOK /\ ConnectionsOK
  BY DEF CredentialsOK, ConnectionsOK, Holding, Usable
<1> QED
  BY <1>1, <1>2, <1>3, <1>4 DEF EnrollInv

\* Every step keeps every variable in its type.
LEMMA TypeStep == EnrollInv /\ [Next]_vars => TypeOK'
<1> SUFFICES ASSUME EnrollInv, [Next]_vars PROVE TypeOK'
  OBVIOUS
<1> USE EnrollAssumption
    DEF EnrollInv, TypeOK, TokensOK, HandlersOK, CredentialsOK, ConnectionsOK, Earned, Usable, Holding,
        Credentials, CAs, NoPin, Client, Handler, Exit, tokenVars, storeVars, lockVars, agentVars, handlerVars, clientVars
<1>1. ASSUME NEW k \in Tokens, NEW r \in IssueRoles, Issue(k, r) PROVE TypeOK'
  BY <1>1 DEF Issue
<1>2. ASSUME MintCA PROVE TypeOK'
  BY <1>2 DEF MintCA
<1>3. ASSUME Up PROVE TypeOK'
  BY <1>3 DEF Up
<1>4. ASSUME Down PROVE TypeOK'
  BY <1>4 DEF Down
<1>5. ASSUME NEW k \in Tokens, Expire(k) PROVE TypeOK'
  BY <1>5 DEF Expire
<1>6. ASSUME NEW c \in Clis, ReadStore(c) PROVE TypeOK'
  BY <1>6 DEF ReadStore, Inside
<1>7. ASSUME NEW c \in Clis, RewriteStore(c) PROVE TypeOK'
  BY <1>7 DEF RewriteStore, Deleted
<1>8. ASSUME NEW c \in Clis, Grant(c) PROVE TypeOK'
  <2>1. tok[c] \in Tokens
    BY <1>8 DEF Grant
  <2>2. wins' = [wins EXCEPT ![tok[c]] = 1] \/ wins' = [wins EXCEPT ![tok[c]] = 2]
    BY <1>8 DEF Grant
  <2>3. wins' \in [Tokens -> 0 .. 2]
    BY <2>1, <2>2
  <2> QED
    BY <1>8, <2>3 DEF Grant, Unlock
<1>9. ASSUME NEW c \in Clis, Sign(c) PROVE TypeOK'
  BY <1>9 DEF Sign, Organization
<1>10. ASSUME NEW c \in Clis, HandlerEnds(c) PROVE TypeOK'
  <2>1. locked' \in BOOLEAN /\ overlapped' \in BOOLEAN /\ view' \in [Clis -> SUBSET Tokens]
    <3>1. CASE Unlock(c)
      BY <3>1 DEF Unlock
    <3>2. CASE UNCHANGED lockVars
      BY <3>2
    <3> QED
      BY <1>10, <3>1, <3>2 DEF HandlerEnds
  <2> QED
    BY <1>10, <2>1 DEF HandlerEnds
<1>11. ASSUME NEW c \in Clis, NEW k \in Tokens, NEW p \in Paths, EnrollCall(c, k, p) PROVE TypeOK'
  BY <1>11 DEF EnrollCall
<1>12. ASSUME NEW c \in Clis, Receive(c) PROVE TypeOK'
  BY <1>12 DEF Receive
<1>13. ASSUME NEW c \in Clis, GiveUp(c) PROVE TypeOK'
  BY <1>13, EnrollIsMethod DEF GiveUp
<1>14. ASSUME NEW c \in Clis, OpenCredential(c) PROVE TypeOK'
  BY <1>14 DEF OpenCredential
<1>15. ASSUME NEW c \in Clis, WriteCredential(c) PROVE TypeOK'
  BY <1>15, EnrollIsMethod DEF WriteCredential
<1>16. ASSUME NEW c \in Clis, NEW p \in Paths, LoadPin(c, p) PROVE TypeOK'
  BY <1>16 DEF LoadPin, NoPin
<1>17. ASSUME NEW c \in Clis, NEW p \in Paths, LoadCredential(c, p) PROVE TypeOK'
  BY <1>17 DEF LoadCredential
<1>18. ASSUME NEW c \in Clis, Handshake(c) PROVE TypeOK'
  BY <1>18 DEF Handshake, Verified
<1>19. ASSUME NEW c \in Clis, CallReturns(c) PROVE TypeOK'
  <2>1. compared' \in [Clis -> BOOLEAN]
    <3> DEFINE b == pin[c] # NoPin
    <3>1. compared \in [Clis -> BOOLEAN] /\ b \in BOOLEAN
      BY Zenon
    <3>2. compared' = compared \/ compared' = [compared EXCEPT ![c] = b]
      BY <1>19 DEF CallReturns
    <3>3. b = TRUE \/ b = FALSE
      BY <3>1
    <3> HIDE DEF b
    <3> QED
      BY <3>1, <3>2, <3>3
  <2>2. cpc' = [cpc EXCEPT ![c] = "done"] \/ cpc' = [cpc EXCEPT ![c] = "failed"]
    BY <1>19 DEF CallReturns
  <2>3. UNCHANGED <<tokenVars, agentVars, handlerVars, path, tok, mem, pin, method, cred>>
    BY <1>19 DEF CallReturns
  <2> QED
    BY <2>1, <2>2, <2>3
<1>20. ASSUME NEW c \in Clis, CallAgain(c) PROVE TypeOK'
  BY <1>20 DEF CallAgain
<1>21. ASSUME NEW c \in Clis, Leave(c) PROVE TypeOK'
  BY <1>21, EnrollIsMethod DEF Leave
<1>22. ASSUME NEW c \in Clis, NEW m \in DOMAIN AgentTable \ {"Enroll"}, Call(c, m) PROVE TypeOK'
  BY <1>22 DEF Call
<1>23. ASSUME UNCHANGED vars PROVE TypeOK'
  BY <1>23 DEF vars
<1> QED
  BY <1>1, <1>2, <1>3, <1>4, <1>5, <1>6, <1>7, <1>8, <1>9, <1>10, <1>11, <1>12, <1>13, <1>14, <1>15, <1>16, <1>17, <1>18, <1>19, <1>20, <1>21, <1>22, <1>23 DEF Next, EnrollHandler, Cli

\* Every step keeps what handlers have of their tokens.
LEMMA HandlersStep == EnrollInv /\ [Next]_vars => (TokensOK /\ HandlersOK)'
<1> SUFFICES ASSUME EnrollInv, [Next]_vars PROVE (TokensOK /\ HandlersOK)'
  OBVIOUS
<1> USE EnrollAssumption
    DEF EnrollInv, TypeOK, TokensOK, HandlersOK, CredentialsOK, ConnectionsOK, Earned, Usable, Holding,
        Credentials, CAs, NoPin, Client, Handler, Exit, tokenVars, storeVars, lockVars, agentVars, handlerVars, clientVars
<1>1. ASSUME NEW k \in Tokens, NEW r \in IssueRoles, Issue(k, r) PROVE (TokensOK /\ HandlersOK)'
  BY <1>1 DEF Issue
<1>2. ASSUME MintCA PROVE (TokensOK /\ HandlersOK)'
  BY <1>2 DEF MintCA
<1>3. ASSUME Up PROVE (TokensOK /\ HandlersOK)'
  BY <1>3 DEF Up
<1>4. ASSUME Down PROVE (TokensOK /\ HandlersOK)'
  BY <1>4 DEF Down
<1>5. ASSUME NEW k \in Tokens, Expire(k) PROVE (TokensOK /\ HandlersOK)'
  BY <1>5 DEF Expire
<1>6. ASSUME NEW c \in Clis, ReadStore(c) PROVE (TokensOK /\ HandlersOK)'
  BY <1>6 DEF ReadStore, Inside
<1>7. ASSUME NEW c \in Clis, RewriteStore(c) PROVE (TokensOK /\ HandlersOK)'
  BY <1>7 DEF RewriteStore, Deleted
<1>8. ASSUME NEW c \in Clis, Grant(c) PROVE (TokensOK /\ HandlersOK)'
  BY <1>8 DEF Grant, Unlock
<1>9. ASSUME NEW c \in Clis, Sign(c) PROVE (TokensOK /\ HandlersOK)'
  BY <1>9 DEF Sign, Organization
<1>10. ASSUME NEW c \in Clis, HandlerEnds(c) PROVE (TokensOK /\ HandlersOK)'
  BY <1>10 DEF HandlerEnds, Inside, Unlock
<1>11. ASSUME NEW c \in Clis, NEW k \in Tokens, NEW p \in Paths, EnrollCall(c, k, p) PROVE (TokensOK /\ HandlersOK)'
  BY <1>11 DEF EnrollCall
<1>12. ASSUME NEW c \in Clis, Receive(c) PROVE (TokensOK /\ HandlersOK)'
  BY <1>12 DEF Receive
<1>13. ASSUME NEW c \in Clis, GiveUp(c) PROVE (TokensOK /\ HandlersOK)'
  BY <1>13 DEF GiveUp
<1>14. ASSUME NEW c \in Clis, OpenCredential(c) PROVE (TokensOK /\ HandlersOK)'
  BY <1>14 DEF OpenCredential
<1>15. ASSUME NEW c \in Clis, WriteCredential(c) PROVE (TokensOK /\ HandlersOK)'
  BY <1>15 DEF WriteCredential
<1>16. ASSUME NEW c \in Clis, NEW p \in Paths, LoadPin(c, p) PROVE (TokensOK /\ HandlersOK)'
  BY <1>16 DEF LoadPin, NoPin
<1>17. ASSUME NEW c \in Clis, NEW p \in Paths, LoadCredential(c, p) PROVE (TokensOK /\ HandlersOK)'
  BY <1>17 DEF LoadCredential
<1>18. ASSUME NEW c \in Clis, Handshake(c) PROVE (TokensOK /\ HandlersOK)'
  BY <1>18 DEF Handshake, Verified
<1>19. ASSUME NEW c \in Clis, CallReturns(c) PROVE (TokensOK /\ HandlersOK)'
  BY <1>19 DEF CallReturns, PinMatches
<1>20. ASSUME NEW c \in Clis, CallAgain(c) PROVE (TokensOK /\ HandlersOK)'
  BY <1>20 DEF CallAgain
<1>21. ASSUME NEW c \in Clis, Leave(c) PROVE (TokensOK /\ HandlersOK)'
  BY <1>21 DEF Leave
<1>22. ASSUME NEW c \in Clis, NEW m \in DOMAIN AgentTable \ {"Enroll"}, Call(c, m) PROVE (TokensOK /\ HandlersOK)'
  BY <1>22 DEF Call
<1>23. ASSUME UNCHANGED vars PROVE (TokensOK /\ HandlersOK)'
  BY <1>23 DEF vars
<1> QED
  BY <1>1, <1>2, <1>3, <1>4, <1>5, <1>6, <1>7, <1>8, <1>9, <1>10, <1>11, <1>12, <1>13, <1>14, <1>15, <1>16, <1>17, <1>18, <1>19, <1>20, <1>21, <1>22, <1>23 DEF Next, EnrollHandler, Cli

\* Every step keeps handlers that have not met apart.
LEMMA OneByOneStep == EnrollInv /\ [Next]_vars => OneByOne'
<1> SUFFICES ASSUME EnrollInv, [Next]_vars PROVE OneByOne'
  OBVIOUS
<1> USE EnrollAssumption
    DEF EnrollInv, TypeOK, TokensOK, HandlersOK, OneByOne, Inside, Client, Handler, Exit,
        tokenVars, storeVars, lockVars, agentVars, handlerVars, clientVars
<1>1. ASSUME NEW k \in Tokens, NEW r \in IssueRoles, Issue(k, r) PROVE OneByOne'
  BY <1>1 DEF Issue
<1>2. ASSUME MintCA PROVE OneByOne'
  BY <1>2 DEF MintCA
<1>3. ASSUME Up PROVE OneByOne'
  BY <1>3 DEF Up
<1>4. ASSUME Down PROVE OneByOne'
  BY <1>4 DEF Down
<1>5. ASSUME NEW k \in Tokens, Expire(k) PROVE OneByOne'
  BY <1>5 DEF Expire
<1>6. ASSUME NEW c \in Clis, ReadStore(c) PROVE OneByOne'
  BY <1>6 DEF ReadStore
<1>7. ASSUME NEW c \in Clis, RewriteStore(c) PROVE OneByOne'
  BY <1>7 DEF RewriteStore, Deleted
<1>8. ASSUME NEW c \in Clis, Grant(c) PROVE OneByOne'
  BY <1>8 DEF Grant, Unlock
<1>9. ASSUME NEW c \in Clis, Sign(c) PROVE OneByOne'
  BY <1>9 DEF Sign, Organization
<1>10. ASSUME NEW c \in Clis, HandlerEnds(c) PROVE OneByOne'
  BY <1>10 DEF HandlerEnds, Unlock
<1>11. ASSUME NEW c \in Clis, NEW k \in Tokens, NEW p \in Paths, EnrollCall(c, k, p) PROVE OneByOne'
  BY <1>11 DEF EnrollCall
<1>12. ASSUME NEW c \in Clis, Receive(c) PROVE OneByOne'
  BY <1>12 DEF Receive
<1>13. ASSUME NEW c \in Clis, GiveUp(c) PROVE OneByOne'
  BY <1>13 DEF GiveUp
<1>14. ASSUME NEW c \in Clis, OpenCredential(c) PROVE OneByOne'
  BY <1>14 DEF OpenCredential
<1>15. ASSUME NEW c \in Clis, WriteCredential(c) PROVE OneByOne'
  BY <1>15 DEF WriteCredential
<1>16. ASSUME NEW c \in Clis, NEW p \in Paths, LoadPin(c, p) PROVE OneByOne'
  BY <1>16 DEF LoadPin, NoPin
<1>17. ASSUME NEW c \in Clis, NEW p \in Paths, LoadCredential(c, p) PROVE OneByOne'
  BY <1>17 DEF LoadCredential
<1>18. ASSUME NEW c \in Clis, Handshake(c) PROVE OneByOne'
  BY <1>18 DEF Handshake, Verified
<1>19. ASSUME NEW c \in Clis, CallReturns(c) PROVE OneByOne'
  BY <1>19 DEF CallReturns, PinMatches
<1>20. ASSUME NEW c \in Clis, CallAgain(c) PROVE OneByOne'
  BY <1>20 DEF CallAgain
<1>21. ASSUME NEW c \in Clis, Leave(c) PROVE OneByOne'
  BY <1>21 DEF Leave
<1>22. ASSUME NEW c \in Clis, NEW m \in DOMAIN AgentTable \ {"Enroll"}, Call(c, m) PROVE OneByOne'
  BY <1>22 DEF Call
<1>23. ASSUME UNCHANGED vars PROVE OneByOne'
  BY <1>23 DEF vars
<1> QED
  BY <1>1, <1>2, <1>3, <1>4, <1>5, <1>6, <1>7, <1>8, <1>9, <1>10, <1>11, <1>12, <1>13, <1>14, <1>15, <1>16, <1>17, <1>18, <1>19, <1>20, <1>21, <1>22, <1>23 DEF Next, EnrollHandler, Cli

\* Every step leaves only credentials that were earned.
LEMMA CredentialsStep == EnrollInv /\ [Next]_vars => CredentialsOK'
<1> SUFFICES ASSUME EnrollInv, [Next]_vars PROVE CredentialsOK'
  OBVIOUS
<1> USE EnrollAssumption
    DEF EnrollInv, TypeOK, TokensOK, HandlersOK, CredentialsOK, ConnectionsOK, Earned, Usable, Holding,
        Credentials, CAs, NoPin, Client, Handler, Exit, tokenVars, storeVars, lockVars, agentVars, handlerVars, clientVars
<1>1. ASSUME NEW k \in Tokens, NEW r \in IssueRoles, Issue(k, r) PROVE CredentialsOK'
  BY <1>1 DEF Issue
<1>2. ASSUME MintCA PROVE CredentialsOK'
  BY <1>2 DEF MintCA
<1>3. ASSUME Up PROVE CredentialsOK'
  BY <1>3 DEF Up
<1>4. ASSUME Down PROVE CredentialsOK'
  BY <1>4 DEF Down
<1>5. ASSUME NEW k \in Tokens, Expire(k) PROVE CredentialsOK'
  BY <1>5 DEF Expire
<1>6. ASSUME NEW c \in Clis, ReadStore(c) PROVE CredentialsOK'
  BY <1>6 DEF ReadStore, Inside
<1>7. ASSUME NEW c \in Clis, RewriteStore(c) PROVE CredentialsOK'
  BY <1>7 DEF RewriteStore, Deleted
<1>8. ASSUME NEW c \in Clis, Grant(c) PROVE CredentialsOK'
  BY <1>8 DEF Grant, Unlock
<1>9. ASSUME NEW c \in Clis, Sign(c) PROVE CredentialsOK'
  BY <1>9 DEF Sign, Organization
<1>10. ASSUME NEW c \in Clis, HandlerEnds(c) PROVE CredentialsOK'
  BY <1>10 DEF HandlerEnds, Inside, Unlock
<1>11. ASSUME NEW c \in Clis, NEW k \in Tokens, NEW p \in Paths, EnrollCall(c, k, p) PROVE CredentialsOK'
  BY <1>11 DEF EnrollCall
<1>12. ASSUME NEW c \in Clis, Receive(c) PROVE CredentialsOK'
  <2>1. mem' = [mem EXCEPT ![c] = reply[c]] /\ cpc' = [cpc EXCEPT ![c] = "save"]
    BY <1>12 DEF Receive
  <2>2. UNCHANGED <<tokenVars, path, cred>>
    BY <1>12 DEF Receive
  <2>3. reply[c] # None /\ Earned(reply[c])
    BY <1>12 DEF Receive
  <2>4. path[c] \in Paths
    BY <1>12 DEF Receive
  <2> QED
    BY <2>1, <2>2, <2>3, <2>4
<1>13. ASSUME NEW c \in Clis, GiveUp(c) PROVE CredentialsOK'
  BY <1>13 DEF GiveUp
<1>14. ASSUME NEW c \in Clis, OpenCredential(c) PROVE CredentialsOK'
  BY <1>14 DEF OpenCredential
<1>15. ASSUME NEW c \in Clis, WriteCredential(c) PROVE CredentialsOK'
  BY <1>15 DEF WriteCredential
<1>16. ASSUME NEW c \in Clis, NEW p \in Paths, LoadPin(c, p) PROVE CredentialsOK'
  BY <1>16 DEF LoadPin, NoPin
<1>17. ASSUME NEW c \in Clis, NEW p \in Paths, LoadCredential(c, p) PROVE CredentialsOK'
  BY <1>17 DEF LoadCredential
<1>18. ASSUME NEW c \in Clis, Handshake(c) PROVE CredentialsOK'
  BY <1>18 DEF Handshake, Verified
<1>19. ASSUME NEW c \in Clis, CallReturns(c) PROVE CredentialsOK'
  BY <1>19 DEF CallReturns, PinMatches
<1>20. ASSUME NEW c \in Clis, CallAgain(c) PROVE CredentialsOK'
  BY <1>20 DEF CallAgain
<1>21. ASSUME NEW c \in Clis, Leave(c) PROVE CredentialsOK'
  BY <1>21 DEF Leave
<1>22. ASSUME NEW c \in Clis, NEW m \in DOMAIN AgentTable \ {"Enroll"}, Call(c, m) PROVE CredentialsOK'
  BY <1>22 DEF Call
<1>23. ASSUME UNCHANGED vars PROVE CredentialsOK'
  BY <1>23 DEF vars
<1> QED
  BY <1>1, <1>2, <1>3, <1>4, <1>5, <1>6, <1>7, <1>8, <1>9, <1>10, <1>11, <1>12, <1>13, <1>14, <1>15, <1>16, <1>17, <1>18, <1>19, <1>20, <1>21, <1>22, <1>23 DEF Next, EnrollHandler, Cli

\* Every step keeps connections to the agent that verified them.
LEMMA ConnectionsStep == EnrollInv /\ [Next]_vars => ConnectionsOK'
<1> SUFFICES ASSUME EnrollInv, [Next]_vars PROVE ConnectionsOK'
  OBVIOUS
<1> USE EnrollAssumption
    DEF EnrollInv, TypeOK, TokensOK, HandlersOK, CredentialsOK, ConnectionsOK, Earned, Usable, Holding,
        Credentials, CAs, NoPin, Client, Handler, Exit, tokenVars, storeVars, lockVars, agentVars, handlerVars, clientVars
<1>1. ASSUME NEW k \in Tokens, NEW r \in IssueRoles, Issue(k, r) PROVE ConnectionsOK'
  BY <1>1 DEF Issue
<1>2. ASSUME MintCA PROVE ConnectionsOK'
  BY <1>2 DEF MintCA
<1>3. ASSUME Up PROVE ConnectionsOK'
  BY <1>3 DEF Up
<1>4. ASSUME Down PROVE ConnectionsOK'
  BY <1>4 DEF Down
<1>5. ASSUME NEW k \in Tokens, Expire(k) PROVE ConnectionsOK'
  BY <1>5 DEF Expire
<1>6. ASSUME NEW c \in Clis, ReadStore(c) PROVE ConnectionsOK'
  BY <1>6 DEF ReadStore, Inside
<1>7. ASSUME NEW c \in Clis, RewriteStore(c) PROVE ConnectionsOK'
  BY <1>7 DEF RewriteStore, Deleted
<1>8. ASSUME NEW c \in Clis, Grant(c) PROVE ConnectionsOK'
  BY <1>8 DEF Grant, Unlock
<1>9. ASSUME NEW c \in Clis, Sign(c) PROVE ConnectionsOK'
  BY <1>9 DEF Sign, Organization
<1>10. ASSUME NEW c \in Clis, HandlerEnds(c) PROVE ConnectionsOK'
  BY <1>10 DEF HandlerEnds, Inside, Unlock
<1>11. ASSUME NEW c \in Clis, NEW k \in Tokens, NEW p \in Paths, EnrollCall(c, k, p) PROVE ConnectionsOK'
  BY <1>11 DEF EnrollCall
<1>12. ASSUME NEW c \in Clis, Receive(c) PROVE ConnectionsOK'
  BY <1>12 DEF Receive
<1>13. ASSUME NEW c \in Clis, GiveUp(c) PROVE ConnectionsOK'
  BY <1>13 DEF GiveUp
<1>14. ASSUME NEW c \in Clis, OpenCredential(c) PROVE ConnectionsOK'
  BY <1>14 DEF OpenCredential
<1>15. ASSUME NEW c \in Clis, WriteCredential(c) PROVE ConnectionsOK'
  BY <1>15 DEF WriteCredential
<1>16. ASSUME NEW c \in Clis, NEW p \in Paths, LoadPin(c, p) PROVE ConnectionsOK'
  BY <1>16 DEF LoadPin, NoPin
<1>17. ASSUME NEW c \in Clis, NEW p \in Paths, LoadCredential(c, p) PROVE ConnectionsOK'
  BY <1>17 DEF LoadCredential
<1>18. ASSUME NEW c \in Clis, Handshake(c) PROVE ConnectionsOK'
  BY <1>18 DEF Handshake, Verified
<1>19. ASSUME NEW c \in Clis, CallReturns(c) PROVE ConnectionsOK'
  BY <1>19 DEF CallReturns, PinMatches
<1>20. ASSUME NEW c \in Clis, CallAgain(c) PROVE ConnectionsOK'
  BY <1>20 DEF CallAgain
<1>21. ASSUME NEW c \in Clis, Leave(c) PROVE ConnectionsOK'
  BY <1>21 DEF Leave
<1>22. ASSUME NEW c \in Clis, NEW m \in DOMAIN AgentTable \ {"Enroll"}, Call(c, m) PROVE ConnectionsOK'
  BY <1>22 DEF Call
<1>23. ASSUME UNCHANGED vars PROVE ConnectionsOK'
  BY <1>23 DEF vars
<1> QED
  BY <1>1, <1>2, <1>3, <1>4, <1>5, <1>6, <1>7, <1>8, <1>9, <1>10, <1>11, <1>12, <1>13, <1>14, <1>15, <1>16, <1>17, <1>18, <1>19, <1>20, <1>21, <1>22, <1>23 DEF Next, EnrollHandler, Cli

\* Every credential has been earned, and every connection is one the agent that
\* is up has verified, whatever was lost or died.
THEOREM EnrollInvariant == Spec => []EnrollInv
<1>1. Init => EnrollInv
  BY EnrollInit
<1>2. EnrollInv /\ [Next]_vars => EnrollInv'
  BY TypeStep, HandlersStep, OneByOneStep, CredentialsStep, ConnectionsStep DEF EnrollInv
<1> QED
  BY <1>1, <1>2, PTL DEF Spec
-------------------------------------------------------------------------------
(* The theorems *)

\* Every variable keeps to its type.
THEOREM TypeCorrect == Spec => []TypeOK
<1>1. EnrollInv => TypeOK
  BY DEF EnrollInv
<1> QED
  BY <1>1, EnrollInvariant, PTL

\* A certificate with one organization gets past the interceptor with the role
\* that organization is, and with no other.
LEMMA OneRole ==
  ASSUME NEW r, NEW m \in DOMAIN AgentTable \ {"Enroll"}, Intercept(m, {r}) = "handler"
  PROVE  Allowed(r, AgentTable[m])
<1>1. AgentTable[m] \in {"rex:reader", "rex:operator", "rex:admin"}
  BY DEF AgentTable
<1>2. Allowed(RoleFromCert({r}), AgentTable[m])
  BY <1>1 DEF Intercept, RolePublic
<1>3. CASE r \in DOMAIN rank
  <2>1. {r} \intersect DOMAIN rank = {r}
    BY <1>3
  <2>2. \A s \in {r} : rank[s] <= rank[r]
    BY <1>3 DEF rank
  <2>3. RoleFromCert({r}) = r
    BY <2>1, <2>2 DEF RoleFromCert
  <2> QED
    BY <1>2, <2>3
<1>4. CASE r \notin DOMAIN rank
  <2>1. RoleFromCert({r}) = RolePublic
    BY <1>4 DEF RoleFromCert
  <2>2. Rank(RolePublic) = 0 /\ AgentTable[m] # RolePublic
    BY <1>1 DEF Rank, rank, RolePublic
  <2> QED
    BY <1>2, <2>1, <2>2 DEF Allowed
<1> QED
  BY <1>3, <1>4

\* A handler only runs for a certificate that cost a token of a high enough role,
\* which was granted to nobody else unless handlers met in the token store.
THEOREM RoleEarnedHolds == Spec => []RoleEarned
<1>1. EnrollInv => RoleEarned
  <2> SUFFICES ASSUME EnrollInv, NEW c \in Clis, cpc[c] = "handling"
               PROVE  /\ tokRole[mem[c].token] # None /\ wins[mem[c].token] > 0
                      /\ Allowed(tokRole[mem[c].token], AgentTable[method[c]])
                      /\ ~ overlapped => wins[mem[c].token] = 1
    BY DEF RoleEarned
  <2>1. Earned(mem[c])
    BY DEF EnrollInv, CredentialsOK, Holding
  <2>2. /\ method[c] \in DOMAIN AgentTable \ {"Enroll"}
        /\ Intercept(method[c], mem[c].orgs) = "handler"
    BY DEF EnrollInv, TypeOK, ConnectionsOK
  <2>3. Intercept(method[c], {tokRole[mem[c].token]}) = "handler"
    BY <2>1, <2>2 DEF Earned
  <2>4. Allowed(tokRole[mem[c].token], AgentTable[method[c]])
    BY <2>2, <2>3, OneRole
  <2>5. mem[c].token \in Tokens /\ tokRole[mem[c].token] # None /\ wins[mem[c].token] > 0
    BY <2>1, EnrollAssumption DEF Earned, Credentials
  <2>6. ~ overlapped => wins[mem[c].token] = 1
    BY <2>5 DEF EnrollInv, TypeOK, OneByOne
  <2> QED
    BY <2>4, <2>5, <2>6
<1> QED
  BY <1>1, EnrollInvariant, PTL

\* A daemon serves only those who enrolled with the CA it runs with.
THEOREM ServedByOwnCAHolds == Spec => []ServedByOwnCA
<1>1. EnrollInv => ServedByOwnCA
  BY DEF EnrollInv, ConnectionsOK, ServedByOwnCA
<1> QED
  BY <1>1, EnrollInvariant, PTL

\* A pin that was compared and found to match is that of the credential the
\* connection was made from, though they were loaded one after the other.
THEOREM TwoLoadsOnePinHolds == Spec => []TwoLoadsOnePin
<1>1. EnrollInv => TwoLoadsOnePin
  BY DEF EnrollInv, ConnectionsOK, TwoLoadsOnePin
<1> QED
  BY <1>1, EnrollInvariant, PTL

\* A whole credential in a file only goes for one that was just earned.
THEOREM OldCredentialKeptHolds == Spec => OldCredentialKept
<1> DEFINE Kept == \A p \in Paths :
      Usable(cred[p]) /\ cred'[p] # cred[p] =>
        \E c \in Clis : path[c] = p /\ mem[c] # None /\ wins[mem[c].token] > 0
<1>1. EnrollInv /\ [Next]_vars => [Kept]_vars
  <2> SUFFICES ASSUME EnrollInv, Next, NEW p \in Paths, Usable(cred[p]), cred'[p] # cred[p]
               PROVE  \E c \in Clis : path[c] = p /\ mem[c] # None /\ wins[mem[c].token] > 0
    BY DEF vars
  <2>1. PICK c \in Clis : OpenCredential(c) \/ WriteCredential(c)
    BY DEF Next, EnrollHandler, Cli, Issue, Expire, MintCA, Up, Down, ReadStore, RewriteStore, Grant, Sign,
           HandlerEnds, EnrollCall, Receive, GiveUp, LoadPin, LoadCredential, Handshake,
           CallReturns, CallAgain, Leave, Call
  <2>2. path[c] = p
    BY <2>1 DEF OpenCredential, WriteCredential, EnrollInv, TypeOK
  <2>3. mem[c] # None /\ Earned(mem[c])
    BY <2>1 DEF OpenCredential, WriteCredential, EnrollInv, CredentialsOK, Holding
  <2> QED
    BY <2>2, <2>3 DEF Earned
<1> QED
  BY <1>1, EnrollInvariant, PTL DEF Spec, OldCredentialKept
===============================================================================
