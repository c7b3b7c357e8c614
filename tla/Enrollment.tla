------------------------------ MODULE Enrollment ------------------------------
(***************************************************************************)
(* From a join token to a call that is let in: `agent enroll` of the       *)
(* controller (internal/transport, internal/clientconfig), the Enroll      *)
(* handler (internal/enroll, with internal/pki), and later calls over mTLS *)
(* past the interceptors of internal/authz.  Requests and replies get      *)
(* lost, the controller waits 15 seconds and no longer, processes of both  *)
(* sides die, certificates expire and the operator may mint a new CA.      *)
(*                                                                         *)
(* The handlers of a daemon share one Flock, which does not keep them      *)
(* apart; so Consume is here in the steps between which handlers overlap.  *)
(* TokenStore has the files and the lock behind those steps.               *)
(*                                                                         *)
(* A CA is a number, the server certificate and its fingerprint are those  *)
(* of its CA (see AgentData), and signatures are ideal: a certificate is   *)
(* the record of what was signed.                                          *)
(***************************************************************************)
EXTENDS Authz

CONSTANTS
  Clis,      \* `rexec` processes
  Paths,     \* their credential files
  Tokens,    \* the join tokens
  IssueRoles,\* the strings given to `token new --role`
  MaxCAs,    \* bound on the CAs minted
  None,      \* no file, no value
  Empty,     \* a credential file that was opened and not written
  Torn       \* one with the end of another credential in it

CAs == 1 .. MaxCAs

\* A credential: the certificate's token, its CA and its organizations, the CA
\* it trusts and the fingerprint it pins.
Credentials ==
  [token : Tokens, signer : CAs, orgs : SUBSET IssueRoles, ca : CAs, fingerprint : CAs]

ASSUME EnrollAssumption ==
  /\ None \notin Tokens /\ None \notin Paths /\ None \notin IssueRoles /\ None # Torn
  /\ Empty \notin {None, Torn}
  /\ {None, Torn, Empty} \intersect Credentials = {}
  /\ MaxCAs \in Nat \ {0}

VARIABLES
  tokRole,        \* tokRole[k]: the role token k was issued with
  store,          \* the tokens in tokens.json
  locked,         \* the daemon has its Flock
  view,           \* view[c]: the tokens the handler of c's call has read
  wins,           \* history: wins[k]: how often k's role was returned, 2 for more
  overlapped,     \* history: two handlers were in mutate together
  dataCA,         \* the CA in the agent's data directory
  agent,          \* the CA the daemon runs with, 0 while it is down
  hpc,            \* hpc[c]: the Enroll handler that serves c's call
  reply,          \* reply[c]: the credential that handler answers with
  expired,        \* tokens whose certificate is past its NotAfter
  cpc,            \* cpc[c]: the step of process c
  path,           \* path[c]: its credential file
  tok,            \* tok[c]: the token it enrolls with
  mem,            \* mem[c]: the credential it has in memory
  pin,            \* pin[c]: the fingerprint `agent identity` has loaded to compare
  method,         \* method[c]: the method it has called
  compared,       \* compared[c]: it has compared the fingerprint with the pin
  cred            \* cred[p]: the credential file p

storeVars == <<tokRole, store, wins>>
lockVars == <<locked, view, overlapped>>
tokenVars == <<storeVars, lockVars>>
agentVars == <<dataCA, agent, expired>>
handlerVars == <<hpc, reply>>
clientVars == <<path, tok, mem, pin, method, compared>>
vars == <<tokenVars, agentVars, handlerVars, cpc, clientVars, cred>>

Init ==
  /\ tokRole = [k \in Tokens |-> None]
  /\ store = {} /\ locked = FALSE /\ overlapped = FALSE
  /\ view = [c \in Clis |-> {}]
  /\ wins = [k \in Tokens |-> 0]
  /\ dataCA = 1 /\ agent = 0 /\ expired = {}
  /\ hpc = [c \in Clis |-> "none"]
  /\ reply = [c \in Clis |-> None]
  /\ cpc = [c \in Clis |-> "idle"]
  /\ path = [c \in Clis |-> None]
  /\ tok = [c \in Clis |-> None]
  /\ mem = [c \in Clis |-> None]
  /\ pin = [c \in Clis |-> None]
  /\ method = [c \in Clis |-> "Enroll"]
  /\ compared = [c \in Clis |-> FALSE]
  /\ cred = [p \in Paths |-> None]

Client(c, step) == cpc' = [cpc EXCEPT ![c] = step]
Handler(c, step) == hpc' = [hpc EXCEPT ![c] = step]

\* The process of c is over, whatever it had in memory.
Exit(c) ==
  /\ Client(c, "idle")
  /\ path' = [path EXCEPT ![c] = None]
  /\ mem' = [mem EXCEPT ![c] = None]
  /\ pin' = [pin EXCEPT ![c] = None]
  /\ method' = [method EXCEPT ![c] = "Enroll"]
  /\ compared' = [compared EXCEPT ![c] = FALSE]

-------------------------------------------------------------------------------
(* The agent's side: its operator, its daemon, and time *)

\* `token new --role r`; the role may be any string.  Its own Flock waits for the
\* daemon's, randToken does not repeat itself, and a read that fails counts as an
\* empty store.
Issue(k, r) ==
  /\ ~ locked
  /\ tokRole[k] = None
  /\ tokRole' = [tokRole EXCEPT ![k] = r]
  /\ store' \in {store \union {k}, {k}}
  /\ UNCHANGED <<wins, lockVars, agentVars, handlerVars, cpc, clientVars, cred>>

\* `ca init --force`; the daemon keeps the CA it has loaded.
MintCA ==
  /\ dataCA < MaxCAs
  /\ dataCA' = dataCA + 1
  /\ UNCHANGED <<tokenVars, agent, expired, handlerVars, cpc, clientVars, cred>>

Up ==
  /\ agent = 0
  /\ agent' = dataCA
  /\ UNCHANGED <<tokenVars, dataCA, expired, handlerVars, cpc, clientVars, cred>>

\* The daemon dies or is stopped: its handlers are gone, with the lock, and its
\* connections, which grpc dials again with the same credential.
Down ==
  /\ agent # 0
  /\ agent' = 0
  /\ locked' = FALSE
  /\ view' = [c \in Clis |-> {}]
  /\ hpc' = [c \in Clis |-> "none"]
  /\ reply' = [c \in Clis |-> None]
  /\ tok' = [c \in Clis |-> None]
  /\ cpc' = [c \in Clis |-> IF cpc[c] \in {"open", "handling"} THEN "dial" ELSE cpc[c]]
  /\ UNCHANGED <<storeVars, overlapped, dataCA, expired, path, mem, pin, method, compared, cred>>

\* A client certificate passes its NotAfter, DefaultLeafValidity after Sign.
Expire(k) ==
  /\ wins[k] > 0
  /\ expired' = expired \union {k}
  /\ UNCHANGED <<tokenVars, dataCA, agent, handlerVars, cpc, clientVars, cred>>

-------------------------------------------------------------------------------
(* Enroll: the handler *)

\* The handlers inside FileStore.mutate.
Inside == {c \in Clis : hpc[c] \in {"rewrite", "grant"}}

\* Lock returns at once when the daemon has the lock already; read gives what is
\* in the store, or nothing when it fails.
ReadStore(c) ==
  /\ hpc[c] = "consume"
  /\ locked' = TRUE
  /\ overlapped' = (overlapped \/ Inside # {})
  /\ \E m \in {store, {}} : view' = [view EXCEPT ![c] = m]
  /\ Handler(c, "rewrite")
  /\ UNCHANGED <<storeVars, agentVars, reply, cpc, clientVars, cred>>

\* What write leaves in the store.  Mutant: the token is not deleted.
Undeleted(c) == view[c]
Deleted(c) == view[c] \ {tok[c]}

\* write replaces the store, also when the token was not in it or has expired.
RewriteStore(c) ==
  /\ hpc[c] = "rewrite"
  /\ store' = Deleted(c)
  /\ Handler(c, "grant")
  /\ UNCHANGED <<tokRole, wins, lockVars, agentVars, reply, cpc, clientVars, cred>>

\* A handler leaves mutate: the lock is free, whoever else is inside.
Unlock(c) ==
  /\ locked' = FALSE
  /\ view' = [view EXCEPT ![c] = {}]
  /\ UNCHANGED overlapped

\* Consume returns the role of a token it has found.
Grant(c) ==
  /\ hpc[c] = "grant"
  /\ tok[c] \in view[c]
  /\ wins' = [wins EXCEPT ![tok[c]] = IF @ = 0 THEN 1 ELSE 2]
  /\ Unlock(c)
  /\ Handler(c, "sign")
  /\ UNCHANGED <<tokRole, store, agentVars, reply, cpc, clientVars, cred>>

\* The organizations of the certificate: the role of the token.  Mutants: what
\* the controller asks for; its common name, too.
AskedFor(k) == {"rex:admin"}
NameToo(k) == {tokRole[k], "common name"}
Organization(k) == {tokRole[k]}

\* CA.Sign for a client, and what else Enroll returns.
Sign(c) ==
  /\ hpc[c] = "sign"
  /\ reply' = [reply EXCEPT ![c] =
       [token |-> tok[c], signer |-> agent, orgs |-> Organization(tok[c]),
        ca |-> agent, fingerprint |-> agent]]
  /\ Handler(c, "reply")
  /\ UNCHANGED <<tokenVars, agentVars, cpc, clientVars, cred>>

\* The token is unknown or has expired, the store could not be written, Sign
\* refuses the CSR, or the reply is lost: the handler is done and the controller
\* has nothing.
HandlerEnds(c) ==
  /\ hpc[c] # "none"
  /\ IF c \in Inside THEN Unlock(c) ELSE UNCHANGED lockVars
  /\ Handler(c, "none")
  /\ reply' = [reply EXCEPT ![c] = None]
  /\ tok' = [tok EXCEPT ![c] = None]
  /\ UNCHANGED <<storeVars, agentVars, cpc, path, mem, pin, method, compared, cred>>

-------------------------------------------------------------------------------
(* `rexec agent enroll` *)

\* transport.Enroll: a key, a CSR, and a call on a connection that verifies
\* nothing.  Enroll is public.
EnrollCall(c, k, p) ==
  /\ cpc[c] = "idle" /\ hpc[c] = "none"
  /\ agent # 0 /\ Intercept("Enroll", NoCert) = "handler"
  /\ tok' = [tok EXCEPT ![c] = k]
  /\ path' = [path EXCEPT ![c] = p]
  /\ Client(c, "wait") /\ Handler(c, "consume")
  /\ UNCHANGED <<tokenVars, agentVars, reply, mem, pin, method, compared, cred>>

\* The controller has the reply.
Receive(c) ==
  /\ cpc[c] = "wait" /\ hpc[c] = "reply"
  /\ mem' = [mem EXCEPT ![c] = reply[c]]
  /\ reply' = [reply EXCEPT ![c] = None]
  /\ tok' = [tok EXCEPT ![c] = None]
  /\ Client(c, "save") /\ Handler(c, "none")
  /\ UNCHANGED <<tokenVars, agentVars, path, pin, method, compared, cred>>

\* Mutant of GiveUp: the error is not looked at.
SavesAnyway(c) ==
  /\ cpc[c] = "wait"
  /\ Client(c, "save")
  /\ UNCHANGED <<tokenVars, agentVars, handlerVars, clientVars, cred>>

\* The call fails, or the 15 seconds are over; the handler may go on.
GiveUp(c) ==
  /\ cpc[c] = "wait"
  /\ Exit(c)
  /\ UNCHANGED <<tokenVars, agentVars, handlerVars, tok, cred>>

\* Config.Save: os.WriteFile empties the file first.
OpenCredential(c) ==
  /\ cpc[c] = "save"
  /\ cred' = [cred EXCEPT ![path[c]] = Empty]
  /\ Client(c, "write")
  /\ UNCHANGED <<tokenVars, agentVars, handlerVars, clientVars>>

\* Over what another process has written meanwhile the end of that may remain.
WriteCredential(c) ==
  /\ cpc[c] = "write"
  /\ \E x \in {mem[c]} \union (IF cred[path[c]] = Empty THEN {} ELSE {Torn}) :
       cred' = [cred EXCEPT ![path[c]] = x]
  /\ Exit(c)
  /\ UNCHANGED <<tokenVars, agentVars, handlerVars, tok>>

-------------------------------------------------------------------------------
(* The other commands: identity, info, run, deploy *)

\* The fingerprint of a credential that is not there.
NoPin == 0

\* `agent identity` loads the credential for its pin, and dialAgent once more.
\* An empty file loads too, as a credential without a fingerprint.
LoadPin(c, p) ==
  /\ cpc[c] = "idle" /\ hpc[c] = "none"
  /\ cred[p] \notin {None, Torn}
  /\ pin' = [pin EXCEPT ![c] = IF cred[p] = Empty THEN NoPin ELSE cred[p].fingerprint]
  /\ path' = [path EXCEPT ![c] = p]
  /\ Client(c, "pinned")
  /\ UNCHANGED <<tokenVars, agentVars, handlerVars, tok, mem, method, compared, cred>>

\* ClientTLS: a file that is empty decodes, but lacks every part of a credential.
Usable(x) == x \notin {None, Torn, Empty}

\* dialAgent: load the credential and make the TLS configuration of it.
LoadCredential(c, p) ==
  /\ (cpc[c] = "idle" /\ hpc[c] = "none") \/ (cpc[c] = "pinned" /\ path[c] = p)
  /\ Usable(cred[p])
  /\ mem' = [mem EXCEPT ![c] = cred[p]]
  /\ path' = [path EXCEPT ![c] = p]
  /\ Client(c, "dial")
  /\ UNCHANGED <<tokenVars, agentVars, handlerVars, tok, pin, method, compared, cred>>

\* Mutant: neither side verifies the chain of the other.
Unverified(x) == x.token \notin expired

\* Whether the two sides take each other's certificates: the server's chains to
\* the CA of the credential, the client's to that of the agent, in time.
Verified(x) == x.ca = agent /\ x.signer = agent /\ x.token \notin expired

\* The handshake on the first call, and again after a lost connection.
Handshake(c) ==
  /\ cpc[c] = "dial"
  /\ agent # 0 /\ Verified(mem[c])
  /\ Client(c, "open")
  /\ UNCHANGED <<tokenVars, agentVars, handlerVars, clientVars, cred>>

\* A call on the open connection that the interceptor lets through.
Call(c, m) ==
  /\ cpc[c] = "open"
  /\ m = "Identity" <=> pin[c] # None
  /\ Intercept(m, mem[c].orgs) = "handler"
  /\ method' = [method EXCEPT ![c] = m]
  /\ Client(c, "handling")
  /\ UNCHANGED <<tokenVars, agentVars, handlerVars, path, tok, mem, pin, compared, cred>>

\* What `agent identity` makes of the agent's fingerprint.  Mutant: it is compared
\* with the credential the connection was made from.
OwnPin(c) == mem[c].fingerprint = agent
PinMatches(c) == pin[c] = NoPin \/ pin[c] = agent

\* The call returns; `agent identity` compares the fingerprint with its pin, if
\* it has one.
CallReturns(c) ==
  /\ cpc[c] = "handling"
  /\ IF method[c] = "Identity"
     THEN /\ compared' = [compared EXCEPT ![c] = pin[c] # NoPin]
          /\ Client(c, IF PinMatches(c) THEN "done" ELSE "failed")
     ELSE Client(c, "done") /\ UNCHANGED compared
  /\ UNCHANGED <<tokenVars, agentVars, handlerVars, path, tok, mem, pin, method, cred>>

\* `deploy --yes` is asked for approval and calls again on its connection.
CallAgain(c) ==
  /\ cpc[c] = "handling" /\ method[c] = "Deploy"
  /\ Client(c, "open")
  /\ UNCHANGED <<tokenVars, agentVars, handlerVars, clientVars, cred>>

\* The command is done, has failed at this step, or dies.
Leave(c) ==
  /\ cpc[c] # "idle"
  /\ Exit(c)
  /\ UNCHANGED <<tokenVars, agentVars, handlerVars, tok, cred>>

-------------------------------------------------------------------------------

EnrollHandler(c) ==
  ReadStore(c) \/ RewriteStore(c) \/ Grant(c) \/ Sign(c) \/ HandlerEnds(c)

Cli(c) ==
  \/ \E k \in Tokens, p \in Paths : EnrollCall(c, k, p)
  \/ Receive(c) \/ GiveUp(c) \/ OpenCredential(c) \/ WriteCredential(c)
  \/ \E p \in Paths : LoadPin(c, p) \/ LoadCredential(c, p)
  \/ Handshake(c) \/ CallReturns(c) \/ CallAgain(c) \/ Leave(c)
  \/ \E m \in DOMAIN AgentTable \ {"Enroll"} : Call(c, m)

Next ==
  \/ \E k \in Tokens : Expire(k) \/ \E r \in IssueRoles : Issue(k, r)
  \/ MintCA \/ Up \/ Down
  \/ \E c \in Clis : EnrollHandler(c) \/ Cli(c)

Spec == Init /\ [][Next]_vars

-------------------------------------------------------------------------------

\* Every variable holds a value of its kind.
TypeOK ==
  /\ tokRole \in [Tokens -> IssueRoles \union {None}]
  /\ store \subseteq Tokens
  /\ locked \in BOOLEAN /\ overlapped \in BOOLEAN
  /\ view \in [Clis -> SUBSET Tokens]
  /\ wins \in [Tokens -> 0 .. 2]
  /\ dataCA \in CAs /\ agent \in CAs \union {0}
  /\ expired \subseteq Tokens
  /\ hpc \in [Clis -> {"none", "consume", "rewrite", "grant", "sign", "reply"}]
  /\ reply \in [Clis -> Credentials \union {None}]
  /\ cpc \in [Clis -> {"idle", "wait", "save", "write", "pinned", "dial", "open", "handling", "done", "failed"}]
  /\ path \in [Clis -> Paths \union {None}]
  /\ tok \in [Clis -> Tokens \union {None}]
  /\ mem \in [Clis -> Credentials \union {None}]
  /\ pin \in [Clis -> CAs \union {NoPin, None}]
  /\ method \in [Clis -> DOMAIN AgentTable]
  /\ compared \in [Clis -> BOOLEAN]
  /\ cred \in [Paths -> Credentials \union {None, Torn, Empty}]

\* A handler only ever runs for a controller whose certificate cost a token that
\* was issued for a role high enough for the method, whatever was lost, retried,
\* saved over or re-minted on the way (README: "A reader cert physically cannot
\* invoke exec run"); and as long as no two handlers were in mutate together, that
\* token was granted to nobody else.
RoleEarned ==
  \A c \in Clis : cpc[c] = "handling" =>
    LET k == mem[c].token IN
      /\ tokRole[k] # None /\ wins[k] > 0
      /\ Allowed(tokRole[k], AgentTable[method[c]])
      /\ ~ overlapped => wins[k] = 1

\* A daemon that runs with a new CA serves nobody who enrolled with an old one,
\* and no call outlives the daemon that let it in.
ServedByOwnCA == \A c \in Clis : cpc[c] \in {"open", "handling"} => mem[c].signer = agent

\* An enrolment that is refused, lost or given up leaves the credential of an
\* earlier one alone: a whole credential only goes for one just earned.
OldCredentialKept ==
  [][\A p \in Paths :
       Usable(cred[p]) /\ cred'[p] # cred[p] =>
         \E c \in Clis : path[c] = p /\ mem[c] # None /\ wins[mem[c].token] > 0]_vars

\* Though `agent identity` loads its credential twice, and another process may
\* save over it in between, a pin it has compared and found to match is the
\* fingerprint of the credential its connection was made from.
TwoLoadsOnePin ==
  \A c \in Clis : cpc[c] = "done" /\ compared[c] => pin[c] = mem[c].fingerprint

\* Every call that has returned a result has compared the agent's fingerprint
\* with the pin (README: "every call re-asserts it and errors on mismatch").
PinReasserted == \A c \in Clis : cpc[c] = "done" => compared[c]
===============================================================================
