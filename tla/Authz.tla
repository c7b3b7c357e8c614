--------------------------------- MODULE Authz ---------------------------------
(***************************************************************************)
(* internal/authz: the roles a client certificate carries in its Subject   *)
(* Organization, the table of the Agent service, and the decision of the   *)
(* two interceptors, which is the same for unary and streaming methods.    *)
(***************************************************************************)
EXTENDS Naturals

\* A call on a connection without a client certificate.
CONSTANT NoCert

RolePublic == ""

rank == [r \in {"rex:reader", "rex:operator", "rex:admin"} |->
           IF r = "rex:reader" THEN 1 ELSE IF r = "rex:operator" THEN 2 ELSE 3]

\* The map lookup of Go: zero for a role that is not in the map.
Rank(r) == IF r \in DOMAIN rank THEN rank[r] ELSE 0

AgentTable ==
  [m \in {"Enroll", "Identity", "Info", "Run", "Deploy"} |->
     CASE m = "Enroll" -> RolePublic
       [] m \in {"Identity", "Info"} -> "rex:reader"
       [] m = "Run" -> "rex:operator"
       [] m = "Deploy" -> "rex:admin"]

\* The highest known role of a certificate whose organizations are orgs.
RoleFromCert(orgs) ==
  LET known == orgs \intersect DOMAIN rank IN
  IF known = {} THEN RolePublic
  ELSE CHOOSE r \in known : \A s \in known : rank[s] <= rank[r]

Allowed(have, need) ==
  need = RolePublic \/ (Rank(have) >= Rank(need) /\ Rank(have) > 0)

\* What the interceptors answer to method m on a connection with certificate
\* organizations orgs, or with none.
Intercept(m, orgs) ==
  IF m \notin DOMAIN AgentTable THEN "PermissionDenied"
  ELSE IF AgentTable[m] = RolePublic THEN "handler"
  ELSE IF orgs = NoCert THEN "Unauthenticated"
  ELSE IF Allowed(RoleFromCert(orgs), AgentTable[m]) THEN "handler"
  ELSE "PermissionDenied"
===============================================================================
