------------------------------ MODULE JoinTokens ------------------------------
(***************************************************************************)
(* What internal/token promises about join tokens, with no file, no lock   *)
(* and no process: a token is issued once, leaves the store once, and      *)
(* grants its role to at most one enrolment, and only after it has left.   *)
(* TokenStore is shown to implement this.                                  *)
(***************************************************************************)
EXTENDS Naturals

CONSTANT Tokens   \* the values randToken may return

VARIABLES
  status,   \* status[k]: where token k is in its life
  wins      \* wins[k]: Consume calls that returned k's role

vars == <<status, wins>>

Init ==
  /\ status = [k \in Tokens |-> "unissued"]
  /\ wins = [k \in Tokens |-> 0]

\* Issue puts a new token into the store.
Issue(k) ==
  /\ status[k] = "unissued"
  /\ status' = [status EXCEPT ![k] = "live"]
  /\ UNCHANGED wins

\* Consume takes a token out of the store, expired or not.
Spend(k) ==
  /\ status[k] = "live"
  /\ status' = [status EXCEPT ![k] = "spent"]
  /\ UNCHANGED wins

\* Consume returns the role of a token it took out.
Grant(k) ==
  /\ status[k] = "spent"
  /\ wins[k] = 0
  /\ wins' = [wins EXCEPT ![k] = 1]
  /\ UNCHANGED status

Next == \E k \in Tokens : Issue(k) \/ Spend(k) \/ Grant(k)

Spec == Init /\ [][Next]_vars
===============================================================================
