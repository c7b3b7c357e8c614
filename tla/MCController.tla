----------------------------- MODULE MCController -----------------------------
(* Controller on small sets of processes, ids, policy files and certificates. *)
EXTENDS Controller

CONSTANTS c1, c2, i1, i2, rm

MCCalls == {c1, c2}
MCIds == {i1, i2}
MCCommands == {rm}

File(mode, allow, deny) == [destructive |-> mode, allow |-> allow, deny |-> deny]

\* A policy that asks, and one that names no mode, which denies.
MCFiles == {File("ask", {}, {}), File("", {rm}, {})}

\* An administrator's certificate; an operator's.
MCCerts == {{"rex:admin", "rex:reader"}, {"rex:operator"}}
===============================================================================
