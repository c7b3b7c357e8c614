----------------------------- MODULE MCDeployGate -----------------------------
(* DeployGate on small sets of calls, ids and policy files.                  *)
EXTENDS DeployGate, TLC

CONSTANTS d1, d2, i1, i2, rm, go

MCCalls == {d1, d2}
MCIds == {i1, i2}
MCCommands == {rm, go}

File(mode, allow, deny) == [destructive |-> mode, allow |-> allow, deny |-> deny]

\* The example policy of the docs, which asks, allows and denies; one that asks
\* about everything; one that allows all it does not deny; no file.
MCFiles == {File("ask", {go}, {rm}), File("ask", {}, {}), File("allow", {}, {rm}), NoFile}

Interchangeable == Permutations(MCCalls) \union Permutations(MCIds)
===============================================================================
