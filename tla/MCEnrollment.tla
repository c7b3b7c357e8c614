----------------------------- MODULE MCEnrollment -----------------------------
(* Enrollment on small sets of processes, tokens and credential files.       *)
EXTENDS Enrollment, TLC

CONSTANTS c1, c2, k1, k2, f1

MCClis == {c1, c2}
MCOneCli == {c1}
MCTokens == {k1, k2}
MCOneToken == {k1}
MCOnePath == {f1}

\* Two roles of the table, and with a string that is none.
MCTwoRoles == {"rex:reader", "rex:admin"}
MCRoles == MCTwoRoles \union {"other"}

Interchangeable == Permutations(MCClis) \union Permutations(MCTokens)
===============================================================================
