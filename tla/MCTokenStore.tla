----------------------------- MODULE MCTokenStore -----------------------------
(* TokenStore on small sets of handlers, `token new` processes and tokens.  *)
EXTENDS TokenStore, TLC

CONSTANTS c1, c2, k1, k2

MCClis == {c1, c2}
MCOneCli == {c1}
MCTokens == {k1, k2}
MCOneToken == {k1}

\* The processes and the random values are interchangeable.
Interchangeable == Permutations(MCClis) \union Permutations(MCTokens)
===============================================================================
