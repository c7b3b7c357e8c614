------------------------------ MODULE MCAgentData ------------------------------
(* AgentData on small sets of runs and ids.                                  *)
EXTENDS AgentData

CONSTANTS p1, i1, i2

MCInits == {p1}
MCIds == {i1, i2}
===============================================================================
