------------------------------ MODULE MCPrdGate ------------------------------
(***************************************************************************)
(* Small instances of PrdGate for TLC.                                     *)
(***************************************************************************)
EXTENDS PrdGate, TLC

CONSTANTS s1, s2, owner, anonymous, project

\* Every operation of every version.
AskedAll == Ops \X Versions

SlotSymmetry == Permutations({s1, s2})
=============================================================================
