---------------------------- MODULE MCOpportunity ----------------------------
\* Opportunity for TLC: model values, the operations asked for and symmetry.
EXTENDS Opportunity, TLC

CONSTANTS s1, s2, owner, anonymous

AllOps == Ops
SlotSymmetry == Permutations(Slots)
=============================================================================
