---------------------------- MODULE MCReviewGraph ----------------------------
\* ReviewGraph for TLC: model values.
EXTENDS ReviewGraph

CONSTANTS product, qa, security
=============================================================================
