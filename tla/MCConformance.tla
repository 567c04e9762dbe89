--------------------------- MODULE MCConformance ---------------------------
EXTENDS Conformance
CONSTANTS r1, r2
=============================================================================
