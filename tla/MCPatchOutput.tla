--------------------------- MODULE MCPatchOutput ---------------------------
EXTENDS PatchOutput

CONSTANTS o1, o2, w1, w2
=============================================================================
