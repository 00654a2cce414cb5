---------------------------- MODULE MCExactResume ----------------------------
EXTENDS ExactResume
=============================================================================
