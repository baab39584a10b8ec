------------------------------- MODULE MCObjects ----------------------------
EXTENDS ZObjects
CONSTANTS a, b, c, mtx, tm
=============================================================================
