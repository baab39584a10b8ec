------------------------------- MODULE MCQueue ------------------------------
EXTENDS ZQueue
CONSTANTS a, b, c
=============================================================================
