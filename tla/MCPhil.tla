------------------------------- MODULE MCPhil -------------------------------
EXTENDS Philosophers
MCForks == {fork(i) : i \in Threads}
MCThreads == 0 .. NUM_PHIL - 1
=============================================================================
