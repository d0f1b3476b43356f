----------------------------- MODULE MCWaitQueue -----------------------------
\* Three coroutines on one WaitQueue; 0 is the smallest argument, for which
\* wakeup_head_n still wakes one.
EXTENDS WaitQueue

MCNums == {0, 2}
=============================================================================
