------------------------------ MODULE MCDiskIo -------------------------------
\* Two coroutines on one thread, and a count that wraps at 8.
EXTENDS DiskIo
=============================================================================
