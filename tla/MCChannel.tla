------------------------------ MODULE MCChannel ------------------------------
\* Three commands against max_pending = 2: the reader waits with more than
\* max_pending responses queued.
EXTENDS Channel

=============================================================================
