----------------------------- MODULE MCTcpServer -----------------------------
\* One connection allowed, two accepted at a time: up to four are open after a stop.
EXTENDS TcpServer

=============================================================================
