----------------------------- MODULE MCRpcDuplex -----------------------------
\* Three calls of two coroutines: two requests are sent in one batch, a response
\* comes late and a coroutine calls again from inside read_rsp.
EXTENDS RpcDuplex

=============================================================================
