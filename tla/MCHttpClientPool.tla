--------------------------- MODULE MCHttpClientPool --------------------------
(* An instance of HttpClientPool for TLC: more threads than clients.         *)
EXTENDS HttpClientPool

CONSTANTS t1, t2, t3
==============================================================================
