---------------------------- MODULE MCClientSend ----------------------------
(* Instances of ClientSend for TLC.                                          *)
EXTENDS ClientSend

CONSTANTS home, other

TwoOrigins == {home, other}

\* Every combination of policies that tells itself from the others, with up to two
\* retries and redirects, or one retry and any number of redirects; for a stream, which
\* is tried once only, the most insistent of the retry policies.
Ready ==
  {r \in [method : Method, body : {"none", "raw"}, stream : BOOLEAN,
          content_type : {"own"}, auth : {TRUE}, timeout : BOOLEAN,
          read_timeout : {FALSE}, retry : BOOLEAN, max_retries : 0..2,
          retry_on_connection_error : BOOLEAN, retry_on_timeout : BOOLEAN,
          max_redirects : {0, 1, 2, Unlimited}] :
     /\ r.stream <=> r.body = "none"
     /\ r.max_retries = 0 =>
          ~r.retry_on_connection_error /\ ~r.retry_on_timeout
     /\ ~r.retry => r.max_retries = 0
     /\ r.max_redirects = Unlimited => r.stream \/ r.max_retries <= 1
     /\ r.stream /\ r.retry =>
          r.max_retries = 2 /\ r.retry_on_connection_error /\ r.retry_on_timeout}

\* What post() and get() return, for a client with a default Content-Type or
\* without.
Fresh ==
  [method : {"GET", "POST"}, body : {"none"}, stream : {FALSE},
   content_type : {"none", "own"}, auth : {FALSE}, timeout : {FALSE},
   read_timeout : {FALSE}, retry : {TRUE}, max_retries : {1},
   retry_on_connection_error : {TRUE}, retry_on_timeout : {TRUE},
   max_redirects : {1}]

AllRequests ==
  [request : Ready, calls : {0}] \cup [request : Fresh, calls : {3}]

\* The default policies, a read timeout and no request timeout.
ReadTimeoutRequests ==
  [request : [method : {"POST"}, body : {"raw"}, stream : {FALSE},
              content_type : {"none"}, auth : {FALSE}, timeout : {FALSE},
              read_timeout : {TRUE}, retry : {TRUE}, max_retries : {1},
              retry_on_connection_error : {TRUE}, retry_on_timeout : {TRUE},
              max_redirects : {2}],
   calls : {0}]
=============================================================================
