----------------------------- MODULE MCThreadPool -----------------------------
(* Model checking of ThreadPool, with one driver and, for the HTTP server, *)
(* whose handler threads share one engine and its pool, with two.          *)
EXTENDS ThreadPool

\* The server initialises the pool once, before any handler calls into it,
\* and keeps it.
ServerNext ==
  \/ n_threads = 0 /\ InitPool(MaxThreads)
  \/ \E d \in Drivers : DriverStep(d)
  \/ \E w \in WorkerIds : WorkerStep(w)

ServerSpec == Init /\ [][ServerNext]_vars
=============================================================================
