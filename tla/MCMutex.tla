------------------------------- MODULE MCMutex -------------------------------
(* Model-checking instance of Mutex: the cfg file gives Threads.             *)
EXTENDS Mutex
==============================================================================
