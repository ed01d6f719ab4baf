------------------------------- MODULE CondVar -------------------------------
(***************************************************************************)
(* The POSIX condition variable as the repository uses it.  A condition    *)
(* variable is the set of the threads asleep in pthread_cond_wait.  A      *)
(* thread that leaves the set contends for the mutex again; every section  *)
(* run under that mutex is one step of the modules that use this one.      *)
(***************************************************************************)

\* pthread_cond_signal: one sleeper wakes, whichever the system picks; with
\* nobody asleep the signal is lost.
AfterSignal(sleepers) ==
    IF sleepers = {} THEN {{}} ELSE {sleepers \ {t} : t \in sleepers}

\* pthread_cond_broadcast: everybody wakes.
AfterBroadcast(sleepers) == {{}}
==============================================================================
