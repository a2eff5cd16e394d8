------------------------ MODULE NewSchedulerRefinement ------------------------
(***************************************************************************)
(* The thread-per-core scheduler implements the abstract host scheduler.  *)
(* A host is held by task i while it is HostIter.current_host of task i;  *)
(* a host is lent in the current round once next() has yielded it.        *)
(***************************************************************************)
EXTENDS NewScheduler

AbsPhase ==
    CASE phase \in {"new", "idle", "scoped"} -> "idle"
      [] phase = "running"                   -> "running"
      [] phase = "joined"                    -> "done"
      [] phase = "failed"                    -> "failed"

Abs == INSTANCE HostScheduler WITH
    Workers  <- Threads,
    NoWorker <- NoHost,
    aphase   <- AbsPhase,
    akind    <- kind,
    held     <- [h \in Hosts |-> IF \E i \in Threads : current[i] = h
                                    THEN CHOOSE i \in Threads : current[i] = h
                                    ELSE NoHost],
    visited  <- IF phase = "running" /\ kind = "hosts"
                   THEN {h \in Hosts : visits[h] > 0} ELSE {}

\* NewScheduler's scopes are rounds of the abstract host scheduler: hosts
\* are lent one at a time per task and exclusively, at most once per round,
\* and a clean run_with_hosts round ends with every host lent and returned.
RefinesHostScheduler == Abs!Spec

=============================================================================
