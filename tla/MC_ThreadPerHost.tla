-------------------------- MODULE MC_ThreadPerHost --------------------------
(***************************************************************************)
(* Model-checking instance of ThreadPerHost, and its refinement of the    *)
(* abstract host scheduler: a host is held by thread t while it is in     *)
(* t's HostIter or for_each closure, and is lent in a run_with_hosts or   *)
(* run_with_data round once t's task has taken it out of the slot.        *)
(***************************************************************************)
EXTENDS ThreadPerHost

AbsPhase ==
    CASE phase \in {"new", "idle", "scoped"}                 -> "idle"
      [] phase = "running" /\ kind = "init"                  -> "idle"
      [] phase = "running" /\ kind \in {"plain", "hosts", "data"} -> "running"
      [] phase = "joined" \/ (phase = "running" /\ kind = "collect") -> "done"
      [] phase = "failed"                                    -> "failed"

Holder(h) == IF \E t \in Threads : iter[t] = h \/ lent[t] = h
                THEN CHOOSE t \in Threads : iter[t] = h \/ lent[t] = h
                ELSE None

Abs == INSTANCE HostScheduler WITH
    Workers  <- Threads,
    NoWorker <- None,
    aphase   <- AbsPhase,
    akind    <- IF kind \in {"hosts", "data"} THEN "hosts" ELSE "plain",
    held     <- [h \in Hosts |-> Holder(h)],
    visited  <- IF phase = "running" /\ kind \in {"hosts", "data"}
                   THEN {t \in Threads : tpc[t] \in {"user", "foreach", "done"}}
                   ELSE {}

\* ThreadPerHostSched's scopes are rounds of the abstract host scheduler:
\* each task holds only its own host, exclusively, once per round, and the
\* scope ends only after every host has been lent and put back.
RefinesHostScheduler == Abs!Spec

=============================================================================
