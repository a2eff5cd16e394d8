--------------------------- MODULE HostScheduler ---------------------------
(***************************************************************************)
(* What a host scheduler promises its user (spec sections 3 and 4.2),     *)
(* whichever partitioner implements it.                                   *)
(*                                                                         *)
(* The driver runs rounds.  A "plain" round (SchedulerScope::run) gives   *)
(* the workers no host.  A "hosts" round (run_with_hosts, run_with_data)  *)
(* lends every host to a worker: a worker holds at most one host at a     *)
(* time, a host is held by at most one worker, each host is lent at most  *)
(* once in the round, and the round ends only when no host is held and    *)
(* every host has been lent.  A fatal panic ends everything, and join      *)
(* ends the scheduler.                                                     *)
(***************************************************************************)
EXTENDS FiniteSets

CONSTANTS
    Hosts,      \* the simulated hosts
    Workers,    \* the worker threads
    NoWorker    \* "held by nobody"

ASSUME NoWorker \notin Workers

VARIABLES
    aphase,     \* "idle", "running", "done" (joined) or "failed"
    akind,      \* kind of the current round: "plain" or "hosts"
    held,       \* per host: the worker that holds it, or NoWorker
    visited     \* hosts lent so far in the current round

avars == <<aphase, akind, held, visited>>

Free(w) == \A h \in Hosts : held[h] # w

Init ==
    /\ aphase = "idle"
    /\ akind = "plain"
    /\ held = [h \in Hosts |-> NoWorker]
    /\ visited = {}

BeginRound(k) ==
    /\ aphase = "idle"
    /\ aphase' = "running"
    /\ akind' = k
    /\ visited' = {}
    /\ UNCHANGED held

\* Worker w is lent host h.
Acquire(w, h) ==
    /\ aphase = "running" /\ akind = "hosts"
    /\ held[h] = NoWorker
    /\ h \notin visited
    /\ Free(w)
    /\ held' = [held EXCEPT ![h] = w]
    /\ visited' = visited \cup {h}
    /\ UNCHANGED <<aphase, akind>>

\* Worker w gives host h back (or loses it in a panic).
Release(w, h) ==
    /\ aphase = "running"
    /\ held[h] = w
    /\ held' = [held EXCEPT ![h] = NoWorker]
    /\ UNCHANGED <<aphase, akind, visited>>

EndRound ==
    /\ aphase = "running"
    /\ \A h \in Hosts : held[h] = NoWorker
    /\ akind = "hosts" => visited = Hosts
    /\ aphase' = "idle"
    /\ visited' = {}
    /\ UNCHANGED <<akind, held>>

Finish ==
    /\ aphase = "idle"
    /\ aphase' = "done"
    /\ akind' \in {"plain", "hosts"}
    /\ UNCHANGED <<held, visited>>

Fail ==
    /\ aphase \in {"idle", "running"}
    /\ \A h \in Hosts : held[h] = NoWorker
    /\ aphase' = "failed"
    /\ visited' = {}
    /\ UNCHANGED <<akind, held>>

Next ==
    \/ \E k \in {"plain", "hosts"} : BeginRound(k)
    \/ \E w \in Workers, h \in Hosts : Acquire(w, h) \/ Release(w, h)
    \/ EndRound \/ Finish \/ Fail

Spec == Init /\ [][Next]_avars

=============================================================================
