-------------------------- MODULE DesiredContract --------------------------
(***************************************************************************)
(* What the plugin control plane promises about one (tenant, edge) pair,   *)
(* without links, queues, caches or goroutines: the Server commits a log   *)
(* of desired states, the Edge moves forward along that log, and the       *)
(* Server credits the Edge with nothing it did not complete. The one way   *)
(* back is to revision 0, the empty state: a restarted Server that finds   *)
(* nothing desired may start from it again.                                *)
(***************************************************************************)
EXTENDS Naturals

CONSTANTS Content, Nothing

VARIABLES
    log,       \* log[n]: the desired state of revision n; log[0] is empty
    completed, \* the revisions whose desired state the Edge completed
    edge,      \* the one it completed last
    running,   \* that desired state
    acked,     \* the revision the Server believes the Edge completed
    restarts   \* process restarts so far

vars == <<log, completed, edge, running, acked, restarts>>

Revision == DOMAIN log

Init ==
    /\ log = [n \in {0} |-> Nothing]
    /\ completed = {0} /\ edge = 0 /\ running = Nothing
    /\ acked = 0 /\ restarts = 0

(* The Server learns, after any delay, of something the Edge completed, or  *)
(* reads back after a restart what it had recorded of it.                   *)
Learn == acked' \in {n \in completed : acked <= n}

(* An administrator's write takes the next revision; it may be the first to *)
(* touch the Server's memory since a restart.                               *)
Commit ==
    /\ \E c \in Content, next \in {n + 1 : n \in Revision} :
        /\ next \notin Revision
        /\ log' = [n \in Revision \cup {next} |-> IF n = next THEN c ELSE log[n]]
    /\ Learn
    /\ UNCHANGED <<completed, edge, running, restarts>>

(* A process has restarted, and the desired set became empty at some time.  *)
Fallback == restarts > 0 /\ \E n \in Revision \ {0} : log[n] = Nothing

(* The Edge completes the same or a later revision. *)
Apply ==
    /\ \E n \in Revision :
        /\ n >= edge \/ (n = 0 /\ Fallback)
        /\ edge' = n
        /\ running' = log[n]
        /\ completed' = completed \cup {n}
    /\ UNCHANGED <<log, acked, restarts>>

Acknowledge == Learn /\ UNCHANGED <<log, completed, edge, running, restarts>>

(* A process restarts: the Server may have to learn again; the Edge keeps   *)
(* what it completed.                                                       *)
Restart ==
    /\ restarts' = restarts + 1
    /\ acked' \in {acked, 0}
    /\ UNCHANGED <<log, completed, edge, running>>

Next == Commit \/ Apply \/ Acknowledge \/ Restart

Spec == Init /\ [][Next]_vars
=============================================================================
