----------------------------- MODULE AppRuntime -----------------------------
(***************************************************************************)
(* appruntime.Runtime over the one process its Application plugin runs in: *)
(* the records of the instances, the two goroutines that serve the event   *)
(* stream of each, and the ways a session starts, fails and stops.         *)
(*                                                                         *)
(* The process is the one PluginSupervisor describes, reduced to what a    *)
(* session sees: it is up or not, a Shutdown RPC makes it exit, and a      *)
(* crash budget bounds how often it is launched again.                     *)
(*                                                                         *)
(* Interleavings kept: the caller of StartInstance and StopInstance, the   *)
(* process, and the goroutines of every record. Data abstracted: events,   *)
(* effects and the replies of the plugin other than success or failure.    *)
(***************************************************************************)
EXTENDS Naturals, FiniteSets

CONSTANTS
    Insts,          \* instances of one plugin, of one tenant
    Recs,           \* instance records that may be in memory together
    None,           \* "no record", "no row"
    MaxRestarts,    \* ManagerOptions.MaxRestarts
    MaxFaults       \* bound: crashes, refusals and timeouts

ASSUME RuntimeAssumption ==
    /\ None \notin Insts \cup Recs
    /\ MaxRestarts \in Nat /\ MaxFaults \in Nat

VARIABLES
    rec,        \* the instance records
    instances,  \* Runtime.instances
    up,         \* the process serves
    leaving,    \* it was asked to shut down
    exits,      \* exits the supervisor counted as crashes
    faults

runtimeVars == <<rec, instances>>
processVars == <<up, leaving, exits>>

Free == [inst |-> None, row |-> None, state |-> "free", ctx |-> "none",
         workers |-> 0, lost |-> FALSE]

InState(r, s) == [rec EXCEPT ![r].state = s]

\* the context of the session is not done
Open(r) == rec[r].ctx = "open"

Alive(r) == rec[r].state = "running"

(***************************************************************************)
(* The process                                                             *)
(***************************************************************************)

\* every session ends with its process
SessionsLost == [r \in Recs |-> [rec[r] EXCEPT !.lost = rec[r].state # "free"]]

Exits ==
    /\ up' = FALSE /\ leaving' = FALSE
    /\ exits' = IF exits <= MaxRestarts THEN exits + 1 ELSE exits
    /\ rec' = SessionsLost

Crash == up /\ faults < MaxFaults /\ faults' = faults + 1 /\ Exits

\* what the Shutdown RPC asked for
Leave == up /\ leaving /\ Exits /\ UNCHANGED faults

Disabled == exits > MaxRestarts

Relaunch ==
    /\ ~up /\ ~Disabled
    /\ up' = TRUE
    /\ UNCHANGED <<leaving, exits, rec, faults>>

(***************************************************************************)
(* StartInstance                                                           *)
(***************************************************************************)

Known(i) == instances[i] # None

\* a record is entered; its key must be free
Register(i, row, r) ==
    /\ ~Known(i) /\ rec[r] = Free
    /\ rec' = [rec EXCEPT ![r] = [Free EXCEPT !.inst = i, !.row = row, !.state = "created"]]
    /\ instances' = [instances EXCEPT ![i] = r]

\* a call of the plugin failed or was refused: the record is rolled back
RollBack(i, r) ==
    /\ rec' = [rec EXCEPT ![r] = Free]
    /\ instances' = [instances EXCEPT ![i] = None]

\* the stream is open, senderLoop and recvLoop run
OpenStream(r) ==
    /\ rec[r].state = "created" /\ rec[r].ctx = "none" /\ ~rec[r].lost
    /\ rec' = [rec EXCEPT ![r].ctx = "open", ![r].workers = 2]

\* Running, whatever the goroutines found in the meantime
MarkRunning(r) ==
    /\ rec[r].ctx # "none" /\ rec[r].state \in {"created", "failed"}
    /\ rec' = InState(r, "running")

(***************************************************************************)
(* senderLoop, recvLoop                                                    *)
(***************************************************************************)

\* Send or Recv failed: fail, then the goroutine returns
WorkerFails(r) ==
    /\ rec[r].workers > 0 /\ rec[r].lost
    /\ rec' = [rec EXCEPT ![r].workers = @ - 1,
                          ![r].ctx = "done",
                          ![r].state = IF @ \in {"running", "created"} THEN "failed" ELSE @]
    /\ UNCHANGED <<instances, processVars, faults>>

\* the context of the session is done
WorkerEnds(r) ==
    /\ rec[r].workers > 0 /\ rec[r].ctx = "done"
    /\ rec' = [rec EXCEPT ![r].workers = @ - 1]
    /\ UNCHANGED <<instances, processVars, faults>>

\* nothing refers to the record any more
Collect(r) ==
    /\ rec[r] # Free /\ rec[r].workers = 0
    /\ \A i \in Insts : instances[i] # r
    /\ rec' = [rec EXCEPT ![r] = Free]
    /\ UNCHANGED <<instances, processVars, faults>>

(***************************************************************************)
(* StopInstance, StopInstanceStreamOnly                                    *)
(***************************************************************************)

\* stopRecord: Stopping, and the Shutdown RPC
AskShutdown(r) ==
    /\ rec' = InState(r, "stopping")
    /\ leaving' = (leaving \/ (up /\ ~rec[r].lost))

\* Mutant: the context is not cancelled.
CancelNot(r) == rec' = InState(r, "stopping")

\* the context is cancelled
Cancel(r) == rec' = [rec EXCEPT ![r].ctx = "done", ![r].state = "stopping"]

\* both goroutines returned in time: the record is removed
Finish(i, r) ==
    /\ rec[r].workers = 0
    /\ rec' = InState(r, "stopped")
    /\ instances' = [instances EXCEPT ![i] = None]
    /\ UNCHANGED faults

\* waitDone timed out: stopRecord returns without removing the record ...
Overdue(r) ==
    /\ rec[r].workers > 0 /\ faults < MaxFaults
    /\ faults' = faults + 1
    /\ UNCHANGED <<rec, instances>>

\* ... StopInstanceStreamOnly removes it all the same
FinishAnyway(i, r) ==
    /\ rec[r].workers > 0 /\ faults < MaxFaults
    /\ faults' = faults + 1
    /\ rec' = InState(r, "stopped")
    /\ instances' = [instances EXCEPT ![i] = None]
=============================================================================
