------------------------------ MODULE AppHost ------------------------------
(***************************************************************************)
(* server.AppHost: the reconcile goroutine that makes the Applications the *)
(* Server hosts follow the desired rows. A pass lists the rows, applies    *)
(* them to the process plane (plugincontrol.Host, the module InstanceHost),*)
(* chooses under h.mu what to stop and to start, stops one instance after  *)
(* the other and starts one after the other through appruntime.Runtime.    *)
(*                                                                         *)
(* Interleavings kept: the writers of the rows, the plugin process, the    *)
(* goroutines of the sessions and the pass run on their own. One plugin of *)
(* one tenant, one version: the definition of an instance is there or not. *)
(* The bindings of an instance are the one exclusive actuator it drives.   *)
(***************************************************************************)
EXTENDS AppRuntime

CONSTANTS
    Actuators,      \* exclusive entities of the tenant
    MaxWrites       \* bound: writes of the desired rows

ASSUME AppHostAssumption == MaxWrites \in Nat

VARIABLES
    want,       \* the desired rows; None: absent or disabled
    defs,       \* instances whose definition the process plane holds
    running,    \* h.running: the row each entry was started from
    failed,     \* h.failed
    \* the pass
    pc, rows, applied, toStop, toStart,
    cur,        \* the instance being stopped or started
    writes

Row == [rev : 1..MaxWrites, drives : Actuators]

hostVars == <<running, failed>>
passVars == <<pc, rows, applied, toStop, toStart, cur>>
vars == <<runtimeVars, processVars, faults, want, defs, hostVars, passVars, writes>>

Init ==
    /\ rec = [r \in Recs |-> Free] /\ instances = [i \in Insts |-> None]
    /\ up = FALSE /\ leaving = FALSE /\ exits = 0 /\ faults = 0
    /\ want = [i \in Insts |-> None] /\ defs = {}
    /\ running = [i \in Insts |-> None] /\ failed = {}
    /\ pc = "idle" /\ rows = [i \in Insts |-> None]
    /\ applied = {} /\ toStop = {} /\ toStart = {} /\ cur = None
    /\ writes = 0

(***************************************************************************)
(* The rows and the process                                                *)
(***************************************************************************)

Write(i) ==
    /\ writes < MaxWrites
    /\ writes' = writes + 1
    /\ \E row \in {None} \cup [rev : {writes + 1}, drives : Actuators] :
          want' = [want EXCEPT ![i] = row]
    /\ UNCHANGED <<runtimeVars, processVars, faults, defs, hostVars, passVars>>

\* what is enabled runs; ApplySnapshot launches the process it applies to
Launch ==
    /\ defs # {} \/ (pc = "apply" /\ \E i \in Insts : rows[i] # None)
    /\ Relaunch
    /\ UNCHANGED <<instances, want, defs, hostVars, passVars, writes>>

Process ==
    \/ Crash /\ UNCHANGED <<instances, want, defs, hostVars, passVars, writes>>
    \/ Leave /\ UNCHANGED <<instances, want, defs, hostVars, passVars, writes>>
    \/ Launch

Worker(r) ==
    /\ WorkerFails(r) \/ WorkerEnds(r) \/ Collect(r)
    /\ UNCHANGED <<want, defs, hostVars, passVars, writes>>

(***************************************************************************)
(* reconcile: list, apply, choose                                          *)
(***************************************************************************)

List ==
    /\ pc = "idle"
    /\ rows' = want /\ pc' = "apply"
    /\ UNCHANGED <<runtimeVars, processVars, faults, want, defs, hostVars,
                   applied, toStop, toStart, cur, writes>>

Enabled == {i \in Insts : rows[i] # None}

\* ApplySnapshot waits for the first launch of a process, not for a launch
\* after a crash; an instance whose result is an error keeps its definition;
\* a process no definition uses is retired and its supervisor forgotten
Apply ==
    /\ pc = "apply"
    /\ \E ok \in SUBSET Insts :
          /\ ok \cap Enabled = {} \/ up
          /\ LET free == ok = IF up THEN Insts ELSE Insts \ Enabled
                 wait == ~up /\ exits = 0 /\ Enabled # {}
             IN  /\ (~free \/ wait) => faults < MaxFaults
                 /\ faults' = IF ~free \/ wait THEN faults + 1 ELSE faults
          /\ applied' = ok
          /\ defs' = (defs \ ok) \cup (ok \cap Enabled)
    /\ IF defs' = {}
       THEN up' = FALSE /\ leaving' = FALSE /\ exits' = 0 /\ rec' = SessionsLost
       ELSE UNCHANGED <<up, leaving, exits, rec>>
    /\ pc' = "choose"
    /\ UNCHANGED <<instances, want, hostVars, rows, toStop, toStart, cur, writes>>

\* Mutant: an entry of the desired revision is never looked at again.
CurrentByRevision(i) ==
    /\ running[i] # None /\ running[i].rev = rows[i].rev

\* the entry is of the desired revision and its session is alive
Current(i) ==
    /\ running[i] # None /\ running[i].rev = rows[i].rev
    /\ Known(i) /\ Alive(instances[i])

Choose ==
    /\ pc = "choose"
    /\ LET due == {i \in applied : rows[i] # None /\ ~Current(i)}
       IN  /\ toStart' = due
           /\ toStop' = {i \in Insts : running[i] # None /\ (rows[i] = None \/ i \in due)}
    /\ failed' = {i \in failed : rows[i] # None}
    /\ pc' = "work"
    /\ UNCHANGED <<runtimeVars, processVars, faults, want, defs, running, rows, applied,
                   cur, writes>>

(***************************************************************************)
(* stopInstance                                                            *)
(***************************************************************************)

\* Mutant: the shared process is forgotten.
SiblingsNone(i) == {}

\* instances of the plugin that h.running holds beside i
Siblings(i) == {j \in Insts \ {i} : running[j] # None}

\* the entry is deleted first; the last instance of a plugin takes the
\* process down with it, any other one only closes its stream
StopBegins(i) ==
    /\ pc = "work" /\ i \in toStop
    /\ toStop' = toStop \ {i}
    /\ running' = [running EXCEPT ![i] = None] /\ failed' = failed \ {i}
    /\ IF ~Known(i)
       THEN UNCHANGED <<rec, leaving, pc, cur>>
       ELSE /\ cur' = i
            /\ IF Siblings(i) = {}
               THEN AskShutdown(instances[i]) /\ pc' = "asked"
               ELSE Cancel(instances[i]) /\ pc' = "detached" /\ UNCHANGED leaving
    /\ UNCHANGED <<instances, up, exits, faults, want, defs, rows, applied, toStart, writes>>

StopCancels ==
    /\ pc = "asked"
    /\ Cancel(instances[cur])
    /\ pc' = "cancelled"
    /\ UNCHANGED <<instances, processVars, faults, want, defs, hostVars, rows, applied,
                   toStop, toStart, cur, writes>>

StopEnds ==
    /\ LET r == instances[cur]
       IN  \/ pc \in {"cancelled", "detached"} /\ Finish(cur, r)
           \/ pc = "cancelled" /\ Overdue(r)
           \/ pc = "detached" /\ FinishAnyway(cur, r)
    /\ pc' = "work" /\ cur' = None
    /\ UNCHANGED <<processVars, want, defs, hostVars, rows, applied, toStop, toStart, writes>>

(***************************************************************************)
(* startInstance                                                           *)
(***************************************************************************)

\* Mutant: the actuators are not compared.
ConflictNever(i) == FALSE

\* another entry of h.running drives the same exclusive actuator
Conflict(i) == \E j \in Insts \ {i} : running[j] # None /\ running[j].drives = rows[i].drives

\* no session to the process, or it was rejected before a record exists
Refused(i) == i \notin defs \/ ~up \/ Conflict(i) \/ Known(i)

Fails(i) == toStart' = toStart \ {i} /\ failed' = failed \cup {i} /\ pc' = "work" /\ cur' = None

StartRefused(i) ==
    /\ pc = "work" /\ toStop = {} /\ i \in toStart
    /\ \/ Refused(i) /\ UNCHANGED faults
       \/ faults < MaxFaults /\ faults' = faults + 1
    /\ Fails(i)
    /\ UNCHANGED <<runtimeVars, processVars, want, defs, running, rows, applied, toStop, writes>>

StartBegins(i) ==
    /\ pc = "work" /\ toStop = {} /\ i \in toStart
    /\ i \in defs /\ up /\ ~Conflict(i)
    /\ \E r \in Recs : Register(i, rows[i], r)
    /\ pc' = "opening" /\ cur' = i
    /\ UNCHANGED <<processVars, faults, want, defs, hostVars, rows, applied, toStop, toStart,
                   writes>>

StartFails ==
    /\ pc = "opening"
    /\ \/ rec[instances[cur]].lost /\ UNCHANGED faults
       \/ faults < MaxFaults /\ faults' = faults + 1
    /\ RollBack(cur, instances[cur])
    /\ Fails(cur)
    /\ UNCHANGED <<processVars, want, defs, running, rows, applied, toStop, writes>>

StartOpens ==
    /\ pc = "opening"
    /\ OpenStream(instances[cur])
    /\ pc' = "opened"
    /\ UNCHANGED <<instances, processVars, faults, want, defs, hostVars, rows, applied,
                   toStop, toStart, cur, writes>>

StartRuns ==
    /\ pc = "opened"
    /\ MarkRunning(instances[cur])
    /\ pc' = "started"
    /\ UNCHANGED <<instances, processVars, faults, want, defs, hostVars, rows, applied,
                   toStop, toStart, cur, writes>>

StartEnds ==
    /\ pc = "started"
    /\ running' = [running EXCEPT ![cur] = rows[cur]] /\ failed' = failed \ {cur}
    /\ toStart' = toStart \ {cur} /\ pc' = "work" /\ cur' = None
    /\ UNCHANGED <<runtimeVars, processVars, faults, want, defs, rows, applied, toStop, writes>>

PassEnds ==
    /\ pc = "work" /\ toStop = {} /\ toStart = {}
    /\ pc' = "idle"
    /\ applied' = {} /\ rows' = [i \in Insts |-> None]
    /\ UNCHANGED <<runtimeVars, processVars, faults, want, defs, hostVars, toStop, toStart,
                   cur, writes>>

Reconcile ==
    \/ List \/ Apply \/ Choose \/ PassEnds
    \/ \E i \in Insts : StopBegins(i) \/ StartRefused(i) \/ StartBegins(i)
    \/ StopCancels \/ StopEnds
    \/ StartFails \/ StartOpens \/ StartRuns \/ StartEnds

Next ==
    \/ \E i \in Insts : Write(i)
    \/ Process
    \/ \E r \in Recs : Worker(r)
    \/ Reconcile

Spec == Init /\ [][Next]_vars

\* The goroutines run and the supervisor launches again; nobody has to write,
\* and nothing has to fail.
FairSpec ==
    /\ Spec
    /\ WF_vars(Reconcile)
    /\ WF_vars(Launch)
    /\ WF_vars(Leave /\ UNCHANGED <<instances, want, defs, hostVars, passVars, writes>>)
    /\ \A r \in Recs : WF_vars(Worker(r))

(***************************************************************************)
(* Properties                                                              *)
(***************************************************************************)

TypeOK ==
    /\ rec \in [Recs -> [inst : Insts \cup {None}, row : Row \cup {None},
                         state : {"free", "created", "running", "failed", "stopping", "stopped"},
                         ctx : {"none", "open", "done"}, workers : 0..2, lost : BOOLEAN]]
    /\ instances \in [Insts -> Recs \cup {None}]
    /\ up \in BOOLEAN /\ leaving \in BOOLEAN /\ exits \in 0..(MaxRestarts + 1)
    /\ faults \in 0..MaxFaults
    /\ want \in [Insts -> Row \cup {None}] /\ defs \subseteq Insts
    /\ running \in [Insts -> Row \cup {None}] /\ failed \subseteq Insts
    /\ pc \in {"idle", "apply", "choose", "work", "asked", "cancelled", "detached",
               "opening", "opened", "started"}
    /\ rows \in [Insts -> Row \cup {None}]
    /\ applied \subseteq Insts /\ toStop \subseteq Insts /\ toStart \subseteq Insts
    /\ cur \in Insts \cup {None} /\ writes \in 0..MaxWrites

(* internal/appruntime/runtime.go, instances: a session whose context is    *)
(* open is the one its instance is known by; a session that lost its place  *)
(* to another, or its record, would go on executing effects unseen.         *)
NoOrphanSession == \A r \in Recs : Open(r) => instances[rec[r].inst] = r

(* internal/server/app_binding_conflicts.go: two open sessions never drive  *)
(* the same exclusive actuator, though the check reads h.running and the    *)
(* sessions are the Runtime's.                                              *)
ActuatorHasOneOwner ==
    \A r, s \in Recs :
        Open(r) /\ Open(s) /\ rec[r].inst # rec[s].inst => rec[r].row.drives # rec[s].row.drives

(* internal/server/apphost.go, stopInstance: a Shutdown RPC terminates the  *)
(* process, so it is sent only when no other session is open in it.         *)
SiblingsSurvive ==
    [][leaving' /\ ~leaving => \A r \in Recs : Open(r) => rec[r].inst = cur']_vars

(* internal/server/apphost.go, reconcile: an instance that should run comes *)
(* to run again, whatever died, unless it met one of the ends below.        *)
Healthy(i) == running[i] = want[i] /\ Known(i) /\ Alive(instances[i]) /\ Open(instances[i])

\* its record could not be removed: ErrInstanceExists from now on
Wedged(i) == Known(i) /\ rec[instances[i]].state = "stopping"

\* it failed before Running was set: it looks alive from now on
Zombie(i) == Known(i) /\ Alive(instances[i]) /\ ~Open(instances[i])

\* another entry holds the actuator
Outbid(i) == \E j \in Insts \ {i} : running[j] # None /\ running[j].drives = want[i].drives

HealsUnlessStuck ==
    \A i \in Insts :
        []<>(want[i] = None \/ Healthy(i) \/ Wedged(i) \/ Zombie(i) \/ Outbid(i) \/ Disabled)

-----------------------------------------------------------------------------
(* What the proofs carry from step to step.                                 *)

Quiet    == {"idle", "apply", "choose"}
Starting == {"opening", "opened", "started"}

(* What an instance is known by is a record of its own, and what is open is *)
(* known.                                                                   *)
RecordsOK ==
    /\ \A i \in Insts : Known(i) => rec[instances[i]].inst = i
    /\ \A r \in Recs : Open(r) => rec[r].inst \in Insts /\ instances[rec[r].inst] = r

(* The instance a pass is at is known; an entry to be started again is      *)
(* stopped before, and the record being started is of the row listed.       *)
PassOK ==
    /\ pc \in Quiet \cup {"work"} <=> cur = None
    /\ pc \in Quiet => toStart = {}
    /\ cur # None => Known(cur)
    /\ pc \in {"cancelled", "detached", "opening"} => ~Open(instances[cur])
    /\ \A i \in toStart : rows[i] # None /\ (running[i] # None => i \in toStop)
    /\ pc \in Starting => /\ cur \in toStart /\ toStop = {}
                          /\ rec[instances[cur]].row = rows[cur]

(* An open session is of the row its entry was started from, but for the    *)
(* one that is being started or stopped; and no two of them, with the one   *)
(* of the pass, drive the same actuator.                                    *)
DrivenApart(drives, i) ==
    \A j \in Insts \ {i} : running[j] # None => running[j].drives # drives

OwnersOK ==
    /\ \A i \in Insts : running[i] # None => DrivenApart(running[i].drives, i)
    /\ \A r \in Recs : Open(r) =>
          \/ rec[r].row # None /\ running[rec[r].inst] = rec[r].row
          \/ rec[r].inst = cur /\ pc \in {"asked", "opened", "started"}
    /\ pc = "asked" => \A j \in Insts : running[j] = None
    /\ pc \in Starting => DrivenApart(rows[cur].drives, cur)

HostInv == RecordsOK /\ PassOK /\ OwnersOK
=============================================================================
