---------------------------- MODULE InstanceHost ----------------------------
(***************************************************************************)
(* plugincontrol.Host over the Manager: a desired snapshot of the Server   *)
(* is applied instance by instance, the state file of an instance follows  *)
(* only what the Manager accepted, instances absent from the snapshot are  *)
(* retired, and a restarted Edge replays the files.                        *)
(*                                                                         *)
(* The snapshot itself, its revision and its acknowledgement are those of  *)
(* module DesiredSync; here an application is one call of ApplySnapshot    *)
(* with any content. applyMu makes the calls serial.                       *)
(***************************************************************************)
EXTENDS PluginManager

CONSTANTS
    Definitions,    \* definitions a snapshot may hold
    Existing,       \* definitions in the files of an earlier Edge
    MaxApplies,     \* bound: snapshots
    MaxFaults       \* bound: crashes, restarts, failed writes, calls from elsewhere

ASSUME HostAssumption ==
    /\ Definitions \cup Existing \subseteq Spec0
    /\ {MaxApplies, MaxFaults} \subseteq Nat
    /\ None \notin {"enabled", "stopped"} \cup [spec : Spec0, enabled : BOOLEAN]

VARIABLES
    file,       \* state files: the definition and whether it is enabled
    phase,      \* idle, load, apply, retire, closed
    todo,       \* instances the running call has not come to
    absent,     \* those the snapshot does not name
    acked,      \* what the last application reported of each instance
    applies, faults

hostVars == <<file, phase, todo, absent, acked, applies>>
vars == <<managerVars, hostVars, faults>>

Entry(s, e) == [spec |-> s, enabled |-> e]

Entries == {Entry(s, e) : s \in Definitions, e \in BOOLEAN}
Enabled == {i \in Instances : file[i] # None /\ file[i].enabled}

(* An Edge starts with the files of an earlier one.                         *)
Init ==
    /\ ManagerInit
    /\ file \in [Instances -> {None} \cup {Entry(s, TRUE) : s \in Existing}]
    /\ phase = "load" /\ todo = Enabled /\ absent = {}
    /\ acked = [i \in Instances |-> None]
    /\ applies = 0 /\ faults = 0

(* ApplySnapshot. What the snapshot says of an instance is settled when its *)
(* turn comes.                                                              *)
Apply ==
    /\ phase = "idle" /\ op.pc = "idle" /\ applies < MaxApplies
    /\ applies' = applies + 1
    /\ phase' = "apply" /\ todo' = Instances /\ absent' = {}
    /\ acked' = [i \in Instances |-> None]
    /\ UNCHANGED <<managerVars, file>>

Begin(i) ==
    /\ i \in todo
    /\ CASE phase = "apply"  -> \E e \in Entries : Reconcile(i, e.spec, e.enabled)
         [] phase = "retire" -> Reconcile(i, file[i].spec, FALSE)
         [] phase = "load"   -> Reconcile(i, file[i].spec, TRUE)
         [] OTHER -> FALSE
    /\ UNCHANGED hostVars

(* Not in the snapshot, or refused before the Manager saw it: an invalid    *)
(* field, a secret that does not resolve, a file that cannot be read.       *)
Skip(i) ==
    /\ phase = "apply" /\ op.pc = "idle" /\ i \in todo
    /\ todo' = todo \ {i} /\ absent' \in {absent, absent \cup {i}}
    /\ UNCHANGED <<managerVars, file, phase, acked, applies>>

Release == op' = Idle /\ UNCHANGED <<rec, procs, retiring, probing, groupVars>>

(* applyOne after the Manager: the file is written only on success, and the *)
(* result is a failure when that fails.                                     *)
Saves(i, entry, report, written) ==
    IF written THEN /\ file' = [file EXCEPT ![i] = entry]
                    /\ acked' = [acked EXCEPT ![i] = report]
               ELSE UNCHANGED <<file, acked>>

Applied(written) ==
    /\ phase = "apply" /\ op.pc = "ok" /\ Release
    /\ todo' = todo \ {op.i}
    /\ Saves(op.i, Entry(op.spec, op.enabled), IF op.enabled THEN "enabled" ELSE "stopped", written)
    /\ UNCHANGED <<phase, absent, applies>>

Refused ==
    /\ phase = "apply" /\ op.pc = "failed" /\ Release
    /\ todo' = todo \ {op.i}
    /\ UNCHANGED <<file, acked, phase, absent, applies>>

(* retireAbsent: every file the snapshot does not name.                     *)
RetireAbsent ==
    /\ phase = "apply" /\ todo = {}
    /\ phase' = "retire" /\ todo' = {i \in absent : file[i] # None}
    /\ UNCHANGED <<managerVars, file, absent, acked, applies>>

(* The group stopped: the record is removed, then the file. A failure ends  *)
(* the call with an error.                                                  *)
Retired(written) ==
    /\ phase = "retire" /\ op.pc = "ok"
    /\ RemoveRecord(op.i) /\ op' = Idle
    /\ Saves(op.i, None, "stopped", written)
    /\ todo' = IF written THEN todo \ {op.i} ELSE {}
    /\ UNCHANGED <<phase, absent, applies>>

RetireFails ==
    /\ phase = "retire" /\ op.pc = "failed" /\ Release
    /\ todo' = {}
    /\ UNCHANGED <<file, phase, absent, acked, applies>>

End ==
    /\ phase = "retire" /\ todo = {}
    /\ phase' = "idle" /\ absent' = {}
    /\ UNCHANGED <<managerVars, file, todo, acked, applies>>

-----------------------------------------------------------------------------
(* The process of the Edge                                                  *)

(* A restart keeps the files; the plugin processes go with the Edge.        *)
Restart ==
    /\ rec' = [i \in Instances |-> None] /\ procs' = [k \in Key |-> None]
    /\ retiring' = [g \in Groups |-> None] /\ life' = [g \in Groups |-> "free"]
    /\ key' = [g \in Groups |-> None] /\ version' = [g \in Groups |-> None]
    /\ cancelled' = [g \in Groups |-> FALSE]
    /\ session' = [g \in Groups |-> 0]
    /\ applied' = [g \in Groups |-> [i \in Instances |-> Unset]]
    /\ replay' = [g \in Groups |-> {}] /\ op' = Idle /\ probing' = {}
    /\ phase' = "load"
    /\ todo' = Enabled /\ absent' = {}
    /\ acked' = [i \in Instances |-> None]
    /\ UNCHANGED <<file, applies>>

(* LoadTenant ends, or stops at the first failure and the Host is closed:   *)
(* every group is cancelled and nothing is bound any more.                  *)
Loaded ==
    /\ phase = "load"
    /\ \/ /\ op.pc = "ok" /\ Release /\ todo' = todo \ {op.i}
          /\ UNCHANGED phase
       \/ /\ op.pc = "idle" /\ todo = {} /\ phase' = "idle"
          /\ UNCHANGED <<managerVars, todo>>
       \/ /\ op.pc = "failed" /\ phase' = "closed"
          /\ procs' = [k \in Key |-> None] /\ retiring' = [g \in Groups |-> None]
          /\ cancelled' = [g \in Groups |-> life[g] \notin {"free", "done"}]
          /\ life' = [g \in Groups |-> IF life[g] = "done" THEN "free" ELSE life[g]]
          /\ op' = Idle
          /\ UNCHANGED <<rec, probing, key, version, session, applied, replay,
                         todo>>
    /\ UNCHANGED <<file, absent, acked, applies>>

(* The Manager is used by others than the Host.                             *)
Direct ==
    /\ phase = "idle"
    /\ \E i \in Instances :
         \/ \E s \in Definitions : CreateInstance(i, s)
         \/ EnableInstance(i) \/ DisableInstance(i)
         \/ \E t \in probing : Judge(t)
    /\ acked' = [i \in Instances |-> None]
    /\ UNCHANGED <<file, todo, phase, absent, applies>>

Probe == faults < MaxFaults /\ CollectProbes /\ UNCHANGED hostVars

HostStep ==
    \/ \E i \in Instances : Begin(i) \/ Skip(i)
    \/ Apply \/ Applied(TRUE) \/ Refused \/ RetireAbsent \/ Retired(TRUE) \/ RetireFails
    \/ End \/ Loaded \/ Probe

Fault ==
    \/ (\E g \in Groups : Crash(g)) /\ UNCHANGED hostVars
    \/ Applied(FALSE) \/ Retired(FALSE) \/ Restart \/ Direct

Next ==
    \/ HostStep /\ UNCHANGED faults
    \/ (GroupStep \/ ReconcileStep) /\ UNCHANGED <<hostVars, faults>>
    \/ faults < MaxFaults /\ faults' = faults + 1 /\ Fault

Spec == Init /\ [][Next]_vars

-----------------------------------------------------------------------------
Placing == {"wait", "configure", "check", "publish", "rollback"}
Stages  == {"idle", "settle", "choose", "retire", "abandon", "ok", "failed"} \cup Placing

Operation ==
    [pc : Stages, i : Instances \cup {None}, spec : Spec0 \cup {None}, enabled : BOOLEAN,
     g : Groups \cup {None}, created : BOOLEAN, sess : 0..MaxSessions, sent : BOOLEAN]

Collected == [i : Instances, config : Configs, told : BOOLEAN, same : BOOLEAN]

TypeOK ==
    /\ rec \in [Instances -> Record \cup {None}]
    /\ procs \in [Key -> Groups \cup {None}]
    /\ retiring \in [Groups -> Instances \cup {None}]
    /\ life \in [Groups -> {"free", "launching", "restoring", "up", "off", "done"}]
    /\ key \in [Groups -> Key \cup {None}] /\ version \in [Groups -> Versions \cup {None}]
    /\ cancelled \in [Groups -> BOOLEAN] /\ session \in [Groups -> 0..MaxSessions]
    /\ applied \in [Groups -> [Instances -> Configs \cup {Unset}]]
    /\ replay \in [Groups -> SUBSET Collected]
    /\ op \in Operation
    /\ probing \subseteq [i : Instances, g : Groups]
    /\ file \in [Instances -> [spec : Spec0, enabled : BOOLEAN] \cup {None}]
    /\ phase \in {"idle", "apply", "retire", "load", "closed"}
    /\ todo \subseteq Instances /\ absent \subseteq Instances
    /\ acked \in [Instances -> {None, "enabled", "stopped"}]
    /\ applies \in Nat /\ faults \in Nat

(* manager.go:357, manager.go:1043: while the session an enabled instance   *)
(* was configured over is the one of its group, the process holds its       *)
(* configuration, whatever was refused, rolled back or replayed in *)
(* between. Only an empty configuration may never have been sent.           *)
ConfiguredIsHeld ==
    \A i \in Instances :
        LET g == GroupOf(i) IN
        (/\ op.i # i /\ g # None /\ rec[i].enabled
         /\ rec[i].session # 0 /\ rec[i].session = session[g] /\ rec[i].config # Empty)
            => applied[g][i] = rec[i].config

(* manager.go:386: a process runs the installation its instances name; a    *)
(* key that survives an upgrade does not keep the old supervisor.           *)
BoundToVersion ==
    \A i \in Instances :
        GroupOf(i) # None /\ rec[i].enabled => version[GroupOf(i)] = rec[i].version

(* manager.go:540: a running process that serves no enabled instance is     *)
(* owned by somebody who stops it: a pending retirement, the operation that *)
(* launched it, or a cancelled context.                                     *)
NoOrphan ==
    \A g \in Groups :
        Running(g) => \/ \E i \in Instances : rec[i] # None /\ rec[i].enabled /\ GroupOf(i) = g
                      \/ retiring[g] # None \/ op.g = g \/ cancelled[g]

(* applier.go:154: an instance that was reported disabled or was retired    *)
(* has no process of its own left.                                          *)
StoppedIsStopped ==
    \A i \in Instances :
        acked[i] = "stopped" /\ op.i # i => \A g \in Groups : key[g] = i => ~Running(g)

-----------------------------------------------------------------------------
(* What the proofs carry from step to step.                                 *)

(* An operation serves an instance the running call has still to come to,   *)
(* and carries what its stage needs.                                        *)
OpOK ==
    /\ op.pc = "idle" => op = Idle
    /\ op.pc # "idle" => /\ op.i \in todo /\ op.spec \in Spec0
                         /\ phase \in {"apply", "retire", "load"}
    /\ op.pc \in Placing => op.g \in Groups /\ op.enabled
    /\ op.pc \in {"settle", "choose"} => op.g = None
    /\ op.pc \in {"settle", "choose", "wait"} => op.sess = 0 /\ ~op.sent
    /\ op.pc \in {"settle", "choose"} => ~op.created
    /\ op.pc \in {"configure", "check", "publish"} \/ op.sent => op.sess # 0
    /\ phase \in {"load", "retire"} => \A i \in todo : file[i] # None
    /\ op.pc # "idle" => (phase = "load" => op.enabled) /\ (phase = "retire" => ~op.enabled)

(* A free group is nobody's; a group that is waited for was cancelled; a    *)
(* session is published as long as the group is up.                         *)
GroupsOK ==
    /\ \A g \in Groups :
          /\ life[g] = "free" => ~cancelled[g] /\ retiring[g] = None
          /\ life[g] = "done" => retiring[g] # None
          /\ retiring[g] # None => cancelled[g]
          /\ session[g] # 0 <=> life[g] = "up"
          /\ life[g] # "restoring" => replay[g] = {}
    /\ \A t \in probing : rec[t.i] # None

(* A bound group lives, has the key it is bound by and runs the version of  *)
(* the key, or of the instance it belongs to.                               *)
BoundOK ==
    \A k \in Key : procs[k] # None =>
        /\ key[procs[k]] = k /\ life[procs[k]] # "free" /\ ~cancelled[procs[k]]
        /\ k \in Versions => version[procs[k]] = k
        /\ k \in Instances =>
              rec[k] # None /\ rec[k].own /\ rec[k].version = version[procs[k]]

(* The group an operation places its instance in: bound already, or a new   *)
(* one nobody knows yet.                                                    *)
Creating(g) == op.pc \in Placing /\ op.created /\ op.g = g

PlacedOK ==
    op.pc \in Placing =>
        /\ key[op.g] = KeyOf(op.i, op.spec) /\ version[op.g] = op.spec.version
        /\ ~op.created => procs[KeyOf(op.i, op.spec)] = op.g
        /\ op.created => /\ life[op.g] # "free" /\ ~cancelled[op.g] /\ replay[op.g] = {}
                         /\ \A k \in Key : procs[k] # op.g
                         /\ \A i \in Instances : rec[i] # None /\ rec[i].session # 0 =>
                               rec[i].session # session[op.g]

(* What runs is used, or about to be, or stops.                             *)
Served(g) == \E i \in Instances : rec[i] # None /\ rec[i].enabled /\ GroupOf(i) = g

ServedOK == \A g \in Groups : Running(g) => Served(g) \/ cancelled[g] \/ Creating(g)

(* The process of an instance's own is bound to it, owned by its operation, *)
(* or about to be bound; with the Host closed all of them stop.             *)
OwnOK ==
    \A g \in Groups : Running(g) /\ key[g] \in Instances /\ phase # "closed" =>
        procs[key[g]] = g \/ retiring[g] = key[g] \/ Creating(g)

Still(i) == \A g \in Groups : key[g] = i => ~Running(g)

(* Who was reported stopped is stopped, and its turn is over.               *)
StopOK ==
    /\ op.pc \in {"retire", "ok"} /\ ~op.enabled => procs[op.i] = None
    /\ op.pc = "ok" /\ ~op.enabled => Still(op.i)
    /\ phase = "apply" => absent \cap todo = {}
    /\ phase = "retire" => todo \subseteq absent
    /\ \A i \in Instances : acked[i] # None =>
          /\ phase \in {"apply", "retire", "idle"}
          /\ phase = "apply" => i \notin todo \cup absent
          /\ phase = "retire" => i \notin todo
          /\ acked[i] = "stopped" => Still(i)

(* A session names one process, of which the operation knows one.           *)
SessionsOK ==
    /\ \A g, h \in Groups : session[g] # 0 /\ session[g] = session[h] => g = h
    /\ op.sess # 0 => \A g \in Groups : session[g] = op.sess => g = op.g

(* What is replayed is what the record still says, once for each instance.  *)
ReplayOK ==
    \A g \in Groups :
        /\ \A t, u \in replay[g] : t.i = u.i => t = u
        /\ \A t \in replay[g] : t.same => rec[t.i] # None /\ t.config = rec[t.i].config

(* A process holds the configuration of each instance that was configured   *)
(* over its session, but for the one that is being configured.              *)
Offering(i, g) ==
    /\ op.sent /\ op.pc \in {"check", "publish", "rollback"}
    /\ op.i = i /\ op.g = g /\ session[g] = op.sess

HeldOK ==
    /\ \A i \in Instances, g \in Groups :
          /\ rec[i] # None /\ rec[i].session # 0 /\ rec[i].session = session[g]
          /\ rec[i].config # Empty /\ ~Offering(i, g)
          => applied[g][i] = rec[i].config
    /\ /\ op.pc \in {"check", "publish"} /\ session[op.g] = op.sess
       /\ op.spec.config # Empty
       => applied[op.g][op.i] = op.spec.config

ManagerOK == GroupsOK /\ BoundOK /\ PlacedOK /\ SessionsOK /\ ReplayOK /\ HeldOK
=============================================================================
