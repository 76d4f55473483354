--------------------------- MODULE PluginManager ---------------------------
(***************************************************************************)
(* pluginhost.Manager: records of plugin instances, the process groups     *)
(* that serve them (one per installed version, or one per instance), and   *)
(* the operations that bind one to the other. A group is a Supervisor, of  *)
(* which only what the Manager sees is kept: whether its session is        *)
(* published, that it was disabled, that it crashed, that its Run returned *)
(* (module PluginSupervisor has the rest).                                 *)
(*                                                                         *)
(* Interleavings kept: ops makes the operations serial, but the groups     *)
(* crash, relaunch and restore the configuration of their instances        *)
(* between any two steps of one, and a probe looks at its targets long     *)
(* before it judges them.                                                  *)
(*                                                                         *)
(* Data abstracted: a session is a number; of configRevision only whether  *)
(* the instance was ever configured.                                       *)
(***************************************************************************)
EXTENDS Naturals

CONSTANTS
    Instances,      \* tenant and id of an instance
    Versions,       \* installed versions of plugins
    Configs,        \* configurations, Empty among them
    Empty,
    Groups,         \* process groups that may exist at the same time
    None,
    MaxSessions     \* sessions that can be told apart at the same time

ASSUME ManagerAssumption ==
    /\ Empty \in Configs /\ MaxSessions \in Nat
    /\ None \notin Instances \cup Versions \cup Configs \cup Groups
    /\ Instances \cap Versions = {}
    /\ None \notin [version : Versions, config : Configs, own : BOOLEAN, enabled : BOOLEAN,
                    session : 0..MaxSessions, told : BOOLEAN]

VARIABLES
    rec,        \* Manager.instances
    procs,      \* Manager.procs
    retiring,   \* Manager.retiring: the instance that waits for the group
    life,       \* of a group: free, launching, restoring, up, off, done
    key,        \* procGroup.key
    version,    \* the installation its supervisor launches
    cancelled,  \* procGroup.ctx is done
    session,    \* procSession
    applied,    \* the configuration its process holds for each instance
    replay,     \* what restoreInstanceSessions collected
    op,         \* the operation that holds ops
    probing     \* what probeOnce collected

groupVars   == <<life, key, version, cancelled, session, applied, replay>>
managerVars == <<rec, procs, retiring, op, probing, groupVars>>

Key  == Instances \cup Versions
Unset == None

Spec0 == [version : Versions, config : Configs, own : BOOLEAN]
Record ==
    [version : Versions, config : Configs, own : BOOLEAN, enabled : BOOLEAN,
     session : 0..MaxSessions, told : BOOLEAN]

(* procKeyFor.                                                              *)
KeyOf(i, s) == IF s.own THEN i ELSE s.version

(* A record that is not configured yet.                                     *)
Fresh(s, enabled, told) ==
    [version |-> s.version, config |-> s.config, own |-> s.own, enabled |-> enabled,
     session |-> 0, told |-> told]

(* sameInstance.                                                            *)
Same(r, s) == r.version = s.version /\ r.config = s.config /\ r.own = s.own

GroupOf(i) == IF rec[i] = None THEN None ELSE procs[KeyOf(i, rec[i])]

(* Mutant: a group counts as used by every record bound to it, stopped or    *)
(* not.                                                                     *)
InUseByAny(g, records, bound) ==
    \E i \in Instances : records[i] # None /\ bound[KeyOf(i, records[i])] = g

(* groupInUseLocked, for the given records and bindings.                    *)
InUse(g, records, bound) ==
    \E i \in Instances :
        records[i] # None /\ records[i].enabled /\ bound[KeyOf(i, records[i])] = g

(* unusedProcGroupLocked: the group to stop, and the bindings without it.   *)
Unused(g, records, bound) == g # None /\ ~InUse(g, records, bound)
Unbound(g, bound) == [bound EXCEPT ![key[g]] = IF @ = g THEN None ELSE @]

Running(g) == life[g] \in {"launching", "restoring", "up"}

Idle == [pc |-> "idle", i |-> None, spec |-> None, enabled |-> FALSE, g |-> None,
         created |-> FALSE, sess |-> 0, sent |-> FALSE]

ManagerInit ==
    /\ rec = [i \in Instances |-> None] /\ procs = [k \in Key |-> None]
    /\ retiring = [g \in Groups |-> None] /\ life = [g \in Groups |-> "free"]
    /\ key = [g \in Groups |-> None] /\ version = [g \in Groups |-> None]
    /\ cancelled = [g \in Groups |-> FALSE]
    /\ session = [g \in Groups |-> 0]
    /\ applied = [g \in Groups |-> [i \in Instances |-> Unset]]
    /\ replay = [g \in Groups |-> {}]
    /\ op = Idle /\ probing = {}

-----------------------------------------------------------------------------
(* Process groups                                                           *)

Lost(g) == [applied EXCEPT ![g] = [i \in Instances |-> Unset]]

(* newProcGroupLocked and launchProcGroup.                                  *)
NewGroup(g, k, v) ==
    /\ life[g] = "free"
    /\ life' = [life EXCEPT ![g] = "launching"]
    /\ key' = [key EXCEPT ![g] = k] /\ version' = [version EXCEPT ![g] = v]
    /\ UNCHANGED <<cancelled, session, applied, replay>>

(* restoreInstanceSessions collects the enabled instances bound to the      *)
(* group that were configured before. It must not take ops.                 *)
Restored(g) ==
    {i \in Instances : /\ rec[i] # None /\ rec[i].enabled /\ GroupOf(i) = g
                       /\ rec[i].session # 0 \/ rec[i].told}

Authenticated(g) ==
    /\ life[g] = "launching" /\ ~cancelled[g]
    /\ life' = [life EXCEPT ![g] = "restoring"]
    /\ replay' = [replay EXCEPT ![g] = 
            {[i |-> i, config |-> rec[i].config, told |-> rec[i].told, same |-> TRUE] :
               i \in Restored(g)}]
    /\ UNCHANGED <<rec, procs, retiring, op, probing, key, version, cancelled,
                   session, applied>>

(* An instance that never was configured waits for its upper layer.         *)
Sends(t) == t.told \/ t.config # Empty

(* The record of an instance is another one: who collected it will see that.*)
Replaced(i) ==
    /\ replay' = [g \in Groups |->
          {IF t.i = i THEN [t EXCEPT !.same = FALSE] ELSE t : t \in replay[g]}]
    /\ probing' = {t \in probing : t.i # i}

(* A session nobody refers to any more.                                     *)
NewSession ==
    {n \in 1..MaxSessions :
       /\ \A g \in Groups : session[g] # n
       /\ \A i \in Instances : rec[i] # None => rec[i].session # n
       /\ op.sess # n}

(* Each is configured, then those whose record is still the one collected   *)
(* are marked; the session is published after that.                         *)
Publish(g) ==
    /\ life[g] = "restoring" /\ NewSession # {}
    /\ life' = [life EXCEPT ![g] = "up"]
    /\ session' = [session EXCEPT ![g] = CHOOSE n \in NewSession : TRUE]
    /\ applied' = [applied EXCEPT ![g] = [i \in Instances |->
            IF \E t \in replay[g] : t.i = i /\ Sends(t)
              THEN (CHOOSE t \in replay[g] : t.i = i).config ELSE Unset]]
    /\ rec' = [i \in Instances |->
            IF /\ \E t \in replay[g] : t.i = i /\ t.same
               /\ rec[i] # None /\ rec[i].enabled /\ GroupOf(i) = g
              THEN [rec[i] EXCEPT !.session = session'[g], !.told = @ \/ rec[i].config # Empty]
              ELSE rec[i]]
    /\ replay' = [replay EXCEPT ![g] = {}]
    /\ UNCHANGED <<procs, retiring, op, probing, key, version, cancelled>>

(* A crash, a failed restoration among them; the budget may be exhausted.   *)
Crash(g) ==
    /\ Running(g)
    /\ \E l \in {"launching", "off"} : life' = [life EXCEPT ![g] = l]
    /\ session' = [session EXCEPT ![g] = 0]
    /\ applied' = Lost(g) /\ replay' = [replay EXCEPT ![g] = {}]
    /\ UNCHANGED <<rec, procs, retiring, op, probing, key, version, cancelled>>

(* Run returns; a group nobody waits for is forgotten.                      *)
Finish(g) ==
    /\ cancelled[g] /\ life[g] \notin {"free", "done"}
    /\ life' = [life EXCEPT ![g] = IF retiring[g] = None THEN "free" ELSE "done"]
    /\ cancelled' = [cancelled EXCEPT ![g] = retiring[g] # None]
    /\ session' = [session EXCEPT ![g] = 0]
    /\ applied' = Lost(g) /\ replay' = [replay EXCEPT ![g] = {}]
    /\ UNCHANGED <<rec, procs, retiring, op, probing, key, version>>

-----------------------------------------------------------------------------
(* ReconcileInstance                                                        *)

(* retireProcGroups: the groups are cancelled and owned by the instance     *)
(* until they returned.                                                     *)
Retire(i, gs) ==
    /\ retiring' = [g \in Groups |-> IF g \in gs THEN i ELSE retiring[g]]
    /\ cancelled' = [g \in Groups |-> cancelled[g] \/ g \in gs]

Reconcile(i, s, enabled) ==
    /\ op.pc = "idle"
    /\ op' = [Idle EXCEPT !.pc = "settle", !.i = i, !.spec = s, !.enabled = enabled]
    /\ UNCHANGED <<rec, procs, retiring, probing, groupVars>>

Pending == {g \in Groups : retiring[g] = op.i}

(* Mutant: a group that does not stop in time is given up.                  *)
SettleAnyway(from, to) ==
    /\ op.pc = from
    /\ op' = [op EXCEPT !.pc = to]
    /\ retiring' = [g \in Groups |-> IF g \in Pending THEN None ELSE retiring[g]]
    /\ UNCHANGED <<rec, procs, probing, groupVars>>

(* stopProcGroup for each pending group: those that returned are released,  *)
(* a timeout fails the operation and leaves the others pending.             *)
Settle(from, to) ==
    /\ op.pc = from
    /\ LET returned == {g \in Pending : life[g] = "done"} IN
         /\ op' = [op EXCEPT !.pc = IF returned = Pending THEN to ELSE "failed"]
         /\ retiring' = [g \in Groups |-> IF g \in returned THEN None ELSE retiring[g]]
         /\ life' = [g \in Groups |-> IF g \in returned THEN "free" ELSE life[g]]
         /\ cancelled' = [g \in Groups |-> cancelled[g] /\ g \notin returned]
    /\ UNCHANGED <<rec, procs, probing, key, version, session, applied, replay>>

(* Not enabled: the definition is kept, the group goes unless it is shared. *)
Deactivate ==
    /\ op.pc = "choose" /\ ~op.enabled
    /\ rec' = IF rec[op.i] = None THEN rec
              ELSE [rec EXCEPT ![op.i] = Fresh(op.spec, FALSE, FALSE)]
    /\ LET g == GroupOf(op.i) IN
         IF Unused(g, rec', procs)
           THEN procs' = Unbound(g, procs) /\ Retire(op.i, {g})
           ELSE UNCHANGED <<procs, retiring, cancelled>>
    /\ IF rec[op.i] = None THEN UNCHANGED <<replay, probing>> ELSE Replaced(op.i)
    /\ op' = [op EXCEPT !.pc = "retire"]
    /\ UNCHANGED <<life, key, version, session, applied>>

(* Mutant: the installation of the group is not compared.                   *)
BoundByKey ==
    LET g == procs[KeyOf(op.i, op.spec)] IN
    IF g = None \/ (life[g] = "off" /\ ~InUse(g, rec, procs)) THEN None ELSE g

(* The group of the definition's key, unless it runs another installation   *)
(* or is an unused disabled one.                                            *)
Bound ==
    LET g == procs[KeyOf(op.i, op.spec)] IN
    IF \/ g = None
       \/ op.spec.own /\ rec[op.i] # None /\ rec[op.i].version # op.spec.version
       \/ life[g] = "off" /\ ~InUse(g, rec, procs)
      THEN None ELSE g

Unchanged(g) ==
    /\ g # None /\ rec[op.i] # None
    /\ rec[op.i].enabled /\ Same(rec[op.i], op.spec)
    /\ rec[op.i].session # 0 /\ rec[op.i].session = session[g]

Choose ==
    /\ op.pc = "choose" /\ op.enabled
    /\ \/ /\ Unchanged(Bound)
          /\ op' = [op EXCEPT !.pc = "ok"]
          /\ UNCHANGED groupVars
       \/ /\ ~Unchanged(Bound) /\ Bound # None
          /\ op' = [op EXCEPT !.pc = "wait", !.g = Bound]
          /\ UNCHANGED groupVars
       \/ /\ Bound = None
          /\ \E g \in Groups :
               /\ NewGroup(g, KeyOf(op.i, op.spec), op.spec.version)
               /\ op' = [op EXCEPT !.pc = "wait", !.g = g, !.created = TRUE]
    /\ UNCHANGED <<rec, procs, retiring, probing>>

(* waitProcSession and initializeInstanceSession.                           *)
Wait ==
    /\ op.pc = "wait"
    /\ \/ /\ life[op.g] = "up"
          /\ op' = [op EXCEPT !.pc = "configure", !.sess = session[op.g]]
       \/ op' = [op EXCEPT !.pc = "rollback"]
    /\ UNCHANGED <<rec, procs, retiring, probing, groupVars>>

PreviousConfig == IF rec[op.i] = None THEN Empty ELSE rec[op.i].config
PreviousTold   == rec[op.i] # None /\ rec[op.i].told
PreviousHere   == rec[op.i] # None /\ rec[op.i].session = op.sess

NeedsConfig ==
    \/ op.spec.config # PreviousConfig
    \/ (op.spec.config # Empty \/ PreviousTold) /\ ~PreviousHere

(* configureInstance: the process of the session takes the configuration or *)
(* refuses it; an answer may be lost.                                       *)
Take(config) ==
    applied' = [applied EXCEPT ![op.g][op.i] = IF session[op.g] = op.sess THEN config ELSE @]

Configure ==
    /\ op.pc = "configure"
    /\ \/ /\ ~NeedsConfig /\ op' = [op EXCEPT !.pc = "check"]
          /\ UNCHANGED applied
       \/ /\ NeedsConfig /\ session[op.g] = op.sess
          /\ Take(op.spec.config)
          /\ op' = [op EXCEPT !.pc = "check", !.sent = TRUE]
       \/ /\ NeedsConfig
          /\ Take(op.spec.config) \/ UNCHANGED applied
          /\ op' = [op EXCEPT !.pc = "rollback", !.sent = TRUE]
    /\ UNCHANGED <<rec, procs, retiring, probing, life, key, version, cancelled,
                   session, replay>>

(* Health, the contexts, and the session once more.                         *)
Check ==
    /\ op.pc = "check"
    /\ \/ session[op.g] = op.sess /\ op' = [op EXCEPT !.pc = "publish"]
       \/ op' = [op EXCEPT !.pc = "rollback"]
    /\ UNCHANGED <<rec, procs, retiring, probing, groupVars>>

(* Mutant: a refused configuration is not taken back.                       *)
RollbackForgets ==
    /\ op.pc = "rollback"
    /\ IF op.created THEN Retire(op.i, {op.g}) /\ op' = [op EXCEPT !.pc = "abandon"]
                     ELSE UNCHANGED <<retiring, cancelled>> /\ op' = [op EXCEPT !.pc = "failed"]
    /\ UNCHANGED <<rec, procs, probing, life, key, version, session, applied, replay>>

(* The last configuration is sent again over the session it was sent on; if *)
(* that fails too, the record forgets that it is configured.                *)
Rollback ==
    /\ op.pc = "rollback"
    /\ LET restores == op.sent /\ ~op.created /\ PreviousHere IN
         \/ ~restores /\ UNCHANGED <<rec, applied>>
         \/ /\ restores /\ session[op.g] = op.sess
            /\ Take(rec[op.i].config)
            /\ rec' = [rec EXCEPT ![op.i].told = TRUE]
         \/ /\ restores
            /\ Take(rec[op.i].config) \/ UNCHANGED applied
            /\ rec' = [rec EXCEPT ![op.i].told = TRUE, ![op.i].session = 0]
    /\ IF op.created THEN Retire(op.i, {op.g}) /\ op' = [op EXCEPT !.pc = "abandon"]
                     ELSE UNCHANGED <<retiring, cancelled>> /\ op' = [op EXCEPT !.pc = "failed"]
    /\ UNCHANGED <<procs, probing, life, key, version, session, replay>>

(* The record and its group are switched; groups without an instance go.    *)
Switch ==
    /\ op.pc = "publish"
    /\ LET k == KeyOf(op.i, op.spec)
           bound == [procs EXCEPT ![k] = op.g]
           records == [rec EXCEPT ![op.i] =
                          [Fresh(op.spec, TRUE, PreviousTold \/ op.sent) EXCEPT !.session = op.sess]]
           gone == {g \in {GroupOf(op.i), procs[k]} : Unused(g, records, bound)} IN
         /\ rec' = records
         /\ procs' = [x \in Key |-> IF bound[x] \in gone THEN None ELSE bound[x]]
         /\ Retire(op.i, gone)
    /\ Replaced(op.i)
    /\ op' = [op EXCEPT !.pc = "retire"]
    /\ UNCHANGED <<life, key, version, session, applied>>

ReconcileStep ==
    \/ Settle("settle", "choose") \/ Deactivate \/ Choose \/ Wait \/ Configure \/ Check
    \/ Rollback \/ Switch \/ Settle("abandon", "failed") \/ Settle("retire", "ok")

-----------------------------------------------------------------------------
(* The other operations, each within ops                                    *)

(* RegisterInstallation changes nothing else; CreateInstance.               *)
CreateInstance(i, s) ==
    /\ op.pc = "idle" /\ rec[i] = None
    /\ rec' = [rec EXCEPT ![i] = Fresh(s, FALSE, FALSE)]
    /\ UNCHANGED <<procs, retiring, op, probing, groupVars>>

(* enableInstance: a new group is bound and launched, a bound one enabled.  *)
EnableInstance(i) ==
    /\ op.pc = "idle" /\ rec[i] # None /\ ~rec[i].enabled
    /\ rec' = [rec EXCEPT ![i].enabled = TRUE]
    /\ IF GroupOf(i) = None
         THEN \E g \in Groups :
                /\ NewGroup(g, KeyOf(i, rec[i]), rec[i].version)
                /\ procs' = [procs EXCEPT ![KeyOf(i, rec[i])] = g]
         ELSE /\ life' = [life EXCEPT ![GroupOf(i)] = IF @ = "off" THEN "launching" ELSE @]
              /\ UNCHANGED <<procs, key, version, cancelled, session, applied, replay>>
    /\ UNCHANGED <<retiring, op, probing>>

(* disableRecordLocked, then Supervisor.Disable for the last user.          *)
SwitchOff(i) ==
    /\ rec' = [rec EXCEPT ![i].enabled = FALSE]
    /\ LET g == GroupOf(i) IN
       IF g # None /\ \A j \in Instances \ {i} :
                         rec[j] # None /\ rec[j].enabled => KeyOf(j, rec[j]) # KeyOf(i, rec[i])
         THEN /\ life' = [life EXCEPT ![g] = "off"]
              /\ session' = [session EXCEPT ![g] = 0]
              /\ applied' = Lost(g) /\ replay' = [replay EXCEPT ![g] = {}]
         ELSE UNCHANGED <<life, session, applied, replay>>
    /\ UNCHANGED <<procs, retiring, op, key, version, cancelled>>

DisableInstance(i) ==
    /\ op.pc = "idle" /\ rec[i] # None /\ rec[i].enabled
    /\ SwitchOff(i) /\ UNCHANGED probing

(* Remove waits for the group no longer than ShutdownTimeout and forgets it.*)
RemoveRecord(i) ==
    /\ rec' = [rec EXCEPT ![i] = None]
    /\ LET g == GroupOf(i) IN
       IF g # None /\ (rec[i].own \/ ~InUse(g, rec', procs))
         THEN /\ procs' = [procs EXCEPT ![KeyOf(i, rec[i])] = None]
              /\ cancelled' = [cancelled EXCEPT ![g] = TRUE]
         ELSE UNCHANGED <<procs, cancelled>>
    /\ Replaced(i)
    /\ UNCHANGED <<retiring, life, key, version, session, applied>>

(* probeOnce: the targets, then a verdict on each if it is still the same;  *)
(* the threshold restarts the group or disables the instance.               *)
CollectProbes ==
    /\ probing = {}
    /\ probing' = {[i |-> i, g |-> GroupOf(i)] :
                     i \in {j \in Instances : /\ rec[j] # None /\ rec[j].enabled
                                              /\ GroupOf(j) # None /\ life[GroupOf(j)] = "up"}}
    /\ UNCHANGED <<rec, procs, retiring, op, groupVars>>

Current(t) == rec[t.i].enabled /\ GroupOf(t.i) = t.g

Judge(t) ==
    /\ op.pc = "idle" /\ t \in probing
    /\ probing' = probing \ {t}
    /\ \/ UNCHANGED <<rec, procs, retiring, op, groupVars>>
       \/ Current(t) /\ SwitchOff(t.i)
       \/ /\ Current(t) /\ life[t.g] = "up"     \* HealthPolicyRestart
          /\ life' = [life EXCEPT ![t.g] = "launching"]
          /\ session' = [session EXCEPT ![t.g] = 0]
          /\ applied' = Lost(t.g)
          /\ UNCHANGED <<rec, procs, retiring, op, key, version, cancelled, replay>>

GroupStep == \E g \in Groups : Authenticated(g) \/ Publish(g) \/ Finish(g)
=============================================================================
