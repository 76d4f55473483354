------------------------ MODULE InstanceHost_proofs ------------------------
(***************************************************************************)
(* Theorems about InstanceHost and the PluginManager below it, for every   *)
(* set of instances, versions, configurations and process groups, and      *)
(* every bound.                                                            *)
(***************************************************************************)
EXTENDS InstanceHost, PluginSupervisor, TLAPS

-----------------------------------------------------------------------------
(* Values *)

(* The key a definition or a record is bound by.                            *)
LEMMA Keys ==
    ASSUME NEW i \in Instances, NEW s, s \in Spec0 \/ s \in Record
    PROVE  /\ KeyOf(i, s) \in Key /\ KeyOf(i, s) # None
           /\ s.own => KeyOf(i, s) = i
           /\ ~s.own => KeyOf(i, s) = s.version
           /\ s.own \in BOOLEAN /\ s.version \in Versions /\ s.config \in Configs
BY ManagerAssumption DEF KeyOf, Key, Spec0, Record

(* A record before anything was configured.                                 *)
LEMMA FreshType ==
    ASSUME NEW s \in Spec0, NEW e \in BOOLEAN, NEW t \in BOOLEAN
    PROVE  /\ Fresh(s, e, t) \in Record
           /\ \A n \in 0..MaxSessions : [Fresh(s, e, t) EXCEPT !.session = n] \in Record
BY ManagerAssumption DEF Fresh, Record, Spec0

(* An entry of a state file.                                                *)
LEMMA EntryType ==
    \A s \in Spec0 : \A e \in BOOLEAN :
        Entry(s, e) \in [spec : Spec0, enabled : BOOLEAN] /\ Entry(s, e) # None
<1> SUFFICES ASSUME NEW s \in Spec0, NEW e \in BOOLEAN
             PROVE  Entry(s, e) \in [spec : Spec0, enabled : BOOLEAN] /\ Entry(s, e) # None
  OBVIOUS
<1>1. Entry(s, e) \in [spec : Spec0, enabled : BOOLEAN]
  BY DEF Entry
<1>2. None \notin [spec : Spec0, enabled : BOOLEAN]
  BY HostAssumption
<1> QED
  BY <1>1, <1>2

(* A record that was configured over a session.                             *)
LEMMA RecordMarked ==
    ASSUME NEW r \in Record, NEW n \in 0..MaxSessions, NEW b \in BOOLEAN
    PROVE  [r EXCEPT !.session = n, !.told = b] \in Record
BY DEF Record

(* None is none of the values it stands beside.                             *)
LEMMA NoneApart ==
    /\ None \notin Instances /\ None \notin Groups /\ None \notin Key /\ None \notin Record
    /\ Idle \in Operation
    /\ \A s \in Spec0 : Entry(s, TRUE) # None /\ Entry(s, FALSE) # None
    /\ \A k \in Key : k \in Instances <=> k \notin Versions
<1>1. None \notin Record
  BY ManagerAssumption DEF Record
<1>2. Idle \in Operation
  BY ManagerAssumption DEF Idle, Operation, Stages
<1>3. \A s \in Spec0 : Entry(s, TRUE) # None /\ Entry(s, FALSE) # None
  BY EntryType
<1> QED
  BY <1>1, <1>2, <1>3, ManagerAssumption DEF Key

-----------------------------------------------------------------------------
(* Typing *)

LEMMA TypeInit == Init => TypeOK
<1> SUFFICES ASSUME Init PROVE TypeOK
  OBVIOUS
<1>1. file \in [Instances -> [spec : Spec0, enabled : BOOLEAN] \cup {None}]
  <2>1. \A s \in Existing : Entry(s, TRUE) \in [spec : Spec0, enabled : BOOLEAN]
    BY EntryType, HostAssumption
  <2>2. {Entry(s, TRUE) : s \in Existing} \subseteq [spec : Spec0, enabled : BOOLEAN]
    BY <2>1
  <2>3. file \in [Instances -> {None} \cup {Entry(s, TRUE) : s \in Existing}]
    BY DEF Init
  <2> QED
    BY <2>2, <2>3
<1>2. /\ op \in Operation /\ todo \subseteq Instances
      /\ session \in [Groups -> 0..MaxSessions]
  BY NoneApart, ManagerAssumption DEF Init, ManagerInit, Enabled
<1> QED
  BY <1>1, <1>2 DEF Init, ManagerInit, TypeOK, Unset, Key

(* An operation that moves on keeps its fields.                             *)
LEMMA OpMoves ==
    ASSUME TypeOK, NEW to \in Stages
    PROVE  [op EXCEPT !.pc = to] \in Operation
BY DEF TypeOK, Operation

LEMMA RetireType ==
    ASSUME TypeOK, NEW i \in Instances, NEW gs, Retire(i, gs)
    PROVE  /\ retiring' \in [Groups -> Instances \cup {None}]
           /\ cancelled' \in [Groups -> BOOLEAN]
BY DEF TypeOK, Retire

LEMMA ReplacedType ==
    ASSUME TypeOK, NEW i \in Instances, Replaced(i)
    PROVE  /\ replay' \in [Groups -> SUBSET Collected]
           /\ probing' \subseteq [i : Instances, g : Groups]
<1>1. \A t \in Collected : [t EXCEPT !.same = FALSE] \in Collected
  BY DEF Collected
<1> QED
  BY <1>1 DEF TypeOK, Replaced

(* A step that leaves the Manager alone, but for the operation it ends.     *)
LEMMA ManagerSame ==
    ASSUME TypeOK, UNCHANGED <<rec, procs, retiring, life, key, version, cancelled, session,
                               applied, replay>>,
           op' \in Operation, probing' \subseteq [i : Instances, g : Groups],
           file' \in [Instances -> [spec : Spec0, enabled : BOOLEAN] \cup {None}],
           phase' \in {"idle", "apply", "retire", "load", "closed"},
           todo' \subseteq Instances, absent' \subseteq Instances,
           acked' \in [Instances -> {None, "enabled", "stopped"}],
           applies' \in Nat, faults' \in Nat
    PROVE  TypeOK'
BY DEF TypeOK, Key

LEMMA TypeGroups ==
    ASSUME TypeOK, UNCHANGED <<procs, hostVars>>, faults' \in Nat,
           NEW g \in Groups, Authenticated(g) \/ Publish(g) \/ Finish(g) \/ Crash(g)
    PROVE  TypeOK'
<1> USE DEF hostVars
<1>1. CASE Authenticated(g)
  <2>1. \A i \in Restored(g) :
          [i |-> i, config |-> rec[i].config, told |-> rec[i].told, same |-> TRUE] \in Collected
    BY DEF Restored, TypeOK, Record, Collected
  <2>2. replay' \in [Groups -> SUBSET Collected]
    BY <1>1, <2>1 DEF Authenticated, TypeOK
  <2> QED
    BY <1>1, <2>2 DEF Authenticated, TypeOK, Key
<1>2. CASE Publish(g)
  <2>1. session' \in [Groups -> 0..MaxSessions] /\ session'[g] \in 0..MaxSessions
    <3>1. (CHOOSE n \in NewSession : TRUE) \in NewSession
      BY <1>2 DEF Publish
    <3>2. NewSession \subseteq 0..MaxSessions
      BY ManagerAssumption DEF NewSession
    <3> QED
      BY <1>2, <3>1, <3>2 DEF Publish, TypeOK
  <2>2. rec' \in [Instances -> Record \cup {None}]
    <3>1. \A i \in Instances : rec[i] # None =>
            [rec[i] EXCEPT !.session = session'[g], !.told = @ \/ rec[i].config # Empty] \in Record
      BY <2>1, RecordMarked DEF TypeOK
    <3> QED
      BY <1>2, <3>1 DEF Publish, TypeOK
  <2>3. applied' \in [Groups -> [Instances -> Configs \cup {Unset}]]
    <3>1. \A i \in Instances : (\E t \in replay[g] : t.i = i /\ Sends(t)) =>
            (CHOOSE t \in replay[g] : t.i = i).config \in Configs
      <4> SUFFICES ASSUME NEW i \in Instances, \E t \in replay[g] : t.i = i
                   PROVE  (CHOOSE t \in replay[g] : t.i = i).config \in Configs
        OBVIOUS
      <4>1. (CHOOSE t \in replay[g] : t.i = i) \in replay[g]
        OBVIOUS
      <4> QED
        BY <4>1 DEF TypeOK, Collected
    <3> QED
      BY <1>2, <3>1 DEF Publish, TypeOK
  <2> QED
    BY <1>2, <2>1, <2>2, <2>3 DEF Publish, TypeOK, Key
<1>3. CASE Finish(g)
  BY <1>3, ManagerAssumption DEF Finish, Lost, TypeOK, Key
<1>4. CASE Crash(g)
  BY <1>4, ManagerAssumption DEF Crash, Lost, TypeOK, Key
<1> QED
  BY <1>1, <1>2, <1>3, <1>4

(* What a process is given, or its answer lost.                             *)
LEMMA TakeType ==
    ASSUME TypeOK, NEW c \in Configs, Take(c) \/ UNCHANGED applied
    PROVE  applied' \in [Groups -> [Instances -> Configs \cup {Unset}]]
<1>1. CASE Take(c)
  <2>1. \A g \in Groups : applied'[g] \in [Instances -> Configs \cup {Unset}]
    BY <1>1 DEF Take, TypeOK
  <2> QED
    BY <1>1, <2>1 DEF Take, TypeOK
<1> QED
  BY <1>1 DEF TypeOK

LEMMA TypeReconcile ==
    ASSUME TypeOK, OpOK, UNCHANGED hostVars, faults' = faults, ReconcileStep
    PROVE  TypeOK'
<1> USE DEF hostVars
<1>1. op \in Operation /\ op.pc \in Stages /\ (op.pc # "idle" => op.i \in Instances /\ op.spec \in Spec0)
  BY DEF TypeOK, OpOK, Operation
<1>2. op.pc \in Placing => op.g \in Groups
  BY DEF OpOK
<1>3. \A to \in Stages : [op EXCEPT !.pc = to] \in Operation
  BY OpMoves
<1>4. /\ {"settle", "choose", "retire", "abandon", "ok", "failed"} \cup Placing \subseteq Stages
      /\ "wait" \in Placing /\ "configure" \in Placing /\ "check" \in Placing
      /\ "publish" \in Placing /\ "rollback" \in Placing
  BY DEF Stages, Placing
<1>5. ASSUME NEW from, NEW to \in Stages, Settle(from, to) PROVE TypeOK'
  <2>1. op' \in Operation
    BY <1>3, <1>4, <1>5 DEF Settle
  <2>2. life' \in [Groups -> {"free", "launching", "restoring", "up", "off", "done"}]
    BY <1>5 DEF Settle, TypeOK
  <2>3. retiring' \in [Groups -> Instances \cup {None}] /\ cancelled' \in [Groups -> BOOLEAN]
    BY <1>5 DEF Settle, TypeOK
  <2> QED
    BY <1>5, <2>1, <2>2, <2>3 DEF Settle, TypeOK, Key
<1>6. CASE Deactivate
  <2>1. op' \in Operation
    BY <1>3, <1>4, <1>6 DEF Deactivate
  <2>2. rec' \in [Instances -> Record \cup {None}]
    BY <1>1, <1>6, FreshType DEF Deactivate, TypeOK
  <2>3. procs' \in [Key -> Groups \cup {None}]
    BY <1>6 DEF Deactivate, Unbound, TypeOK
  <2>4. retiring' \in [Groups -> Instances \cup {None}] /\ cancelled' \in [Groups -> BOOLEAN]
    BY <1>1, <1>6, RetireType DEF Deactivate, TypeOK
  <2>5. replay' \in [Groups -> SUBSET Collected] /\ probing' \subseteq [i : Instances, g : Groups]
    BY <1>1, <1>6, ReplacedType DEF Deactivate, TypeOK
  <2> QED
    BY <1>6, <2>1, <2>2, <2>3, <2>4, <2>5 DEF Deactivate, TypeOK, Key
<1>7. CASE Choose
  <2>1. op' \in Operation
    <3>1. Bound \in Groups \cup {None}
      BY <1>1, <1>7, Keys DEF Choose, Bound, TypeOK
    <3>2. \A g \in Groups : [op EXCEPT !.pc = "wait", !.g = g] \in Operation
                           /\ [op EXCEPT !.pc = "wait", !.g = g, !.created = TRUE] \in Operation
      BY <1>1, <1>4 DEF Operation
    <3> QED
      BY <1>3, <1>4, <1>7, <3>1, <3>2 DEF Choose
  <2>2. CASE UNCHANGED groupVars
    BY <1>7, <2>1, <2>2 DEF Choose, groupVars, TypeOK, Key
  <2>3. ASSUME NEW g \in Groups, NewGroup(g, KeyOf(op.i, op.spec), op.spec.version)
        PROVE  TypeOK'
    <3>1. KeyOf(op.i, op.spec) \in Key /\ op.spec.version \in Versions
      BY <1>1, <1>7, Keys DEF Choose
    <3> QED
      BY <1>7, <2>1, <2>3, <3>1 DEF Choose, NewGroup, TypeOK, Key
  <2> QED
    BY <1>7, <2>2, <2>3 DEF Choose
<1>8. CASE Wait
  <2>1. \A n \in 0..MaxSessions : [op EXCEPT !.pc = "configure", !.sess = n] \in Operation
    BY <1>1, <1>4 DEF Operation
  <2>2. op' \in Operation
    <3>1. session[op.g] \in 0..MaxSessions
      BY <1>2, <1>4, <1>8 DEF Wait, TypeOK
    <3> QED
      BY <1>3, <1>4, <1>8, <2>1, <3>1 DEF Wait
  <2> QED
    BY <1>8, <2>2 DEF Wait, groupVars, TypeOK, Key
<1>9. CASE Configure
  <2>1. /\ [op EXCEPT !.pc = "check", !.sent = TRUE] \in Operation
        /\ [op EXCEPT !.pc = "rollback", !.sent = TRUE] \in Operation
    BY <1>1, <1>4 DEF Operation
  <2>2. op' \in Operation
    BY <1>3, <1>4, <1>9, <2>1 DEF Configure
  <2>3. applied' \in [Groups -> [Instances -> Configs \cup {Unset}]]
    <3>1. op.spec.config \in Configs
      BY <1>1, <1>9, Keys DEF Configure
    <3>2. Take(op.spec.config) \/ UNCHANGED applied
      BY <1>9 DEF Configure
    <3> QED
      BY <3>1, <3>2, TakeType
  <2> QED
    BY <1>9, <2>2, <2>3 DEF Configure, TypeOK, Key
<1>10. CASE Check
  <2>1. op' \in Operation
    BY <1>3, <1>4, <1>10 DEF Check
  <2> QED
    BY <1>10, <2>1 DEF Check, groupVars, TypeOK, Key
<1>11. CASE Rollback
  <2>1. op' \in Operation
    BY <1>3, <1>4, <1>11 DEF Rollback
  <2>2. retiring' \in [Groups -> Instances \cup {None}] /\ cancelled' \in [Groups -> BOOLEAN]
    BY <1>1, <1>11, RetireType DEF Rollback, TypeOK
  <2>3. rec' \in [Instances -> Record \cup {None}]
        /\ applied' \in [Groups -> [Instances -> Configs \cup {Unset}]]
    <3>1. CASE UNCHANGED <<rec, applied>>
      BY <3>1 DEF TypeOK
    <3>2. CASE /\ PreviousHere
               /\ Take(rec[op.i].config) \/ UNCHANGED applied
               /\ \/ rec' = [rec EXCEPT ![op.i].told = TRUE]
                  \/ rec' = [rec EXCEPT ![op.i].told = TRUE, ![op.i].session = 0]
      <4>1. rec[op.i] \in Record /\ op.i \in Instances
        BY <1>1, <1>11, <3>2 DEF PreviousHere, TypeOK, Rollback
      <4>2. /\ [rec[op.i] EXCEPT !.told = TRUE] \in Record
            /\ [rec[op.i] EXCEPT !.told = TRUE, !.session = 0] \in Record
            /\ rec[op.i].config \in Configs
        <5>1. 0 \in 0..MaxSessions
          BY ManagerAssumption
        <5> QED
          BY <4>1, <5>1 DEF Record
      <4>3. rec' \in [Instances -> Record \cup {None}]
        BY <3>2, <4>1, <4>2 DEF TypeOK
      <4>4. applied' \in [Groups -> [Instances -> Configs \cup {Unset}]]
        BY <3>2, <4>2, TakeType
      <4> QED
        BY <4>3, <4>4
    <3> QED
      BY <1>11, <3>1, <3>2 DEF Rollback
  <2> QED
    BY <1>11, <2>1, <2>2, <2>3 DEF Rollback, TypeOK, Key
<1>12. CASE Switch
  <2>1. op' \in Operation
    BY <1>3, <1>4, <1>12 DEF Switch
  <2>2. op.i \in Instances /\ op.spec \in Spec0 /\ op.g \in Groups /\ op.sess \in 0..MaxSessions
        /\ op.sent \in BOOLEAN
    BY <1>1, <1>2, <1>4, <1>12 DEF Switch, Operation
  <2>3. rec' \in [Instances -> Record \cup {None}]
    <3>1. (PreviousTold \/ op.sent) \in BOOLEAN
      OBVIOUS
    <3>2. [Fresh(op.spec, TRUE, PreviousTold \/ op.sent) EXCEPT !.session = op.sess] \in Record
      BY <2>2, <3>1, FreshType
    <3> QED
      BY <1>12, <3>2 DEF Switch, TypeOK
  <2>4. procs' \in [Key -> Groups \cup {None}]
    BY <1>12, <2>2 DEF Switch, TypeOK
  <2>5. retiring' \in [Groups -> Instances \cup {None}] /\ cancelled' \in [Groups -> BOOLEAN]
    BY <1>12, <2>2, RetireType DEF Switch
  <2>6. replay' \in [Groups -> SUBSET Collected] /\ probing' \subseteq [i : Instances, g : Groups]
    BY <1>12, <2>2, ReplacedType DEF Switch
  <2> QED
    BY <1>12, <2>1, <2>3, <2>4, <2>5, <2>6 DEF Switch, TypeOK, Key
<1> QED
  BY <1>4, <1>5, <1>6, <1>7, <1>8, <1>9, <1>10, <1>11, <1>12 DEF ReconcileStep

(* Turning an instance off.                                                 *)
LEMMA TypeSwitchOff ==
    ASSUME TypeOK, NEW i \in Instances, rec[i] # None, SwitchOff(i)
    PROVE  /\ rec' \in [Instances -> Record \cup {None}]
           /\ life' \in [Groups -> {"free", "launching", "restoring", "up", "off", "done"}]
           /\ session' \in [Groups -> 0..MaxSessions]
           /\ applied' \in [Groups -> [Instances -> Configs \cup {Unset}]]
           /\ replay' \in [Groups -> SUBSET Collected]
           /\ UNCHANGED <<procs, retiring, op, key, version, cancelled>>
<1>1. rec[i] \in Record
  BY DEF TypeOK
<1>2. [rec[i] EXCEPT !.enabled = FALSE] \in Record
  BY <1>1 DEF Record
<1>3. rec' \in [Instances -> Record \cup {None}]
  BY <1>2 DEF SwitchOff, TypeOK
<1>4. CASE UNCHANGED <<life, session, applied, replay>>
  BY <1>3, <1>4 DEF SwitchOff, TypeOK
<1>5. CASE \E g \in Groups :
              /\ life' = [life EXCEPT ![g] = "off"] /\ session' = [session EXCEPT ![g] = 0]
              /\ applied' = Lost(g) /\ replay' = [replay EXCEPT ![g] = {}]
  <2>1. 0 \in 0..MaxSessions
    BY ManagerAssumption
  <2> QED
    BY <1>3, <1>5, <2>1 DEF SwitchOff, Lost, TypeOK
<1>6. GroupOf(i) \in Groups \cup {None}
  BY <1>1, Keys DEF GroupOf, TypeOK
<1> QED
  BY <1>4, <1>5, <1>6 DEF SwitchOff

(* The operations of others on the Manager.                                 *)
LEMMA TypeDirect ==
    ASSUME TypeOK, GroupsOK, Direct, faults' \in Nat
    PROVE  TypeOK'
<1>1. /\ UNCHANGED <<file, todo, phase, absent, applies>>
      /\ acked' \in [Instances -> {None, "enabled", "stopped"}]
  BY DEF Direct
<1>2. ASSUME NEW i \in Instances, NEW s \in Definitions, CreateInstance(i, s) PROVE TypeOK'
  <2>1. Fresh(s, FALSE, FALSE) \in Record
    BY FreshType, HostAssumption
  <2> QED
    BY <1>1, <1>2, <2>1 DEF CreateInstance, groupVars, TypeOK, Key
<1>3. ASSUME NEW i \in Instances, EnableInstance(i) PROVE TypeOK'
  <2>1. /\ rec[i] \in Record /\ [rec[i] EXCEPT !.enabled = TRUE] \in Record
        /\ KeyOf(i, rec[i]) \in Key /\ rec[i].version \in Versions
    <3>1. rec[i] \in Record
      BY <1>3 DEF EnableInstance, TypeOK
    <3> QED
      BY <3>1, Keys DEF Record
  <2>2. rec' \in [Instances -> Record \cup {None}] /\ UNCHANGED <<retiring, op, probing>>
    BY <1>3, <2>1 DEF EnableInstance, TypeOK
  <2>3. CASE GroupOf(i) = None
    <3>1. PICK g \in Groups : /\ NewGroup(g, KeyOf(i, rec[i]), rec[i].version)
                              /\ procs' = [procs EXCEPT ![KeyOf(i, rec[i])] = g]
      BY <1>3, <2>3 DEF EnableInstance
    <3>2. procs' \in [Key -> Groups \cup {None}]
      BY <3>1 DEF TypeOK
    <3> QED
      BY <1>1, <2>1, <2>2, <3>1, <3>2 DEF NewGroup, TypeOK, Key
  <2>4. CASE GroupOf(i) # None
    <3>1. /\ life' = [life EXCEPT ![GroupOf(i)] = IF @ = "off" THEN "launching" ELSE @]
          /\ UNCHANGED <<procs, key, version, cancelled, session, applied, replay>>
      BY <1>3, <2>4 DEF EnableInstance
    <3>2. life' \in [Groups -> {"free", "launching", "restoring", "up", "off", "done"}]
      BY <3>1 DEF TypeOK
    <3> QED
      BY <1>1, <2>2, <3>1, <3>2 DEF TypeOK, Key
  <2> QED
    BY <2>3, <2>4
<1>4. ASSUME NEW i \in Instances, DisableInstance(i) PROVE TypeOK'
  BY <1>1, <1>4, TypeSwitchOff DEF DisableInstance, TypeOK, Key
<1>5. ASSUME NEW t \in probing, Judge(t) PROVE TypeOK'
  <2>1. /\ t.i \in Instances /\ t.g \in Groups /\ rec[t.i] # None
        /\ probing' \subseteq [i : Instances, g : Groups]
    BY <1>5 DEF TypeOK, GroupsOK, Judge
  <2>2. CASE UNCHANGED <<rec, procs, retiring, op, groupVars>>
    BY <1>1, <2>1, <2>2 DEF groupVars, TypeOK, Key
  <2>3. CASE SwitchOff(t.i)
    BY <1>1, <2>1, <2>3, TypeSwitchOff DEF TypeOK, Key
  <2>4. CASE /\ life' = [life EXCEPT ![t.g] = "launching"]
             /\ session' = [session EXCEPT ![t.g] = 0]
             /\ applied' = Lost(t.g)
             /\ UNCHANGED <<rec, procs, retiring, op, key, version, cancelled, replay>>
    BY <1>1, <2>1, <2>4, ManagerAssumption DEF Lost, TypeOK, Key
  <2> QED
    BY <1>5, <2>2, <2>3, <2>4 DEF Judge
<1> QED
  BY <1>2, <1>3, <1>4, <1>5 DEF Direct

(* The calls of the Host, loading and restarting.                           *)
LEMMA TypeHost ==
    ASSUME TypeOK, OpOK, GroupsOK, faults' \in Nat,
           HostStep \/ Applied(FALSE) \/ Retired(FALSE) \/ Restart
    PROVE  TypeOK'
<1> USE DEF managerVars, groupVars, hostVars
<1>1. /\ Idle \in Operation /\ op \in Operation /\ (op.pc # "idle" => op.i \in Instances /\ op.spec \in Spec0)
      /\ applies \in Nat /\ applies + 1 \in Nat /\ op.enabled \in BOOLEAN
  BY NoneApart DEF TypeOK, OpOK, Operation
<1>2. ASSUME NEW i \in Instances, Begin(i) PROVE TypeOK'
  <2>1. ASSUME NEW s \in Spec0, NEW e \in BOOLEAN, Reconcile(i, s, e) PROVE TypeOK'
    <3>1. op' \in Operation
      BY <1>1, <2>1 DEF Reconcile, Operation, Stages
    <3> QED
      BY <1>2, <2>1, <3>1 DEF Begin, Reconcile, TypeOK, Key
  <2>2. CASE phase = "apply"
    <3>1. \A e \in Entries : e.spec \in Spec0 /\ e.enabled \in BOOLEAN
      BY HostAssumption DEF Entries, Entry
    <3> QED
      BY <1>2, <2>1, <2>2, <3>1 DEF Begin
  <2>3. CASE phase = "retire" \/ phase = "load"
    <3>1. file[i] # None /\ file[i].spec \in Spec0
      BY <1>2, <2>3 DEF Begin, OpOK, TypeOK
    <3> QED
      BY <1>2, <2>1, <2>3, <3>1 DEF Begin
  <2> QED
    BY <1>2, <2>2, <2>3 DEF Begin
<1>3. ASSUME NEW i \in Instances, Skip(i) PROVE TypeOK'
  BY <1>3, ManagerSame DEF Skip, TypeOK
<1>4. CASE Apply \/ RetireAbsent \/ End
  BY <1>1, <1>4, ManagerSame DEF Apply, RetireAbsent, End, TypeOK
<1>5. ASSUME NEW w \in BOOLEAN, Applied(w) PROVE TypeOK'
  <2>1. op.i \in Instances /\ Entry(op.spec, op.enabled) \in [spec : Spec0, enabled : BOOLEAN]
    BY <1>1, <1>5, EntryType DEF Applied
  <2>2. /\ file' \in [Instances -> [spec : Spec0, enabled : BOOLEAN] \cup {None}]
        /\ acked' \in [Instances -> {None, "enabled", "stopped"}]
    BY <1>5, <2>1 DEF Applied, Saves, TypeOK
  <2> QED
    BY <1>1, <1>5, <2>2, ManagerSame DEF Applied, Release, TypeOK
<1>6. CASE Refused \/ RetireFails
  BY <1>1, <1>6, ManagerSame DEF Refused, RetireFails, Release, TypeOK
<1>7. ASSUME NEW w \in BOOLEAN, Retired(w) PROVE TypeOK'
  <2>1. op.i \in Instances /\ op' = Idle
    BY <1>1, <1>7 DEF Retired
  <2>2. /\ file' \in [Instances -> [spec : Spec0, enabled : BOOLEAN] \cup {None}]
        /\ acked' \in [Instances -> {None, "enabled", "stopped"}]
        /\ todo' \subseteq Instances
    BY <1>7, <2>1 DEF Retired, Saves, TypeOK
  <2>3. RemoveRecord(op.i)
    BY <1>7 DEF Retired
  <2>4. replay' \in [Groups -> SUBSET Collected] /\ probing' \subseteq [i : Instances, g : Groups]
    BY <2>1, <2>3, ReplacedType DEF RemoveRecord
  <2>5. /\ rec' \in [Instances -> Record \cup {None}]
        /\ procs' \in [Key -> Groups \cup {None}] /\ cancelled' \in [Groups -> BOOLEAN]
    BY <2>1, <2>3 DEF RemoveRecord, TypeOK
  <2>6. UNCHANGED <<retiring, life, key, version, session, applied, phase, absent, applies>>
    BY <1>7, <2>3 DEF RemoveRecord, Retired
  <2> QED
    BY <1>1, <2>1, <2>2, <2>4, <2>5, <2>6 DEF TypeOK, Key
<1>8. CASE Loaded
  <2>1. CASE op.pc = "failed"
    <3>1. /\ procs' = [k \in Key |-> None] /\ retiring' = [g \in Groups |-> None]
          /\ cancelled' = [g \in Groups |-> life[g] \notin {"free", "done"}]
          /\ life' = [g \in Groups |-> IF life[g] = "done" THEN "free" ELSE life[g]]
          /\ op' = Idle /\ phase' = "closed"
          /\ UNCHANGED <<rec, probing, key, version, session, applied, replay, todo, file, absent,
                         acked, applies>>
      BY <1>8, <2>1 DEF Loaded
    <3>2. cancelled' \in [Groups -> BOOLEAN]
      BY <3>1
    <3>3. life' \in [Groups -> {"free", "launching", "restoring", "up", "off", "done"}]
      BY <3>1 DEF TypeOK
    <3> QED
      BY <1>1, <3>1, <3>2, <3>3 DEF TypeOK, Key
  <2>2. CASE op.pc # "failed"
    <3>1. op' \in Operation /\ UNCHANGED <<rec, procs, retiring, probing, groupVars, file, absent,
                                           acked, applies>>
      BY <1>1, <1>8, <2>2 DEF Loaded, Release
    <3>2. phase' \in {"load", "idle"} /\ todo' \subseteq Instances
      BY <1>8, <2>2 DEF Loaded, TypeOK
    <3> QED
      BY <3>1, <3>2, ManagerSame DEF TypeOK
  <2> QED
    BY <2>1, <2>2
<1>9. CASE Probe
  <2>1. probing' \subseteq [i : Instances, g : Groups]
    <3>1. \A i \in Instances : rec[i] # None /\ GroupOf(i) # None => GroupOf(i) \in Groups
      BY Keys DEF TypeOK, GroupOf
    <3> QED
      BY <1>9, <3>1 DEF Probe, CollectProbes
  <2> QED
    BY <1>9, <2>1 DEF Probe, CollectProbes, TypeOK, Key
<1>10. CASE Restart
  <2>1. session' \in [Groups -> 0..MaxSessions] /\ todo' \subseteq Instances
    BY <1>10, ManagerAssumption DEF Restart, Enabled
  <2> QED
    BY <1>1, <1>10, <2>1 DEF Restart, TypeOK, Key, Unset
<1> QED
  BY <1>2, <1>3, <1>4, <1>5, <1>6, <1>7, <1>8, <1>9, <1>10 DEF HostStep

LEMMA TypeStep == TypeOK /\ OpOK /\ GroupsOK /\ [Next]_vars => TypeOK'
<1> SUFFICES ASSUME TypeOK, OpOK, GroupsOK, [Next]_vars PROVE TypeOK'
  OBVIOUS
<1>1. faults \in Nat /\ faults + 1 \in Nat
  BY DEF TypeOK
<1>2. CASE UNCHANGED vars
  BY <1>2, ManagerSame DEF vars, managerVars, groupVars, hostVars, TypeOK
<1>3. CASE HostStep /\ UNCHANGED faults
  BY <1>1, <1>3, TypeHost
<1>4. CASE (GroupStep \/ ReconcileStep) /\ UNCHANGED <<hostVars, faults>>
  <2>1. CASE ReconcileStep
    BY <1>4, <2>1, TypeReconcile
  <2>2. CASE GroupStep
    <3>1. PICK g \in Groups : Authenticated(g) \/ Publish(g) \/ Finish(g)
      BY <2>2 DEF GroupStep
    <3> QED
      BY <1>1, <1>4, <3>1, TypeGroups DEF Authenticated, Publish, Finish
  <2> QED
    BY <1>4, <2>1, <2>2
<1>5. CASE faults' = faults + 1 /\ Fault
  <2>1. CASE (\E g \in Groups : Crash(g)) /\ UNCHANGED hostVars
    BY <1>1, <1>5, <2>1, TypeGroups DEF Crash
  <2>2. CASE Direct
    BY <1>1, <1>5, <2>2, TypeDirect
  <2>3. CASE Applied(FALSE) \/ Retired(FALSE) \/ Restart
    BY <1>1, <1>5, <2>3, TypeHost
  <2> QED
    BY <1>5, <2>1, <2>2, <2>3 DEF Fault
<1> QED
  BY <1>2, <1>3, <1>4, <1>5 DEF Next

-----------------------------------------------------------------------------
(* The steps, as the Manager sees them *)

Starts == op.pc = "idle" /\ \E i \in Instances, s \in Spec0, e \in BOOLEAN : Reconcile(i, s, e)

Ends == op.pc \in {"ok", "failed"} /\ Release

Looks == /\ UNCHANGED <<rec, procs, retiring, op, groupVars>>
         /\ \A t \in probing' : rec[t.i] # None

GroupMoves(g) == Authenticated(g) \/ Publish(g) \/ Finish(g) \/ Crash(g)

Creates(i, s) == op.pc = "idle" /\ CreateInstance(i, s)

Disables(i) ==
    /\ op.pc = "idle" /\ rec[i] # None /\ rec[i].enabled
    /\ SwitchOff(i) /\ probing' \subseteq probing

Restarts(g) ==
    /\ op.pc = "idle" /\ life[g] = "up"
    /\ life' = [life EXCEPT ![g] = "launching"] /\ session' = [session EXCEPT ![g] = 0]
    /\ applied' = Lost(g) /\ probing' \subseteq probing
    /\ UNCHANGED <<rec, procs, retiring, op, key, version, cancelled, replay>>

Removes ==
    /\ op.pc = "ok" /\ phase = "retire" /\ op.i \in Instances
    /\ RemoveRecord(op.i) /\ op' = Idle

Closes ==
    /\ op.pc = "failed" /\ phase' = "closed"
    /\ procs' = [k \in Key |-> None] /\ retiring' = [g \in Groups |-> None]
    /\ cancelled' = [g \in Groups |-> life[g] \notin {"free", "done"}]
    /\ life' = [g \in Groups |-> IF life[g] = "done" THEN "free" ELSE life[g]]
    /\ op' = Idle
    /\ UNCHANGED <<rec, probing, key, version, session, applied, replay>>

(* What a step of the Host does to the Manager.                             *)
LEMMA Steps ==
    ASSUME TypeOK, OpOK, GroupsOK, [Next]_vars
    PROVE  \/ Looks \/ Starts \/ Ends \/ ReconcileStep
           \/ \E g \in Groups : GroupMoves(g) \/ Restarts(g)
           \/ \E i \in Instances, s \in Spec0 : Creates(i, s)
           \/ \E i \in Instances : EnableInstance(i) \/ Disables(i)
           \/ Removes \/ Closes \/ Restart
<1>1. \A t \in probing : t.i \in Instances /\ t.g \in Groups /\ rec[t.i] # None
  BY DEF TypeOK, GroupsOK
<1>2. op.pc # "idle" => op.i \in Instances
  BY DEF OpOK, TypeOK
<1>3. ASSUME NEW i \in Instances, Begin(i) PROVE Starts
  <2>1. \A e \in Entries : e.spec \in Spec0 /\ e.enabled \in BOOLEAN
    BY HostAssumption DEF Entries, Entry
  <2>2. phase \in {"retire", "load"} => file[i].spec \in Spec0
    BY <1>3 DEF Begin, OpOK, TypeOK
  <2> QED
    BY <1>3, <2>1, <2>2 DEF Begin, Starts, Reconcile
<1>4. ASSUME UNCHANGED managerVars PROVE Looks
  BY <1>1, <1>4 DEF Looks, managerVars
<1>5. CASE \/ UNCHANGED vars \/ Apply \/ RetireAbsent \/ End \/ \E i \in Instances : Skip(i)
  BY <1>4, <1>5 DEF vars, Apply, RetireAbsent, End, Skip
<1>6. CASE Probe
  <2>1. UNCHANGED <<rec, procs, retiring, op, groupVars>>
    BY <1>6 DEF Probe, CollectProbes
  <2>2. \A t \in probing' : rec[t.i] # None
    BY <1>6 DEF Probe, CollectProbes
  <2> QED
    BY <2>1, <2>2 DEF Looks
<1>7. CASE Applied(TRUE) \/ Applied(FALSE) \/ Refused \/ RetireFails
  BY <1>7 DEF Applied, Refused, RetireFails, Ends
<1>8. CASE Retired(TRUE) \/ Retired(FALSE)
  BY <1>2, <1>8 DEF Retired, Removes
<1>9. CASE Loaded
  BY <1>4, <1>9 DEF Loaded, Ends, Closes
<1>10. CASE Direct
  <2>1. op.pc = "idle"
    BY <1>10 DEF Direct, OpOK
  <2>2. ASSUME NEW t \in probing, Judge(t)
        PROVE  Looks \/ Disables(t.i) \/ Restarts(t.g)
    <3>1. probing' \subseteq probing
      BY <2>2 DEF Judge
    <3>2. CASE UNCHANGED <<rec, procs, retiring, op, groupVars>>
      BY <1>1, <3>1, <3>2 DEF Looks
    <3>3. CASE Current(t) /\ SwitchOff(t.i)
      BY <1>1, <2>1, <3>1, <3>3 DEF Disables, Current
    <3>4. CASE /\ life[t.g] = "up" /\ life' = [life EXCEPT ![t.g] = "launching"]
               /\ session' = [session EXCEPT ![t.g] = 0] /\ applied' = Lost(t.g)
               /\ UNCHANGED <<rec, procs, retiring, op, key, version, cancelled, replay>>
      BY <2>1, <3>1, <3>4 DEF Restarts
    <3> QED
      BY <2>2, <3>2, <3>3, <3>4 DEF Judge
  <2>3. ASSUME NEW i \in Instances, DisableInstance(i) PROVE Disables(i)
    BY <2>3 DEF DisableInstance, Disables
  <2>4. Definitions \subseteq Spec0
    BY HostAssumption
  <2> QED
    BY <1>1, <1>10, <2>1, <2>2, <2>3, <2>4 DEF Direct, Creates
<1> QED
  BY <1>3, <1>5, <1>6, <1>7, <1>8, <1>9, <1>10
     DEF Next, HostStep, Fault, GroupStep, GroupMoves

-----------------------------------------------------------------------------
(* Initially *)

LEMMA EverythingInit ==
    Init => /\ OpOK /\ GroupsOK /\ BoundOK /\ PlacedOK /\ ServedOK /\ OwnOK
            /\ StopOK /\ SessionsOK /\ ReplayOK /\ HeldOK
<1> SUFFICES ASSUME Init
             PROVE  /\ OpOK /\ GroupsOK /\ BoundOK /\ PlacedOK /\ ServedOK /\ OwnOK
                    /\ StopOK /\ SessionsOK /\ ReplayOK /\ HeldOK
  OBVIOUS
<1> USE DEF Init, ManagerInit
<1>1. op = Idle /\ op.pc = "idle" /\ op.g = None /\ op.sess = 0 /\ ~op.sent /\ ~op.created
  BY DEF Idle
<1>2. op.pc \notin Placing
  BY <1>1 DEF Placing
<1>3. OpOK
  BY <1>1, <1>2 DEF OpOK, Enabled
<1>4. GroupsOK /\ BoundOK /\ PlacedOK
  BY <1>2 DEF GroupsOK, BoundOK, PlacedOK
<1>5. ServedOK /\ OwnOK /\ StopOK
  BY <1>1 DEF ServedOK, OwnOK, StopOK, Running
<1>6. SessionsOK /\ ReplayOK /\ HeldOK
  BY <1>1 DEF SessionsOK, ReplayOK, HeldOK
<1> QED
  BY <1>3, <1>4, <1>5, <1>6

-----------------------------------------------------------------------------
(* Operations *)

(* The stages of an operation.                                              *)
LEMMA OpReconcile ==
    ASSUME TypeOK, OpOK, GroupsOK, BoundOK, ReconcileStep, UNCHANGED hostVars
    PROVE  OpOK'
<1> USE DEF hostVars, Placing
<1>1. ASSUME NEW from \in Stages \ {"idle"}, NEW to \in {"choose", "failed", "ok"}, Settle(from, to),
             to = "choose" => from = "settle"
      PROVE  OpOK'
  BY <1>1 DEF Settle, OpOK, Idle, TypeOK, Operation
<1>2. CASE Deactivate
  BY <1>2 DEF Deactivate, OpOK, TypeOK, Operation
<1>3. CASE Choose
  <2>1. Bound # None => Bound \in Groups
    BY <1>3, Keys DEF Choose, Bound, TypeOK, OpOK
  <2>2. CASE op' = [op EXCEPT !.pc = "ok"]
    BY <1>3, <2>2 DEF Choose, OpOK, TypeOK, Operation
  <2>3. ASSUME NEW g \in Groups,
               \/ op' = [op EXCEPT !.pc = "wait", !.g = g]
               \/ op' = [op EXCEPT !.pc = "wait", !.g = g, !.created = TRUE]
        PROVE  OpOK'
    <3>1. /\ op'.pc = "wait" /\ op'.g = g /\ op'.i = op.i /\ op'.spec = op.spec
          /\ op'.enabled = op.enabled /\ op'.sess = op.sess /\ op'.sent = op.sent
      BY <2>3 DEF TypeOK, Operation
    <3> QED
      BY <1>3, <3>1 DEF Choose, OpOK
  <2> QED
    BY <1>3, <2>1, <2>2, <2>3 DEF Choose
<1>4. ASSUME op.pc \in Placing, op'.pc \in Placing \cup {"abandon", "failed", "retire"},
             op'.i = op.i, op'.spec = op.spec, op'.enabled = op.enabled, op'.g = op.g,
             op'.pc # "wait", op'.pc \in {"configure", "check", "publish"} \/ op'.sent => op'.sess # 0
      PROVE  OpOK'
  BY <1>4 DEF OpOK
<1>5. CASE Wait
  <2>1. life[op.g] = "up" => session[op.g] # 0
    BY <1>5 DEF Wait, OpOK, GroupsOK
  <2>2. /\ op'.i = op.i /\ op'.spec = op.spec /\ op'.enabled = op.enabled /\ op'.g = op.g
        /\ op'.sent = op.sent /\ op'.pc \in {"configure", "rollback"}
        /\ op'.pc = "configure" => op'.sess # 0
    BY <1>5, <2>1 DEF Wait, TypeOK, Operation
  <2>3. op.pc \in Placing /\ ~op.sent
    BY <1>5 DEF Wait, OpOK
  <2> QED
    BY <1>4, <2>2, <2>3
<1>6. CASE Configure \/ Check \/ Rollback \/ Switch
  <2>1. /\ op'.i = op.i /\ op'.spec = op.spec /\ op'.enabled = op.enabled /\ op'.g = op.g
        /\ op'.sess = op.sess
    <3>1. op \in Operation
      BY DEF TypeOK
    <3>2. CASE Configure
      BY <3>1, <3>2 DEF Configure, Operation
    <3>3. CASE Check \/ Switch
      BY <3>1, <3>3 DEF Check, Switch, Operation
    <3>4. CASE Rollback
      BY <3>1, <3>4 DEF Rollback, Operation
    <3> QED
      BY <1>6, <3>2, <3>3, <3>4
  <2>2. CASE Configure
    <3>1. op'.pc \in {"check", "rollback"} /\ op.pc = "configure"
      BY <2>2 DEF Configure, TypeOK, Operation
    <3>2. op.sess # 0
      BY <3>1 DEF OpOK
    <3> QED
      BY <1>4, <2>1, <3>1, <3>2
  <2>3. CASE Check
    <3>1. op'.pc \in {"publish", "rollback"} /\ op.pc = "check"
      BY <2>3 DEF Check, TypeOK, Operation
    <3>2. op.sess # 0
      BY <3>1 DEF OpOK
    <3> QED
      BY <1>4, <2>1, <3>1, <3>2
  <2>4. CASE Rollback
    <3>1. op'.pc \in {"abandon", "failed"} /\ op.pc = "rollback" /\ op'.sent = op.sent
      BY <2>4 DEF Rollback, TypeOK, Operation
    <3>2. op.sent => op.sess # 0
      BY DEF OpOK
    <3> QED
      BY <1>4, <2>1, <3>1, <3>2
  <2>5. CASE Switch
    <3>1. op'.pc = "retire" /\ op.pc = "publish"
      BY <2>5 DEF Switch, TypeOK, Operation
    <3>2. op.sess # 0
      BY <3>1 DEF OpOK
    <3> QED
      BY <1>4, <2>1, <3>1, <3>2
  <2> QED
    BY <1>6, <2>2, <2>3, <2>4, <2>5
<1> QED
  BY <1>1, <1>2, <1>3, <1>5, <1>6 DEF ReconcileStep, Stages

LEMMA OpStep ==
    ASSUME TypeOK, OpOK, GroupsOK, BoundOK, [Next]_vars
    PROVE  OpOK'
<1> USE DEF hostVars, managerVars
<1>1. Idle.pc = "idle" /\ Idle.pc \notin Placing /\ Idle.g = None /\ Idle.sess = 0
      /\ ~Idle.sent /\ ~Idle.created
  BY DEF Idle, Placing
<1>2. ASSUME op' = Idle, phase' \in {"load", "retire"} => \A i \in todo' : file'[i] # None
      PROVE  OpOK'
  BY <1>1, <1>2 DEF OpOK
<1>3. ASSUME UNCHANGED <<op, hostVars>> PROVE OpOK'
  BY <1>3 DEF OpOK
<1>4. ASSUME op.pc = "idle", UNCHANGED op, todo' = {} \/ phase' \notin {"load", "retire"}
                                           \/ \A i \in todo' : file'[i] # None
      PROVE  OpOK'
  BY <1>1, <1>4 DEF OpOK
<1>5. CASE UNCHANGED vars
  BY <1>3, <1>5 DEF vars
<1>6. ASSUME NEW i \in Instances, Begin(i) PROVE OpOK'
  <2>1. PICK s \in Spec0, e \in BOOLEAN :
          /\ Reconcile(i, s, e) /\ (phase = "load" => e) /\ (phase = "retire" => ~e)
    <3>1. \A e \in Entries : e.spec \in Spec0 /\ e.enabled \in BOOLEAN
      BY HostAssumption DEF Entries, Entry
    <3>2. phase \in {"retire", "load"} => file[i].spec \in Spec0
      BY <1>6 DEF Begin, OpOK, TypeOK
    <3> QED
      BY <1>6, <3>1, <3>2 DEF Begin
  <2>2. op' = [Idle EXCEPT !.pc = "settle", !.i = i, !.spec = s, !.enabled = e]
    BY <2>1 DEF Reconcile
  <2>3. i \in todo /\ phase \in {"apply", "retire", "load"} /\ UNCHANGED hostVars
    BY <1>6 DEF Begin
  <2> QED
    BY <2>1, <2>2, <2>3 DEF OpOK, Idle, Placing
<1>7. CASE \E i \in Instances : Skip(i)
  BY <1>4, <1>7 DEF Skip
<1>8. CASE Apply
  BY <1>4, <1>8 DEF Apply
<1>9. CASE RetireAbsent
  <2>1. op.pc = "idle"
    BY <1>9 DEF RetireAbsent, OpOK
  <2> QED
    BY <1>4, <1>9, <2>1 DEF RetireAbsent
<1>10. CASE End
  <2>1. op.pc = "idle"
    BY <1>10 DEF End, OpOK
  <2> QED
    BY <1>4, <1>10, <2>1 DEF End
<1>11. CASE Applied(TRUE) \/ Applied(FALSE) \/ Refused
  BY <1>2, <1>11 DEF Applied, Refused, Release
<1>12. CASE RetireFails
  BY <1>2, <1>12 DEF RetireFails, Release
<1>13. ASSUME NEW w \in BOOLEAN, Retired(w) PROVE OpOK'
  <2>1. \A i \in todo' : file'[i] # None
    BY <1>13 DEF Retired, Saves, OpOK, TypeOK
  <2> QED
    BY <1>2, <1>13, <2>1 DEF Retired
<1>14. CASE Loaded
  <2>1. CASE op.pc = "ok"
    BY <1>2, <1>14, <2>1 DEF Loaded, Release, OpOK
  <2>2. CASE op.pc = "idle"
    BY <1>4, <1>14, <2>2 DEF Loaded
  <2>3. CASE op.pc = "failed"
    BY <1>2, <1>14, <2>3 DEF Loaded
  <2> QED
    BY <1>14, <2>1, <2>2, <2>3 DEF Loaded
<1>15. CASE Probe
  BY <1>3, <1>15 DEF Probe, CollectProbes
<1>16. CASE Restart
  BY <1>2, <1>16 DEF Restart, Enabled
<1>17. CASE Direct
  <2>1. op.pc = "idle" /\ phase' = "idle"
    BY <1>17 DEF Direct, OpOK
  <2>2. UNCHANGED op
    BY <1>17 DEF Direct, CreateInstance, EnableInstance, DisableInstance, Judge, SwitchOff
  <2> QED
    BY <1>4, <2>1, <2>2
<1>18. CASE GroupStep /\ UNCHANGED hostVars
  BY <1>3, <1>18 DEF GroupStep, Authenticated, Publish, Finish
<1>19. CASE (\E g \in Groups : Crash(g)) /\ UNCHANGED hostVars
  BY <1>3, <1>19 DEF Crash
<1>20. CASE ReconcileStep /\ UNCHANGED hostVars
  BY <1>20, OpReconcile
<1> QED
  BY <1>5, <1>6, <1>7, <1>8, <1>9, <1>10, <1>11, <1>12, <1>13, <1>14, <1>15, <1>16, <1>17, <1>18,
     <1>19, <1>20 DEF Next, HostStep, Fault

-----------------------------------------------------------------------------
(* Bindings *)

(* The group an instance is bound to has the key of its record; that of an  *)
(* instance without a process of its own is free.                           *)
LEMMA Binds ==
    ASSUME TypeOK, BoundOK, NEW i \in Instances
    PROVE  /\ rec[i] # None => /\ rec[i] \in Record /\ KeyOf(i, rec[i]) \in Key
                               /\ GroupOf(i) = procs[KeyOf(i, rec[i])]
                               /\ rec[i].enabled \in BOOLEAN /\ rec[i].own \in BOOLEAN
           /\ GroupOf(i) # None => /\ rec[i] # None /\ GroupOf(i) \in Groups
                                   /\ key[GroupOf(i)] = KeyOf(i, rec[i])
                                   /\ life[GroupOf(i)] # "free" /\ ~cancelled[GroupOf(i)]
           /\ rec[i] = None \/ ~rec[i].own => procs[i] = None
           /\ rec[i] # None /\ rec[i].own => GroupOf(i) = procs[i] /\ KeyOf(i, rec[i]) = i
           /\ \A k \in Key : GroupOf(i) # None /\ procs[k] = GroupOf(i) => k = KeyOf(i, rec[i])
<1>1. rec[i] # None => /\ rec[i] \in Record /\ KeyOf(i, rec[i]) \in Key
                       /\ GroupOf(i) = procs[KeyOf(i, rec[i])]
                       /\ rec[i].enabled \in BOOLEAN /\ rec[i].own \in BOOLEAN
  <2> SUFFICES ASSUME rec[i] # None
               PROVE  /\ rec[i] \in Record /\ KeyOf(i, rec[i]) \in Key
                      /\ GroupOf(i) = procs[KeyOf(i, rec[i])]
                      /\ rec[i].enabled \in BOOLEAN /\ rec[i].own \in BOOLEAN
    OBVIOUS
  <2>1. rec[i] \in Record
    BY DEF TypeOK
  <2> QED
    BY <2>1, Keys DEF GroupOf, Record
<1>2. GroupOf(i) # None => rec[i] # None
  BY DEF GroupOf
<1>3. i \in Key /\ \A k \in Key : procs[k] \in Groups \cup {None}
  BY DEF Key, TypeOK
<1>4. rec[i] # None /\ rec[i].own => KeyOf(i, rec[i]) = i
  BY <1>1, Keys
<1> QED
  BY <1>1, <1>2, <1>3, <1>4 DEF BoundOK

(* A group of an instance's own serves no other.                            *)
LEMMA OwnGroup ==
    ASSUME TypeOK, BoundOK, NEW i \in Instances, NEW j \in Instances,
           procs[i] # None, rec[j] # None, procs[KeyOf(j, rec[j])] = procs[i]
    PROVE  j = i
<1>1. i \in Key /\ key[procs[i]] = i
  BY DEF BoundOK, Key
<1>2. KeyOf(j, rec[j]) = i
  BY <1>1, Binds DEF BoundOK
<1> QED
  BY <1>2, Binds, Keys, ManagerAssumption

-----------------------------------------------------------------------------
(* Process groups *)

(* Marking a record changes neither what it says nor what it is bound to.   *)
Says(r) == <<r.version, r.config, r.own, r.enabled>>

LEMMA Marks ==
    ASSUME TypeOK, OpOK, Rollback \/ \E g \in Groups : Publish(g)
    PROVE  /\ UNCHANGED procs
           /\ \A i \in Instances :
                /\ rec'[i] = None <=> rec[i] = None
                /\ rec[i] # None => /\ Says(rec'[i]) = Says(rec[i])
                                    /\ rec[i].version = rec'[i].version /\ rec[i].own = rec'[i].own
                                    /\ rec[i].config = rec'[i].config
                                    /\ rec[i].enabled = rec'[i].enabled
                                    /\ KeyOf(i, rec'[i]) = KeyOf(i, rec[i])
                /\ GroupOf(i)' = GroupOf(i)
<1> DEFINE Marked(r, q) == /\ q # None /\ Says(q) = Says(r)
<1>1. ASSUME NEW r \in Record, NEW n \in 0..MaxSessions, NEW b \in BOOLEAN
      PROVE  Marked(r, [r EXCEPT !.session = n, !.told = b])
  <2>1. [r EXCEPT !.session = n, !.told = b] \in Record /\ None \notin Record
    BY RecordMarked, NoneApart
  <2> QED
    BY <2>1 DEF Says, Record
<1>2. /\ UNCHANGED procs
      /\ \A i \in Instances : rec'[i] = rec[i] \/ (rec[i] # None /\ Marked(rec[i], rec'[i]))
  <2>1. ASSUME NEW g \in Groups, Publish(g)
        PROVE  /\ UNCHANGED procs
               /\ \A i \in Instances : rec'[i] = rec[i] \/ (rec[i] # None /\ Marked(rec[i], rec'[i]))
    <3> HIDE DEF Marked
    <3>1. session'[g] \in 0..MaxSessions
      <4>1. (CHOOSE n \in NewSession : TRUE) \in NewSession
        BY <2>1 DEF Publish
      <4>2. NewSession \subseteq 0..MaxSessions
        BY ManagerAssumption DEF NewSession
      <4> QED
        BY <2>1, <4>1, <4>2 DEF Publish, TypeOK
    <3>2. \A i \in Instances : rec[i] # None =>
            Marked(rec[i], [rec[i] EXCEPT !.session = session'[g], !.told = @ \/ rec[i].config # Empty])
      <4> TAKE i \in Instances
      <4> HAVE rec[i] # None
      <4>1. rec[i] \in Record
        BY DEF TypeOK
      <4>2. (rec[i].told \/ rec[i].config # Empty) \in BOOLEAN
        OBVIOUS
      <4> QED
        BY <1>1, <3>1, <4>1, <4>2
    <3>3. /\ UNCHANGED procs
          /\ \A i \in Instances : rec'[i] =
                IF /\ \E t \in replay[g] : t.i = i /\ t.same
                   /\ rec[i] # None /\ rec[i].enabled /\ GroupOf(i) = g
                  THEN [rec[i] EXCEPT !.session = session'[g], !.told = @ \/ rec[i].config # Empty]
                  ELSE rec[i]
      BY <2>1 DEF Publish
    <3> QED
      BY <3>2, <3>3
  <2>2. CASE Rollback
    <3> HIDE DEF Marked
    <3>1. /\ UNCHANGED procs
          /\ \/ UNCHANGED rec
             \/ /\ rec[op.i] # None
                /\ \/ rec' = [rec EXCEPT ![op.i].told = TRUE]
                   \/ rec' = [rec EXCEPT ![op.i].told = TRUE, ![op.i].session = 0]
      BY <2>2 DEF Rollback, PreviousHere
    <3>2. CASE rec[op.i] # None /\ op.i \in Instances
      <4>1. rec[op.i] \in Record
        BY <3>2 DEF TypeOK
      <4>2. 0 \in 0..MaxSessions
        BY ManagerAssumption
      <4>3. /\ Marked(rec[op.i], [rec[op.i] EXCEPT !.session = rec[op.i].session, !.told = TRUE])
            /\ Marked(rec[op.i], [rec[op.i] EXCEPT !.session = 0, !.told = TRUE])
        <5>1. rec[op.i].session \in 0..MaxSessions
          BY <4>1 DEF Record
        <5> QED
          BY <1>1, <4>1, <4>2, <5>1
      <4>4. /\ [rec[op.i] EXCEPT !.session = rec[op.i].session, !.told = TRUE]
                  = [rec[op.i] EXCEPT !.told = TRUE]
            /\ [rec[op.i] EXCEPT !.session = 0, !.told = TRUE]
                  = [rec[op.i] EXCEPT !.told = TRUE, !.session = 0]
        BY <4>1 DEF Record
      <4>5. \/ UNCHANGED rec
            \/ rec' = [rec EXCEPT ![op.i] = [rec[op.i] EXCEPT !.told = TRUE]]
            \/ rec' = [rec EXCEPT ![op.i] = [rec[op.i] EXCEPT !.told = TRUE, !.session = 0]]
        BY <3>1, <3>2 DEF TypeOK
      <4> QED
        BY <3>1, <3>2, <4>3, <4>4, <4>5 DEF TypeOK
    <3>3. op.i \in Instances
      BY <2>2 DEF Rollback, OpOK, TypeOK
    <3> QED
      BY <3>1, <3>2, <3>3
  <2> QED
    BY <2>1, <2>2
<1>3. ASSUME NEW i \in Instances
      PROVE  /\ rec'[i] = None <=> rec[i] = None
             /\ rec[i] # None => /\ Says(rec'[i]) = Says(rec[i])
                                 /\ rec[i].version = rec'[i].version /\ rec[i].own = rec'[i].own
                                 /\ rec[i].config = rec'[i].config
                                 /\ rec[i].enabled = rec'[i].enabled
                                 /\ KeyOf(i, rec'[i]) = KeyOf(i, rec[i])
  BY <1>2 DEF Says, KeyOf
<1> QED
  BY <1>2, <1>3 DEF GroupOf

(* Only a group that lives can be retired.                                  *)
LEMMA GroupsReconcile ==
    ASSUME TypeOK, OpOK, GroupsOK, BoundOK, PlacedOK, ReconcileStep
    PROVE  GroupsOK'
<1>1. op.pc # "idle" => op.i \in Instances /\ op.spec \in Spec0
  BY DEF OpOK, TypeOK
<1>2. ASSUME NEW gs \in SUBSET Groups, \A g \in gs : life[g] # "free", Retire(op.i, gs), op.pc # "idle",
             UNCHANGED <<life, session>>,
             \A g \in Groups : replay[g] = {} => replay'[g] = {},
             \A t \in probing' : rec'[t.i] # None
      PROVE  GroupsOK'
  <2>1. op.i # None
    BY <1>1, <1>2, NoneApart
  <2>2. \A g \in Groups : /\ retiring'[g] = IF g \in gs THEN op.i ELSE retiring[g]
                          /\ cancelled'[g] <=> cancelled[g] \/ g \in gs
                          /\ life'[g] = life[g] /\ session'[g] = session[g]
    BY <1>2 DEF Retire
  <2> QED
    BY <1>2, <2>1, <2>2 DEF GroupsOK
<1>3. ASSUME NEW from, NEW to, Settle(from, to) PROVE GroupsOK'
  <2>1. \A g \in Groups : replay'[g] = replay[g] /\ session'[g] = session[g]
    BY <1>3 DEF Settle
  <2>2. \A g \in Groups : \/ life[g] = "done" /\ life'[g] = "free" /\ ~cancelled'[g]
                                               /\ retiring'[g] = None
                          \/ /\ life'[g] = life[g] /\ cancelled'[g] = cancelled[g]
                             /\ retiring'[g] = retiring[g]
    BY <1>3 DEF Settle, TypeOK
  <2>3. \A t \in probing' : rec'[t.i] # None
    BY <1>3 DEF Settle, GroupsOK
  <2> QED
    BY <2>1, <2>2, <2>3 DEF GroupsOK
<1>4. CASE Deactivate
  <2>1. GroupOf(op.i) # None => GroupOf(op.i) \in Groups /\ life[GroupOf(op.i)] # "free"
    BY <1>1, <1>4, Binds DEF Deactivate
  <2>2. \A g \in Groups : replay[g] = {} => replay'[g] = {}
    BY <1>4 DEF Deactivate, Replaced
  <2>3. \A t \in probing' : rec'[t.i] # None
    <3>1. \A t \in probing : t.i \in Instances /\ rec[t.i] # None
      BY DEF GroupsOK, TypeOK
    <3>2. CASE rec[op.i] = None
      BY <1>4, <3>1, <3>2 DEF Deactivate
    <3>3. CASE rec[op.i] # None
      BY <1>4, <3>1, <3>3 DEF Deactivate, Replaced, TypeOK
    <3> QED
      BY <3>2, <3>3
  <2>4. CASE Retire(op.i, {GroupOf(op.i)}) /\ GroupOf(op.i) # None
    <3>1. {GroupOf(op.i)} \in SUBSET Groups /\ \A g \in {GroupOf(op.i)} : life[g] # "free"
      BY <2>1, <2>4
    <3>2. op.pc # "idle" /\ UNCHANGED <<life, session>>
      BY <1>4 DEF Deactivate
    <3> QED
      BY <1>2, <2>2, <2>3, <2>4, <3>1, <3>2
  <2>5. CASE UNCHANGED <<retiring, cancelled>>
    BY <1>4, <2>2, <2>3, <2>5 DEF Deactivate, GroupsOK
  <2> QED
    BY <1>4, <2>4, <2>5 DEF Deactivate, Unused
<1>5. CASE Choose
  <2>1. CASE UNCHANGED groupVars
    BY <1>5, <2>1 DEF Choose, groupVars, GroupsOK
  <2>2. ASSUME NEW g \in Groups, NewGroup(g, KeyOf(op.i, op.spec), op.spec.version)
        PROVE  GroupsOK'
    BY <1>5, <2>2 DEF Choose, NewGroup, GroupsOK, TypeOK
  <2> QED
    BY <1>5, <2>1, <2>2 DEF Choose
<1>6. CASE Wait \/ Configure \/ Check
  BY <1>6 DEF Wait, Configure, Check, groupVars, GroupsOK
<1>7. CASE Rollback
  <2>1. \A t \in probing' : rec'[t.i] # None
    <3>1. \A t \in probing : t.i \in Instances /\ rec[t.i] # None
      BY DEF TypeOK, GroupsOK
    <3> QED
      BY <1>7, <3>1, Marks DEF Rollback
  <2>2. op.created => op.g \in Groups /\ life[op.g] # "free"
    BY <1>7 DEF Rollback, OpOK, PlacedOK, Placing
  <2>3. CASE op.created
    BY <1>2, <1>7, <2>1, <2>2, <2>3 DEF Rollback
  <2>4. CASE ~op.created
    BY <1>7, <2>1, <2>4 DEF Rollback, GroupsOK
  <2> QED
    BY <2>3, <2>4
<1>8. CASE Switch
  <2>1. op.i \in Instances /\ op.spec \in Spec0 /\ KeyOf(op.i, op.spec) \in Key
    BY <1>1, <1>8, Keys DEF Switch
  <2>2. \A g \in {GroupOf(op.i), procs[KeyOf(op.i, op.spec)]} :
            g # None => g \in Groups /\ life[g] # "free"
    BY <2>1, Binds DEF BoundOK, TypeOK
  <2>3. PICK gs : Retire(op.i, gs) /\ \A g \in gs : /\ g \in {GroupOf(op.i), procs[KeyOf(op.i, op.spec)]}
                                                   /\ g # None
    BY <1>8 DEF Switch, Unused
  <2>4. \A g \in Groups : replay[g] = {} => replay'[g] = {}
    BY <1>8 DEF Switch, Replaced
  <2>5. \A t \in probing' : rec'[t.i] # None
    BY <1>8, <2>1 DEF Switch, Replaced, GroupsOK, TypeOK
  <2>6. gs \in SUBSET Groups
    BY <2>2, <2>3
  <2> QED
    BY <1>2, <1>8, <2>2, <2>3, <2>4, <2>5, <2>6 DEF Switch
<1> QED
  BY <1>3, <1>4, <1>5, <1>6, <1>7, <1>8 DEF ReconcileStep

LEMMA GroupsStep ==
    ASSUME TypeOK, OpOK, GroupsOK, BoundOK, PlacedOK, [Next]_vars
    PROVE  GroupsOK'
<1>1. ASSUME UNCHANGED <<retiring, life, cancelled, session, replay>>,
             \A t \in probing' : rec'[t.i] # None
      PROVE  GroupsOK'
  BY <1>1 DEF GroupsOK
<1>2. \A t \in probing : t.i \in Instances /\ rec[t.i] # None
  BY DEF TypeOK, GroupsOK
<1>3. CASE Looks \/ Starts \/ Ends
  BY <1>1, <1>2, <1>3 DEF Looks, Starts, Ends, Release, Reconcile, groupVars
<1>4. ASSUME NEW g \in Groups, GroupMoves(g) PROVE GroupsOK'
  <2>1. CASE Authenticated(g)
    BY <1>2, <1>4, <2>1 DEF Authenticated, GroupsOK, TypeOK
  <2>2. CASE Publish(g)
    <3>1. \A t \in probing' : rec'[t.i] # None
      BY <1>2, <2>2, Marks DEF Publish
    <3>2. session'[g] # 0
      <4>1. (CHOOSE n \in NewSession : TRUE) \in NewSession
        BY <2>2 DEF Publish
      <4>2. \A n \in NewSession : n # 0
        BY ManagerAssumption DEF NewSession
      <4> QED
        BY <2>2, <4>1, <4>2 DEF Publish, TypeOK
    <3> QED
      BY <2>2, <3>1, <3>2 DEF Publish, GroupsOK, TypeOK
  <2>3. CASE Finish(g)
    BY <1>2, <2>3 DEF Finish, GroupsOK, TypeOK
  <2>4. CASE Crash(g)
    BY <1>2, <2>4 DEF Crash, Running, GroupsOK, TypeOK
  <2> QED
    BY <1>4, <2>1, <2>2, <2>3, <2>4 DEF GroupMoves
<1>5. ASSUME NEW g \in Groups, Restarts(g) PROVE GroupsOK'
  BY <1>2, <1>5 DEF Restarts, GroupsOK, TypeOK
<1>6. ASSUME NEW i \in Instances, NEW s \in Spec0, Creates(i, s) PROVE GroupsOK'
  <2>1. Fresh(s, FALSE, FALSE) # None
    BY FreshType, NoneApart
  <2> QED
    BY <1>1, <1>2, <1>6, <2>1 DEF Creates, CreateInstance, groupVars, TypeOK
<1>7. ASSUME NEW i \in Instances, EnableInstance(i) \/ Disables(i) PROVE GroupsOK'
  <2>1. \A t \in probing' : rec'[t.i] # None
    <3>1. \A e \in BOOLEAN : [rec[i] EXCEPT !.enabled = e] # None
      <4>1. rec[i] \in Record
        BY <1>7 DEF EnableInstance, Disables, TypeOK
      <4>2. \A e \in BOOLEAN : [rec[i] EXCEPT !.enabled = e] \in Record
        BY <4>1 DEF Record
      <4> QED
        BY <4>2, NoneApart
    <3>2. \E e \in BOOLEAN : rec' = [rec EXCEPT ![i] = [rec[i] EXCEPT !.enabled = e]]
      BY <1>7 DEF EnableInstance, Disables, SwitchOff
    <3>3. \A t \in probing' : t \in probing
      BY <1>7 DEF EnableInstance, Disables
    <3>4. rec \in [Instances -> Record \cup {None}]
      BY DEF TypeOK
    <3> QED
      BY <1>2, <3>1, <3>2, <3>3, <3>4
  <2>2. GroupOf(i) # None => GroupOf(i) \in Groups /\ life[GroupOf(i)] # "free"
    BY Binds
  <2>3. CASE Disables(i)
    <3>1. CASE UNCHANGED <<life, session, applied, replay>>
      BY <1>1, <2>1, <2>3, <3>1 DEF Disables, SwitchOff
    <3>2. CASE /\ GroupOf(i) # None
               /\ life' = [life EXCEPT ![GroupOf(i)] = "off"]
               /\ session' = [session EXCEPT ![GroupOf(i)] = 0]
               /\ replay' = [replay EXCEPT ![GroupOf(i)] = {}]
      BY <2>1, <2>2, <2>3, <3>2, Binds DEF Disables, SwitchOff, GroupsOK, TypeOK
    <3> QED
      BY <2>3, <3>1, <3>2 DEF Disables, SwitchOff
  <2>4. ASSUME NEW g \in Groups, NewGroup(g, KeyOf(i, rec[i]), rec[i].version), UNCHANGED retiring
        PROVE  GroupsOK'
    BY <2>1, <2>4 DEF NewGroup, GroupsOK, TypeOK
  <2>5. CASE /\ life' = [life EXCEPT ![GroupOf(i)] = IF @ = "off" THEN "launching" ELSE @]
             /\ UNCHANGED <<cancelled, session, replay, retiring>>
    BY <2>1, <2>5 DEF GroupsOK, TypeOK
  <2> QED
    BY <1>7, <2>3, <2>4, <2>5 DEF EnableInstance
<1>8. CASE Removes
  <2>1. \A t \in probing' : rec'[t.i] # None
    BY <1>2, <1>8 DEF Removes, RemoveRecord, Replaced, TypeOK
  <2>2. GroupOf(op.i) # None => GroupOf(op.i) \in Groups /\ life[GroupOf(op.i)] # "free"
    BY <1>8, Binds DEF Removes
  <2>3. UNCHANGED <<retiring, life, session>> /\ \A g \in Groups : replay[g] = {} => replay'[g] = {}
    BY <1>8 DEF Removes, RemoveRecord, Replaced
  <2>4. UNCHANGED cancelled \/ (/\ cancelled' = [cancelled EXCEPT ![GroupOf(op.i)] = TRUE]
                               /\ GroupOf(op.i) # None)
    BY <1>8 DEF Removes, RemoveRecord
  <2>5. \A g \in Groups : \/ cancelled'[g] = cancelled[g]
                          \/ cancelled'[g] /\ life[g] # "free"
    BY <2>2, <2>4 DEF TypeOK
  <2> QED
    BY <2>1, <2>3, <2>5 DEF GroupsOK
<1>9. CASE Closes
  BY <1>2, <1>9 DEF Closes, GroupsOK, TypeOK
<1>10. CASE Restart
  BY <1>10 DEF Restart, GroupsOK
<1> QED
  BY <1>3, <1>4, <1>5, <1>6, <1>7, <1>8, <1>9, <1>10, Steps, GroupsReconcile

(* What turning an instance off by a definition leaves: its group stays only *)
(* if it is shared, and is cancelled otherwise.                             *)
Left == {g \in {GroupOf(op.i)} : Unused(g, rec', procs)}

LEMMA Deactivated ==
    ASSUME TypeOK, OpOK, BoundOK, Deactivate
    PROVE  /\ op.i \in Instances /\ op.i \in Key /\ op.pc = "choose" /\ ~op.enabled
           /\ UNCHANGED <<key, version, life, session, applied>>
           /\ \A j \in Instances : j # op.i => rec'[j] = rec[j]
           /\ rec[op.i] = None => rec' = rec
           /\ rec[op.i] # None => rec'[op.i] # None /\ ~rec'[op.i].enabled /\ rec'[op.i].session = 0
           /\ Left \subseteq Groups
           /\ \A g \in Left : rec[op.i] # None /\ g = GroupOf(op.i) /\ key[g] = KeyOf(op.i, rec[op.i])
                             /\ ~cancelled[g]
           /\ \A h \in Groups : cancelled'[h] <=> cancelled[h] \/ h \in Left
           /\ \A h \in Groups : retiring'[h] = IF h \in Left THEN op.i ELSE retiring[h]
           /\ \A x \in Key : procs'[x] = IF procs[x] \in Left THEN None ELSE procs[x]
           /\ \A x \in Key : procs'[x] # None => procs'[x] = procs[x] /\ procs[x] \notin Left
           /\ procs'[op.i] = None
<1> DEFINE g == GroupOf(op.i)
<1>1. op.i \in Instances /\ op.i \in Key /\ op.spec \in Spec0 /\ op.pc = "choose" /\ ~op.enabled
  BY DEF Deactivate, OpOK, TypeOK, Key
<1>2. UNCHANGED <<key, version, life, session, applied>>
  BY DEF Deactivate
<1>3. /\ \A j \in Instances : j # op.i => rec'[j] = rec[j]
      /\ rec[op.i] = None => rec' = rec
      /\ rec[op.i] # None => rec'[op.i] # None /\ ~rec'[op.i].enabled /\ rec'[op.i].session = 0
  <2>1. CASE rec[op.i] = None
    BY <2>1 DEF Deactivate
  <2>2. CASE rec[op.i] # None
    <3>1. rec' = [rec EXCEPT ![op.i] = Fresh(op.spec, FALSE, FALSE)]
      BY <2>2 DEF Deactivate
    <3>2. Fresh(op.spec, FALSE, FALSE) # None
      BY <1>1, FreshType, NoneApart
    <3>3. ~Fresh(op.spec, FALSE, FALSE).enabled /\ Fresh(op.spec, FALSE, FALSE).session = 0
      BY DEF Fresh
    <3> QED
      BY <1>1, <2>2, <3>1, <3>2, <3>3 DEF TypeOK
  <2> QED
    BY <2>1, <2>2
<1>4. /\ Left \subseteq Groups
      /\ \A h \in Left : /\ rec[op.i] # None /\ h = g /\ key[h] = KeyOf(op.i, rec[op.i])
                        /\ ~cancelled[h] /\ h # None
  BY <1>1, Binds DEF Left, Unused
<1>5. \A x \in Key : procs[x] \in Groups \cup {None}
  BY DEF TypeOK
<1>6. /\ \A h \in Groups : cancelled'[h] <=> cancelled[h] \/ h \in Left
      /\ \A h \in Groups : retiring'[h] = IF h \in Left THEN op.i ELSE retiring[h]
      /\ \A x \in Key : procs'[x] = IF procs[x] \in Left THEN None ELSE procs[x]
  <2>1. CASE Unused(g, rec', procs)
    <3>1. procs' = Unbound(g, procs) /\ Retire(op.i, {g}) /\ Left = {g} /\ g # None
      BY <2>1 DEF Deactivate, Unused, Left
    <3>2. g \in Groups /\ rec[op.i] # None
      BY <1>1, <3>1, Binds
    <3>3. KeyOf(op.i, rec[op.i]) \in Key /\ key[g] = KeyOf(op.i, rec[op.i])
      BY <1>1, <3>1, Binds
    <3>4. procs[key[g]] = g
      BY <1>1, <3>2, <3>3, Binds
    <3>5. \A x \in Key : x # key[g] => procs[x] # g
      BY <1>1, <3>1, <3>3, Binds
    <3>6. \A x \in Key : procs'[x] = IF procs[x] \in Left THEN None ELSE procs[x]
      BY <1>5, <3>1, <3>3, <3>4, <3>5 DEF Unbound, TypeOK
    <3> QED
      BY <3>1, <3>6 DEF Retire
  <2>2. CASE ~Unused(g, rec', procs)
    <3>1. Left = {} /\ UNCHANGED <<procs, retiring, cancelled>>
      BY <2>2 DEF Deactivate, Left
    <3> QED
      BY <3>1
  <2> QED
    BY <2>1, <2>2
<1>7. procs'[op.i] = None
  <2> SUFFICES ASSUME procs'[op.i] # None PROVE FALSE
    OBVIOUS
  <2>1. procs[op.i] # None /\ procs[op.i] \notin Left
    BY <1>1, <1>6
  <2>2. rec[op.i] # None /\ g = procs[op.i]
    BY <1>1, <2>1, Binds
  <2>3. PICK j \in Instances : rec'[j] # None /\ rec'[j].enabled /\ procs[KeyOf(j, rec'[j])] = g
    BY <2>1, <2>2 DEF Left, Unused, InUse
  <2>4. j # op.i /\ rec'[j] = rec[j]
    BY <1>3, <2>2, <2>3
  <2> QED
    BY <1>1, <2>1, <2>2, <2>3, <2>4, OwnGroup
<1>8. \A x \in Key : procs'[x] # None => procs'[x] = procs[x] /\ procs[x] \notin Left
  BY <1>6
<1> QED
  BY <1>1, <1>2, <1>3, <1>4, <1>6, <1>7, <1>8

(* What the switch of an instance to its group leaves: the group is bound   *)
(* and stays, the other bindings stay but for the groups nobody uses.       *)
Rebound == [procs EXCEPT ![KeyOf(op.i, op.spec)] = op.g]
Gone == {g \in {GroupOf(op.i), procs[KeyOf(op.i, op.spec)]} : Unused(g, rec', Rebound)}

LEMMA Switched ==
    ASSUME TypeOK, OpOK, GroupsOK, BoundOK, PlacedOK, Switch
    PROVE  /\ op.i \in Instances /\ op.i \in Key /\ op.spec \in Spec0 /\ op.g \in Groups
           /\ KeyOf(op.i, op.spec) \in Key /\ op.pc = "publish" /\ op.enabled
           /\ UNCHANGED <<key, version, life, session, applied>> /\ Retire(op.i, Gone)
           /\ rec'[op.i] # None /\ rec'[op.i].enabled /\ rec'[op.i].own = op.spec.own
           /\ rec'[op.i].version = op.spec.version /\ rec'[op.i].config = op.spec.config
           /\ rec'[op.i].session = op.sess
           /\ KeyOf(op.i, rec'[op.i]) = KeyOf(op.i, op.spec)
           /\ \A j \in Instances : j # op.i => rec'[j] = rec[j]
           /\ Rebound[KeyOf(op.i, op.spec)] = op.g
           /\ \A x \in Key : x # KeyOf(op.i, op.spec) => Rebound[x] = procs[x]
           /\ op.g \notin Gone /\ procs'[KeyOf(op.i, op.spec)] = op.g
           /\ \A x \in Key : x # KeyOf(op.i, op.spec) =>
                 procs'[x] = IF procs[x] \in Gone THEN None ELSE procs[x]
           /\ \A x \in Key : x # KeyOf(op.i, op.spec) /\ procs'[x] # None =>
                 procs'[x] = procs[x] /\ procs[x] \notin Gone
           /\ \A g \in Groups : cancelled'[g] <=> cancelled[g] \/ g \in Gone
           /\ key[op.g] = KeyOf(op.i, op.spec) /\ version[op.g] = op.spec.version
           /\ life[op.g] # "free" /\ ~cancelled[op.g]
<1> DEFINE k == KeyOf(op.i, op.spec)
<1>1. /\ op.i \in Instances /\ op.spec \in Spec0 /\ k \in Key /\ op.g \in Groups /\ op.i \in Key
      /\ op.pc \in Placing /\ op.pc = "publish" /\ op.enabled
  BY Keys DEF Switch, OpOK, Placing, Key, TypeOK
<1>2. /\ UNCHANGED <<key, version, life, session, applied>>
      /\ procs' = [x \in Key |-> IF Rebound[x] \in Gone THEN None ELSE Rebound[x]]
      /\ Retire(op.i, Gone)
  BY DEF Switch, Rebound, Gone
<1>3. /\ rec'[op.i] # None /\ rec'[op.i].enabled /\ rec'[op.i].own = op.spec.own
      /\ rec'[op.i].version = op.spec.version /\ KeyOf(op.i, rec'[op.i]) = k
      /\ rec'[op.i].config = op.spec.config /\ rec'[op.i].session = op.sess
  <2>1. PICK told \in BOOLEAN :
          rec'[op.i] = [Fresh(op.spec, TRUE, told) EXCEPT !.session = op.sess]
    BY <1>1 DEF Switch, TypeOK
  <2>2. op.sess \in 0..MaxSessions
    BY DEF TypeOK, Operation
  <2>3. rec'[op.i] # None
    <3>1. [Fresh(op.spec, TRUE, told) EXCEPT !.session = op.sess] \in Record
      BY <1>1, <2>2, FreshType
    <3> QED
      BY <2>1, <3>1, NoneApart
  <2> QED
    BY <2>1, <2>3 DEF Fresh, KeyOf
<1>4. \A j \in Instances : j # op.i => rec'[j] = rec[j]
  BY <1>1 DEF Switch, TypeOK
<1>5. Rebound[k] = op.g /\ \A x \in Key : x # k => Rebound[x] = procs[x]
  BY <1>1 DEF Rebound, TypeOK
<1>6. op.g \notin Gone
  BY <1>1, <1>3, <1>5 DEF Unused, InUse, Gone
<1>7. /\ key[op.g] = k /\ version[op.g] = op.spec.version
      /\ life[op.g] # "free" /\ ~cancelled[op.g]
  <2>1. key[op.g] = k /\ version[op.g] = op.spec.version
    BY <1>1 DEF PlacedOK
  <2>2. CASE op.created
    BY <1>1, <2>1, <2>2 DEF PlacedOK
  <2>3. CASE ~op.created
    <3>1. procs[k] = op.g /\ op.g # None
      BY <1>1, <2>3, NoneApart DEF PlacedOK
    <3> QED
      BY <1>1, <2>1, <3>1 DEF BoundOK
  <2> QED
    BY <2>2, <2>3
<1>8. \A g \in Groups : cancelled'[g] <=> cancelled[g] \/ g \in Gone
  BY <1>2 DEF Retire
<1>9. /\ procs'[k] = op.g
      /\ \A x \in Key : x # k => procs'[x] = IF procs[x] \in Gone THEN None ELSE procs[x]
      /\ \A x \in Key : x # k /\ procs'[x] # None => procs'[x] = procs[x] /\ procs[x] \notin Gone
  BY <1>1, <1>2, <1>5, <1>6
<1> QED
  BY <1>1, <1>2, <1>3, <1>4, <1>5, <1>6, <1>7, <1>8, <1>9

(* What an operation switches keeps the groups of the others.               *)
LEMMA BoundReconcile ==
    ASSUME TypeOK, OpOK, GroupsOK, BoundOK, PlacedOK, ReconcileStep
    PROVE  BoundOK'
<1>1. op.pc # "idle" => /\ op.i \in Instances /\ op.spec \in Spec0 /\ KeyOf(op.i, op.spec) \in Key
                        /\ op.i \in Key
  BY Keys DEF OpOK, TypeOK, Key
<1>2. ASSUME NEW from, NEW to, Settle(from, to) PROVE BoundOK'
  <2>1. \A g \in Groups : ~cancelled[g] => /\ life'[g] = life[g] /\ ~cancelled'[g]
    BY <1>2 DEF Settle, GroupsOK, TypeOK
  <2>2. UNCHANGED <<rec, procs, key, version>>
    BY <1>2 DEF Settle
  <2> QED
    BY <2>1, <2>2 DEF BoundOK, TypeOK
<1>3. CASE Deactivate
  <2>1. /\ op.i \in Instances /\ UNCHANGED <<key, version, life>> /\ procs'[op.i] = None
        /\ \A j \in Instances : j # op.i => rec'[j] = rec[j]
        /\ \A x \in Key : procs'[x] # None => procs'[x] = procs[x] /\ procs[x] \notin Left
        /\ \A h \in Groups : cancelled'[h] <=> cancelled[h] \/ h \in Left
    BY <1>3, Deactivated
  <2> SUFFICES ASSUME NEW x \in Key, procs'[x] # None
               PROVE  /\ key'[procs'[x]] = x /\ life'[procs'[x]] # "free" /\ ~cancelled'[procs'[x]]
                      /\ x \in Versions => version'[procs'[x]] = x
                      /\ x \in Instances =>
                            rec'[x] # None /\ rec'[x].own /\ rec'[x].version = version'[procs'[x]]
    BY DEF BoundOK
  <2>2. procs'[x] = procs[x] /\ procs[x] \in Groups \ Left /\ procs[x] # None
    BY <2>1 DEF TypeOK
  <2>3. x \in Instances => rec'[x] = rec[x]
    BY <2>1
  <2> QED
    BY <2>1, <2>2, <2>3 DEF BoundOK
<1>4. CASE Choose
  <2>1. CASE UNCHANGED groupVars
    BY <1>4, <2>1 DEF Choose, groupVars, BoundOK
  <2>2. ASSUME NEW g \in Groups, NewGroup(g, KeyOf(op.i, op.spec), op.spec.version)
        PROVE  BoundOK'
    <3>1. \A k \in Key : procs[k] # g
      BY <2>2, NoneApart DEF NewGroup, BoundOK
    <3>2. \A h \in Groups \ {g} : life'[h] = life[h] /\ key'[h] = key[h] /\ version'[h] = version[h]
      BY <2>2 DEF NewGroup, TypeOK
    <3>3. UNCHANGED <<rec, procs, cancelled>>
      BY <1>4, <2>2 DEF Choose, NewGroup
    <3> QED
      BY <3>1, <3>2, <3>3 DEF BoundOK, TypeOK
  <2> QED
    BY <1>4, <2>1, <2>2 DEF Choose
<1>5. CASE Wait \/ Configure \/ Check
  BY <1>5 DEF Wait, Configure, Check, groupVars, BoundOK
<1>6. CASE Rollback
  <2>1. \A k \in Key : procs[k] # None => cancelled'[procs[k]] = cancelled[procs[k]]
    <3>1. CASE op.created
      <4>1. Retire(op.i, {op.g}) /\ op.pc \in Placing
        BY <1>6, <3>1 DEF Rollback, Placing
      <4>2. \A k \in Key : procs[k] # op.g
        BY <3>1, <4>1 DEF PlacedOK
      <4> QED
        BY <4>1, <4>2 DEF Retire, TypeOK
    <3>2. CASE ~op.created
      BY <1>6, <3>2 DEF Rollback
    <3> QED
      BY <3>1, <3>2
  <2>2. UNCHANGED <<procs, key, version, life>>
    BY <1>6 DEF Rollback
  <2> QED
    BY <1>6, <2>1, <2>2, Marks DEF BoundOK
<1>7. CASE Switch
  <2> DEFINE k == KeyOf(op.i, op.spec)
  <2>1. /\ op.i \in Instances /\ op.i \in Key /\ op.spec \in Spec0 /\ k \in Key /\ op.g \in Groups
        /\ UNCHANGED <<key, version, life>>
        /\ rec'[op.i] # None /\ rec'[op.i].enabled /\ rec'[op.i].own = op.spec.own
        /\ rec'[op.i].version = op.spec.version /\ KeyOf(op.i, rec'[op.i]) = k
    BY <1>7, Switched
  <2>2. /\ \A j \in Instances : j # op.i => rec'[j] = rec[j]
        /\ Rebound[k] = op.g /\ \A x \in Key : x # k => Rebound[x] = procs[x]
        /\ op.g \notin Gone /\ procs'[k] = op.g
        /\ \A x \in Key : x # k /\ procs'[x] # None => procs'[x] = procs[x] /\ procs[x] \notin Gone
        /\ \A g \in Groups : cancelled'[g] <=> cancelled[g] \/ g \in Gone
    BY <1>7, Switched
  <2>3. /\ key[op.g] = k /\ version[op.g] = op.spec.version
        /\ life[op.g] # "free" /\ ~cancelled[op.g]
    BY <1>7, Switched
  <2>4. op.i # k => procs'[op.i] = None
    <3> SUFFICES ASSUME op.i # k, procs'[op.i] # None PROVE FALSE
      OBVIOUS
    <3>1. procs[op.i] # None /\ procs[op.i] \notin Gone
      BY <2>1, <2>2
    <3>2. GroupOf(op.i) = procs[op.i] /\ key[procs[op.i]] = op.i
      BY <2>1, <3>1, Binds
    <3>3. PICK j \in Instances : /\ rec'[j] # None /\ rec'[j].enabled
                                 /\ Rebound[KeyOf(j, rec'[j])] = procs[op.i]
      BY <3>1, <3>2 DEF Unused, InUse, Gone
    <3>4. op.g # procs[op.i]
      BY <2>3, <3>2
    <3>5. j # op.i /\ rec'[j] = rec[j]
      BY <2>1, <2>2, <3>3, <3>4
    <3>6. procs[KeyOf(j, rec[j])] = procs[op.i]
      BY <2>2, <3>3, <3>4, <3>5, Binds
    <3> QED
      BY <2>1, <3>1, <3>3, <3>5, <3>6, OwnGroup
  <2>5. k \in Versions => k = op.spec.version
    BY <2>1, Keys, ManagerAssumption
  <2>6. k \in Instances => k = op.i /\ op.spec.own
    BY <2>1, Keys, ManagerAssumption
  <2> SUFFICES ASSUME NEW x \in Key, procs'[x] # None
               PROVE  /\ key'[procs'[x]] = x /\ life'[procs'[x]] # "free" /\ ~cancelled'[procs'[x]]
                      /\ x \in Versions => version'[procs'[x]] = x
                      /\ x \in Instances =>
                            rec'[x] # None /\ rec'[x].own /\ rec'[x].version = version'[procs'[x]]
    BY DEF BoundOK
  <2> HIDE DEF k
  <2>7. CASE x = k
    BY <2>1, <2>2, <2>3, <2>5, <2>6, <2>7
  <2>8. CASE x # k
    <3>1. procs'[x] = procs[x] /\ procs[x] \notin Gone /\ procs[x] \in Groups /\ procs[x] # None
      BY <2>2, <2>8 DEF TypeOK
    <3>2. x \in Instances => rec'[x] = rec[x]
      BY <2>2, <2>4, <2>8
    <3> QED
      BY <2>1, <2>2, <3>1, <3>2 DEF BoundOK
  <2> QED
    BY <2>7, <2>8
<1> QED
  BY <1>2, <1>3, <1>4, <1>5, <1>6, <1>7 DEF ReconcileStep

LEMMA BoundStep ==
    ASSUME TypeOK, OpOK, GroupsOK, BoundOK, PlacedOK, [Next]_vars
    PROVE  BoundOK'
<1>1. \A k \in Key : procs[k] # None => procs[k] \in Groups
  BY DEF TypeOK
<1>2. ASSUME UNCHANGED <<procs, key, version>>,
             \A g \in Groups : life[g] # "free" /\ ~cancelled[g] => life'[g] # "free" /\ ~cancelled'[g],
             \A i \in Instances : rec[i] # None => /\ rec'[i] # None /\ rec'[i].own = rec[i].own
                                                  /\ rec'[i].version = rec[i].version
      PROVE  BoundOK'
  <2> SUFFICES ASSUME NEW k \in Key, procs[k] # None
               PROVE  /\ key[procs[k]] = k /\ life'[procs[k]] # "free" /\ ~cancelled'[procs[k]]
                      /\ k \in Versions => version[procs[k]] = k
                      /\ k \in Instances =>
                            rec'[k] # None /\ rec'[k].own /\ rec'[k].version = version[procs[k]]
    BY <1>2 DEF BoundOK
  <2> QED
    BY <1>1, <1>2 DEF BoundOK
<1>3. CASE Looks \/ Starts \/ Ends
  <2>1. UNCHANGED <<rec, procs, life, key, version, cancelled>>
    BY <1>3 DEF Looks, Starts, Ends, Release, Reconcile, groupVars
  <2> QED
    BY <2>1 DEF BoundOK
<1>4. ASSUME NEW g \in Groups, GroupMoves(g) PROVE BoundOK'
  <2>1. CASE Publish(g)
    <3>1. \A h \in Groups : life[h] # "free" => life'[h] # "free"
      BY <2>1 DEF Publish, TypeOK
    <3>2. UNCHANGED <<procs, key, version, cancelled>>
      BY <2>1 DEF Publish
    <3> QED
      BY <1>2, <2>1, <3>1, <3>2, Marks
  <2>2. CASE Authenticated(g) \/ Finish(g) \/ Crash(g)
    <3>1. \A h \in Groups : life[h] # "free" /\ ~cancelled[h] => life'[h] # "free" /\ ~cancelled'[h]
      BY <2>2 DEF Authenticated, Finish, Crash, TypeOK
    <3>2. UNCHANGED <<rec, procs, key, version>>
      BY <2>2 DEF Authenticated, Finish, Crash
    <3> QED
      BY <1>2, <3>1, <3>2
  <2> QED
    BY <1>4, <2>1, <2>2 DEF GroupMoves
<1>5. ASSUME NEW g \in Groups, Restarts(g) PROVE BoundOK'
  <2>1. \A h \in Groups : life[h] # "free" => life'[h] # "free"
    BY <1>5 DEF Restarts, TypeOK
  <2> QED
    BY <1>2, <1>5, <2>1 DEF Restarts
<1>6. ASSUME NEW i \in Instances, NEW s \in Spec0, Creates(i, s) PROVE BoundOK'
  <2>1. \A j \in Instances : rec[j] # None => rec'[j] = rec[j]
    BY <1>6 DEF Creates, CreateInstance, TypeOK
  <2> QED
    BY <1>2, <1>6, <2>1 DEF Creates, CreateInstance, groupVars
<1>7. ASSUME NEW i \in Instances, rec[i] # None, NEW e \in BOOLEAN,
             rec' = [rec EXCEPT ![i].enabled = e]
      PROVE  \A j \in Instances : rec[j] # None => /\ rec'[j] # None /\ rec'[j].own = rec[j].own
                                                  /\ rec'[j].version = rec[j].version
  <2>1. rec[i] \in Record /\ rec'[i] = [rec[i] EXCEPT !.enabled = e]
    BY <1>7 DEF TypeOK
  <2>2. rec'[i] \in Record /\ rec'[i].own = rec[i].own /\ rec'[i].version = rec[i].version
    BY <2>1 DEF Record
  <2>3. \A j \in Instances : j # i => rec'[j] = rec[j]
    BY <1>7 DEF TypeOK
  <2> QED
    BY <2>2, <2>3, NoneApart
<1>8. ASSUME NEW i \in Instances, Disables(i) PROVE BoundOK'
  <2>1. \A h \in Groups : life[h] # "free" => life'[h] # "free"
    BY <1>8 DEF Disables, SwitchOff, TypeOK
  <2> QED
    BY <1>2, <1>7, <1>8, <2>1 DEF Disables, SwitchOff
<1>9. ASSUME NEW i \in Instances, EnableInstance(i) PROVE BoundOK'
  <2>1. /\ rec[i] \in Record /\ KeyOf(i, rec[i]) \in Key /\ GroupOf(i) = procs[KeyOf(i, rec[i])]
    BY <1>9, Binds DEF EnableInstance
  <2>2. \A j \in Instances : rec[j] # None => /\ rec'[j] # None /\ rec'[j].own = rec[j].own
                                             /\ rec'[j].version = rec[j].version
    BY <1>7, <1>9 DEF EnableInstance
  <2>3. CASE GroupOf(i) # None
    <3>1. \A h \in Groups : life[h] # "free" => life'[h] # "free"
      BY <1>9, <2>3 DEF EnableInstance, TypeOK
    <3> QED
      BY <1>2, <1>9, <2>2, <2>3, <3>1 DEF EnableInstance
  <2>4. CASE GroupOf(i) = None
    <3>1. PICK g \in Groups : /\ NewGroup(g, KeyOf(i, rec[i]), rec[i].version)
                              /\ procs' = [procs EXCEPT ![KeyOf(i, rec[i])] = g]
      BY <1>9, <2>4 DEF EnableInstance
    <3>2. \A k \in Key : procs[k] # None => procs[k] \in Groups \ {g}
      BY <1>1, <3>1 DEF NewGroup, BoundOK
    <3>3. \A h \in Groups \ {g} : /\ life'[h] = life[h] /\ key'[h] = key[h] /\ version'[h] = version[h]
                                  /\ cancelled'[h] = cancelled[h]
      BY <3>1 DEF NewGroup, TypeOK
    <3>4. /\ life'[g] = "launching" /\ key'[g] = KeyOf(i, rec[i]) /\ version'[g] = rec[i].version
          /\ ~cancelled'[g]
      BY <3>1 DEF NewGroup, TypeOK, GroupsOK
    <3>5. \A k \in Key : k # KeyOf(i, rec[i]) => procs'[k] = procs[k]
      BY <3>1 DEF TypeOK
    <3>6. procs'[KeyOf(i, rec[i])] = g
      BY <2>1, <3>1 DEF TypeOK
    <3>7. /\ KeyOf(i, rec[i]) \in Instances => KeyOf(i, rec[i]) = i /\ rec[i].own
          /\ KeyOf(i, rec[i]) \in Versions => KeyOf(i, rec[i]) = rec[i].version
      BY <2>1, Keys, ManagerAssumption
    <3> SUFFICES ASSUME NEW k \in Key, procs'[k] # None
                 PROVE  /\ key'[procs'[k]] = k /\ life'[procs'[k]] # "free" /\ ~cancelled'[procs'[k]]
                        /\ k \in Versions => version'[procs'[k]] = k
                        /\ k \in Instances =>
                              rec'[k] # None /\ rec'[k].own /\ rec'[k].version = version'[procs'[k]]
      BY DEF BoundOK
    <3>8. CASE k = KeyOf(i, rec[i])
      BY <1>9, <2>2, <3>4, <3>6, <3>7, <3>8 DEF EnableInstance
    <3>9. CASE k # KeyOf(i, rec[i])
      BY <2>2, <3>2, <3>3, <3>5, <3>9 DEF BoundOK
    <3> QED
      BY <3>8, <3>9
  <2> QED
    BY <2>3, <2>4
<1>10. CASE Removes
  <2>1. /\ op.i \in Instances /\ op.i \in Key /\ rec' = [rec EXCEPT ![op.i] = None]
        /\ UNCHANGED <<key, version, life>>
    BY <1>10 DEF Removes, RemoveRecord, Key
  <2>2. \A j \in Instances : j # op.i => rec'[j] = rec[j]
    BY <2>1 DEF TypeOK
  <2>3. CASE UNCHANGED <<procs, cancelled>> /\ procs[op.i] = None
    BY <2>1, <2>2, <2>3 DEF BoundOK
  <2>4. CASE /\ GroupOf(op.i) # None
             /\ procs' = [procs EXCEPT ![KeyOf(op.i, rec[op.i])] = None]
             /\ cancelled' = [cancelled EXCEPT ![GroupOf(op.i)] = TRUE]
    <3>1. \A k \in Key : procs'[k] # None =>
             /\ procs'[k] = procs[k] /\ procs[k] # GroupOf(op.i) /\ k # op.i
             /\ cancelled'[procs[k]] = cancelled[procs[k]]
      BY <1>1, <2>1, <2>4, Binds DEF TypeOK
    <3> QED
      BY <2>1, <2>2, <3>1 DEF BoundOK
  <2>5. procs[op.i] # None => rec[op.i].own /\ GroupOf(op.i) = procs[op.i]
    BY <2>1, Binds
  <2> QED
    BY <1>10, <2>3, <2>4, <2>5 DEF Removes, RemoveRecord
<1>11. CASE Closes \/ Restart
  BY <1>11 DEF Closes, Restart, BoundOK
<1> QED
  BY <1>3, <1>4, <1>5, <1>6, <1>8, <1>9, <1>10, <1>11, Steps, BoundReconcile

-----------------------------------------------------------------------------
(* Where an operation places its instance *)

(* The group chosen runs what the definition asks for.                      *)
LEMMA PlacedReconcile ==
    ASSUME TypeOK, OpOK, GroupsOK, BoundOK, PlacedOK, ReconcileStep
    PROVE  PlacedOK'
<1>1. op.pc # "idle" => /\ op.i \in Instances /\ op.spec \in Spec0 /\ KeyOf(op.i, op.spec) \in Key
  BY Keys DEF OpOK, TypeOK
<1>2. op \in Operation
  BY DEF TypeOK
<1>3. ASSUME op'.pc \notin Placing PROVE PlacedOK'
  BY <1>3 DEF PlacedOK
<1>4. CASE Settle("settle", "choose") \/ Settle("abandon", "failed") \/ Settle("retire", "ok")
           \/ Deactivate \/ Rollback \/ Switch
  <2>1. op'.pc \in {"choose", "failed", "ok", "retire", "abandon"}
    BY <1>2, <1>4 DEF Settle, Deactivate, Rollback, Switch, Operation
  <2> QED
    BY <1>3, <2>1 DEF Placing
<1>5. CASE Choose
  <2>1. op.pc = "choose" /\ ~op.created /\ op.i \in Instances /\ op.spec \in Spec0
        /\ KeyOf(op.i, op.spec) \in Key
    BY <1>1, <1>5 DEF Choose, OpOK
  <2>2. CASE op' = [op EXCEPT !.pc = "ok"]
    BY <1>2, <1>3, <2>2 DEF Operation, Placing
  <2>3. CASE Bound # None /\ op' = [op EXCEPT !.pc = "wait", !.g = Bound] /\ UNCHANGED groupVars
    <3>1. /\ Bound = procs[KeyOf(op.i, op.spec)] /\ procs[KeyOf(op.i, op.spec)] # None
          /\ ~(op.spec.own /\ rec[op.i] # None /\ rec[op.i].version # op.spec.version)
      BY <2>3 DEF Bound
    <3>2. /\ op'.i = op.i /\ op'.spec = op.spec /\ op'.g = Bound /\ ~op'.created
      BY <1>2, <2>1, <2>3 DEF Operation
    <3>3. key[Bound] = KeyOf(op.i, op.spec)
      BY <2>1, <3>1 DEF BoundOK
    <3>4. version[Bound] = op.spec.version
      <4>1. CASE op.spec.own
        <5>1. KeyOf(op.i, op.spec) = op.i
          BY <2>1, <4>1, Keys
        <5> QED
          BY <2>1, <3>1, <4>1, <5>1 DEF BoundOK
      <4>2. CASE ~op.spec.own
        <5>1. KeyOf(op.i, op.spec) = op.spec.version /\ op.spec.version \in Versions
          BY <2>1, <4>2, Keys
        <5> QED
          BY <2>1, <3>1, <5>1 DEF BoundOK
      <4> QED
        BY <4>1, <4>2
    <3>5. UNCHANGED <<procs, key, version>>
      BY <1>5, <2>3 DEF Choose, groupVars
    <3> QED
      BY <3>1, <3>2, <3>3, <3>4, <3>5 DEF PlacedOK
  <2>4. ASSUME NEW g \in Groups, NewGroup(g, KeyOf(op.i, op.spec), op.spec.version),
               op' = [op EXCEPT !.pc = "wait", !.g = g, !.created = TRUE]
        PROVE  PlacedOK'
    <3>1. /\ op'.i = op.i /\ op'.spec = op.spec /\ op'.g = g /\ op'.created
      BY <1>2, <2>4 DEF Operation
    <3>2. /\ key'[g] = KeyOf(op.i, op.spec) /\ version'[g] = op.spec.version
          /\ life'[g] = "launching" /\ life[g] = "free"
          /\ UNCHANGED <<cancelled, session, applied, replay>>
      BY <2>4 DEF NewGroup, TypeOK
    <3>3. session[g] = 0 /\ ~cancelled[g] /\ replay[g] = {}
      BY <3>2 DEF GroupsOK
    <3>4. \A k \in Key : procs[k] # g
      BY <3>2, NoneApart DEF BoundOK
    <3>5. UNCHANGED <<rec, procs>>
      BY <1>5 DEF Choose
    <3> QED
      BY <3>1, <3>2, <3>3, <3>4, <3>5 DEF PlacedOK
  <2> QED
    BY <1>5, <2>2, <2>3, <2>4 DEF Choose
<1>6. CASE Wait \/ Configure \/ Check
  <2>1. op.pc \in Placing
    BY <1>6 DEF Wait, Configure, Check, Placing
  <2>2. op'.i = op.i /\ op'.spec = op.spec /\ op'.g = op.g /\ op'.created = op.created
    BY <1>2, <1>6 DEF Wait, Configure, Check, Operation
  <2>3. UNCHANGED <<rec, procs, life, key, version, cancelled, session, replay>>
    BY <1>6 DEF Wait, Configure, Check, groupVars
  <2> QED
    BY <2>1, <2>2, <2>3 DEF PlacedOK
<1> QED
  BY <1>4, <1>5, <1>6 DEF ReconcileStep

LEMMA PlacedStep ==
    ASSUME TypeOK, OpOK, GroupsOK, BoundOK, PlacedOK, [Next]_vars
    PROVE  PlacedOK'
<1>1. ASSUME op' = Idle \/ (op.pc = "idle" /\ UNCHANGED op) PROVE PlacedOK'
  <2>1. op'.pc \notin Placing
    BY <1>1 DEF Idle, Placing
  <2> QED
    BY <2>1 DEF PlacedOK
<1>2. CASE Looks
  BY <1>2 DEF Looks, groupVars, PlacedOK
<1>3. CASE Starts
  <2>1. op'.pc = "settle"
    BY <1>3 DEF Starts, Reconcile, Idle
  <2> QED
    BY <2>1 DEF PlacedOK, Placing
<1>4. CASE \/ Ends \/ Removes \/ Closes \/ Restart \/ \E g \in Groups : Restarts(g)
           \/ \E i \in Instances, s \in Spec0 : Creates(i, s)
           \/ \E i \in Instances : EnableInstance(i) \/ Disables(i)
  BY <1>1, <1>4 DEF Ends, Release, Removes, Closes, Restart, Restarts, Creates, CreateInstance,
                    EnableInstance, Disables, SwitchOff
<1>5. ASSUME NEW g \in Groups, GroupMoves(g) PROVE PlacedOK'
  <2> SUFFICES ASSUME op.pc \in Placing
               PROVE  /\ key'[op.g] = KeyOf(op.i, op.spec) /\ version'[op.g] = op.spec.version
                      /\ ~op.created => procs'[KeyOf(op.i, op.spec)] = op.g
                      /\ op.created =>
                           /\ life'[op.g] # "free" /\ ~cancelled'[op.g] /\ replay'[op.g] = {}
                           /\ \A k \in Key : procs'[k] # op.g
                           /\ \A i \in Instances : rec'[i] # None /\ rec'[i].session # 0 =>
                                 rec'[i].session # session'[op.g]
    <3>1. UNCHANGED op
      BY <1>5 DEF GroupMoves, Authenticated, Publish, Finish, Crash
    <3> QED
      BY <3>1 DEF PlacedOK
  <2>1. op.g \in Groups /\ UNCHANGED <<key, version, procs>>
    BY <1>5 DEF GroupMoves, Authenticated, Publish, Finish, Crash, OpOK
  <2> SUFFICES ASSUME op.created
               PROVE  /\ life'[op.g] # "free" /\ ~cancelled'[op.g] /\ replay'[op.g] = {}
                      /\ \A i \in Instances : rec'[i] # None /\ rec'[i].session # 0 =>
                            rec'[i].session # session'[op.g]
    BY <2>1 DEF PlacedOK
  <2>2. /\ life[op.g] # "free" /\ ~cancelled[op.g] /\ replay[op.g] = {}
        /\ \A k \in Key : procs[k] # op.g
        /\ \A i \in Instances : rec[i] # None /\ rec[i].session # 0 => rec[i].session # session[op.g]
    BY DEF PlacedOK
  <2>3. CASE Authenticated(g)
    <3>1. Restored(op.g) = {}
      BY <2>1, <2>2, Binds DEF Restored
    <3> QED
      BY <2>1, <2>2, <2>3, <3>1 DEF Authenticated, TypeOK
  <2>4. CASE Publish(g)
    <3> DEFINE n == CHOOSE m \in NewSession : TRUE
    <3>1. n \in NewSession
      BY <2>4 DEF Publish
    <3>2. session' = [session EXCEPT ![g] = n]
      BY <2>4 DEF Publish
    <3>3. \A i \in Instances : rec'[i] = rec[i] \/ (rec'[i].session = n /\ replay[g] # {})
      <4>1. session'[g] = n
        BY <3>2 DEF TypeOK
      <4>2. \A i \in Instances : rec[i] # None =>
              [rec[i] EXCEPT !.session = session'[g], !.told = @ \/ rec[i].config # Empty].session = n
        <5> HIDE DEF n
        <5>1. \A i \in Instances : rec[i] # None => rec[i] \in Record
          BY DEF TypeOK
        <5> QED
          BY <4>1, <5>1 DEF Record
      <4> HIDE DEF n
      <4> QED
        BY <2>4, <4>2 DEF Publish
    <3>4. /\ \A i \in Instances : rec[i] # None => rec[i].session # n
          /\ \A h \in Groups : session[h] # n
      BY <3>1 DEF NewSession
    <3> HIDE DEF n
    <3>5. life'[op.g] # "free" /\ ~cancelled'[op.g] /\ replay'[op.g] = {}
      BY <2>1, <2>2, <2>4 DEF Publish, TypeOK
    <3>6. CASE g = op.g
      BY <2>1, <2>2, <3>2, <3>3, <3>4, <3>5, <3>6 DEF TypeOK
    <3>7. CASE g # op.g
      BY <2>1, <2>2, <3>2, <3>3, <3>4, <3>5, <3>7 DEF TypeOK
    <3> QED
      BY <3>6, <3>7
  <2>5. CASE Finish(g)
    <3>1. g # op.g
      BY <2>2, <2>5 DEF Finish
    <3> QED
      BY <2>1, <2>2, <2>5, <3>1 DEF Finish, TypeOK
  <2>6. CASE Crash(g)
    BY <2>1, <2>2, <2>6 DEF Crash, TypeOK
  <2> QED
    BY <1>5, <2>3, <2>4, <2>5, <2>6 DEF GroupMoves
<1> QED
  BY <1>2, <1>3, <1>4, <1>5, Steps, PlacedReconcile

-----------------------------------------------------------------------------
(* What runs *)


(* An operation gives a group it leaves without users to whoever stops it.  *)
LEMMA ServedReconcile ==
    ASSUME TypeOK, OpOK, GroupsOK, BoundOK, PlacedOK, ServedOK, ReconcileStep
    PROVE  ServedOK'
<1>1. op \in Operation
  BY DEF TypeOK
<1>2. ASSUME op'.pc \in Placing <=> op.pc \in Placing, op'.created = op.created, op'.g = op.g,
             UNCHANGED <<rec, procs>>,
             \A g \in Groups : Running(g)' => Running(g) /\ (cancelled'[g] <=> cancelled[g])
      PROVE  ServedOK'
  BY <1>2 DEF ServedOK, Served, GroupOf, Creating
<1>3. ASSUME NEW from \in {"settle", "abandon", "retire"}, NEW to \in {"choose", "failed", "ok"},
             Settle(from, to)
      PROVE  ServedOK'
  <2>1. op.pc = from /\ op'.pc \in {"choose", "failed", "ok"} /\ op'.created = op.created /\ op'.g = op.g
    BY <1>1, <1>3 DEF Settle, Operation
  <2>2. op.pc \notin Placing /\ op'.pc \notin Placing
    BY <2>1 DEF Placing
  <2>3. \A g \in Groups : Running(g)' => Running(g) /\ (cancelled'[g] <=> cancelled[g])
    BY <1>3 DEF Settle, Running, TypeOK
  <2>4. UNCHANGED <<rec, procs>>
    BY <1>3 DEF Settle
  <2> QED
    BY <1>2, <2>1, <2>2, <2>3, <2>4
<1>4. CASE Deactivate
  <2> SUFFICES ASSUME NEW g \in Groups, Running(g)', ~cancelled'[g]
               PROVE  Served(g)'
    BY DEF ServedOK
  <2>1. /\ op.pc = "choose" /\ UNCHANGED life /\ ~cancelled[g] /\ g \notin Left
        /\ op.i \in Instances /\ \A j \in Instances : j # op.i => rec'[j] = rec[j]
        /\ \A x \in Key : procs[x] = g => procs'[x] = g
    BY <1>4, Deactivated
  <2>2. Served(g)
    BY <2>1 DEF ServedOK, Creating, Running, Placing
  <2>3. PICK j \in Instances : rec[j] # None /\ rec[j].enabled /\ GroupOf(j) = g
    BY <2>2 DEF Served
  <2>4. CASE j # op.i
    <3>1. rec'[j] = rec[j] /\ procs'[KeyOf(j, rec[j])] = g
      BY <2>1, <2>3, <2>4, Binds
    <3> QED
      BY <2>3, <3>1 DEF Served, GroupOf
  <2>5. CASE j = op.i
    <3>1. PICK w \in Instances : rec'[w] # None /\ rec'[w].enabled /\ procs[KeyOf(w, rec'[w])] = g
      BY <2>1, <2>3, <2>5, NoneApart DEF Left, Unused, InUse
    <3>2. KeyOf(w, rec'[w]) \in Key
      <4>1. w # op.i
        BY <1>4, <2>1, <2>3, <2>5, <3>1, Deactivated
      <4> QED
        BY <2>1, <3>1, <4>1, Binds
    <3> QED
      BY <2>1, <3>1, <3>2 DEF Served, GroupOf
  <2> QED
    BY <2>4, <2>5
<1>5. CASE Choose
  <2>1. op.pc = "choose" /\ op.pc \notin Placing /\ ~op.created /\ UNCHANGED <<rec, procs>>
    BY <1>5 DEF Choose, OpOK, Placing
  <2>2. CASE UNCHANGED groupVars
    <3>1. \A g \in Groups : Running(g)' => Running(g) /\ cancelled'[g] = cancelled[g]
      BY <2>2 DEF groupVars, Running
    <3> QED
      BY <2>1, <2>2, <3>1 DEF ServedOK, Served, GroupOf, Creating
  <2>3. ASSUME NEW g \in Groups, NewGroup(g, KeyOf(op.i, op.spec), op.spec.version),
               op' = [op EXCEPT !.pc = "wait", !.g = g, !.created = TRUE]
        PROVE  ServedOK'
    <3>1. Creating(g)'
      BY <1>1, <2>3 DEF Creating, Operation, Placing
    <3>2. \A h \in Groups \ {g} : Running(h)' => Running(h) /\ cancelled'[h] = cancelled[h]
      BY <2>3 DEF NewGroup, Running, TypeOK
    <3> QED
      BY <2>1, <3>1, <3>2 DEF ServedOK, Served, GroupOf, Creating
  <2> QED
    BY <1>5, <2>2, <2>3 DEF Choose
<1>6. CASE Wait \/ Configure \/ Check
  <2>1. /\ op.pc \in Placing /\ op'.pc \in Placing /\ op'.created = op.created /\ op'.g = op.g
    BY <1>1, <1>6 DEF Wait, Configure, Check, Operation, Placing
  <2>2. UNCHANGED <<rec, procs, life, cancelled>>
    BY <1>6 DEF Wait, Configure, Check, groupVars
  <2> QED
    BY <1>2, <2>1, <2>2 DEF Running
<1>7. CASE Rollback
  <2> SUFFICES ASSUME NEW g \in Groups, Running(g)', ~cancelled'[g]
               PROVE  Served(g)'
    BY DEF ServedOK
  <2>1. Running(g) /\ ~cancelled[g] /\ ~Creating(g)
    BY <1>7 DEF Rollback, Running, Retire, Creating
  <2>2. Served(g)
    BY <2>1 DEF ServedOK
  <2> QED
    BY <1>7, <2>2, Marks DEF Served
<1>8. CASE Switch
  <2> DEFINE k == KeyOf(op.i, op.spec)
  <2> SUFFICES ASSUME NEW g \in Groups, Running(g)', ~cancelled'[g]
               PROVE  Served(g)'
    BY DEF ServedOK
  <2>1. Running(g) /\ ~cancelled[g] /\ g \notin Gone
    BY <1>8, Switched DEF Running
  <2>2. /\ op.i \in Instances /\ k \in Key /\ rec'[op.i] # None /\ rec'[op.i].enabled
        /\ KeyOf(op.i, rec'[op.i]) = k /\ procs'[k] = op.g /\ Rebound[k] = op.g
        /\ \A j \in Instances : j # op.i => rec'[j] = rec[j]
        /\ \A x \in Key : x # k => Rebound[x] = procs[x]
        /\ \A x \in Key : x # k => procs'[x] = IF procs[x] \in Gone THEN None ELSE procs[x]
    BY <1>8, Switched
  <2>3. CASE g = op.g
    BY <2>2, <2>3 DEF Served, GroupOf
  <2>4. CASE g # op.g
    <3>1. PICK j \in Instances : rec[j] # None /\ rec[j].enabled /\ GroupOf(j) = g
      BY <2>1, <2>4 DEF ServedOK, Served, Creating
    <3>2. KeyOf(j, rec[j]) \in Key /\ procs[KeyOf(j, rec[j])] = g
      BY <3>1, Binds
    <3>3. PICK w \in Instances : rec'[w] # None /\ rec'[w].enabled /\ Rebound[KeyOf(w, rec'[w])] = g
      <4>1. CASE InUse(g, rec', Rebound)
        BY <4>1 DEF InUse
      <4>2. CASE ~InUse(g, rec', Rebound)
        <5>1. g \notin {GroupOf(op.i), procs[k]}
          BY <2>1, <4>2, NoneApart DEF Gone, Unused
        <5>2. j # op.i /\ KeyOf(j, rec[j]) # k
          BY <3>1, <3>2, <5>1
        <5> QED
          BY <2>2, <3>1, <3>2, <5>2
      <4> QED
        BY <4>1, <4>2
    <3>4. w # op.i /\ rec'[w] = rec[w]
      BY <2>2, <2>4, <3>3
    <3>5. KeyOf(w, rec[w]) \in Key /\ KeyOf(w, rec[w]) # k
      BY <2>2, <2>4, <3>3, <3>4, Binds
    <3>6. procs'[KeyOf(w, rec[w])] = g
      BY <2>1, <2>2, <3>3, <3>4, <3>5
    <3> QED
      BY <3>3, <3>4, <3>6 DEF Served, GroupOf
  <2> QED
    BY <2>3, <2>4
<1> QED
  BY <1>3, <1>4, <1>5, <1>6, <1>7, <1>8 DEF ReconcileStep

LEMMA ServedStep ==
    ASSUME TypeOK, OpOK, GroupsOK, BoundOK, PlacedOK, ServedOK, [Next]_vars
    PROVE  ServedOK'
<1>1. op \in Operation
  BY DEF TypeOK
<1>2. ASSUME op.pc \notin Placing \/ UNCHANGED op,
             \A g \in Groups : Running(g)' => Running(g) /\ (~cancelled'[g] => ~cancelled[g]),
             \A g \in Groups : Running(g)' /\ ~cancelled'[g] /\ Served(g) => Served(g)'
      PROVE  ServedOK'
  <2> SUFFICES ASSUME NEW g \in Groups, Running(g)', ~cancelled'[g] PROVE Served(g)' \/ Creating(g)'
    BY DEF ServedOK
  <2>1. Running(g) /\ ~cancelled[g]
    BY <1>2
  <2>2. Served(g) \/ Creating(g)
    BY <2>1 DEF ServedOK
  <2>3. Creating(g) => Creating(g)'
    BY <1>2 DEF Creating
  <2> QED
    BY <1>2, <2>2, <2>3
<1>3. CASE Looks \/ Starts \/ Ends
  <2>1. op.pc \notin Placing \/ UNCHANGED op
    BY <1>3 DEF Looks, Starts, Ends, Placing
  <2>2. UNCHANGED <<rec, procs, life, cancelled>>
    BY <1>3 DEF Looks, Starts, Ends, Release, Reconcile, groupVars
  <2> QED
    BY <1>2, <2>1, <2>2 DEF Running, Served, GroupOf
<1>4. ASSUME NEW g \in Groups, GroupMoves(g) PROVE ServedOK'
  <2>1. \A h \in Groups : Running(h)' => Running(h) /\ (cancelled'[h] <=> cancelled[h])
    <3>1. CASE Authenticated(g) \/ Publish(g)
      BY <3>1 DEF Authenticated, Publish, Running, TypeOK
    <3>2. CASE Finish(g)
      BY <3>2 DEF Finish, Running, TypeOK
    <3>3. CASE Crash(g)
      BY <3>3 DEF Crash, Running, TypeOK
    <3> QED
      BY <1>4, <3>1, <3>2, <3>3 DEF GroupMoves
  <2>2. UNCHANGED op
    BY <1>4 DEF GroupMoves, Authenticated, Publish, Finish, Crash
  <2>3. CASE Publish(g)
    <3>1. \A h \in Groups : Served(h) => Served(h)'
      BY <2>3, Marks DEF Served
    <3> QED
      BY <1>2, <2>1, <2>2, <3>1
  <2>4. CASE ~Publish(g)
    <3>1. UNCHANGED <<rec, procs>>
      BY <1>4, <2>4 DEF GroupMoves, Authenticated, Finish, Crash
    <3> QED
      BY <1>2, <2>1, <2>2, <3>1 DEF Served, GroupOf
  <2> QED
    BY <2>3, <2>4
<1>5. ASSUME NEW g \in Groups, Restarts(g) PROVE ServedOK'
  <2>1. \A h \in Groups : Running(h)' => Running(h)
    BY <1>5 DEF Restarts, Running, TypeOK
  <2>2. UNCHANGED <<op, rec, procs, cancelled>>
    BY <1>5 DEF Restarts
  <2> QED
    BY <1>2, <2>1, <2>2 DEF Served, GroupOf
<1>6. ASSUME NEW i \in Instances, NEW s \in Spec0, Creates(i, s) PROVE ServedOK'
  <2>1. UNCHANGED <<op, life, cancelled, procs>>
    BY <1>6 DEF Creates, CreateInstance, groupVars
  <2>2. \A j \in Instances : rec[j] # None => rec'[j] = rec[j]
    BY <1>6 DEF Creates, CreateInstance, TypeOK
  <2>3. \A g \in Groups : Served(g) => Served(g)'
    BY <2>1, <2>2 DEF Served, GroupOf
  <2> QED
    BY <1>2, <2>1, <2>3 DEF Running
<1>7. ASSUME NEW i \in Instances, rec[i] # None, NEW e \in BOOLEAN,
             rec' = [rec EXCEPT ![i].enabled = e]
      PROVE  /\ rec'[i] # None /\ rec'[i].enabled = e /\ KeyOf(i, rec'[i]) = KeyOf(i, rec[i])
             /\ \A j \in Instances : j # i => rec'[j] = rec[j]
  <2>1. rec[i] \in Record /\ rec'[i] = [rec[i] EXCEPT !.enabled = e]
    BY <1>7 DEF TypeOK
  <2>2. /\ rec'[i] \in Record /\ rec'[i].own = rec[i].own /\ rec'[i].version = rec[i].version
        /\ rec'[i].enabled = e
    BY <2>1 DEF Record
  <2>3. \A j \in Instances : j # i => rec'[j] = rec[j]
    BY <1>7 DEF TypeOK
  <2> QED
    BY <2>2, <2>3, NoneApart DEF KeyOf
<1>8. ASSUME NEW i \in Instances, Disables(i) PROVE ServedOK'
  <2>1. op.pc \notin Placing /\ UNCHANGED <<op, procs, cancelled>> /\ rec[i] # None /\ rec[i].enabled
    BY <1>8 DEF Disables, SwitchOff, Placing
  <2>2. /\ rec'[i] # None /\ ~rec'[i].enabled /\ \A j \in Instances : j # i => rec'[j] = rec[j]
    BY <1>7, <1>8 DEF Disables, SwitchOff
  <2>3. CASE /\ GroupOf(i) # None /\ life' = [life EXCEPT ![GroupOf(i)] = "off"]
    <3>1. \A h \in Groups : Running(h)' => Running(h) /\ h # GroupOf(i)
      BY <2>3 DEF Running, TypeOK
    <3>2. \A h \in Groups : h # GroupOf(i) /\ Served(h) => Served(h)'
      BY <2>1, <2>2 DEF Served, GroupOf
    <3> QED
      BY <1>2, <2>1, <3>1, <3>2
  <2>4. CASE /\ UNCHANGED life
             /\ GroupOf(i) # None => \E j \in Instances \ {i} : /\ rec[j] # None /\ rec[j].enabled
                                                             /\ KeyOf(j, rec[j]) = KeyOf(i, rec[i])
    <3>1. \A h \in Groups : Served(h) => Served(h)'
      <4> SUFFICES ASSUME NEW h \in Groups, NEW j \in Instances,
                          rec[j] # None, rec[j].enabled, GroupOf(j) = h
                   PROVE  Served(h)'
        BY DEF Served
      <4>1. CASE j # i
        BY <2>1, <2>2, <4>1 DEF Served, GroupOf
      <4>2. CASE j = i
        <5>1. PICK w \in Instances \ {i} : /\ rec[w] # None /\ rec[w].enabled
                                           /\ KeyOf(w, rec[w]) = KeyOf(i, rec[i])
          BY <2>4, <4>2, NoneApart
        <5>2. GroupOf(w) = h
          BY <2>1, <4>2, <5>1 DEF GroupOf
        <5> QED
          BY <2>1, <2>2, <5>1, <5>2 DEF Served, GroupOf
      <4> QED
        BY <4>1, <4>2
    <3> QED
      BY <1>2, <2>1, <2>4, <3>1 DEF Running
  <2> QED
    BY <1>8, <2>3, <2>4 DEF Disables, SwitchOff
<1>9. ASSUME NEW i \in Instances, EnableInstance(i) PROVE ServedOK'
  <2>1. /\ op.pc \notin Placing /\ UNCHANGED op /\ rec[i] # None /\ ~rec[i].enabled
        /\ KeyOf(i, rec[i]) \in Key /\ GroupOf(i) = procs[KeyOf(i, rec[i])]
    BY <1>9, Binds DEF EnableInstance, Placing
  <2>2. /\ rec'[i] # None /\ rec'[i].enabled /\ KeyOf(i, rec'[i]) = KeyOf(i, rec[i])
        /\ \A j \in Instances : j # i => rec'[j] = rec[j]
    BY <1>7, <1>9 DEF EnableInstance
  <2> SUFFICES ASSUME NEW h \in Groups, Running(h)', ~cancelled'[h] PROVE Served(h)'
    BY DEF ServedOK
  <2>3. CASE GroupOf(i) = None
    <3>1. PICK g \in Groups : /\ NewGroup(g, KeyOf(i, rec[i]), rec[i].version)
                              /\ procs' = [procs EXCEPT ![KeyOf(i, rec[i])] = g]
      BY <1>9, <2>3 DEF EnableInstance
    <3>2. /\ procs'[KeyOf(i, rec[i])] = g
          /\ \A x \in Key : procs[x] # None => procs'[x] = procs[x]
      BY <2>1, <2>3, <3>1 DEF TypeOK
    <3>3. CASE h = g
      BY <2>1, <2>2, <3>2, <3>3 DEF Served, GroupOf
    <3>4. CASE h # g
      <4>1. Running(h) /\ ~cancelled[h]
        BY <3>1, <3>4 DEF NewGroup, Running, TypeOK
      <4>2. PICK j \in Instances : rec[j] # None /\ rec[j].enabled /\ GroupOf(j) = h
        BY <2>1, <4>1 DEF ServedOK, Served, Creating
      <4>3. j # i /\ procs'[KeyOf(j, rec[j])] = h
        BY <2>1, <3>2, <4>2, Binds, NoneApart
      <4> QED
        BY <2>2, <4>2, <4>3 DEF Served, GroupOf
    <3> QED
      BY <3>3, <3>4
  <2>4. CASE GroupOf(i) # None
    <3>1. UNCHANGED <<procs, cancelled>>
          /\ life' = [life EXCEPT ![GroupOf(i)] = IF @ = "off" THEN "launching" ELSE @]
      BY <1>9, <2>4 DEF EnableInstance
    <3>2. CASE h = GroupOf(i)
      BY <2>1, <2>2, <3>1, <3>2 DEF Served, GroupOf
    <3>3. CASE h # GroupOf(i)
      <4>1. Running(h) /\ ~cancelled[h]
        BY <3>1, <3>3 DEF Running, TypeOK
      <4>2. PICK j \in Instances : rec[j] # None /\ rec[j].enabled /\ GroupOf(j) = h
        BY <2>1, <4>1 DEF ServedOK, Served, Creating
      <4>3. j # i
        BY <2>1, <4>2
      <4> QED
        BY <2>2, <3>1, <4>2, <4>3 DEF Served, GroupOf
    <3> QED
      BY <3>2, <3>3
  <2> QED
    BY <2>3, <2>4
<1>10. CASE Removes
  <2>1. op.pc \notin Placing /\ op.i \in Instances /\ UNCHANGED life
    BY <1>10 DEF Removes, RemoveRecord, Placing
  <2>2. rec'[op.i] = None /\ \A j \in Instances : j # op.i => rec'[j] = rec[j]
    BY <1>10 DEF Removes, RemoveRecord, TypeOK
  <2>3. CASE /\ GroupOf(op.i) # None
             /\ procs' = [procs EXCEPT ![KeyOf(op.i, rec[op.i])] = None]
             /\ cancelled' = [cancelled EXCEPT ![GroupOf(op.i)] = TRUE]
    <3>1. /\ \A h \in Groups : ~cancelled'[h] => ~cancelled[h] /\ h # GroupOf(op.i)
          /\ \A x \in Key : x # KeyOf(op.i, rec[op.i]) => procs'[x] = procs[x]
      BY <2>3 DEF TypeOK
    <3>2. \A h \in Groups : h # GroupOf(op.i) /\ Served(h) => Served(h)'
      <4> SUFFICES ASSUME NEW h \in Groups, NEW j \in Instances, h # GroupOf(op.i),
                          rec[j] # None, rec[j].enabled, GroupOf(j) = h
                   PROVE  Served(h)'
        BY DEF Served
      <4>1. j # op.i /\ procs[KeyOf(j, rec[j])] = h /\ KeyOf(j, rec[j]) \in Key
        BY Binds
      <4>2. KeyOf(j, rec[j]) # KeyOf(op.i, rec[op.i])
        BY <2>1, <2>3, <4>1, Binds
      <4> QED
        BY <2>2, <3>1, <4>1, <4>2 DEF Served, GroupOf
    <3> QED
      BY <1>2, <2>1, <3>1, <3>2 DEF Running
  <2>4. CASE /\ UNCHANGED <<procs, cancelled>>
             /\ GroupOf(op.i) # None => InUse(GroupOf(op.i), rec', procs)
    <3>1. \A h \in Groups : Served(h) => Served(h)'
      <4> SUFFICES ASSUME NEW h \in Groups, NEW j \in Instances,
                          rec[j] # None, rec[j].enabled, GroupOf(j) = h
                   PROVE  Served(h)'
        BY DEF Served
      <4>1. CASE j # op.i
        BY <2>2, <2>4, <4>1 DEF Served, GroupOf
      <4>2. CASE j = op.i
        BY <2>4, <4>2, NoneApart DEF InUse, Served, GroupOf
      <4> QED
        BY <4>1, <4>2
    <3> QED
      BY <1>2, <2>1, <2>4, <3>1 DEF Running
  <2> QED
    BY <1>10, <2>3, <2>4 DEF Removes, RemoveRecord
<1>11. CASE Closes
  BY <1>11 DEF Closes, ServedOK, Running
<1>12. CASE Restart
  BY <1>12 DEF Restart, ServedOK, Running
<1> QED
  BY <1>3, <1>4, <1>5, <1>6, <1>8, <1>9, <1>10, <1>11, <1>12, Steps, ServedReconcile

-----------------------------------------------------------------------------
(* Groups of an instance's own *)

(* A closed Host stays closed until the Edge is started again.              *)
LEMMA ClosedStays ==
    ASSUME [Next]_vars, phase = "closed", ~Restart
    PROVE  phase' = "closed"
BY DEF Next, vars, hostVars, HostStep, Begin, Skip, Apply, Applied, Refused, RetireAbsent, Retired,
       RetireFails, End, Loaded, Probe, Fault, Direct

LEMMA OwnReconcile ==
    ASSUME TypeOK, OpOK, GroupsOK, BoundOK, PlacedOK, OwnOK, ReconcileStep
    PROVE  OwnOK'
<1>1. op \in Operation /\ op.pc # "idle" /\ phase # "closed"
  BY DEF TypeOK, OpOK, ReconcileStep, Settle, Deactivate, Choose, Wait, Configure, Check, Rollback,
         Switch
<1>2. op.i \in Instances
  BY <1>1 DEF OpOK, TypeOK
<1>3. ASSUME op'.pc \in Placing <=> op.pc \in Placing, op'.created = op.created, op'.g = op.g,
             UNCHANGED <<procs, key>>,
             \A g \in Groups : Running(g)' => Running(g) /\ retiring'[g] = retiring[g]
      PROVE  OwnOK'
  BY <1>1, <1>3 DEF OwnOK, Creating
<1>4. ASSUME NEW from \in {"settle", "abandon", "retire"}, NEW to \in {"choose", "failed", "ok"},
             Settle(from, to)
      PROVE  OwnOK'
  <2>1. op.pc = from /\ op'.pc \in {"choose", "failed", "ok"} /\ op'.created = op.created /\ op'.g = op.g
    BY <1>1, <1>4 DEF Settle, Operation
  <2>2. op.pc \notin Placing /\ op'.pc \notin Placing
    BY <2>1 DEF Placing
  <2>3. \A g \in Groups : Running(g)' => Running(g) /\ retiring'[g] = retiring[g]
    BY <1>4 DEF Settle, Running, TypeOK
  <2>4. UNCHANGED <<procs, key>>
    BY <1>4 DEF Settle
  <2> QED
    BY <1>3, <2>1, <2>2, <2>3, <2>4
<1>5. CASE Deactivate
  <2> SUFFICES ASSUME NEW g \in Groups, Running(g)', key'[g] \in Instances
               PROVE  procs'[key'[g]] = g \/ retiring'[g] = key'[g]
    BY DEF OwnOK
  <2>1. /\ op.pc = "choose" /\ UNCHANGED <<key, life>>
        /\ retiring'[g] = IF g \in Left THEN op.i ELSE retiring[g]
        /\ procs'[key[g]] = IF procs[key[g]] \in Left THEN None ELSE procs[key[g]]
        /\ g \in Left => rec[op.i] # None /\ key[g] = KeyOf(op.i, rec[op.i])
    BY <1>5, Deactivated DEF Key
  <2>2. procs[key[g]] = g \/ retiring[g] = key[g]
    BY <1>1, <2>1 DEF OwnOK, Creating, Placing, Running
  <2>3. g \in Left => key[g] = op.i
    BY <1>2, <2>1, Keys, Binds, ManagerAssumption
  <2> QED
    BY <2>1, <2>2, <2>3
<1>6. CASE Choose
  <2>1. op.pc = "choose" /\ op.pc \notin Placing /\ UNCHANGED <<retiring, procs>>
    BY <1>6 DEF Choose, Placing
  <2>2. CASE UNCHANGED groupVars
    BY <1>1, <2>1, <2>2 DEF groupVars, Running, OwnOK, Creating
  <2>3. ASSUME NEW g \in Groups, NewGroup(g, KeyOf(op.i, op.spec), op.spec.version),
               op' = [op EXCEPT !.pc = "wait", !.g = g, !.created = TRUE]
        PROVE  OwnOK'
    <3>1. Creating(g)'
      BY <1>1, <2>3 DEF Creating, Operation, Placing
    <3>2. \A h \in Groups \ {g} : Running(h)' => Running(h) /\ key'[h] = key[h]
      BY <2>3 DEF NewGroup, Running, TypeOK
    <3> QED
      BY <1>1, <2>1, <3>1, <3>2 DEF OwnOK, Creating
  <2> QED
    BY <1>6, <2>2, <2>3 DEF Choose
<1>7. CASE Wait \/ Configure \/ Check
  <2>1. /\ op.pc \in Placing /\ op'.pc \in Placing /\ op'.created = op.created /\ op'.g = op.g
    BY <1>1, <1>7 DEF Wait, Configure, Check, Operation, Placing
  <2>2. UNCHANGED <<procs, key, life, retiring>>
    BY <1>7 DEF Wait, Configure, Check, groupVars
  <2> QED
    BY <1>3, <2>1, <2>2 DEF Running
<1>8. CASE Rollback
  <2> SUFFICES ASSUME NEW g \in Groups, Running(g)', key'[g] \in Instances
               PROVE  procs'[key'[g]] = g \/ retiring'[g] = key'[g]
    BY DEF OwnOK
  <2>1. Running(g) /\ UNCHANGED <<key, procs>> /\ op.pc \in Placing
        /\ retiring'[g] = IF op.created /\ g = op.g THEN op.i ELSE retiring[g]
    BY <1>8 DEF Rollback, Running, Retire, Placing
  <2>2. procs[key[g]] = g \/ retiring[g] = key[g] \/ Creating(g)
    BY <1>1, <2>1 DEF OwnOK
  <2>3. op.created /\ g = op.g => key[g] = op.i
    <3>1. op.created /\ g = op.g => key[g] = KeyOf(op.i, op.spec)
      BY <2>1 DEF PlacedOK
    <3>2. op.spec \in Spec0
      BY <1>1 DEF OpOK
    <3> QED
      BY <1>2, <2>1, <3>1, <3>2, Keys, ManagerAssumption
  <2> QED
    BY <2>1, <2>2, <2>3 DEF Creating
<1>9. CASE Switch
  <2> DEFINE k == KeyOf(op.i, op.spec)
  <2> SUFFICES ASSUME NEW g \in Groups, Running(g)', key'[g] \in Instances
               PROVE  procs'[key'[g]] = g \/ retiring'[g] = key'[g]
    BY DEF OwnOK
  <2>1. /\ Running(g) /\ UNCHANGED key /\ op.spec \in Spec0 /\ k \in Key
        /\ retiring'[g] = IF g \in Gone THEN op.i ELSE retiring[g]
        /\ procs'[k] = op.g /\ key[op.g] = k /\ Rebound[k] = op.g
        /\ key[g] # k => procs'[key[g]] = IF procs[key[g]] \in Gone THEN None ELSE procs[key[g]]
        /\ \A x \in Key : x # k => Rebound[x] = procs[x]
        /\ \A j \in Instances : j # op.i => rec'[j] = rec[j]
        /\ KeyOf(op.i, rec'[op.i]) = k
    BY <1>9, Switched DEF Running, Retire, Key
  <2>2. procs[key[g]] = g \/ retiring[g] = key[g] \/ Creating(g)
    BY <1>1, <2>1 DEF OwnOK
  <2>3. k \in Instances => k = op.i
    BY <1>2, <2>1, Keys, ManagerAssumption
  <2>4. g \in Gone => key[g] = op.i
    <3> SUFFICES ASSUME g \in Gone PROVE key[g] = op.i
      OBVIOUS
    <3>1. g \in {GroupOf(op.i), procs[k]} /\ g # None
      BY DEF Gone, Unused
    <3>2. CASE g = GroupOf(op.i)
      BY <1>2, <2>1, <3>1, <3>2, Binds, Keys, ManagerAssumption
    <3>3. CASE g = procs[k]
      BY <2>1, <2>3, <3>1, <3>3 DEF BoundOK
    <3> QED
      BY <3>1, <3>2, <3>3
  <2>5. CASE Creating(g)
    BY <2>1, <2>5 DEF Creating
  <2>6. CASE retiring[g] = key[g]
    BY <2>1, <2>4, <2>6
  <2>7. CASE procs[key[g]] = g
    <3>1. CASE key[g] # k
      BY <2>1, <2>4, <2>7, <3>1
    <3>2. CASE key[g] = k /\ g = op.g
      BY <2>1, <3>2
    <3>3. CASE key[g] = k /\ g # op.g
      <4>1. ~InUse(g, rec', Rebound)
        <5> SUFFICES ASSUME NEW w \in Instances, rec'[w] # None, Rebound[KeyOf(w, rec'[w])] = g
                     PROVE  FALSE
          BY DEF InUse
        <5>1. w # op.i /\ rec'[w] = rec[w]
          BY <2>1, <3>3
        <5>2. KeyOf(w, rec[w]) \in Key /\ KeyOf(w, rec[w]) # k
          BY <2>1, <3>3, <5>1, Binds
        <5>3. procs[KeyOf(w, rec[w])] = g
          BY <2>1, <5>1, <5>2
        <5> QED
          BY <3>3, <5>2, <5>3, NoneApart DEF BoundOK
      <4>2. g \in Gone
        BY <2>7, <3>3, <4>1, NoneApart DEF Gone, Unused
      <4> QED
        BY <2>1, <2>4, <4>2
    <3> QED
      BY <3>1, <3>2, <3>3
  <2> QED
    BY <2>2, <2>5, <2>6, <2>7
<1> QED
  BY <1>4, <1>5, <1>6, <1>7, <1>8, <1>9 DEF ReconcileStep

LEMMA OwnStep ==
    ASSUME TypeOK, OpOK, GroupsOK, BoundOK, PlacedOK, OwnOK, StopOK, [Next]_vars
    PROVE  OwnOK'
<1>1. op \in Operation /\ (op.pc # "idle" => op.i \in Instances /\ phase # "closed")
  BY DEF TypeOK, OpOK
<1>2. ASSUME op.pc \notin Placing \/ UNCHANGED op, ~Restart,
             \A g \in Groups : Running(g)' => /\ Running(g) /\ key'[g] = key[g]
                                             /\ retiring'[g] = retiring[g],
             \A g \in Groups : key[g] \in Instances /\ procs[key[g]] = g => procs'[key[g]] = g
      PROVE  OwnOK'
  <2> SUFFICES ASSUME NEW g \in Groups, Running(g)', key'[g] \in Instances, phase' # "closed"
               PROVE  procs'[key'[g]] = g \/ retiring'[g] = key'[g] \/ Creating(g)'
    BY DEF OwnOK
  <2>1. phase # "closed"
    BY <1>2, ClosedStays
  <2>2. Running(g) /\ key'[g] = key[g] /\ retiring'[g] = retiring[g]
    BY <1>2
  <2>3. procs[key[g]] = g \/ retiring[g] = key[g] \/ Creating(g)
    BY <2>1, <2>2 DEF OwnOK
  <2>4. Creating(g) => Creating(g)'
    BY <1>2 DEF Creating
  <2> QED
    BY <1>2, <2>2, <2>3, <2>4
<1>3. CASE Restart
  BY <1>3 DEF Restart, OwnOK, Running
<1>4. CASE (Looks \/ Starts \/ Ends) /\ ~Restart
  <2>1. op.pc \notin Placing \/ UNCHANGED op
    BY <1>4 DEF Looks, Starts, Ends, Placing
  <2>2. UNCHANGED <<procs, key, life, retiring>>
    BY <1>4 DEF Looks, Starts, Ends, Release, Reconcile, groupVars
  <2> QED
    BY <1>2, <1>4, <2>1, <2>2 DEF Running
<1>5. ASSUME NEW g \in Groups, GroupMoves(g), ~Restart PROVE OwnOK'
  <2>1. \A h \in Groups : Running(h)' => Running(h)
    <3>1. CASE Authenticated(g) \/ Publish(g)
      BY <3>1 DEF Authenticated, Publish, Running, TypeOK
    <3>2. CASE Finish(g)
      BY <3>2 DEF Finish, Running, TypeOK
    <3>3. CASE Crash(g)
      BY <3>3 DEF Crash, Running, TypeOK
    <3> QED
      BY <1>5, <3>1, <3>2, <3>3 DEF GroupMoves
  <2>2. UNCHANGED <<op, procs, key, retiring>>
    BY <1>5 DEF GroupMoves, Authenticated, Publish, Finish, Crash
  <2> QED
    BY <1>2, <1>5, <2>1, <2>2
<1>6. ASSUME NEW g \in Groups, Restarts(g), ~Restart PROVE OwnOK'
  <2>1. \A h \in Groups : Running(h)' => Running(h)
    BY <1>6 DEF Restarts, Running, TypeOK
  <2> QED
    BY <1>2, <1>6, <2>1 DEF Restarts
<1>7. ASSUME NEW i \in Instances, NEW s \in Spec0, Creates(i, s), ~Restart PROVE OwnOK'
  BY <1>2, <1>7 DEF Creates, CreateInstance, groupVars, Running
<1>8. ASSUME NEW i \in Instances, Disables(i), ~Restart PROVE OwnOK'
  <2>1. \A h \in Groups : Running(h)' => Running(h)
    BY <1>8 DEF Disables, SwitchOff, Running, TypeOK
  <2> QED
    BY <1>2, <1>8, <2>1 DEF Disables, SwitchOff
<1>9. ASSUME NEW i \in Instances, EnableInstance(i), ~Restart PROVE OwnOK'
  <2>1. /\ op.pc \notin Placing /\ UNCHANGED <<op, retiring>> /\ rec[i] # None
        /\ KeyOf(i, rec[i]) \in Key /\ GroupOf(i) = procs[KeyOf(i, rec[i])]
    BY <1>9, Binds DEF EnableInstance, Placing
  <2> SUFFICES ASSUME NEW h \in Groups, Running(h)', key'[h] \in Instances, phase' # "closed"
               PROVE  procs'[key'[h]] = h \/ retiring'[h] = key'[h]
    BY DEF OwnOK
  <2>2. phase # "closed"
    BY <1>9, ClosedStays
  <2>3. CASE GroupOf(i) = None
    <3>1. PICK g \in Groups : /\ NewGroup(g, KeyOf(i, rec[i]), rec[i].version)
                              /\ procs' = [procs EXCEPT ![KeyOf(i, rec[i])] = g]
      BY <1>9, <2>3 DEF EnableInstance
    <3>2. /\ procs'[KeyOf(i, rec[i])] = g /\ key'[g] = KeyOf(i, rec[i])
          /\ \A x \in Key : procs[x] # None => procs'[x] = procs[x]
      BY <2>1, <2>3, <3>1 DEF TypeOK, NewGroup
    <3>3. CASE h = g
      BY <3>2, <3>3
    <3>4. CASE h # g
      <4>1. Running(h) /\ key'[h] = key[h] /\ key[h] \in Key
        BY <3>1, <3>4 DEF NewGroup, Running, TypeOK, Key
      <4>2. procs[key[h]] = h \/ retiring[h] = key[h]
        BY <2>1, <2>2, <4>1 DEF OwnOK, Creating
      <4> QED
        BY <2>1, <3>2, <4>1, <4>2, NoneApart
    <3> QED
      BY <3>3, <3>4
  <2>4. CASE GroupOf(i) # None
    <3>1. UNCHANGED <<procs, key>>
          /\ life' = [life EXCEPT ![GroupOf(i)] = IF @ = "off" THEN "launching" ELSE @]
      BY <1>9, <2>4 DEF EnableInstance
    <3>2. CASE h = GroupOf(i)
      BY <2>1, <2>4, <3>1, <3>2, Binds
    <3>3. CASE h # GroupOf(i)
      <4>1. Running(h)
        BY <3>1, <3>3 DEF Running, TypeOK
      <4> QED
        BY <2>1, <2>2, <3>1, <4>1 DEF OwnOK, Creating
    <3> QED
      BY <3>2, <3>3
  <2> QED
    BY <2>3, <2>4
<1>10. CASE Removes /\ ~Restart
  <2>1. /\ op.pc \notin Placing /\ op.i \in Instances /\ UNCHANGED <<life, key, retiring>>
    BY <1>10 DEF Removes, RemoveRecord, Placing
  <2>2. procs[op.i] = None
    BY <1>10 DEF Removes, OpOK, StopOK
  <2>3. \A x \in Instances : procs'[x] = procs[x]
    <3>1. CASE UNCHANGED procs
      BY <3>1
    <3>2. CASE GroupOf(op.i) # None /\ procs' = [procs EXCEPT ![KeyOf(op.i, rec[op.i])] = None]
      <4>1. ~rec[op.i].own /\ KeyOf(op.i, rec[op.i]) \notin Instances
        BY <2>1, <2>2, <3>2, Binds, Keys, ManagerAssumption
      <4> QED
        BY <3>2, <4>1 DEF TypeOK, Key
    <3> QED
      BY <1>10, <3>1, <3>2 DEF Removes, RemoveRecord
  <2> QED
    BY <1>2, <1>10, <2>1, <2>3 DEF Running
<1>11. CASE Closes
  BY <1>11 DEF Closes, OwnOK
<1> QED
  BY <1>3, <1>4, <1>5, <1>6, <1>7, <1>8, <1>9, <1>10, <1>11, Steps, OwnReconcile

-----------------------------------------------------------------------------
(* What was reported stopped *)

(* Nothing starts but by an operation that creates a group, or by others    *)
(* than the Host.                                                           *)
Calm ==
    \/ UNCHANGED vars \/ HostStep \/ GroupStep \/ \E g \in Groups : Crash(g)
    \/ Applied(FALSE) \/ Retired(FALSE) \/ Restart
    \/ Settle("settle", "choose") \/ Settle("abandon", "failed") \/ Settle("retire", "ok")
    \/ Deactivate \/ Wait \/ Configure \/ Check \/ Rollback \/ Switch

LEMMA CalmOrNot == [Next]_vars => Calm \/ Direct \/ (Choose /\ UNCHANGED hostVars)
BY DEF Next, Fault, ReconcileStep, Calm

LEMMA NothingStarts ==
    ASSUME TypeOK, Calm, NEW i \in Instances, Still(i)
    PROVE  Still(i)'
<1>1. ASSUME \A g \in Groups : Running(g)' => Running(g) /\ key'[g] = key[g] PROVE Still(i)'
  BY <1>1 DEF Still
<1>2. CASE UNCHANGED <<life, key>>
  BY <1>1, <1>2 DEF Running
<1>3. ASSUME NEW g \in Groups, Authenticated(g) \/ Publish(g) PROVE Still(i)'
  BY <1>1, <1>3 DEF Authenticated, Publish, Running, TypeOK
<1>4. ASSUME NEW g \in Groups, Finish(g) PROVE Still(i)'
  BY <1>1, <1>4 DEF Finish, Running, TypeOK
<1>5. ASSUME NEW g \in Groups, Crash(g) PROVE Still(i)'
  BY <1>1, <1>5 DEF Crash, Running, TypeOK
<1>6. ASSUME NEW from, NEW to, Settle(from, to) PROVE Still(i)'
  BY <1>1, <1>6 DEF Settle, Running, TypeOK
<1>7. CASE Restart
  BY <1>1, <1>7 DEF Restart, Running
<1>8. CASE Loaded
  BY <1>1, <1>8 DEF Loaded, Release, managerVars, groupVars, Running, TypeOK
<1>9. CASE HostStep /\ ~Loaded
  <2>1. UNCHANGED <<life, key>>
    BY <1>9 DEF HostStep, Begin, Reconcile, Skip, Apply, Applied, Refused, RetireAbsent, Retired,
                RemoveRecord, RetireFails, End, Probe, CollectProbes, Release, managerVars, groupVars
  <2> QED
    BY <1>2, <2>1
<1>10. CASE Applied(FALSE) \/ Retired(FALSE)
  BY <1>2, <1>10 DEF Applied, Retired, RemoveRecord, Release, groupVars
<1>11. CASE Deactivate \/ Wait \/ Configure \/ Check \/ Rollback \/ Switch
  BY <1>2, <1>11 DEF Deactivate, Wait, Configure, Check, Rollback, Switch, groupVars
<1>12. CASE UNCHANGED vars
  BY <1>2, <1>12 DEF vars, managerVars, groupVars
<1> QED
  BY <1>3, <1>4, <1>5, <1>6, <1>7, <1>8, <1>9, <1>10, <1>11, <1>12 DEF Calm, GroupStep

(* The operation that turned an instance off.                               *)
OffOK == /\ op.pc \in {"retire", "ok"} /\ ~op.enabled => procs[op.i] = None
         /\ op.pc = "ok" /\ ~op.enabled => Still(op.i)

LEMMA OffStep ==
    ASSUME TypeOK, OpOK, GroupsOK, BoundOK, PlacedOK, OwnOK, StopOK, [Next]_vars
    PROVE  OffOK'
<1>1. op \in Operation /\ (op.pc # "idle" => op.i \in Instances /\ phase # "closed") /\ OffOK
  BY DEF TypeOK, OpOK, StopOK, OffOK
<1>2. ASSUME op'.pc \notin {"retire", "ok"} PROVE OffOK'
  BY <1>2 DEF OffOK
<1>3. CASE op' = Idle \/ (op.pc = "idle" /\ UNCHANGED op)
  BY <1>2, <1>3 DEF Idle
<1>4. CASE Starts
  <2>1. op'.pc = "settle"
    BY <1>4 DEF Starts, Reconcile, Idle
  <2> QED
    BY <1>2, <2>1
<1>5. CASE \/ Ends \/ Removes \/ Closes \/ Restart \/ \E g \in Groups : Restarts(g)
           \/ \E i \in Instances, s \in Spec0 : Creates(i, s)
           \/ \E i \in Instances : EnableInstance(i) \/ Disables(i)
  BY <1>3, <1>5 DEF Ends, Release, Removes, Closes, Restart, Restarts, Creates, CreateInstance,
                    EnableInstance, Disables, SwitchOff
<1>6. CASE Direct
  <2>1. op.pc = "idle"
    BY <1>6 DEF Direct, OpOK
  <2>2. UNCHANGED op
    BY <1>6 DEF Direct, CreateInstance, EnableInstance, DisableInstance, Judge, SwitchOff
  <2> QED
    BY <1>3, <2>1, <2>2
<1>7. CASE UNCHANGED <<op, procs>> /\ Calm /\ op.pc # "idle"
  <2>1. Still(op.i) => Still(op.i)'
    BY <1>1, <1>7, NothingStarts
  <2> QED
    BY <1>1, <1>7, <2>1 DEF OffOK, Still
<1>8. CASE Looks \/ \E g \in Groups : GroupMoves(g)
  <2>1. UNCHANGED <<op, procs>>
    BY <1>8 DEF Looks, GroupMoves, Authenticated, Publish, Finish, Crash
  <2>2. CASE Choose
    <3>1. op.pc = "choose"
      BY <2>2 DEF Choose
    <3> QED
      BY <1>2, <2>1, <3>1
  <2> QED
    BY <1>3, <1>6, <1>7, <2>1, <2>2, CalmOrNot
<1>9. CASE ReconcileStep
  <2>1. CASE Settle("settle", "choose") \/ Settle("abandon", "failed") \/ Choose \/ Wait
             \/ Configure \/ Check \/ Rollback
    <3>1. op'.pc \notin {"retire", "ok"} \/ (op'.enabled /\ op'.pc = "ok")
      <4>1. CASE Settle("settle", "choose") \/ Settle("abandon", "failed")
        BY <1>1, <4>1 DEF Settle, Operation
      <4>2. CASE Choose
        BY <1>1, <4>2 DEF Choose, Operation
      <4>3. CASE Wait \/ Configure \/ Check
        BY <1>1, <4>3 DEF Wait, Configure, Check, Operation
      <4>4. CASE Rollback
        BY <1>1, <4>4 DEF Rollback, Operation
      <4> QED
        BY <2>1, <4>1, <4>2, <4>3, <4>4
    <3> QED
      BY <3>1 DEF OffOK
  <2>2. CASE Deactivate
    <3>1. op'.pc = "retire" /\ op'.i = op.i
      BY <1>1, <2>2 DEF Deactivate, Operation
    <3> QED
      BY <2>2, <3>1, Deactivated DEF OffOK
  <2>3. CASE Switch
    <3>1. op'.enabled
      BY <1>1, <2>3, Switched DEF Switch, Operation
    <3> QED
      BY <3>1 DEF OffOK
  <2>4. CASE Settle("retire", "ok")
    <3>1. /\ op.pc = "retire" /\ op'.i = op.i /\ op'.enabled = op.enabled /\ UNCHANGED <<procs, key>>
          /\ op'.pc \in {"ok", "failed"} /\ op.i \in Instances
      BY <1>1, <2>4 DEF Settle, Operation
    <3>2. \A g \in Groups : Running(g)' => Running(g)
      BY <2>4 DEF Settle, Running, TypeOK
    <3>3. ASSUME op'.pc = "ok", ~op.enabled, NEW g \in Groups, key[g] = op.i, Running(g)'
          PROVE  FALSE
      <4>1. Running(g) /\ procs[op.i] = None
        BY <1>1, <3>1, <3>2, <3>3 DEF OffOK
      <4>2. retiring[g] = op.i
        BY <1>1, <3>1, <3>3, <4>1, NoneApart DEF OwnOK, Creating, Placing
      <4>3. life[g] = "done"
        BY <1>1, <2>4, <3>3, <4>2 DEF Settle, Pending, Operation
      <4> QED
        BY <4>1, <4>3 DEF Running
    <3> QED
      BY <1>1, <3>1, <3>3 DEF OffOK, Still
  <2> QED
    BY <1>9, <2>1, <2>2, <2>3, <2>4 DEF ReconcileStep
<1> QED
  BY <1>4, <1>5, <1>8, <1>9, Steps

LEMMA StopStep ==
    ASSUME TypeOK, OpOK, GroupsOK, BoundOK, PlacedOK, OwnOK, StopOK, [Next]_vars
    PROVE  StopOK'
<1> USE DEF hostVars
<1>1. op \in Operation /\ (op.pc # "idle" => op.i \in todo /\ op.i \in Instances)
  BY DEF TypeOK, OpOK
<1>2. ASSUME phase' = "apply" => absent' \cap todo' = {},
             phase' = "retire" => todo' \subseteq absent',
             \A i \in Instances : acked'[i] # None =>
                /\ phase' \in {"apply", "retire", "idle"}
                /\ phase' = "apply" => i \notin todo' \cup absent'
                /\ phase' = "retire" => i \notin todo'
                /\ acked'[i] = "stopped" => Still(i)'
      PROVE  StopOK'
  <2>1. OffOK'
    BY OffStep
  <2> QED
    BY <1>2, <2>1 DEF StopOK, OffOK
<1>3. ASSUME \A i \in Instances : acked'[i] = None,
             phase' = "apply" => absent' \cap todo' = {}, phase' # "retire"
      PROVE  StopOK'
  BY <1>2, <1>3
<1>4. CASE Calm /\ UNCHANGED hostVars
  BY <1>2, <1>4, NothingStarts DEF StopOK
<1>5. CASE Choose /\ UNCHANGED hostVars
  <2>1. op.pc = "choose" /\ op.i \in todo /\ phase \in {"apply", "retire", "load"}
        /\ op.spec \in Spec0
    BY <1>5 DEF Choose, OpOK
  <2>2. acked[op.i] = None
    BY <1>1, <2>1 DEF StopOK
  <2>3. ASSUME NEW i \in Instances, acked[i] = "stopped" PROVE Still(i)'
    <3>1. Still(i)
      BY <2>3, HostAssumption DEF StopOK
    <3>2. CASE UNCHANGED groupVars
      BY <3>1, <3>2 DEF groupVars, Still, Running
    <3>3. ASSUME NEW g \in Groups, NewGroup(g, KeyOf(op.i, op.spec), op.spec.version) PROVE Still(i)'
      <4>1. KeyOf(op.i, op.spec) # i
        BY <1>1, <2>1, <2>2, <2>3, Keys, HostAssumption, ManagerAssumption
      <4> QED
        BY <3>1, <3>3, <4>1 DEF NewGroup, Still, Running, TypeOK
    <3> QED
      BY <1>5, <3>2, <3>3 DEF Choose
  <2> QED
    BY <1>2, <1>5, <2>3 DEF StopOK
<1>6. CASE Direct
  <2>1. \A i \in Instances : acked'[i] = None
    BY <1>6 DEF Direct
  <2> QED
    BY <1>3, <1>6, <2>1 DEF Direct
<1>7. CASE Restart
  BY <1>3, <1>7 DEF Restart
<1>8. ASSUME NEW i \in Instances, Calm PROVE acked[i] = "stopped" => Still(i)'
  <2>1. acked[i] = "stopped" => Still(i)
    BY HostAssumption DEF StopOK
  <2> QED
    BY <1>8, <2>1, NothingStarts
<1>9. CASE HostStep
  <2>1. Calm
    BY <1>9 DEF Calm
  <2>2. CASE (\E i \in Instances : Begin(i)) \/ Probe
    BY <1>4, <2>1, <2>2 DEF Begin, Probe
  <2>3. ASSUME NEW i \in Instances, Skip(i) PROVE StopOK'
    <3>1. /\ phase' = "apply" /\ phase = "apply" /\ todo' = todo \ {i} /\ acked' = acked
          /\ absent' \subseteq absent \cup {i} /\ i \in todo
      BY <2>3 DEF Skip
    <3> QED
      BY <1>2, <1>8, <2>1, <3>1 DEF StopOK
  <2>4. CASE Apply
    BY <1>3, <2>4 DEF Apply
  <2>5. CASE Applied(TRUE)
    <3>1. /\ phase = "apply" /\ phase' = "apply" /\ todo' = todo \ {op.i} /\ absent' = absent
          /\ op.pc = "ok" /\ op.i \in todo /\ op.i \in Instances
          /\ acked' = [acked EXCEPT ![op.i] = IF op.enabled THEN "enabled" ELSE "stopped"]
      BY <1>1, <2>5 DEF Applied, Saves
    <3>2. /\ \A j \in Instances : j # op.i => acked'[j] = acked[j]
          /\ acked'[op.i] = "stopped" => ~op.enabled
      BY <3>1 DEF TypeOK
    <3>3. \A j \in Instances : j = op.i /\ ~op.enabled => Still(j)'
      BY <2>1, <3>1, NothingStarts DEF StopOK
    <3> QED
      BY <1>2, <1>8, <2>1, <3>1, <3>2, <3>3 DEF StopOK
  <2>6. CASE Refused
    BY <1>2, <1>8, <2>1, <2>6 DEF Refused, StopOK
  <2>7. CASE RetireAbsent
    BY <1>2, <1>8, <2>1, <2>7 DEF RetireAbsent, StopOK
  <2>8. CASE Retired(TRUE)
    <3>1. /\ phase = "retire" /\ phase' = "retire" /\ todo' = todo \ {op.i} /\ absent' = absent
          /\ op.pc = "ok" /\ ~op.enabled /\ op.i \in todo /\ op.i \in Instances
          /\ acked' = [acked EXCEPT ![op.i] = "stopped"]
      BY <1>1, <2>8 DEF Retired, Saves, OpOK
    <3>2. \A j \in Instances : j # op.i => acked'[j] = acked[j]
      BY <3>1 DEF TypeOK
    <3>3. \A j \in Instances : j = op.i => Still(j)'
      BY <2>1, <3>1, NothingStarts DEF StopOK
    <3> QED
      BY <1>2, <1>8, <2>1, <3>1, <3>2, <3>3 DEF StopOK
  <2>9. CASE RetireFails
    BY <1>2, <1>8, <2>1, <2>9 DEF RetireFails, StopOK
  <2>10. CASE End
    BY <1>2, <1>8, <2>1, <2>10 DEF End, StopOK
  <2>11. CASE Loaded
    <3>1. phase = "load" /\ phase' \in {"load", "idle", "closed"} /\ acked' = acked
      BY <2>11 DEF Loaded
    <3>2. \A i \in Instances : acked'[i] = None
      BY <3>1 DEF StopOK
    <3> QED
      BY <1>3, <3>1, <3>2
  <2> QED
    BY <1>9, <2>2, <2>3, <2>4, <2>5, <2>6, <2>7, <2>8, <2>9, <2>10, <2>11 DEF HostStep
<1>10. CASE Applied(FALSE) \/ Retired(FALSE)
  <2>1. Calm
    BY <1>10 DEF Calm
  <2>2. /\ acked' = acked /\ phase' = phase /\ phase \in {"apply", "retire"} /\ absent' = absent
        /\ todo' \subseteq todo
    BY <1>10 DEF Applied, Retired, Saves
  <2> QED
    BY <1>2, <1>8, <2>1, <2>2 DEF StopOK
<1> QED
  BY <1>4, <1>5, <1>6, <1>7, <1>9, <1>10 DEF Next, Fault, ReconcileStep, Calm, vars

-----------------------------------------------------------------------------
(* Sessions and what is collected to be replayed *)

(* The session a group publishes is nobody's.                               *)
LEMMA NewSessionIsNew ==
    ASSUME TypeOK, NEW g \in Groups, Publish(g)
    PROVE  \E n \in 1..MaxSessions :
              /\ session' = [session EXCEPT ![g] = n] /\ n # 0 /\ session'[g] = n
              /\ \A h \in Groups : session[h] # n
              /\ \A i \in Instances : rec[i] # None => rec[i].session # n
              /\ op.sess # n
              /\ \A i \in Instances :
                    \/ rec'[i] = rec[i]
                    \/ /\ rec[i] # None /\ rec'[i].session = n
                       /\ \E t \in replay[g] : t.i = i /\ t.same
<1> DEFINE n == CHOOSE m \in NewSession : TRUE
<1>1. n \in NewSession
  BY DEF Publish
<1>2. /\ n \in 1..MaxSessions /\ n # 0 /\ op.sess # n
      /\ \A h \in Groups : session[h] # n
      /\ \A i \in Instances : rec[i] # None => rec[i].session # n
  <2> HIDE DEF n
  <2>1. /\ n \in 1..MaxSessions
        /\ \A h \in Groups : session[h] # n
        /\ \A i \in Instances : rec[i] # None => rec[i].session # n
        /\ op.sess # n
    BY <1>1 DEF NewSession
  <2>2. n # 0
    BY <2>1, ManagerAssumption
  <2> QED
    BY <2>1, <2>2
<1>3. session' = [session EXCEPT ![g] = n] /\ session'[g] = n
  BY DEF Publish, TypeOK
<1>4. \A i \in Instances : rec[i] # None =>
          [rec[i] EXCEPT !.session = session'[g], !.told = @ \/ rec[i].config # Empty].session = n
  <2> HIDE DEF n
  <2>1. \A i \in Instances : rec[i] # None => rec[i] \in Record
    BY DEF TypeOK
  <2> QED
    BY <1>3, <2>1 DEF Record
<1>5. \A i \in Instances : \/ rec'[i] = rec[i]
                           \/ /\ rec[i] # None /\ rec'[i].session = n
                              /\ \E t \in replay[g] : t.i = i /\ t.same
  <2> HIDE DEF n
  <2> QED
    BY <1>4 DEF Publish
<1> HIDE DEF n
<1> QED
  BY <1>2, <1>3, <1>5

LEMMA SessionsStep ==
    ASSUME TypeOK, OpOK, GroupsOK, BoundOK, PlacedOK, SessionsOK, [Next]_vars
    PROVE  SessionsOK'
<1>1. op \in Operation
  BY DEF TypeOK
<1>2. ASSUME \A g \in Groups : session'[g] = session[g] \/ session'[g] = 0,
             op'.sess = 0 \/ (op'.sess = op.sess /\ op'.g = op.g)
      PROVE  SessionsOK'
  BY <1>2 DEF SessionsOK
<1>3. Idle.sess = 0
  BY DEF Idle
<1>4. CASE Looks
  BY <1>2, <1>4 DEF Looks, groupVars
<1>5. CASE Starts
  <2>1. op'.sess = 0
    BY <1>5 DEF Starts, Reconcile, Idle
  <2> QED
    BY <1>2, <1>5, <2>1 DEF Starts, Reconcile, groupVars
<1>6. CASE Ends \/ Removes \/ Closes \/ Restart
  <2>1. op'.sess = 0
    BY <1>3, <1>6 DEF Ends, Release, Removes, Closes, Restart
  <2>2. \A g \in Groups : session'[g] = session[g] \/ session'[g] = 0
    BY <1>6 DEF Ends, Release, Removes, RemoveRecord, Closes, Restart, groupVars
  <2> QED
    BY <1>2, <2>1, <2>2
<1>7. ASSUME NEW g \in Groups, GroupMoves(g) PROVE SessionsOK'
  <2>1. UNCHANGED op
    BY <1>7 DEF GroupMoves, Authenticated, Publish, Finish, Crash
  <2>2. CASE Publish(g)
    <3>1. PICK n \in 1..MaxSessions : /\ session' = [session EXCEPT ![g] = n] /\ op.sess # n
                                      /\ \A h \in Groups : session[h] # n
      BY <2>2, NewSessionIsNew
    <3>2. \A h \in Groups : session'[h] = IF h = g THEN n ELSE session[h]
      BY <3>1 DEF TypeOK
    <3> QED
      BY <2>1, <3>1, <3>2 DEF SessionsOK
  <2>3. CASE Authenticated(g) \/ Finish(g) \/ Crash(g)
    <3>1. \A h \in Groups : session'[h] = session[h] \/ session'[h] = 0
      BY <2>3 DEF Authenticated, Finish, Crash, TypeOK
    <3> QED
      BY <1>2, <2>1, <3>1
  <2> QED
    BY <1>7, <2>2, <2>3 DEF GroupMoves
<1>8. ASSUME NEW g \in Groups, Restarts(g) PROVE SessionsOK'
  <2>1. \A h \in Groups : session'[h] = session[h] \/ session'[h] = 0
    BY <1>8 DEF Restarts, TypeOK
  <2> QED
    BY <1>2, <1>8, <2>1 DEF Restarts
<1>9. ASSUME NEW i \in Instances, \/ \E s \in Spec0 : Creates(i, s)
                                  \/ EnableInstance(i) \/ Disables(i)
      PROVE  SessionsOK'
  <2>1. \A h \in Groups : session'[h] = session[h] \/ session'[h] = 0
    BY <1>9 DEF Creates, CreateInstance, EnableInstance, NewGroup, Disables, SwitchOff, groupVars, TypeOK
  <2>2. UNCHANGED op
    BY <1>9 DEF Creates, CreateInstance, EnableInstance, Disables, SwitchOff
  <2> QED
    BY <1>2, <2>1, <2>2
<1>10. CASE ReconcileStep
  <2>1. CASE Choose
    <3>1. op.sess = 0 /\ op'.sess = op.sess
      BY <1>1, <2>1 DEF Choose, OpOK, Operation
    <3>2. UNCHANGED session
      BY <2>1 DEF Choose, NewGroup, groupVars
    <3> QED
      BY <1>2, <3>1, <3>2
  <2>2. CASE Wait
    <3>1. UNCHANGED session /\ op.pc \in Placing
      BY <2>2 DEF Wait, groupVars, Placing
    <3>2. op.g \in Groups
      BY <3>1 DEF OpOK
    <3>3. op'.g = op.g /\ (op'.sess = op.sess \/ op'.sess = session[op.g])
      BY <1>1, <2>2 DEF Wait, Operation
    <3> QED
      BY <3>1, <3>2, <3>3 DEF SessionsOK
  <2>3. CASE Settle("settle", "choose") \/ Settle("abandon", "failed") \/ Settle("retire", "ok")
             \/ Deactivate \/ Configure \/ Check \/ Rollback \/ Switch
    <3>1. op'.g = op.g /\ op'.sess = op.sess
      <4>1. CASE Settle("settle", "choose") \/ Settle("abandon", "failed") \/ Settle("retire", "ok")
        BY <1>1, <4>1 DEF Settle, Operation
      <4>2. CASE Deactivate \/ Configure
        BY <1>1, <4>2 DEF Deactivate, Configure, Operation
      <4>3. CASE Check \/ Rollback \/ Switch
        BY <1>1, <4>3 DEF Check, Rollback, Switch, Operation
      <4> QED
        BY <2>3, <4>1, <4>2, <4>3
    <3>2. UNCHANGED session
      BY <2>3 DEF Settle, Deactivate, Configure, Check, Rollback, Switch, groupVars
    <3> QED
      BY <1>2, <3>1, <3>2
  <2> QED
    BY <1>10, <2>1, <2>2, <2>3 DEF ReconcileStep
<1> QED
  BY <1>4, <1>5, <1>6, <1>7, <1>8, <1>9, <1>10, Steps

(* Whoever replaces a record tells those who collected it.                  *)
LEMMA ReplayReplaced ==
    ASSUME TypeOK, ReplayOK, NEW i \in Instances, Replaced(i),
           \A j \in Instances : j # i => rec'[j] = rec[j]
    PROVE  ReplayOK'
<1> SUFFICES ASSUME NEW g \in Groups
             PROVE  /\ \A t, u \in replay'[g] : t.i = u.i => t = u
                    /\ \A t \in replay'[g] : t.same => rec'[t.i] # None /\ t.config = rec'[t.i].config
  BY DEF ReplayOK
<1>1. \A t \in replay[g] : t \in Collected
  BY DEF TypeOK
<1>2. \A t \in replay'[g] : \E q \in replay[g] :
          /\ q.i = t.i /\ t = IF q.i = i THEN [q EXCEPT !.same = FALSE] ELSE q
          /\ q.i = i => ~t.same
  BY <1>1 DEF Replaced, Collected
<1>3. \A t, u \in replay'[g] : t.i = u.i => t = u
  <2> SUFFICES ASSUME NEW t \in replay'[g], NEW u \in replay'[g], t.i = u.i PROVE t = u
    OBVIOUS
  <2>1. PICK q \in replay[g] : q.i = t.i /\ t = IF q.i = i THEN [q EXCEPT !.same = FALSE] ELSE q
    BY <1>2
  <2>2. PICK r \in replay[g] : r.i = u.i /\ u = IF r.i = i THEN [r EXCEPT !.same = FALSE] ELSE r
    BY <1>2
  <2>3. q = r
    BY <2>1, <2>2 DEF ReplayOK
  <2> QED
    BY <2>1, <2>2, <2>3
<1>4. \A t \in replay'[g] : t.same => rec'[t.i] # None /\ t.config = rec'[t.i].config
  <2> SUFFICES ASSUME NEW t \in replay'[g], t.same PROVE rec'[t.i] # None /\ t.config = rec'[t.i].config
    OBVIOUS
  <2>1. t \in replay[g] /\ t.i # i /\ t.i \in Instances
    BY <1>1, <1>2 DEF Collected
  <2> QED
    BY <2>1 DEF ReplayOK
<1> QED
  BY <1>3, <1>4

LEMMA ReplayStep ==
    ASSUME TypeOK, OpOK, GroupsOK, BoundOK, PlacedOK, ReplayOK, [Next]_vars
    PROVE  ReplayOK'
<1>1. \A g \in Groups : \A t \in replay[g] : t.i \in Instances
  BY DEF TypeOK, Collected
<1>2. ASSUME \A g \in Groups : replay'[g] = replay[g] \/ replay'[g] = {},
             \A i \in Instances : rec[i] # None => rec'[i] # None /\ rec'[i].config = rec[i].config
      PROVE  ReplayOK'
  BY <1>1, <1>2 DEF ReplayOK
<1>3. CASE Looks \/ Starts \/ Ends \/ Closes
  BY <1>2, <1>3 DEF Looks, Starts, Ends, Closes, Release, Reconcile, groupVars
<1>4. CASE Restart
  BY <1>4 DEF Restart, ReplayOK
<1>5. CASE Removes
  <2>1. \A j \in Instances : j # op.i => rec'[j] = rec[j]
    BY <1>5 DEF Removes, RemoveRecord, TypeOK
  <2> QED
    BY <1>5, <2>1, ReplayReplaced DEF Removes, RemoveRecord
<1>6. ASSUME NEW g \in Groups, GroupMoves(g) PROVE ReplayOK'
  <2>1. CASE Authenticated(g)
    <3>1. UNCHANGED rec /\ \A h \in Groups : replay'[h] =
            IF h = g THEN {[i |-> i, config |-> rec[i].config, told |-> rec[i].told, same |-> TRUE] :
                             i \in Restored(g)}
            ELSE replay[h]
      BY <2>1 DEF Authenticated, TypeOK
    <3>2. \A i \in Restored(g) : i \in Instances /\ rec[i] # None
      BY DEF Restored
    <3> DEFINE Entered(i) == [i |-> i, config |-> rec[i].config, told |-> rec[i].told, same |-> TRUE]
    <3>3. \A t \in replay'[g] : \E i \in Restored(g) : t.i = i /\ t = Entered(i)
                                                     /\ t.config = rec[i].config
      <4>1. replay'[g] = {Entered(i) : i \in Restored(g)}
        BY <3>1
      <4>2. \A i \in Restored(g) : Entered(i).i = i /\ Entered(i).config = rec[i].config
        OBVIOUS
      <4> HIDE DEF Entered
      <4> QED
        BY <4>1, <4>2
    <3> HIDE DEF Entered
    <3>4. \A t, u \in replay'[g] : t.i = u.i => t = u
      BY <3>3
    <3>5. \A t \in replay'[g] : rec'[t.i] # None /\ t.config = rec'[t.i].config
      BY <3>1, <3>2, <3>3
    <3> QED
      BY <3>1, <3>4, <3>5 DEF ReplayOK
  <2>2. CASE Publish(g)
    <3>1. \A h \in Groups : replay'[h] = replay[h] \/ replay'[h] = {}
      BY <2>2 DEF Publish, TypeOK
    <3> QED
      BY <1>2, <2>2, <3>1, Marks
  <2>3. CASE Finish(g) \/ Crash(g)
    <3>1. UNCHANGED rec /\ \A h \in Groups : replay'[h] = replay[h] \/ replay'[h] = {}
      BY <2>3 DEF Finish, Crash, TypeOK
    <3> QED
      BY <1>2, <3>1
  <2> QED
    BY <1>6, <2>1, <2>2, <2>3 DEF GroupMoves
<1>7. ASSUME NEW g \in Groups, Restarts(g) PROVE ReplayOK'
  BY <1>2, <1>7 DEF Restarts
<1>8. ASSUME NEW i \in Instances, NEW s \in Spec0, Creates(i, s) PROVE ReplayOK'
  <2>1. \A j \in Instances : rec[j] # None => rec'[j] = rec[j]
    BY <1>8 DEF Creates, CreateInstance, TypeOK
  <2> QED
    BY <1>2, <1>8, <2>1 DEF Creates, CreateInstance, groupVars
<1>9. ASSUME NEW i \in Instances, EnableInstance(i) \/ Disables(i) PROVE ReplayOK'
  <2>1. rec[i] \in Record /\ \E e \in BOOLEAN : rec' = [rec EXCEPT ![i] = [rec[i] EXCEPT !.enabled = e]]
    BY <1>9 DEF EnableInstance, Disables, SwitchOff, TypeOK
  <2>2. \A e \in BOOLEAN : /\ [rec[i] EXCEPT !.enabled = e] \in Record
                           /\ [rec[i] EXCEPT !.enabled = e].config = rec[i].config
    BY <2>1 DEF Record
  <2>3. \A j \in Instances : rec[j] # None => rec'[j] # None /\ rec'[j].config = rec[j].config
    BY <2>1, <2>2, NoneApart DEF TypeOK
  <2>4. \A g \in Groups : replay'[g] = replay[g] \/ replay'[g] = {}
    BY <1>9 DEF EnableInstance, NewGroup, Disables, SwitchOff, TypeOK
  <2> QED
    BY <1>2, <2>3, <2>4
<1>10. CASE ReconcileStep
  <2>1. CASE Deactivate
    <3>1. CASE rec[op.i] = None
      BY <1>2, <2>1, <3>1 DEF Deactivate
    <3>2. CASE rec[op.i] # None
      BY <2>1, <3>2, Deactivated, ReplayReplaced DEF Deactivate
    <3> QED
      BY <3>1, <3>2
  <2>2. CASE Switch
    BY <2>2, Switched, ReplayReplaced DEF Switch
  <2>3. CASE Rollback
    BY <1>2, <2>3, Marks DEF Rollback
  <2>4. CASE Settle("settle", "choose") \/ Settle("abandon", "failed") \/ Settle("retire", "ok")
             \/ Choose \/ Wait \/ Configure \/ Check
    <3>1. UNCHANGED <<rec, replay>>
      BY <2>4 DEF Settle, Choose, NewGroup, Wait, Configure, Check, groupVars
    <3> QED
      BY <1>2, <3>1
  <2> QED
    BY <1>10, <2>1, <2>2, <2>3, <2>4 DEF ReconcileStep
<1> QED
  BY <1>3, <1>4, <1>5, <1>6, <1>7, <1>8, <1>9, <1>10, Steps

-----------------------------------------------------------------------------
(* What the processes hold *)

(* What a process takes, or not.                                            *)
LEMMA Takes ==
    ASSUME TypeOK, NEW c, Take(c) \/ UNCHANGED applied, op.g \in Groups, op.i \in Instances
    PROVE  /\ \A i \in Instances, g \in Groups : g # op.g \/ i # op.i => applied'[g][i] = applied[g][i]
           /\ session[op.g] # op.sess => applied'[op.g][op.i] = applied[op.g][op.i]
           /\ Take(c) /\ session[op.g] = op.sess => applied'[op.g][op.i] = c
<1>1. CASE UNCHANGED applied /\ ~Take(c)
  BY <1>1
<1>2. CASE Take(c)
  BY <1>2 DEF Take, TypeOK
<1> QED
  BY <1>1, <1>2

LEMMA HeldReconcile ==
    ASSUME TypeOK, OpOK, GroupsOK, BoundOK, PlacedOK, SessionsOK, HeldOK,
           Configure \/ Check \/ Rollback \/ Switch
    PROVE  HeldOK'
<1> DEFINE Held(i, g) ==
             /\ rec[i] # None /\ rec[i].session # 0 /\ rec[i].session = session[g]
             /\ rec[i].config # Empty
           Fits(i, g) == Held(i, g) => applied[g][i] = rec[i].config
<1>1. /\ op \in Operation /\ op.i \in Instances /\ op.spec \in Spec0 /\ op.g \in Groups
      /\ op.pc \in Placing /\ op.pc \notin {"wait", "choose"} /\ (op.sent => op.sess # 0)
      /\ op.pc # "rollback" => op.sess # 0
  BY DEF TypeOK, OpOK, Configure, Check, Rollback, Switch, Placing
<1>2. \A i \in Instances, g \in Groups : Offering(i, g) \/ Fits(i, g)
  BY DEF HeldOK
<1>3. CASE Configure
  <2>1. op.pc = "configure" /\ op.sess # 0 /\ UNCHANGED <<rec, session>>
    BY <1>1, <1>3 DEF Configure
  <2>2. \A i \in Instances, g \in Groups : Fits(i, g)
    BY <1>2, <2>1 DEF Offering
  <2>3. CASE ~NeedsConfig /\ op' = [op EXCEPT !.pc = "check"] /\ UNCHANGED applied
    <3>1. /\ op'.i = op.i /\ op'.g = op.g /\ op'.sess = op.sess /\ op'.spec = op.spec
      BY <1>1, <2>3 DEF Operation
    <3>2. op.spec.config # Empty => rec[op.i] # None /\ rec[op.i].session = op.sess
                                    /\ rec[op.i].config = op.spec.config
      BY <2>3 DEF NeedsConfig, PreviousHere, PreviousConfig
    <3>3. session[op.g] = op.sess /\ op.spec.config # Empty => applied[op.g][op.i] = op.spec.config
      BY <1>1, <2>1, <2>2, <3>2
    <3> QED
      BY <2>1, <2>2, <2>3, <3>1, <3>3 DEF HeldOK
  <2>4. CASE /\ \/ Take(op.spec.config) /\ session[op.g] = op.sess /\ op'.pc = "check"
                \/ (Take(op.spec.config) \/ UNCHANGED applied) /\ op'.pc = "rollback"
             /\ op'.sent /\ op'.pc \in {"check", "rollback"}
             /\ op'.i = op.i /\ op'.g = op.g /\ op'.sess = op.sess /\ op'.spec = op.spec
    <3>1. /\ \A i \in Instances, g \in Groups : g # op.g \/ i # op.i => applied'[g][i] = applied[g][i]
          /\ session[op.g] # op.sess => applied'[op.g][op.i] = applied[op.g][op.i]
          /\ op'.pc = "check" => applied'[op.g][op.i] = op.spec.config
      BY <1>1, <2>4, Takes
    <3>2. \A i \in Instances, g \in Groups : g = op.g /\ i = op.i /\ session[g] = op.sess => Offering(i, g)'
      BY <2>1, <2>4 DEF Offering
    <3>3. ASSUME NEW i \in Instances, NEW g \in Groups, ~Offering(i, g)', Held(i, g)
          PROVE  applied'[g][i] = rec[i].config
      <4>1. applied'[g][i] = applied[g][i]
        BY <3>1, <3>2, <3>3
      <4> QED
        BY <2>2, <3>3, <4>1
    <3> QED
      BY <2>1, <2>4, <3>1, <3>3 DEF HeldOK
  <2>5. \A e \in {"check", "rollback"} : op' = [op EXCEPT !.pc = e, !.sent = TRUE] =>
            /\ op'.sent /\ op'.pc = e /\ op'.i = op.i /\ op'.g = op.g /\ op'.sess = op.sess
            /\ op'.spec = op.spec
    BY <1>1 DEF Operation
  <2> QED
    BY <1>3, <2>3, <2>4, <2>5 DEF Configure
<1>4. CASE Check
  <2>1. /\ op'.i = op.i /\ op'.g = op.g /\ op'.sess = op.sess /\ op'.spec = op.spec
        /\ op'.sent = op.sent /\ op'.pc \in {"publish", "rollback"} /\ op.pc = "check"
    BY <1>1, <1>4 DEF Check, Operation
  <2>2. UNCHANGED <<rec, session, applied>>
    BY <1>4 DEF Check, groupVars
  <2> QED
    BY <2>1, <2>2 DEF HeldOK, Offering
<1>5. CASE Rollback
  <2>1. op'.pc \in {"abandon", "failed"} /\ op.pc = "rollback" /\ UNCHANGED session
    BY <1>1, <1>5 DEF Rollback, Operation
  <2>2. \A i \in Instances : i # op.i => rec'[i] = rec[i]
    BY <1>5 DEF Rollback, TypeOK
  <2>3. rec[op.i] # None => rec'[op.i] # None /\ rec'[op.i].config = rec[op.i].config
    BY <1>1, <1>5, Marks
  <2>4. rec[op.i] # None => rec'[op.i].session \in {rec[op.i].session, 0}
    <3>1. rec[op.i] # None => rec[op.i] \in Record
      BY <1>1 DEF TypeOK
    <3> QED
      BY <1>1, <1>5, <3>1 DEF Rollback, TypeOK, Record
  <2> SUFFICES ASSUME NEW i \in Instances, NEW g \in Groups, rec'[i] # None, rec'[i].session # 0,
                      rec'[i].session = session[g], rec'[i].config # Empty
               PROVE  applied'[g][i] = rec'[i].config
    BY <2>1 DEF HeldOK
  <2>5. rec[i] # None
    BY <1>5, Marks
  <2>6. Held(i, g) /\ rec'[i].config = rec[i].config
    BY <2>2, <2>3, <2>4, <2>5
  <2>7. \A h \in Groups, j \in Instances : h # op.g \/ j # op.i => applied'[h][j] = applied[h][j]
    <3>1. UNCHANGED applied \/ Take(rec[op.i].config)
      BY <1>5 DEF Rollback
    <3> QED
      BY <1>1, <3>1, Takes
  <2>8. CASE g # op.g \/ i # op.i
    BY <1>2, <2>6, <2>7, <2>8 DEF Offering
  <2>9. CASE g = op.g /\ i = op.i /\ ~Offering(i, g)
    <3>1. applied[g][i] = rec[i].config
      BY <1>2, <2>6, <2>9
    <3>2. session[op.g] # op.sess \/ ~op.sent
      BY <1>1, <2>1, <2>9 DEF Offering
    <3>3. CASE UNCHANGED applied
      BY <2>6, <3>1, <3>3
    <3>4. CASE Take(rec[op.i].config) /\ op.sent
      BY <1>1, <2>6, <2>9, <3>1, <3>2, <3>4, Takes
    <3> QED
      BY <1>5, <3>3, <3>4 DEF Rollback
  <2>10. CASE g = op.g /\ i = op.i /\ Offering(i, g)
    <3>1. session[op.g] = op.sess /\ op.sent
      BY <2>10 DEF Offering
    <3>2. PreviousHere
      BY <2>6, <2>10, <3>1 DEF PreviousHere
    <3>3. ~op.created
      BY <1>1, <2>6, <2>10 DEF PlacedOK
    <3>4. CASE Take(rec[op.i].config)
      BY <1>1, <2>6, <2>10, <3>1, <3>4, Takes
    <3>5. CASE rec' = [rec EXCEPT ![op.i].told = TRUE, ![op.i].session = 0]
      <4>1. rec'[op.i].session = 0
        BY <1>1, <2>5, <2>10, <3>5 DEF TypeOK, Record
      <4> QED
        BY <2>10, <4>1
    <3> QED
      BY <1>5, <3>1, <3>2, <3>3, <3>4, <3>5 DEF Rollback
  <2> QED
    BY <2>8, <2>9, <2>10
<1>6. CASE Switch
  <2>1. op'.pc = "retire" /\ op.pc = "publish" /\ op.sess # 0 /\ UNCHANGED <<session, applied>>
    BY <1>1, <1>6, Switched DEF Switch, Operation
  <2>2. /\ \A j \in Instances : j # op.i => rec'[j] = rec[j]
        /\ rec'[op.i].session = op.sess /\ rec'[op.i].config = op.spec.config
    BY <1>6, Switched
  <2>3. ASSUME NEW i \in Instances, NEW g \in Groups, rec'[i] # None, rec'[i].session # 0,
               rec'[i].session = session[g], rec'[i].config # Empty
        PROVE  applied[g][i] = rec'[i].config
    <3>1. CASE i # op.i
      BY <1>2, <2>2, <2>3, <3>1 DEF Offering
    <3>2. CASE i = op.i
      <4>1. g = op.g
        BY <2>1, <2>2, <2>3, <3>2 DEF SessionsOK
      <4> QED
        BY <2>1, <2>2, <2>3, <3>2, <4>1 DEF HeldOK
    <3> QED
      BY <3>1, <3>2
  <2> QED
    BY <2>1, <2>3 DEF HeldOK
<1> QED
  BY <1>3, <1>4, <1>5, <1>6

(* The configurations a group was given when its process came back.         *)
LEMMA HeldPublish ==
    ASSUME TypeOK, OpOK, SessionsOK, ReplayOK, HeldOK, NEW g \in Groups, Publish(g)
    PROVE  HeldOK'
<1>1. PICK n \in 1..MaxSessions :
          /\ session' = [session EXCEPT ![g] = n] /\ n # 0 /\ session'[g] = n
          /\ \A h \in Groups : session[h] # n
          /\ \A i \in Instances : rec[i] # None => rec[i].session # n
          /\ op.sess # n
          /\ \A i \in Instances :
                \/ rec'[i] = rec[i]
                \/ /\ rec[i] # None /\ rec'[i].session = n
                   /\ \E t \in replay[g] : t.i = i /\ t.same
  BY NewSessionIsNew
<1>2. \A h \in Groups : h # g => session'[h] = session[h] /\ applied'[h] = applied[h]
  BY DEF Publish, TypeOK
<1>3. UNCHANGED op /\ (op.pc \in {"check", "publish"} => op.g \in Groups)
  BY DEF Publish, OpOK, Placing
<1>4. ASSUME op.pc \in {"check", "publish"}, session'[op.g] = op.sess, op.spec.config # Empty
      PROVE  applied'[op.g][op.i] = op.spec.config
  <2>1. op.g # g
    BY <1>1, <1>4
  <2> QED
    BY <1>2, <1>3, <1>4, <2>1 DEF HeldOK
<1>5. ASSUME NEW i \in Instances, NEW h \in Groups, rec'[i] # None, rec'[i].session # 0,
             rec'[i].session = session'[h], rec'[i].config # Empty, ~Offering(i, h)'
      PROVE  applied'[h][i] = rec'[i].config
  <2>1. rec[i] # None /\ rec'[i].config = rec[i].config
    BY <1>5, Marks
  <2>2. CASE h = g
    <3>1. PICK t \in replay[g] : t.i = i /\ t.same
      BY <1>1, <1>5, <2>1, <2>2
    <3>2. t.config = rec[i].config /\ Sends(t)
      BY <1>5, <2>1, <3>1 DEF ReplayOK, Sends
    <3>3. (CHOOSE u \in replay[g] : u.i = i) = t
      <4>1. \A u \in replay[g] : u.i = i => u = t
        BY <3>1 DEF ReplayOK
      <4> QED
        BY <3>1, <4>1
    <3>4. applied'[g][i] = IF \E u \in replay[g] : u.i = i /\ Sends(u)
                             THEN (CHOOSE u \in replay[g] : u.i = i).config ELSE Unset
      BY DEF Publish, TypeOK
    <3> QED
      BY <2>1, <2>2, <3>1, <3>2, <3>3, <3>4
  <2>3. CASE h # g
    <3>1. rec'[i] = rec[i] /\ session'[h] = session[h] /\ applied'[h] = applied[h]
      BY <1>1, <1>2, <1>5, <2>3
    <3>2. ~Offering(i, h)
      BY <1>3, <1>5, <3>1 DEF Offering
    <3> QED
      BY <1>5, <2>1, <3>1, <3>2 DEF HeldOK
  <2> QED
    BY <2>2, <2>3
<1> QED
  BY <1>3, <1>4, <1>5 DEF HeldOK

LEMMA HeldStep ==
    ASSUME TypeOK, OpOK, GroupsOK, BoundOK, PlacedOK, SessionsOK, ReplayOK, HeldOK, [Next]_vars
    PROVE  HeldOK'
<1>1. op \in Operation /\ (op.pc \in {"check", "publish"} => op.g \in Groups /\ op.sess # 0)
  BY DEF TypeOK, OpOK, Placing
<1>2. ASSUME \A g \in Groups : session'[g] = 0 \/ (session'[g] = session[g] /\ applied'[g] = applied[g]),
             \A i \in Instances : rec'[i] # None /\ rec'[i].session # 0 =>
                /\ rec[i] # None /\ rec'[i].session = rec[i].session /\ rec'[i].config = rec[i].config,
             \/ UNCHANGED op
             \/ op.pc \notin {"check", "publish", "rollback"} /\ op'.pc \notin {"check", "publish"}
      PROVE  HeldOK'
  <2>1. ASSUME op'.pc \in {"check", "publish"}, session'[op'.g] = op'.sess, op'.spec.config # Empty
        PROVE  applied'[op'.g][op'.i] = op'.spec.config
    <3>1. UNCHANGED op
      BY <1>2, <2>1
    <3> QED
      BY <1>1, <1>2, <2>1, <3>1 DEF HeldOK
  <2>2. ASSUME NEW i \in Instances, NEW g \in Groups, rec'[i] # None, rec'[i].session # 0,
               rec'[i].session = session'[g], rec'[i].config # Empty, ~Offering(i, g)'
        PROVE  applied'[g][i] = rec'[i].config
    <3>1. session'[g] = session[g] /\ applied'[g] = applied[g]
      BY <1>2, <2>2
    <3>2. ~Offering(i, g)
      BY <1>2, <2>2, <3>1 DEF Offering
    <3> QED
      BY <1>2, <2>2, <3>1, <3>2 DEF HeldOK
  <2> QED
    BY <2>1, <2>2 DEF HeldOK
<1>3. Idle.pc = "idle"
  BY DEF Idle
<1>4. CASE Looks
  BY <1>2, <1>4 DEF Looks, groupVars
<1>5. CASE Starts
  <2>1. op.pc = "idle" /\ op'.pc = "settle"
    BY <1>5 DEF Starts, Reconcile, Idle
  <2>2. UNCHANGED <<rec, session, applied>>
    BY <1>5 DEF Starts, Reconcile, groupVars
  <2> QED
    BY <1>2, <2>1, <2>2
<1>6. CASE Ends \/ Closes
  <2>1. op.pc \in {"ok", "failed"} /\ op'.pc = "idle"
    BY <1>3, <1>6 DEF Ends, Release, Closes
  <2>2. UNCHANGED <<rec, session, applied>>
    BY <1>6 DEF Ends, Release, Closes, groupVars
  <2> QED
    BY <1>2, <2>1, <2>2
<1>7. CASE Removes
  <2>1. op.pc = "ok" /\ op'.pc = "idle"
    BY <1>3, <1>7 DEF Removes
  <2>2. UNCHANGED <<session, applied>> /\ \A i \in Instances : rec'[i] # None => rec'[i] = rec[i]
    BY <1>7 DEF Removes, RemoveRecord, TypeOK
  <2> QED
    BY <1>2, <2>1, <2>2
<1>8. CASE Restart
  BY <1>3, <1>8 DEF Restart, HeldOK
<1>9. ASSUME NEW g \in Groups, Authenticated(g) \/ Finish(g) \/ Crash(g) PROVE HeldOK'
  <2>1. UNCHANGED <<op, rec>>
    BY <1>9 DEF Authenticated, Finish, Crash
  <2>2. \A h \in Groups : session'[h] = 0 \/ (session'[h] = session[h] /\ applied'[h] = applied[h])
    BY <1>9 DEF Authenticated, Finish, Crash, Lost, TypeOK
  <2> QED
    BY <1>2, <2>1, <2>2
<1>10. ASSUME NEW g \in Groups, Restarts(g) PROVE HeldOK'
  <2>1. \A h \in Groups : session'[h] = 0 \/ (session'[h] = session[h] /\ applied'[h] = applied[h])
    BY <1>10 DEF Restarts, Lost, TypeOK
  <2> QED
    BY <1>2, <1>10, <2>1 DEF Restarts
<1>11. ASSUME NEW i \in Instances, NEW s \in Spec0, Creates(i, s) PROVE HeldOK'
  <2>1. \A j \in Instances : rec'[j] = rec[j] \/ rec'[j].session = 0
    BY <1>11 DEF Creates, CreateInstance, Fresh, TypeOK
  <2> QED
    BY <1>2, <1>11, <2>1 DEF Creates, CreateInstance, groupVars
<1>12. ASSUME NEW i \in Instances, EnableInstance(i) \/ Disables(i) PROVE HeldOK'
  <2>1. rec[i] \in Record /\ \E e \in BOOLEAN : rec' = [rec EXCEPT ![i] = [rec[i] EXCEPT !.enabled = e]]
    BY <1>12 DEF EnableInstance, Disables, SwitchOff, TypeOK
  <2>2. \A e \in BOOLEAN : /\ [rec[i] EXCEPT !.enabled = e].session = rec[i].session
                           /\ [rec[i] EXCEPT !.enabled = e].config = rec[i].config
    BY <2>1 DEF Record
  <2>3. \A j \in Instances : rec'[j] # None =>
          rec[j] # None /\ rec'[j].config = rec[j].config /\ rec'[j].session = rec[j].session
    BY <2>1, <2>2, NoneApart DEF TypeOK
  <2>4. \A h \in Groups : session'[h] = 0 \/ (session'[h] = session[h] /\ applied'[h] = applied[h])
    <3>1. CASE EnableInstance(i)
      BY <3>1 DEF EnableInstance, NewGroup
    <3>2. CASE Disables(i)
      BY <3>2 DEF Disables, SwitchOff, Lost, TypeOK
    <3> QED
      BY <1>12, <3>1, <3>2
  <2>5. UNCHANGED op
    BY <1>12 DEF EnableInstance, Disables, SwitchOff
  <2> QED
    BY <1>2, <2>3, <2>4, <2>5
<1>13. CASE ReconcileStep
  <2>1. CASE Settle("settle", "choose") \/ Settle("abandon", "failed") \/ Settle("retire", "ok")
             \/ Choose \/ Wait
    <3>1. UNCHANGED <<rec, session, applied>>
      BY <2>1 DEF Settle, Choose, NewGroup, Wait, groupVars
    <3>2. /\ op.pc \in {"settle", "abandon", "retire", "choose", "wait"}
          /\ op'.pc \in {"choose", "failed", "ok", "wait", "configure", "rollback"}
      <4>1. CASE Settle("settle", "choose") \/ Settle("abandon", "failed") \/ Settle("retire", "ok")
        BY <1>1, <4>1 DEF Settle, Operation
      <4>2. CASE Choose
        BY <1>1, <4>2 DEF Choose, Operation
      <4>3. CASE Wait
        BY <1>1, <4>3 DEF Wait, Operation
      <4> QED
        BY <2>1, <4>1, <4>2, <4>3
    <3> QED
      BY <1>2, <3>1, <3>2
  <2>2. CASE Deactivate
    <3>1. op.pc = "choose" /\ op'.pc = "retire"
      BY <1>1, <2>2 DEF Deactivate, Operation
    <3>2. \A i \in Instances : rec'[i] # None /\ rec'[i].session # 0 => rec'[i] = rec[i]
      BY <2>2, Deactivated
    <3> QED
      BY <1>2, <2>2, <3>1, <3>2, Deactivated
  <2>3. CASE Configure \/ Check \/ Rollback \/ Switch
    BY <2>3, HeldReconcile
  <2> QED
    BY <1>13, <2>1, <2>2, <2>3 DEF ReconcileStep
<1> QED
  BY <1>4, <1>5, <1>6, <1>7, <1>8, <1>9, <1>10, <1>11, <1>12, <1>13, Steps, HeldPublish DEF GroupMoves

-----------------------------------------------------------------------------
(* The inductive invariant, and what follows from it *)

HostInv == /\ TypeOK /\ OpOK /\ GroupsOK /\ BoundOK /\ PlacedOK /\ ServedOK /\ OwnOK /\ StopOK
           /\ SessionsOK /\ ReplayOK /\ HeldOK

LEMMA HostInvariant == Spec => []HostInv
<1>1. Init => HostInv
  BY TypeInit, EverythingInit DEF HostInv
<1>2. HostInv /\ [Next]_vars => HostInv'
  <2> SUFFICES ASSUME HostInv, [Next]_vars PROVE HostInv'
    OBVIOUS
  <2>1. /\ TypeOK /\ OpOK /\ GroupsOK /\ BoundOK /\ PlacedOK /\ ServedOK /\ OwnOK /\ StopOK
        /\ SessionsOK /\ ReplayOK /\ HeldOK
    BY DEF HostInv
  <2>2. TypeOK' /\ OpOK' /\ GroupsOK'
    BY <2>1, TypeStep, OpStep, GroupsStep
  <2>3. BoundOK' /\ PlacedOK'
    BY <2>1, BoundStep, PlacedStep
  <2>4. ServedOK' /\ OwnOK' /\ StopOK'
    BY <2>1, ServedStep, OwnStep, StopStep
  <2>5. SessionsOK' /\ ReplayOK' /\ HeldOK'
    BY <2>1, SessionsStep, ReplayStep, HeldStep
  <2> QED
    BY <2>2, <2>3, <2>4, <2>5 DEF HostInv
<1> QED
  BY <1>1, <1>2, PTL DEF Spec

(* Every variable of the Host and the Manager keeps its type.               *)
THEOREM TypeCorrect == Spec => []TypeOK
<1>1. HostInv => TypeOK
  BY DEF HostInv
<1> QED
  BY <1>1, HostInvariant, PTL

(* manager.go:357, manager.go:1043: the process behind the session an       *)
(* instance was configured over holds what its record says, whatever was    *)
(* refused, rolled back or replayed.                                        *)
THEOREM ConfigurationHeld == Spec => []ConfiguredIsHeld
<1>1. HostInv => ConfiguredIsHeld
  <2> SUFFICES ASSUME HostInv, NEW i \in Instances, op.i # i, GroupOf(i) # None,
                      rec[i].session # 0, rec[i].session = session[GroupOf(i)],
                      rec[i].config # Empty
               PROVE  applied[GroupOf(i)][i] = rec[i].config
    BY DEF ConfiguredIsHeld
  <2>1. rec[i] # None /\ GroupOf(i) \in Groups
    BY Binds DEF HostInv
  <2> QED
    BY <2>1 DEF HostInv, HeldOK, Offering
<1> QED
  BY <1>1, HostInvariant, PTL

(* manager.go:386: an instance is never bound to a process of another       *)
(* installed version, across upgrades, rollbacks and changes of the process *)
(* mode.                                                                    *)
THEOREM VersionBound == Spec => []BoundToVersion
<1>1. HostInv => BoundToVersion
  <2> SUFFICES ASSUME HostInv, NEW i \in Instances, GroupOf(i) # None
               PROVE  version[GroupOf(i)] = rec[i].version
    BY DEF BoundToVersion
  <2>1. /\ rec[i] # None /\ rec[i] \in Record /\ KeyOf(i, rec[i]) \in Key
        /\ GroupOf(i) = procs[KeyOf(i, rec[i])]
    BY Binds DEF HostInv
  <2>2. CASE rec[i].own
    <3>1. KeyOf(i, rec[i]) = i
      BY <2>1, <2>2, Keys
    <3> QED
      BY <2>1, <3>1 DEF HostInv, BoundOK
  <2>3. CASE ~rec[i].own
    <3>1. KeyOf(i, rec[i]) = rec[i].version /\ rec[i].version \in Versions
      BY <2>1, <2>3, Keys
    <3> QED
      BY <2>1, <3>1 DEF HostInv, BoundOK
  <2> QED
    BY <2>2, <2>3
<1> QED
  BY <1>1, HostInvariant, PTL

(* manager.go:540: no process runs that nobody uses and nobody stops.       *)
THEOREM NothingOrphaned == Spec => []NoOrphan
<1>1. HostInv => NoOrphan
  BY DEF HostInv, ServedOK, Served, Creating, NoOrphan
<1> QED
  BY <1>1, HostInvariant, PTL

(* applier.go:154: what the application of a snapshot reports stopped has   *)
(* no process of its own left, however late its group stopped.              *)
THEOREM StoppedMeansStopped == Spec => []StoppedIsStopped
<1>1. HostInv => StoppedIsStopped
  <2>1. None # "stopped"
    BY HostAssumption
  <2> QED
    BY <2>1 DEF HostInv, StopOK, Still, StoppedIsStopped
<1> QED
  BY <1>1, HostInvariant, PTL

-----------------------------------------------------------------------------
(* The supervisor of a process                                              *)
(*                                                                          *)
(* A group of the Manager is a Supervisor with its process: the theorems    *)
(* about PluginSupervisor, for every set of slots and every bound.          *)

(* Where Run has no process, where its process may be alive, and where it   *)
(* has published the session of its process.                                *)
LoopIdle      == {"top", "parked", "backoff", "launch", "starting", "returned"}
LoopEngaged   == {"handshake", "prepare", "publish", "monitor", "asking", "signalled"}
LoopDying     == {"killing", "reaping", "stopped"}
LoopServing   == {"monitor", "killing", "asking", "signalled", "reaping"}

(* What a process owes to the pass of the loop it belongs to.               *)
LoopPassOK ==
    /\ pc \in LoopIdle => cur = NoProcess /\ outcome = "none"
    /\ pc \in LoopEngaged \cup LoopDying => cur # NoProcess /\ outcome = "none"
    /\ pc = "return" => outcome # "none"
    /\ open = {cur} \ {NoProcess}
    /\ \A p \in Slots : proc[p] = "alive" => p = cur /\ pc \in LoopEngaged

(* What a connection and a published session stand for.                     *)
LoopSessionOK ==
    /\ \A p \in Slots : conn[p] = "announced" => p = cur
    /\ cur # NoProcess /\ conn[cur] \in {"counted", "announced"} => rpcConns >= 1
    /\ ready => cur # NoProcess /\ conn[cur] = "announced"
    /\ pc \in {"prepare", "publish", "monitor"} => conn[cur] = "announced"
    /\ pc \in {"publish", "monitor"} => cur \in restored
    /\ pc = "monitor" => published = cur
    /\ state = "HEALTHY" =>
         /\ pc \in LoopServing
         /\ published = cur /\ conn[cur] = "announced" /\ cur \in restored

LoopInv == SupervisorTypeOK /\ LoopPassOK /\ LoopSessionOK

-----------------------------------------------------------------------------
(* Typing *)

(* Nothing runs at first. *)
LEMMA LoopTypeInit == SupervisorInit => SupervisorTypeOK
<1> SUFFICES ASSUME SupervisorInit PROVE SupervisorTypeOK
  OBVIOUS
<1>1. {disabled, wake, restartCh, halted, greeted, ready, restoring} \subseteq BOOLEAN
  BY DEF SupervisorInit
<1> QED
  BY <1>1, SupervisorAssumption DEF SupervisorInit, SupervisorTypeOK, State

(* Every step keeps the types. *)
LEMMA LoopTypeStep ==
    ASSUME SupervisorTypeOK, LoopPassOK, [SupervisorNext]_supervisorVars
    PROVE  SupervisorTypeOK'
<1> USE DEF SupervisorTypeOK, State, loopVars, flagVars, processVars
<1>. USE SupervisorAssumption
<1>1. CASE Top
  BY <1>1 DEF Top, Stay, Quiet, Alone
<1>2. CASE Parked
  <2>1. ({disabled, wake, restartCh, halted, greeted, ready, restoring} \subseteq BOOLEAN)'
    BY <1>2, Zenon DEF Parked, Quiet, Alone
  <2> QED
    BY <1>2, <2>1 DEF Parked, Quiet, Alone
<1>3. CASE Backoff
  BY <1>3 DEF Backoff, Stay, Quiet, Alone
<1>4. CASE Launch
  BY <1>4 DEF Launch, Stay, Quiet, Alone
<1>5. CASE Start
  BY <1>5 DEF Start, Alone, Free
<1>6. CASE Handshake
  <2>1. ({disabled, wake, restartCh, halted, greeted, ready, restoring} \subseteq BOOLEAN)'
    BY <1>6, Zenon DEF Handshake, Alone, Working, GiveUp, TakeWake, BeginShutdown, Complete, Killed
  <2>2. /\ proc' \in [Slots -> {"none", "alive", "killed", "gone"}]
        /\ UNCHANGED <<line, again, conn, open, cur>>
    BY <1>6 DEF Handshake, Alone, Working, GiveUp, TakeWake, BeginShutdown, Complete, Killed
  <2>3. /\ pc' \in {pc, "return", "prepare", "asking", "killing", "signalled", "reaping", "stopped"}
        /\ state' \in State /\ outcome' \in {outcome, "crashed", "disabled"}
    BY <1>6 DEF Handshake, Alone, Working, GiveUp, TakeWake, BeginShutdown, Complete, Killed
  <2>4. UNCHANGED <<backoff, crashes, rpcConns, calls, published, restored>>
    BY <1>6 DEF Handshake, Alone, Working, GiveUp, TakeWake, BeginShutdown, Complete, Killed
  <2> QED
    BY <2>1, <2>2, <2>3, <2>4
<1>7. CASE Prepare
  <2>1. ({disabled, wake, restartCh, halted, greeted, ready, restoring} \subseteq BOOLEAN)'
    BY <1>7, Zenon DEF Prepare, BeginShutdown, Alone
  <2> QED
    BY <1>7, <2>1 DEF Prepare, BeginShutdown, Alone, LoopPassOK, LoopEngaged
<1>8. CASE PublishSession
  BY <1>8 DEF PublishSession, Stay, Quiet, Alone
<1>9. CASE Monitor
  <2>1. ({disabled, wake, restartCh, halted, greeted, ready, restoring} \subseteq BOOLEAN)'
    BY <1>9, Zenon DEF Monitor, GiveUp, TakeWake, Working, BeginShutdown, Stay, Alone, Killed
  <2>2. /\ proc' \in [Slots -> {"none", "alive", "killed", "gone"}]
        /\ UNCHANGED <<line, again, conn, open, cur>>
    BY <1>9 DEF Monitor, GiveUp, TakeWake, Working, BeginShutdown, Stay, Alone, Killed
  <2>3. /\ pc' \in {pc, "return", "prepare", "asking", "killing", "signalled", "reaping", "stopped"}
        /\ state' \in State /\ outcome' \in {outcome, "crashed", "disabled"}
    BY <1>9 DEF Monitor, GiveUp, TakeWake, Working, BeginShutdown, Stay, Alone, Killed
  <2>4. UNCHANGED <<backoff, crashes, rpcConns, calls, published, restored>>
    BY <1>9 DEF Monitor, GiveUp, TakeWake, Working, BeginShutdown, Stay, Alone, Killed
  <2> QED
    BY <2>1, <2>2, <2>3, <2>4
<1>10. CASE Killing
  BY <1>10 DEF Killing, Quiet, Alone
<1>11. CASE Shutdown
  <2>1. ({disabled, wake, restartCh, halted, greeted, ready, restoring} \subseteq BOOLEAN)'
    BY <1>11, Zenon DEF Shutdown, Stopped, Stay, Alone, Killed
  <2>2. /\ proc' \in [Slots -> {"none", "alive", "killed", "gone"}]
        /\ UNCHANGED <<line, again, conn, open, cur>>
    BY <1>11 DEF Shutdown, Stopped, Stay, Alone, Killed
  <2>3. /\ pc' \in {pc, "return", "prepare", "asking", "killing", "signalled", "reaping", "stopped"}
        /\ state' \in State /\ outcome' \in {outcome, "crashed", "disabled"}
    BY <1>11 DEF Shutdown, Stopped, Stay, Alone, Killed
  <2>4. UNCHANGED <<backoff, crashes, rpcConns, calls, published, restored>>
    BY <1>11 DEF Shutdown, Stopped, Stay, Alone, Killed
  <2> QED
    BY <2>1, <2>2, <2>3, <2>4
<1>12. CASE AfterShutdown
  BY <1>12 DEF AfterShutdown, Quiet, Alone
<1>13. CASE Return
  <2>1. disabled' \in BOOLEAN /\ pc' \in {"top", "returned"}
    BY <1>13 DEF Return, LoopPassOK
  <2>2. ({disabled, wake, restartCh, halted, greeted, ready, restoring} \subseteq BOOLEAN)'
    BY <1>13, <2>1, Zenon DEF Return, Cleanup, Alone
  <2>3. backoff' \in 0..MaxDoublings + 1 /\ crashes' \in Nat
    <3>1. Longer \in 0..MaxDoublings + 1
      BY DEF Longer
    <3>2. backoff' \in {backoff, 0, Longer} /\ crashes' \in {crashes, crashes + 1}
      BY <1>13 DEF Return, LoopPassOK
    <3> QED
      BY <3>1, <3>2
  <2> QED
    BY <1>13, <2>1, <2>2, <2>3 DEF Return, Cleanup, Alone
<1>14. CASE HealthProbe
  BY <1>14 DEF HealthProbe, Show, Alone
<1>15. CASE Duplicate
  BY <1>15 DEF Duplicate, Stay, Alone
<1>16. CASE Disable
  BY <1>16 DEF Disable, Flag
<1>17. CASE Enable
  <2>1. ({disabled, wake, restartCh, halted, greeted, ready, restoring} \subseteq BOOLEAN)'
    BY <1>17, Zenon DEF Enable, Flag
  <2> QED
    BY <1>17, <2>1 DEF Enable, Flag
<1>18. CASE RestartPlugin
  BY <1>18 DEF RestartPlugin
<1>19. CASE Cancel
  BY <1>19 DEF Cancel
<1>20. CASE Plugin
  <2> SUFFICES ASSUME NEW p \in Slots,
                      PrintLine(p) \/ Establish(p) \/ Count(p) \/ Announce(p) \/ Exit(p)
               PROVE  SupervisorTypeOK'
    BY <1>20 DEF Plugin
  <2>1. CASE PrintLine(p)
    <3>1. line' \in [Slots -> {"none", "valid", "invalid"}]
      BY <2>1 DEF PrintLine, Verdict
    <3>2. again' \in [Slots -> BOOLEAN]
      BY <2>1 DEF PrintLine
    <3>3. UNCHANGED <<pc, state, disabled, wake, restartCh, halted, greeted, ready,
                      restoring, backoff, crashes, rpcConns, calls, published, cur, outcome,
                      proc, conn, open, restored>>
      BY <2>1 DEF PrintLine, ProcessStep
    <3> QED
      BY <3>1, <3>2, <3>3
  <2>2. CASE Establish(p)
    BY <2>2 DEF Establish, ProcessStep
  <2>3. CASE Count(p)
    BY <2>3 DEF Count, ProcessStep
  <2>4. CASE Announce(p)
    BY <2>4 DEF Announce, ProcessStep
  <2>5. CASE Exit(p)
    BY <2>5 DEF Exit, ProcessStep
  <2> QED
    BY <2>1, <2>2, <2>3, <2>4, <2>5
<1>21. CASE UNCHANGED supervisorVars
  BY <1>21 DEF supervisorVars
<1> QED
  BY <1>1, <1>2, <1>3, <1>4, <1>5, <1>6, <1>7, <1>8, <1>9, <1>10, <1>11, <1>12, <1>13, <1>14,
     <1>15, <1>16, <1>17, <1>18, <1>19, <1>20, <1>21 DEF SupervisorNext, Run, Done

-----------------------------------------------------------------------------
(* The process of a pass *)

LEMMA LoopPassInit == SupervisorInit => LoopPassOK
BY DEF SupervisorInit, LoopPassOK, LoopIdle, LoopEngaged, LoopDying

(* A pass holds one process, and returns only when it does not live. *)
LEMMA LoopPassStep ==
    ASSUME SupervisorTypeOK, LoopPassOK, [SupervisorNext]_supervisorVars
    PROVE  LoopPassOK'
<1> USE DEF SupervisorTypeOK, LoopPassOK, LoopIdle, LoopEngaged, LoopDying, loopVars, flagVars, processVars
<1>. USE SupervisorAssumption
<1>1. CASE Top
  BY <1>1 DEF Top, Stay, Quiet, Alone
<1>2. CASE Parked
  BY <1>2 DEF Parked, Quiet, Alone
<1>3. CASE Backoff
  BY <1>3 DEF Backoff, Stay, Quiet, Alone
<1>4. CASE Launch
  BY <1>4 DEF Launch, Stay, Quiet, Alone
<1>5. CASE Start
  BY <1>5 DEF Start, Alone, Free
<1>6. CASE Handshake
  BY <1>6 DEF Handshake, Alone, Working, GiveUp, TakeWake, BeginShutdown, Complete, Killed
<1>7. CASE Prepare
  BY <1>7 DEF Prepare, BeginShutdown, Alone
<1>8. CASE PublishSession
  BY <1>8 DEF PublishSession, Stay, Quiet, Alone
<1>9. CASE Monitor
  BY <1>9 DEF Monitor, GiveUp, TakeWake, Working, BeginShutdown, Stay, Alone, Killed
<1>10. CASE Killing
  BY <1>10 DEF Killing, Quiet, Alone
<1>11. CASE Shutdown
  BY <1>11 DEF Shutdown, Stopped, Stay, Alone, Killed
<1>12. CASE AfterShutdown
  BY <1>12 DEF AfterShutdown, Quiet, Alone
<1>13. CASE Return
  BY <1>13 DEF Return, Cleanup, Longer, Alone
<1>14. CASE HealthProbe
  BY <1>14 DEF HealthProbe, Show, Alone
<1>15. CASE Duplicate
  BY <1>15 DEF Duplicate, Stay, Alone
<1>16. CASE Disable
  BY <1>16 DEF Disable, Flag
<1>17. CASE Enable
  BY <1>17 DEF Enable, Flag
<1>18. CASE RestartPlugin
  BY <1>18 DEF RestartPlugin
<1>19. CASE Cancel
  BY <1>19 DEF Cancel
<1>20. CASE Plugin
  <2> SUFFICES ASSUME NEW p \in Slots,
                      PrintLine(p) \/ Establish(p) \/ Count(p) \/ Announce(p) \/ Exit(p)
               PROVE  LoopPassOK'
    BY <1>20 DEF Plugin
  <2>1. CASE PrintLine(p)
    BY <2>1 DEF PrintLine, Verdict, ProcessStep
  <2>2. CASE Establish(p)
    BY <2>2 DEF Establish, ProcessStep
  <2>3. CASE Count(p)
    BY <2>3 DEF Count, ProcessStep
  <2>4. CASE Announce(p)
    BY <2>4 DEF Announce, ProcessStep
  <2>5. CASE Exit(p)
    BY <2>5 DEF Exit, ProcessStep
  <2> QED
    BY <2>1, <2>2, <2>3, <2>4, <2>5
<1>21. CASE UNCHANGED supervisorVars
  BY <1>21 DEF supervisorVars
<1> QED
  BY <1>1, <1>2, <1>3, <1>4, <1>5, <1>6, <1>7, <1>8, <1>9, <1>10, <1>11, <1>12, <1>13, <1>14,
     <1>15, <1>16, <1>17, <1>18, <1>19, <1>20, <1>21 DEF SupervisorNext, Run, Done

-----------------------------------------------------------------------------
(* The connection and the session *)

LEMMA LoopSessionInit == SupervisorInit => LoopSessionOK
BY DEF SupervisorInit, LoopSessionOK

(* What is published was connected, counted and restored. *)
LEMMA LoopSessionStep ==
    ASSUME SupervisorTypeOK, LoopPassOK, LoopSessionOK, [SupervisorNext]_supervisorVars
    PROVE  LoopSessionOK'
<1> USE DEF SupervisorTypeOK, LoopPassOK, LoopSessionOK, LoopIdle, LoopEngaged, LoopDying, LoopServing,
            loopVars, flagVars, processVars
<1>. USE SupervisorAssumption
<1>1. CASE Top
  BY <1>1 DEF Top, Stay, Quiet, Alone
<1>2. CASE Parked
  BY <1>2 DEF Parked, Quiet, Alone
<1>3. CASE Backoff
  BY <1>3 DEF Backoff, Stay, Quiet, Alone
<1>4. CASE Launch
  BY <1>4 DEF Launch, Stay, Quiet, Alone
<1>5. CASE Start
  BY <1>5 DEF Start, Alone, Free
<1>6. CASE Handshake
  BY <1>6 DEF Handshake, Alone, Working, GiveUp, TakeWake, BeginShutdown, Complete, Killed
<1>7. CASE Prepare
  BY <1>7 DEF Prepare, BeginShutdown, Alone
<1>8. CASE PublishSession
  BY <1>8 DEF PublishSession, Stay, Quiet, Alone
<1>9. CASE Monitor
  BY <1>9 DEF Monitor, GiveUp, TakeWake, Working, BeginShutdown, Stay, Alone, Killed
<1>10. CASE Killing
  BY <1>10 DEF Killing, Quiet, Alone
<1>11. CASE Shutdown
  BY <1>11 DEF Shutdown, Stopped, Stay, Alone, Killed
<1>12. CASE AfterShutdown
  BY <1>12 DEF AfterShutdown, Quiet, Alone
<1>13. CASE Return
  BY <1>13 DEF Return, Cleanup, Longer, Alone
<1>14. CASE HealthProbe
  BY <1>14 DEF HealthProbe, Show, Alone
<1>15. CASE Duplicate
  BY <1>15 DEF Duplicate, Stay, Alone
<1>16. CASE Disable
  BY <1>16 DEF Disable, Flag
<1>17. CASE Enable
  BY <1>17 DEF Enable, Flag
<1>18. CASE RestartPlugin
  BY <1>18 DEF RestartPlugin
<1>19. CASE Cancel
  BY <1>19 DEF Cancel
<1>20. CASE Plugin
  <2> SUFFICES ASSUME NEW p \in Slots,
                      PrintLine(p) \/ Establish(p) \/ Count(p) \/ Announce(p) \/ Exit(p)
               PROVE  LoopSessionOK'
    BY <1>20 DEF Plugin
  <2>1. CASE PrintLine(p)
    BY <2>1 DEF PrintLine, Verdict, ProcessStep
  <2>2. CASE Establish(p)
    BY <2>2 DEF Establish, ProcessStep
  <2>3. CASE Count(p)
    BY <2>3 DEF Count, ProcessStep
  <2>4. CASE Announce(p)
    BY <2>4 DEF Announce, ProcessStep
  <2>5. CASE Exit(p)
    BY <2>5 DEF Exit, ProcessStep
  <2> QED
    BY <2>1, <2>2, <2>3, <2>4, <2>5
<1>21. CASE UNCHANGED supervisorVars
  BY <1>21 DEF supervisorVars
<1> QED
  BY <1>1, <1>2, <1>3, <1>4, <1>5, <1>6, <1>7, <1>8, <1>9, <1>10, <1>11, <1>12, <1>13, <1>14,
     <1>15, <1>16, <1>17, <1>18, <1>19, <1>20, <1>21 DEF SupervisorNext, Run, Done

-----------------------------------------------------------------------------
(* The invariant *)

(* What a pass, its process and its session owe to one another holds of     *)
(* every behaviour of Run, whatever the callers, processes and connections  *)
(* do: types, the process of the pass, and the session. The types need the  *)
(* second part (an outcome is there when runOnce returns), the session the  *)
(* other two.                                                               *)
THEOREM SupervisorConsistent == SupervisorSpec => []LoopInv
<1>1. SupervisorInit => LoopInv
  BY LoopTypeInit, LoopPassInit, LoopSessionInit DEF LoopInv
<1>2. LoopInv /\ [SupervisorNext]_supervisorVars => LoopInv'
  BY LoopTypeStep, LoopPassStep, LoopSessionStep DEF LoopInv
<1> QED
  BY <1>1, <1>2, PTL DEF SupervisorSpec

(* supervisor.go:363: runOnce returns with its process killed or gone, and  *)
(* no pass starts a second one: at any time one process at most is alive.   *)
THEOREM OneProcess == SupervisorSpec => []OneLiveProcess
<1>1. LoopInv => OneLiveProcess
  BY DEF LoopInv, LoopPassOK, LoopEngaged, OneLiveProcess
<1> QED
  BY <1>1, SupervisorConsistent, PTL

(* session.go:57: a supervisor that shows HEALTHY has published the session *)
(* of its own process, which is connected, counted and configured.          *)
THEOREM HealthyReal == SupervisorSpec => []HealthyIsReal
<1>1. LoopInv => HealthyIsReal
  <2> SUFFICES ASSUME LoopInv, state = "HEALTHY" PROVE HealthyIsReal
    BY DEF HealthyIsReal
  <2>1. pc \in LoopEngaged \cup LoopDying /\ published = cur
    BY DEF LoopInv, LoopSessionOK, LoopServing, LoopEngaged, LoopDying
  <2>2. cur # NoProcess
    BY <2>1 DEF LoopInv, LoopPassOK
  <2>3. conn[cur] = "announced" /\ cur \in restored /\ rpcConns >= 1
    BY <2>2 DEF LoopInv, LoopSessionOK
  <2> QED
    BY <2>1, <2>2, <2>3 DEF HealthyIsReal
<1> QED
  BY <1>1, SupervisorConsistent, PTL
=============================================================================
