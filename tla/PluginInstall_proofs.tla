------------------------ MODULE PluginInstall_proofs ------------------------
(***************************************************************************)
(* Theorems about PluginInstall, for every set of plugins, sources, assets,*)
(* indexes and commands and every bound.                                   *)
(***************************************************************************)
EXTENDS PluginInstall, TLAPS

-----------------------------------------------------------------------------
(* The shape of the state *)

Trusting   == {"planned", "downloaded", "written", "loaded"}
Installing == {"begun", "fetched", "resolved", "confirmed", "selected"} \cup Trusting
Ending     == {"locked", "entry", "load"}

InstallFields == {"pc", "cmd", "plugin", "inst", "source", "existing", "version",
                  "tag", "asset", "plan", "move", "digest", "copy"}
EndFields     == {"pc", "cmd", "plugin", "inst", "version"}

(* What the files and the commands are functions of.                        *)
TypeOK ==
    /\ DOMAIN lock = Plugins /\ DOMAIN disk = Plugins
    /\ DOMAIN assets = Plugins /\ DOMAIN confirmed = Plugins
    /\ DOMAIN proc = Commands /\ DOMAIN overtaken = Commands
    /\ \A r \in Commands :
          /\ proc[r].pc \in {"idle", "save"} \cup Installing \cup Ending
          /\ proc[r].pc \in Installing =>
                DOMAIN proc[r] = InstallFields /\ proc[r].plugin \in Plugins
          /\ proc[r].pc \in Ending => DOMAIN proc[r] = EndFields
          /\ proc[r].pc = "loaded" => DOMAIN proc[r].copy = Plugins

LEMMA TypeInit == Init => TypeOK
BY DEF Init, TypeOK, Idle, Installing, Trusting, Ending

(* Every step keeps the shape. *)
LEMMA TypeStep ==
    ASSUME TypeOK, [Next]_vars
    PROVE  TypeOK'
<1> USE DEF TypeOK, InstallFields, EndFields, Idle, Installing, Trusting, Ending, localVars, history
<1>1. CASE Author
  BY <1>1 DEF Author, Commit, Publish, UploadAgain
<1>2. ASSUME NEW r \in Commands, Begin(r)
      PROVE  TypeOK'
  <2>1. CASE \E p \in Plugins, s \in Sources : Install(r, p, s)
    BY <2>1 DEF Install, Started, CommandBegins
  <2>2. CASE \E p \in Plugins, i \in Instances, s \in Sources : Update(r, p, i, s)
    BY <2>2 DEF Update, Started, CommandBegins
  <2>3. CASE \E p \in Plugins, i \in Instances : Enable(r, p, i)
    BY <2>3 DEF Enable, CommandBegins
  <2>4. CASE \E i \in Instances : Disable(r, i)
    BY <2>4 DEF Disable, Saving, CommandBegins
  <2> QED
    BY <1>2, <2>1, <2>2, <2>3, <2>4 DEF Begin
<1>3. ASSUME NEW r \in Commands, Step(r)
      PROVE  TypeOK'
  <2>1. CASE Fetch(r)
    BY <2>1 DEF Fetch, Accepts
  <2>2. CASE Resolve(r)
    BY <2>2 DEF Resolve
  <2>3. CASE \E yes \in BOOLEAN : Confirm(r, yes)
    BY <2>3 DEF Confirm, Goto
  <2>4. CASE \E requested \in {None} \cup Requested : SelectRelease(r, requested)
    BY <2>4 DEF SelectRelease
  <2>5. CASE \E move \in BOOLEAN : PlanTrust(r, move)
    BY <2>5 DEF PlanTrust
  <2>6. CASE Download(r)
    BY <2>6 DEF Download
  <2>7. CASE WriteManifest(r)
    BY <2>7 DEF WriteManifest, Goto
  <2>8. CASE LoadLock(r)
    BY <2>8 DEF LoadLock
  <2>9. CASE SaveLock(r)
    BY <2>9 DEF SaveLock, Upserted, Entry
  <2>10. CASE ReadEntry(r)
    BY <2>10 DEF ReadEntry, Goto
  <2>11. CASE ReadManifest(r)
    BY <2>11 DEF ReadManifest, Saving
  <2>12. CASE LoadState(r)
    BY <2>12 DEF LoadState, Saving
  <2>13. CASE SaveState(r)
    BY <2>13 DEF SaveState
  <2> QED
    BY <1>3, <2>1, <2>2, <2>3, <2>4, <2>5, <2>6, <2>7, <2>8, <2>9, <2>10, <2>11, <2>12,
       <2>13 DEF Step
<1>4. ASSUME NEW r \in Commands, Stop(r)
      PROVE  TypeOK'
  BY <1>4 DEF Stop
<1>5. ASSUME NEW i \in Instances, Remove(i)
      PROVE  TypeOK'
  BY <1>5 DEF Remove
<1>6. CASE UNCHANGED vars
  BY <1>6 DEF vars
<1> QED
  BY <1>1, <1>2, <1>3, <1>4, <1>5, <1>6 DEF Next

-----------------------------------------------------------------------------
(* Permissions *)

Asking == {"confirmed", "selected", "planned", "downloaded"}

(* What a command has been confirmed for stays confirmed until it is        *)
(* written, whatever other commands confirm and write in between.           *)
PermissionInv ==
    /\ PermissionsWereConfirmed
    /\ \A r \in Commands : proc[r].pc \in Asking =>
          Asked(proc[r].plugin, proc[r]) \subseteq confirmed[proc[r].plugin]

(* A step of a command that leaves the manifests and what was confirmed     *)
(* alone keeps it, unless the command is then asking for something new.     *)
LEMMA PermissionFrame ==
    ASSUME PermissionInv, NEW r \in Commands,
           disk' = disk, confirmed' = confirmed,
           \A x \in Commands \ {r} : proc'[x] = proc[x],
           proc'[r].pc \in Asking =>
              /\ proc[r].pc \in Asking
              /\ proc'[r].plugin = proc[r].plugin
              /\ proc'[r].source = proc[r].source
              /\ proc'[r].version = proc[r].version
    PROVE  PermissionInv'
<1>1. PermissionsWereConfirmed'
  BY DEF PermissionInv, PermissionsWereConfirmed, Asked
<1>2. ASSUME NEW x \in Commands, proc'[x].pc \in Asking
      PROVE  Asked(proc[x].plugin, proc[x])' \subseteq confirmed[proc[x].plugin]'
  <2>1. CASE x = r
    BY <1>2, <2>1 DEF PermissionInv, Asked
  <2>2. CASE x # r
    BY <1>2, <2>2 DEF PermissionInv, Asked
  <2> QED
    BY <2>1, <2>2
<1> QED
  BY <1>1, <1>2 DEF PermissionInv

(* Every step keeps it. *)
LEMMA PermissionStep ==
    ASSUME TypeOK, PermissionInv, [Next]_vars
    PROVE  PermissionInv'
<1> USE DEF localVars, history
<1>1. CASE Author
  BY <1>1 DEF Author, Commit, Publish, UploadAgain, PermissionInv,
              PermissionsWereConfirmed, Asked
<1>2. ASSUME NEW r \in Commands, Begin(r)
      PROVE  PermissionInv'
  <2> DEFINE Began == /\ disk' = disk /\ confirmed' = confirmed
                      /\ \A x \in Commands \ {r} : proc'[x] = proc[x]
                      /\ proc'[r].pc \notin Asking
  <2>1. ASSUME NEW p \in Plugins, NEW s \in Sources, Install(r, p, s)
        PROVE  Began
    BY <2>1 DEF Install, Started, TypeOK, Asking
  <2>2. ASSUME NEW p \in Plugins, NEW i \in Instances, NEW s \in Sources,
               Update(r, p, i, s)
        PROVE  Began
    BY <2>2 DEF Update, Started, TypeOK, Asking
  <2>3. ASSUME NEW p \in Plugins, NEW i \in Instances, Enable(r, p, i)
        PROVE  Began
    BY <2>3 DEF Enable, TypeOK, Asking
  <2>4. ASSUME NEW i \in Instances, Disable(r, i)
        PROVE  Began
    BY <2>4 DEF Disable, Saving, TypeOK, Asking
  <2>5. Began
    BY <1>2, <2>1, <2>2, <2>3, <2>4 DEF Begin
  <2> QED
    BY <2>5, PermissionFrame
<1>3. ASSUME NEW r \in Commands, Step(r)
      PROVE  PermissionInv'
  <2> DEFINE Others == \A x \in Commands \ {r} : proc'[x] = proc[x]
             Quiet  == disk' = disk /\ confirmed' = confirmed /\ Others
             Same   == /\ proc[r].pc \in Asking
                       /\ proc'[r].plugin = proc[r].plugin
                       /\ proc'[r].source = proc[r].source
                       /\ proc'[r].version = proc[r].version
  <2>1. CASE Fetch(r)
    <3>1. Quiet /\ proc'[r].pc = "fetched"
      BY <2>1 DEF Fetch, TypeOK, Installing, InstallFields
    <3> QED
      BY <3>1, PermissionFrame DEF Asking
  <2>2. CASE Resolve(r)
    <3>1. Quiet /\ proc'[r].pc = "resolved"
      BY <2>2 DEF Resolve, TypeOK, Installing, InstallFields
    <3> QED
      BY <3>1, PermissionFrame DEF Asking
  <2>3. ASSUME NEW yes \in BOOLEAN, Confirm(r, yes)
        PROVE  PermissionInv'
    <3> DEFINE p == proc[r].plugin
    <3>1. /\ proc[r].pc \in Installing /\ DOMAIN proc[r] = InstallFields
          /\ p \in Plugins
      BY <2>3 DEF Confirm, TypeOK, Installing
    <3>2. /\ disk' = disk /\ Others /\ DOMAIN confirmed = Plugins
          /\ confirmed' = [confirmed EXCEPT ![p] = @ \cup
                             IF yes THEN Asked(p, proc[r]) ELSE {}]
      BY <2>3 DEF Confirm, Goto, TypeOK
    <3>3. /\ proc'[r].plugin = p /\ proc'[r].source = proc[r].source
          /\ proc'[r].version = proc[r].version
      BY <2>3, <3>1 DEF Confirm, Goto, TypeOK, InstallFields
    <3>4. \A q \in Plugins : confirmed[q] \subseteq confirmed'[q]
      BY <3>2
    <3>5. PermissionsWereConfirmed'
      BY <3>2, <3>4 DEF PermissionInv, PermissionsWereConfirmed, Asked
    <3>6. Asked(p, proc[r]) \subseteq confirmed'[p]
      <4>1. CASE yes
        BY <3>1, <3>2, <4>1
      <4>2. CASE ~yes
        <5>1. disk[p] # None /\ Asked(p, proc[r]) \subseteq Asked(p, disk[p])
          BY <2>3, <4>2 DEF Confirm, NeedsConfirmation, Expansion
        <5>2. Asked(p, disk[p]) \subseteq confirmed[p]
          BY <3>1, <5>1 DEF PermissionInv, PermissionsWereConfirmed
        <5> QED
          BY <3>1, <3>4, <5>1, <5>2
      <4> QED
        BY <4>1, <4>2
    <3>7. Asked(proc'[r].plugin, proc'[r]) \subseteq confirmed'[proc'[r].plugin]
      BY <3>3, <3>6 DEF Asked
    <3>8. ASSUME NEW x \in Commands \ {r}, proc'[x].pc \in Asking
          PROVE  Asked(proc'[x].plugin, proc'[x]) \subseteq confirmed'[proc'[x].plugin]
      <4>1. proc'[x] = proc[x] /\ proc[x].plugin \in Plugins
        BY <3>2, <3>8 DEF TypeOK, Asking, Installing, Trusting
      <4>2. Asked(proc[x].plugin, proc[x]) \subseteq confirmed[proc[x].plugin]
        BY <3>8, <4>1 DEF PermissionInv
      <4> QED
        BY <3>4, <4>1, <4>2
    <3> QED
      BY <3>5, <3>7, <3>8 DEF PermissionInv, Asked
  <2>4. ASSUME NEW requested \in {None} \cup Requested, SelectRelease(r, requested)
        PROVE  PermissionInv'
    <3>1. DOMAIN proc[r] = InstallFields /\ proc[r].pc = "confirmed"
      BY <2>4 DEF SelectRelease, TypeOK, Installing
    <3>2. Quiet
      BY <2>4 DEF SelectRelease, TypeOK
    <3>3. Same
      BY <2>4, <3>1 DEF SelectRelease, TypeOK, Asking, InstallFields
    <3> QED
      BY <3>2, <3>3, PermissionFrame
  <2>5. ASSUME NEW move \in BOOLEAN, PlanTrust(r, move)
        PROVE  PermissionInv'
    <3>1. DOMAIN proc[r] = InstallFields /\ proc[r].pc = "selected"
      BY <2>5 DEF PlanTrust, TypeOK, Installing
    <3>2. PICK plan \in Plans(proc[r]) :
             proc' = [proc EXCEPT ![r].pc = "planned", ![r].plan = plan, ![r].move = move]
      BY <2>5 DEF PlanTrust
    <3>3. Quiet
      BY <2>5, <3>2 DEF PlanTrust, TypeOK
    <3>4. Same
      BY <3>1, <3>2 DEF TypeOK, Asking, InstallFields
    <3> QED
      BY <3>3, <3>4, PermissionFrame
  <2>6. CASE Download(r)
    <3>1. DOMAIN proc[r] = InstallFields /\ proc[r].pc = "planned"
      BY <2>6 DEF Download, TypeOK, Installing, Trusting
    <3>2. Quiet
      BY <2>6 DEF Download, TypeOK
    <3>3. Same
      BY <2>6, <3>1 DEF Download, TypeOK, Asking, InstallFields
    <3> QED
      BY <3>2, <3>3, PermissionFrame
  <2>7. CASE WriteManifest(r)
    <3> DEFINE p == proc[r].plugin
    <3>1. /\ DOMAIN proc[r] = InstallFields /\ p \in Plugins
          /\ proc[r].pc = "downloaded"
      BY <2>7 DEF WriteManifest, TypeOK, Installing, Trusting
    <3>2. /\ confirmed' = confirmed /\ Others /\ proc'[r].pc = "written"
          /\ disk' = [disk EXCEPT ![p] = [source |-> proc[r].source,
                                          version |-> proc[r].version]]
      BY <2>7, <3>1 DEF WriteManifest, Goto, TypeOK, InstallFields
    <3>3. Asked(p, proc[r]) \subseteq confirmed[p]
      BY <3>1 DEF PermissionInv, Asking
    <3>4. PermissionsWereConfirmed'
      <4>1. Asked(p, disk'[p]) \subseteq confirmed'[p]
        BY <3>1, <3>2, <3>3 DEF Asked, TypeOK
      <4>2. \A q \in Plugins \ {p} : disk'[q] = disk[q]
        BY <3>1, <3>2 DEF TypeOK
      <4> QED
        BY <3>2, <4>1, <4>2 DEF PermissionInv, PermissionsWereConfirmed, Asked
    <3>5. \A x \in Commands : proc'[x].pc \in Asking =>
             x # r /\ proc'[x] = proc[x]
      BY <3>2 DEF Asking
    <3> QED
      BY <3>2, <3>4, <3>5 DEF PermissionInv, Asked
  <2>8. CASE LoadLock(r)
    <3>1. Quiet /\ proc'[r].pc = "loaded"
      BY <2>8 DEF LoadLock, TypeOK, Installing, Trusting, InstallFields
    <3> QED
      BY <3>1, PermissionFrame DEF Asking
  <2>9. CASE SaveLock(r)
    <3>1. Quiet /\ proc'[r].pc \in {"idle", "locked"}
      BY <2>9 DEF SaveLock, Upserted, TypeOK, Idle
    <3> QED
      BY <3>1, PermissionFrame DEF Asking
  <2>10. CASE ReadEntry(r)
    <3>1. Quiet /\ proc'[r].pc = "entry"
      BY <2>10 DEF ReadEntry, Goto, TypeOK, Ending, EndFields
    <3> QED
      BY <3>1, PermissionFrame DEF Asking
  <2>11. CASE ReadManifest(r)
    <3>1. Quiet /\ proc'[r].pc \in {"load", "save"}
      BY <2>11 DEF ReadManifest, Saving, TypeOK, Ending, EndFields
    <3> QED
      BY <3>1, PermissionFrame DEF Asking
  <2>12. CASE LoadState(r)
    <3>1. Quiet /\ proc'[r].pc = "save"
      BY <2>12 DEF LoadState, Saving, TypeOK
    <3> QED
      BY <3>1, PermissionFrame DEF Asking
  <2>13. CASE SaveState(r)
    <3>1. Quiet /\ proc'[r].pc = "idle"
      BY <2>13 DEF SaveState, Idle, TypeOK
    <3> QED
      BY <3>1, PermissionFrame DEF Asking
  <2> QED
    BY <1>3, <2>1, <2>2, <2>3, <2>4, <2>5, <2>6, <2>7, <2>8, <2>9, <2>10, <2>11, <2>12,
       <2>13 DEF Step
<1>4. ASSUME NEW r \in Commands, Stop(r)
      PROVE  PermissionInv'
  <2>1. /\ disk' = disk /\ confirmed' = confirmed /\ proc'[r].pc = "idle"
        /\ \A x \in Commands \ {r} : proc'[x] = proc[x]
    BY <1>4 DEF Stop, Idle, TypeOK
  <2> QED
    BY <2>1, PermissionFrame DEF Asking
<1>5. ASSUME NEW i \in Instances, Remove(i)
      PROVE  PermissionInv'
  BY <1>5 DEF Remove, PermissionInv, PermissionsWereConfirmed, Asked
<1>6. CASE UNCHANGED vars
  BY <1>6 DEF vars, PermissionInv, PermissionsWereConfirmed, Asked
<1> QED
  BY <1>1, <1>2, <1>3, <1>4, <1>5, <1>6 DEF Next

-----------------------------------------------------------------------------
(* Evidence *)

Sound(p, s, v, d, mode, publisher) ==
    /\ mode = "digest" => d \in Reviewed
    /\ mode = "registry" => \E x \in Index[p] :
          x.source = s /\ x.version = v /\ x.digest = d /\ x.publisher = publisher

Authentic(p, e) ==
    /\ e.digest \in assets[p]
    /\ Sound(p, e.source, e.version, e.digest, e.mode, e.publisher)

(* The plan of a command is about the version it has fetched, what it       *)
(* downloaded is what the plan expected, and the copy of the lock it holds  *)
(* is as good as the lock: an old entry is still evidence for what is in    *)
(* the store, since nothing leaves the store.                               *)
EvidenceInv ==
    /\ \A p \in Plugins : lock[p] # None => Authentic(p, lock[p])
    /\ \A r \in Commands :
          LET c == proc[r]
          IN  /\ c.pc \in Trusting =>
                    Sound(c.plugin, c.source, c.version, c.plan.expected, c.plan.mode,
                          c.plan.publisher)
              /\ c.pc \in Trusting \ {"planned"} =>
                    c.digest = c.plan.expected /\ c.digest \in assets[c.plugin]
              /\ c.pc = "loaded" => \A p \in Plugins :
                    c.copy[p] # None => Authentic(p, c.copy[p])

(* A step that leaves the lock and the store alone keeps it, unless the     *)
(* command then has a plan.                                                 *)
LEMMA EvidenceFrame ==
    ASSUME EvidenceInv, NEW r \in Commands, lock' = lock, assets' = assets,
           \A x \in Commands \ {r} : proc'[x] = proc[x],
           proc'[r].pc \notin Trusting
    PROVE  EvidenceInv'
<1>1. ASSUME NEW x \in Commands, x # r
      PROVE  proc'[x] = proc[x]
  BY <1>1
<1> QED
  BY <1>1 DEF EvidenceInv, Authentic, Sound, Trusting

(* Every step keeps it. *)
LEMMA EvidenceStep ==
    ASSUME TypeOK, EvidenceInv, [Next]_vars
    PROVE  EvidenceInv'
<1> USE DEF localVars, history
<1>1. CASE Author
  BY <1>1 DEF Author, Commit, Publish, UploadAgain, EvidenceInv, Authentic, Sound
<1>2. ASSUME NEW r \in Commands, Begin(r)
      PROVE  EvidenceInv'
  <2> DEFINE Began == /\ lock' = lock /\ assets' = assets
                      /\ \A x \in Commands \ {r} : proc'[x] = proc[x]
                      /\ proc'[r].pc \notin Trusting
  <2>1. ASSUME NEW p \in Plugins, NEW s \in Sources, Install(r, p, s)
        PROVE  Began
    BY <2>1 DEF Install, Started, TypeOK, Trusting
  <2>2. ASSUME NEW p \in Plugins, NEW i \in Instances, NEW s \in Sources,
               Update(r, p, i, s)
        PROVE  Began
    BY <2>2 DEF Update, Started, TypeOK, Trusting
  <2>3. ASSUME NEW p \in Plugins, NEW i \in Instances, Enable(r, p, i)
        PROVE  Began
    BY <2>3 DEF Enable, TypeOK, Trusting
  <2>4. ASSUME NEW i \in Instances, Disable(r, i)
        PROVE  Began
    BY <2>4 DEF Disable, Saving, TypeOK, Trusting
  <2>5. Began
    BY <1>2, <2>1, <2>2, <2>3, <2>4 DEF Begin
  <2> QED
    BY <2>5, EvidenceFrame
<1>3. ASSUME NEW r \in Commands, Step(r)
      PROVE  EvidenceInv'
  <2> DEFINE Others == \A x \in Commands \ {r} : proc'[x] = proc[x]
             Frame  == lock' = lock /\ assets' = assets /\ Others
  <2>1. CASE Fetch(r)
    <3>1. Frame /\ proc'[r].pc = "fetched"
      BY <2>1 DEF Fetch, TypeOK, Installing, InstallFields
    <3> QED
      BY <3>1, EvidenceFrame DEF Trusting
  <2>2. CASE Resolve(r)
    <3>1. Frame /\ proc'[r].pc = "resolved"
      BY <2>2 DEF Resolve, TypeOK, Installing, InstallFields
    <3> QED
      BY <3>1, EvidenceFrame DEF Trusting
  <2>3. ASSUME NEW yes \in BOOLEAN, Confirm(r, yes)
        PROVE  EvidenceInv'
    <3>1. Frame /\ proc'[r].pc = "confirmed"
      BY <2>3 DEF Confirm, Goto, TypeOK, Installing, InstallFields
    <3> QED
      BY <3>1, EvidenceFrame DEF Trusting
  <2>4. ASSUME NEW requested \in {None} \cup Requested, SelectRelease(r, requested)
        PROVE  EvidenceInv'
    <3>1. Frame
      BY <2>4 DEF SelectRelease, TypeOK
    <3>2. proc'[r].pc = "selected"
      BY <2>4 DEF SelectRelease, TypeOK, Installing, InstallFields
    <3> QED
      BY <3>1, <3>2, EvidenceFrame DEF Trusting
  <2>5. ASSUME NEW move \in BOOLEAN, PlanTrust(r, move)
        PROVE  EvidenceInv'
    <3>1. PICK plan \in Plans(proc[r]) :
             proc' = [proc EXCEPT ![r].pc = "planned", ![r].plan = plan, ![r].move = move]
      BY <2>5 DEF PlanTrust
    <3>2. DOMAIN proc[r] = InstallFields
      BY <2>5 DEF PlanTrust, TypeOK, Installing
    <3>3. Frame
      BY <2>5, <3>1 DEF PlanTrust, TypeOK
    <3>4. /\ proc'[r].pc = "planned" /\ proc'[r].plan = plan
          /\ proc'[r].plugin = proc[r].plugin /\ proc'[r].source = proc[r].source
          /\ proc'[r].version = proc[r].version
      BY <3>1, <3>2 DEF TypeOK, InstallFields
    <3>5. Sound(proc[r].plugin, proc[r].source, proc[r].version, plan.expected, plan.mode,
                plan.publisher)
      BY <3>1 DEF Plans, Bound, Sound
    <3>6. \A x \in Commands : x # r => proc'[x] = proc[x]
      BY <3>3
    <3> QED
      BY <3>3, <3>4, <3>5, <3>6 DEF EvidenceInv, Authentic, Sound, Trusting
  <2>6. CASE Download(r)
    <3> DEFINE p      == proc[r].plugin
               actual == proc'[r].digest
               Backed(q, e) == /\ e.digest \in assets'[q]
                               /\ Sound(q, e.source, e.version, e.digest, e.mode, e.publisher)
    <3>1. DOMAIN proc[r] = InstallFields /\ p \in Plugins /\ proc[r].pc = "planned"
      BY <2>6 DEF Download, TypeOK, Installing, Trusting
    <3>2. lock' = lock /\ \A x \in Commands : x # r => proc'[x] = proc[x]
      BY <2>6 DEF Download, TypeOK
    <3>3. /\ proc'[r].pc = "downloaded" /\ actual = proc[r].plan.expected
          /\ proc'[r].plugin = p /\ proc'[r].source = proc[r].source
          /\ proc'[r].version = proc[r].version /\ proc'[r].plan = proc[r].plan
      BY <2>6, <3>1 DEF Download, Matches, TypeOK, InstallFields
    <3>4. assets' = [assets EXCEPT ![p] = @ \cup {actual}]
      BY <2>6, <3>1 DEF Download, TypeOK, InstallFields
    <3>5. actual \in assets'[p] /\ \A q \in Plugins : assets[q] \subseteq assets'[q]
      BY <3>1, <3>4 DEF TypeOK
    <3>6. ASSUME NEW q \in Plugins, NEW e, Authentic(q, e)
          PROVE  Backed(q, e)
      BY <3>5, <3>6 DEF Authentic
    <3>7. \A q \in Plugins : lock[q] # None => Backed(q, lock[q])
      BY <3>6 DEF EvidenceInv
    <3>8. ASSUME NEW x \in Commands, x # r, proc[x].pc \in Trusting
          PROVE  proc[x].plugin \in Plugins
      BY <3>8 DEF TypeOK, Installing
    <3>9. ASSUME NEW x \in Commands, x # r, proc[x].pc = "loaded", NEW q \in Plugins,
                 proc[x].copy[q] # None
          PROVE  Backed(q, proc[x].copy[q])
      BY <3>6, <3>9 DEF EvidenceInv
    <3>10. Sound(p, proc[r].source, proc[r].version, proc[r].plan.expected,
                 proc[r].plan.mode, proc[r].plan.publisher)
      BY <3>1 DEF EvidenceInv, Trusting
    <3>11. \A q \in Plugins : lock'[q] # None => Authentic(q, lock[q])'
      BY <3>2, <3>7 DEF Authentic, Sound
    <3>12. ASSUME NEW x \in Commands, x # r, proc[x].pc \in Trusting
           PROVE  /\ Sound(proc[x].plugin, proc[x].source, proc[x].version,
                           proc[x].plan.expected, proc[x].plan.mode, proc[x].plan.publisher)
                  /\ proc[x].pc # "planned" => /\ proc[x].digest = proc[x].plan.expected
                                               /\ proc[x].digest \in assets'[proc[x].plugin]
      BY <3>5, <3>8, <3>12 DEF EvidenceInv
    <3> QED
      BY <3>2, <3>3, <3>5, <3>9, <3>10, <3>11, <3>12 DEF EvidenceInv, Sound, Authentic
  <2>7. CASE WriteManifest(r)
    BY <2>7 DEF WriteManifest, Goto,
             EvidenceInv, Authentic, Sound, TypeOK, InstallFields, Idle, Installing, Trusting
  <2>8. CASE LoadLock(r)
    BY <2>8 DEF LoadLock,
             EvidenceInv, Authentic, Sound, TypeOK, InstallFields, Idle, Installing, Trusting
  <2>9. CASE SaveLock(r)
    <3> DEFINE c == proc[r]
    <3>1. /\ c.pc = "loaded" /\ DOMAIN c.copy = Plugins
          /\ c.plugin \in Plugins /\ assets' = assets
      BY <2>9 DEF SaveLock, Upserted, TypeOK, Installing, Trusting
    <3>2. lock' = [c.copy EXCEPT ![c.plugin] = Entry(c)]
      BY <2>9 DEF SaveLock, Upserted
    <3>3. \A x \in Commands : x # r => proc'[x] = proc[x]
      BY <2>9 DEF SaveLock, Upserted, TypeOK
    <3>4. proc'[r].pc \in {"idle", "locked"}
      BY <2>9 DEF SaveLock, Upserted, TypeOK, Idle
    <3>5. Authentic(c.plugin, Entry(c))
      BY <3>1 DEF EvidenceInv, Trusting, Authentic, Entry, Sound
    <3>6. \A p \in Plugins : c.copy[p] # None => Authentic(p, c.copy[p])
      BY <3>1 DEF EvidenceInv
    <3>7. \A p \in Plugins : lock'[p] = IF p = c.plugin THEN Entry(c) ELSE c.copy[p]
      BY <3>1, <3>2
    <3>8. ASSUME NEW p \in Plugins, lock'[p] # None
          PROVE  Authentic(p, lock'[p])
      BY <3>5, <3>6, <3>7, <3>8
    <3>9. \A p \in Plugins : lock'[p] # None => Authentic(p, lock[p])'
      BY <3>1, <3>8 DEF Authentic, Sound
    <3> QED
      BY <3>1, <3>3, <3>4, <3>9 DEF EvidenceInv, Trusting, Authentic, Sound
  <2>10. CASE ReadEntry(r)
    <3>1. Frame /\ proc'[r].pc = "entry"
      BY <2>10 DEF ReadEntry, Goto, TypeOK, Ending, EndFields
    <3> QED
      BY <3>1, EvidenceFrame DEF Trusting
  <2>11. CASE ReadManifest(r)
    <3>1. Frame /\ proc'[r].pc \in {"load", "save"}
      BY <2>11 DEF ReadManifest, Saving, TypeOK, Ending, EndFields
    <3> QED
      BY <3>1, EvidenceFrame DEF Trusting
  <2>12. CASE LoadState(r)
    <3>1. Frame /\ proc'[r].pc = "save"
      BY <2>12 DEF LoadState, Saving, TypeOK
    <3> QED
      BY <3>1, EvidenceFrame DEF Trusting
  <2>13. CASE SaveState(r)
    <3>1. Frame /\ proc'[r].pc = "idle"
      BY <2>13 DEF SaveState, Idle, TypeOK
    <3> QED
      BY <3>1, EvidenceFrame DEF Trusting
  <2> QED
    BY <1>3, <2>1, <2>2, <2>3, <2>4, <2>5, <2>6, <2>7, <2>8, <2>9, <2>10, <2>11, <2>12,
       <2>13 DEF Step
<1>4. ASSUME NEW r \in Commands, Stop(r)
      PROVE  EvidenceInv'
  <2>1. /\ lock' = lock /\ assets' = assets /\ proc'[r].pc = "idle"
        /\ \A x \in Commands \ {r} : proc'[x] = proc[x]
    BY <1>4 DEF Stop, Idle, TypeOK
  <2> QED
    BY <2>1, EvidenceFrame DEF Trusting
<1>5. ASSUME NEW i \in Instances, Remove(i)
      PROVE  EvidenceInv'
  BY <1>5 DEF Remove, EvidenceInv, Authentic, Sound
<1>6. CASE UNCHANGED vars
  BY <1>6 DEF vars, EvidenceInv, Authentic, Sound
<1> QED
  BY <1>1, <1>2, <1>3, <1>4, <1>5, <1>6 DEF Next

-----------------------------------------------------------------------------
(* What is replaced *)

(* The plan of a command was compared with the entry it looked at.          *)
PlanInv ==
    \A r \in Commands : proc[r].pc \in Trusting =>
        /\ UpdateTrusted(proc[r].existing, proc[r].source, proc[r].plan, proc[r].move)
        /\ proc[r].plan.mode \in {"digest", "registry", "tofu"}
        /\ proc[r].plan.mode # "registry" => proc[r].plan.publisher = None

(* Every step keeps it. *)
LEMMA PlanStep ==
    ASSUME TypeOK, PlanInv, [Next]_vars
    PROVE  PlanInv'
<1> USE DEF PlanInv, TypeOK, InstallFields, EndFields, Idle, Installing, Trusting, Ending,
            localVars, history
<1>1. CASE Author
  BY <1>1 DEF Author, Commit, Publish, UploadAgain
<1>2. ASSUME NEW r \in Commands, Begin(r)
      PROVE  PlanInv'
  <2>1. CASE \E p \in Plugins, s \in Sources : Install(r, p, s)
    <3>1. PICK p \in Plugins, s \in Sources : Install(r, p, s)
      BY <2>1
    <3>2. \A x \in Commands \ {r} : proc'[x] = proc[x]
      BY <3>1 DEF Install, CommandBegins
    <3>3. proc'[r].pc = "begun"
      BY <3>1 DEF Install, CommandBegins, Started
    <3> QED
      BY <3>2, <3>3
  <2>2. CASE \E p \in Plugins, i \in Instances, s \in Sources : Update(r, p, i, s)
    <3>1. PICK p \in Plugins, i \in Instances, s \in Sources : Update(r, p, i, s)
      BY <2>2
    <3>2. \A x \in Commands \ {r} : proc'[x] = proc[x]
      BY <3>1 DEF Update, CommandBegins
    <3>3. proc'[r].pc = "begun"
      BY <3>1 DEF Update, CommandBegins, Started
    <3> QED
      BY <3>2, <3>3
  <2>3. CASE \E p \in Plugins, i \in Instances : Enable(r, p, i)
    BY <2>3 DEF Enable, CommandBegins
  <2>4. CASE \E i \in Instances : Disable(r, i)
    BY <2>4 DEF Disable, Saving, CommandBegins
  <2> QED
    BY <1>2, <2>1, <2>2, <2>3, <2>4 DEF Begin
<1>3. ASSUME NEW r \in Commands, Step(r)
      PROVE  PlanInv'
  <2>1. CASE Fetch(r)
    BY <2>1 DEF Fetch, Accepts
  <2>2. CASE Resolve(r)
    BY <2>2 DEF Resolve
  <2>3. CASE \E yes \in BOOLEAN : Confirm(r, yes)
    BY <2>3 DEF Confirm, Goto
  <2>4. CASE \E requested \in {None} \cup Requested : SelectRelease(r, requested)
    BY <2>4 DEF SelectRelease
  <2>5. CASE \E move \in BOOLEAN : PlanTrust(r, move)
    BY <2>5 DEF PlanTrust, Plans
  <2>6. CASE Download(r)
    BY <2>6 DEF Download
  <2>7. CASE WriteManifest(r)
    BY <2>7 DEF WriteManifest, Goto
  <2>8. CASE LoadLock(r)
    BY <2>8 DEF LoadLock
  <2>9. CASE SaveLock(r)
    BY <2>9 DEF SaveLock, Upserted, Entry
  <2>10. CASE ReadEntry(r)
    BY <2>10 DEF ReadEntry, Goto
  <2>11. CASE ReadManifest(r)
    BY <2>11 DEF ReadManifest, Saving
  <2>12. CASE LoadState(r)
    BY <2>12 DEF LoadState, Saving
  <2>13. CASE SaveState(r)
    BY <2>13 DEF SaveState
  <2> QED
    BY <1>3, <2>1, <2>2, <2>3, <2>4, <2>5, <2>6, <2>7, <2>8, <2>9, <2>10, <2>11, <2>12,
       <2>13 DEF Step
<1>4. ASSUME NEW r \in Commands, Stop(r)
      PROVE  PlanInv'
  BY <1>4 DEF Stop
<1>5. ASSUME NEW i \in Instances, Remove(i)
      PROVE  PlanInv'
  BY <1>5 DEF Remove
<1>6. CASE UNCHANGED vars
  BY <1>6 DEF vars
<1> QED
  BY <1>1, <1>2, <1>3, <1>4, <1>5, <1>6 DEF Next

-----------------------------------------------------------------------------
(* What a command looked at *)

(* A command that has read the entry it is going to replace.                *)
Seen(c) ==
    /\ c.pc \in Installing
    /\ c.pc \notin {"begun", "fetched"} \/ c.existing # None

(* An entry a command has looked at is still the one of the lock, unless    *)
(* another command overtook it: its own entry from the beginning, the ones  *)
(* it copies from the load of the lock.                                     *)
LookInv ==
    \A r \in Commands :
        LET c == proc[r]
        IN  /\ (Seen(c) /\ c.plugin \notin overtaken[r]) => c.existing = lock[c.plugin]
            /\ c.pc = "loaded" => \A p \in Plugins \ {c.plugin} :
                  p \notin overtaken[r] => c.copy[p] = lock[p]

(* A step of a command that leaves the lock alone keeps it, unless the      *)
(* command looks at something.                                              *)
LEMMA LookFrame ==
    ASSUME LookInv, NEW r \in Commands, lock' = lock,
           \A x \in Commands \ {r} : proc'[x] = proc[x] /\ overtaken'[x] = overtaken[x],
           proc'[r].pc # "loaded",
           Seen(proc'[r]) =>
              /\ Seen(proc[r])
              /\ proc'[r].plugin = proc[r].plugin
              /\ proc'[r].existing = proc[r].existing
              /\ overtaken'[r] = overtaken[r]
    PROVE  LookInv'
BY DEF LookInv, Seen

(* Every step keeps it. *)
LEMMA LookStep ==
    ASSUME TypeOK, LookInv, [Next]_vars
    PROVE  LookInv'
<1> USE DEF localVars, history
<1>1. CASE Author
  BY <1>1 DEF Author, Commit, Publish, UploadAgain, LookInv, Seen
<1>2. ASSUME NEW r \in Commands, Begin(r)
      PROVE  LookInv'
  <2> DEFINE Others == \A x \in Commands \ {r} :
                          proc'[x] = proc[x] /\ overtaken'[x] = overtaken[x]
  <2>1. ASSUME NEW p \in Plugins, NEW s \in Sources, Install(r, p, s)
        PROVE  LookInv'
    <3>1. lock' = lock /\ Others
      BY <2>1 DEF Install, TypeOK
    <3>2. proc'[r].pc = "begun" /\ proc'[r].existing = None
      BY <2>1 DEF Install, Started, TypeOK
    <3> QED
      BY <3>1, <3>2, LookFrame DEF Seen
  <2>2. ASSUME NEW p \in Plugins, NEW i \in Instances, NEW s \in Sources,
               Update(r, p, i, s)
        PROVE  LookInv'
    <3>1. lock' = lock /\ Others
      BY <2>2 DEF Update, TypeOK
    <3>2. proc'[r].pc = "begun" /\ proc'[r].plugin = p /\ proc'[r].existing = lock[p]
      BY <2>2 DEF Update, Started, TypeOK
    <3> QED
      BY <3>1, <3>2 DEF LookInv, Seen
  <2>3. ASSUME NEW p \in Plugins, NEW i \in Instances, Enable(r, p, i)
        PROVE  LookInv'
    <3>1. lock' = lock /\ Others /\ proc'[r].pc = "entry"
      BY <2>3 DEF Enable, TypeOK
    <3> QED
      BY <3>1, LookFrame DEF Seen, Installing, Trusting
  <2>4. ASSUME NEW i \in Instances, Disable(r, i)
        PROVE  LookInv'
    <3>1. lock' = lock /\ Others /\ proc'[r].pc = "save"
      BY <2>4 DEF Disable, Saving, TypeOK
    <3> QED
      BY <3>1, LookFrame DEF Seen, Installing, Trusting
  <2> QED
    BY <1>2, <2>1, <2>2, <2>3, <2>4 DEF Begin
<1>3. ASSUME NEW r \in Commands, Step(r)
      PROVE  LookInv'
  <2> DEFINE Others == \A x \in Commands \ {r} :
                          proc'[x] = proc[x] /\ overtaken'[x] = overtaken[x]
             Quiet  == lock' = lock /\ Others
             Same   == /\ proc'[r].plugin = proc[r].plugin
                       /\ proc'[r].existing = proc[r].existing
                       /\ overtaken'[r] = overtaken[r]
  <2>1. CASE Fetch(r)
    <3>1. Quiet
      BY <2>1 DEF Fetch, TypeOK
    <3>2. Same /\ proc[r].pc = "begun" /\ proc'[r].pc = "fetched"
      BY <2>1 DEF Fetch, TypeOK, Installing, InstallFields
    <3> QED
      BY <3>1, <3>2, LookFrame DEF Seen, Installing
  <2>2. CASE Resolve(r)
    <3> DEFINE c == proc[r]
    <3>1. /\ c.pc = "fetched" /\ DOMAIN c = InstallFields
          /\ lock' = lock /\ \A x \in Commands \ {r} : proc'[x] = proc[x]
      BY <2>2 DEF Resolve, TypeOK, Installing
    <3>2. Others
      BY <2>2, <3>1 DEF Resolve, TypeOK
    <3>3. /\ proc'[r].pc = "resolved" /\ proc'[r].plugin = c.plugin
          /\ proc'[r].existing = IF c.existing = None THEN lock[c.plugin] ELSE c.existing
      BY <2>2, <3>1 DEF Resolve, TypeOK, InstallFields
    <3>4. CASE c.existing = None
      BY <3>1, <3>2, <3>3, <3>4 DEF LookInv, Seen
    <3>5. CASE c.existing # None
      <4>1. overtaken'[r] = overtaken[r]
        BY <2>2, <3>5 DEF Resolve, TypeOK
      <4>2. Seen(c)
        BY <3>1, <3>5 DEF Seen, Installing
      <4> QED
        BY <3>1, <3>2, <3>3, <3>5, <4>1, <4>2, LookFrame
    <3> QED
      BY <3>4, <3>5
  <2>3. ASSUME NEW yes \in BOOLEAN, Confirm(r, yes)
        PROVE  LookInv'
    <3>1. Quiet
      BY <2>3 DEF Confirm, Goto, TypeOK
    <3>2. Same /\ proc[r].pc = "resolved" /\ proc'[r].pc = "confirmed"
      BY <2>3 DEF Confirm, Goto, TypeOK, Installing, InstallFields
    <3> QED
      BY <3>1, <3>2, LookFrame DEF Seen, Installing
  <2>4. ASSUME NEW requested \in {None} \cup Requested, SelectRelease(r, requested)
        PROVE  LookInv'
    <3>1. Quiet
      BY <2>4 DEF SelectRelease, TypeOK
    <3>2. Same /\ proc[r].pc = "confirmed" /\ proc'[r].pc = "selected"
      BY <2>4 DEF SelectRelease, TypeOK, Installing, InstallFields
    <3> QED
      BY <3>1, <3>2, LookFrame DEF Seen, Installing
  <2>5. ASSUME NEW move \in BOOLEAN, PlanTrust(r, move)
        PROVE  LookInv'
    <3>1. Quiet
      BY <2>5 DEF PlanTrust, TypeOK
    <3>2. Same /\ proc[r].pc = "selected" /\ proc'[r].pc = "planned"
      BY <2>5 DEF PlanTrust, TypeOK, Installing, InstallFields
    <3> QED
      BY <3>1, <3>2, LookFrame DEF Seen, Installing
  <2>6. CASE Download(r)
    <3>1. Quiet
      BY <2>6 DEF Download, TypeOK
    <3>2. Same /\ proc[r].pc = "planned" /\ proc'[r].pc = "downloaded"
      BY <2>6 DEF Download, TypeOK, Installing, Trusting, InstallFields
    <3> QED
      BY <3>1, <3>2, LookFrame DEF Seen, Installing, Trusting
  <2>7. CASE WriteManifest(r)
    <3>1. Quiet
      BY <2>7 DEF WriteManifest, Goto, TypeOK
    <3>2. Same /\ proc[r].pc = "downloaded" /\ proc'[r].pc = "written"
      BY <2>7 DEF WriteManifest, Goto, TypeOK, Installing, Trusting, InstallFields
    <3> QED
      BY <3>1, <3>2, LookFrame DEF Seen, Installing, Trusting
  <2>8. CASE LoadLock(r)
    <3> DEFINE c == proc[r]
    <3>1. /\ c.pc = "written" /\ DOMAIN c = InstallFields /\ lock' = lock /\ Others
          /\ overtaken'[r] = overtaken[r] \cap {c.plugin}
      BY <2>8 DEF LoadLock, TypeOK, Installing, Trusting
    <3>2. /\ proc'[r].plugin = c.plugin /\ proc'[r].existing = c.existing
          /\ proc'[r].copy = lock /\ Seen(c)
      BY <2>8, <3>1 DEF LoadLock, TypeOK, InstallFields, Seen, Installing, Trusting
    <3> QED
      BY <3>1, <3>2 DEF LookInv, Seen
  <2>9. CASE SaveLock(r)
    <3>1. /\ proc'[r].pc \in {"idle", "locked"}
          /\ \A x \in Commands \ {r} : proc'[x] = proc[x]
      BY <2>9 DEF SaveLock, TypeOK, Idle
    <3>2. \A x \in Commands \ {r} : Looking(x) =>
             overtaken'[x] = overtaken[x] \cup Changed(lock, lock')
      BY <2>9 DEF SaveLock
    <3>3. ASSUME NEW x \in Commands \ {r}, proc[x].pc \in Installing
          PROVE  /\ proc[x].plugin \in Plugins
                 /\ overtaken'[x] = overtaken[x] \cup Changed(lock, lock')
      BY <3>2, <3>3 DEF TypeOK, Looking, InstallFields
    <3>4. ASSUME NEW x \in Commands \ {r}, proc[x].pc \in Installing,
                 NEW p \in Plugins, p \notin overtaken'[x]
          PROVE  p \notin overtaken[x] /\ lock'[p] = lock[p]
      BY <3>3, <3>4 DEF Changed
    <3>5. ASSUME NEW x \in Commands \ {r}, Seen(proc[x]), proc[x].plugin \notin overtaken'[x]
          PROVE  proc[x].existing = lock'[proc[x].plugin]
      <4>1. proc[x].pc \in Installing /\ proc[x].plugin \in Plugins
        BY <3>5, <3>3 DEF Seen
      <4>2. proc[x].plugin \notin overtaken[x] /\ lock'[proc[x].plugin] = lock[proc[x].plugin]
        BY <3>4, <3>5, <4>1
      <4> QED
        BY <3>5, <4>2 DEF LookInv
    <3>6. ASSUME NEW x \in Commands \ {r}, proc[x].pc = "loaded",
                 NEW p \in Plugins \ {proc[x].plugin}, p \notin overtaken'[x]
          PROVE  proc[x].copy[p] = lock'[p]
      <4>1. p \notin overtaken[x] /\ lock'[p] = lock[p]
        BY <3>4, <3>6 DEF Installing, Trusting
      <4> QED
        BY <3>6, <4>1 DEF LookInv
    <3> QED
      BY <3>1, <3>5, <3>6 DEF LookInv, Seen, Installing, Trusting
  <2>10. CASE ReadEntry(r)
    <3>1. Quiet /\ proc'[r].pc = "entry"
      BY <2>10 DEF ReadEntry, Goto, TypeOK, Ending, EndFields
    <3> QED
      BY <3>1, LookFrame DEF Seen, Installing, Trusting
  <2>11. CASE ReadManifest(r)
    <3>1. Quiet /\ proc'[r].pc \in {"load", "save"}
      BY <2>11 DEF ReadManifest, Saving, TypeOK, Ending, EndFields
    <3> QED
      BY <3>1, LookFrame DEF Seen, Installing, Trusting
  <2>12. CASE LoadState(r)
    <3>1. Quiet /\ proc'[r].pc = "save"
      BY <2>12 DEF LoadState, Saving, TypeOK
    <3> QED
      BY <3>1, LookFrame DEF Seen, Installing, Trusting
  <2>13. CASE SaveState(r)
    <3>1. Quiet /\ proc'[r].pc = "idle"
      BY <2>13 DEF SaveState, Idle, TypeOK
    <3> QED
      BY <3>1, LookFrame DEF Seen, Installing, Trusting
  <2> QED
    BY <1>3, <2>1, <2>2, <2>3, <2>4, <2>5, <2>6, <2>7, <2>8, <2>9, <2>10, <2>11, <2>12,
       <2>13 DEF Step
<1>4. ASSUME NEW r \in Commands, Stop(r)
      PROVE  LookInv'
  <2>1. /\ lock' = lock /\ proc'[r].pc = "idle"
        /\ \A x \in Commands \ {r} : proc'[x] = proc[x] /\ overtaken'[x] = overtaken[x]
    BY <1>4 DEF Stop, Idle, TypeOK
  <2> QED
    BY <2>1, LookFrame DEF Seen, Installing, Trusting
<1>5. ASSUME NEW i \in Instances, Remove(i)
      PROVE  LookInv'
  BY <1>5 DEF Remove, LookInv, Seen
<1>6. CASE UNCHANGED vars
  BY <1>6 DEF vars, LookInv, Seen
<1> QED
  BY <1>1, <1>2, <1>3, <1>4, <1>5, <1>6 DEF Next

(* Only SaveLock writes the lock. *)
LEMMA OneWriter ==
    ASSUME [Next]_vars, lock' # lock
    PROVE  \E r \in Commands : SaveLock(r)
BY DEF Next, Author, Commit, Publish, UploadAgain, Begin, Install, Update, Enable, Disable,
       Step, Fetch, Resolve, Confirm, SelectRelease, PlanTrust, Download, WriteManifest,
       LoadLock, ReadEntry, ReadManifest, LoadState, SaveState, Stop, Remove, vars,
       localVars, history

-----------------------------------------------------------------------------
(* Theorems *)

(* The shape of the state is an invariant.                                  *)
LEMMA Shaped == Spec => []TypeOK
<1>1. TypeOK /\ [Next]_vars => TypeOK'
  BY TypeStep
<1> QED
  BY TypeInit, <1>1, PTL DEF Spec

(* A manifest on the disk asks for nothing nobody confirmed, for every      *)
(* number of commands that overtake one another (install.go:281, 421).      *)
THEOREM PermissionsConfirmed == Spec => []PermissionsWereConfirmed
<1>1. Init => PermissionInv
  BY DEF Init, PermissionInv, PermissionsWereConfirmed, Asking, Idle
<1>2. TypeOK /\ PermissionInv /\ [Next]_vars => PermissionInv'
  BY PermissionStep
<1>3. PermissionInv => PermissionsWereConfirmed
  BY DEF PermissionInv
<1> QED
  BY <1>1, <1>2, <1>3, Shaped, PTL DEF Spec

(* Every entry of the lock is backed by evidence about the content it names,*)
(* although commands write old copies of the lock over newer ones           *)
(* (install.go:278, 302).                                                   *)
THEOREM EntriesAuthentic == Spec => []EntryIsAuthentic
<1>1. Init => EvidenceInv
  BY DEF Init, EvidenceInv, Trusting, Idle
<1>2. TypeOK /\ EvidenceInv /\ [Next]_vars => EvidenceInv'
  BY EvidenceStep
<1>3. EvidenceInv => EntryIsAuthentic
  BY DEF EvidenceInv, EntryIsAuthentic, Authentic, Sound
<1> QED
  BY <1>1, <1>2, <1>3, Shaped, PTL DEF Spec

(* An entry of the lock is lost, reverted or replaced against the rules of  *)
(* an update (trust.go:128) only by a command that another one overtook on  *)
(* this very entry; what a command has not been overtaken on is what it     *)
(* compared its plan with, or what it copied, at the moment it writes.      *)
THEOREM TrustKept == Spec => TrustKeptUnlessOvertaken
<1>1. Init => PlanInv /\ LookInv
  BY DEF Init, PlanInv, LookInv, Seen, Installing, Trusting, Idle
<1>2. TypeOK /\ PlanInv /\ LookInv /\ [Next]_vars => (PlanInv /\ LookInv)'
  BY PlanStep, LookStep
<1> DEFINE Kept(p, r) == \/ p \in overtaken[r]
                         \/ /\ p = proc[r].plugin
                            /\ Follows(lock[p], lock'[p], proc[r].move)
<1>3. ASSUME TypeOK, PlanInv, LookInv, NEW r \in Commands, SaveLock(r),
             NEW p \in Changed(lock, lock')
      PROVE  Kept(p, r)
  <2> DEFINE c == proc[r]
  <2>1. /\ c.pc = "loaded" /\ c.plugin \in Plugins /\ DOMAIN c.copy = Plugins
        /\ Seen(c)
    BY <1>3 DEF TypeOK, SaveLock, Installing, Trusting, Seen
  <2>2. lock' = [c.copy EXCEPT ![c.plugin] = Entry(c)]
    BY <1>3 DEF SaveLock, Upserted
  <2>3. /\ UpdateTrusted(c.existing, c.source, c.plan, c.move)
        /\ c.plan.mode \in {"digest", "registry", "tofu"}
        /\ c.plan.mode # "registry" => c.plan.publisher = None
    BY <1>3, <2>1 DEF PlanInv, Trusting
  <2>4. CASE p \in overtaken[r]
    BY <2>4
  <2>5. CASE p \notin overtaken[r] /\ p # c.plugin
    <3>1. p \in Plugins /\ lock[p] # lock'[p]
      BY DEF Changed
    <3>2. lock'[p] = c.copy[p] /\ c.copy[p] = lock[p]
      BY <1>3, <2>1, <2>2, <2>5, <3>1 DEF LookInv
    <3> QED
      BY <3>1, <3>2
  <2>6. CASE p \notin overtaken[r] /\ p = c.plugin
    <3>1. c.existing = lock[p] /\ lock'[p] = Entry(c)
      BY <1>3, <2>1, <2>2, <2>6 DEF LookInv
    <3>2. UpdateTrusted(lock[p], c.source, c.plan, c.move)
      BY <2>3, <3>1
    <3>3. Follows(lock[p], Entry(c), c.move)
      BY <2>3, <3>2 DEF Follows, Entry, UpdateTrusted, Downgrade, Verified
    <3> QED
      BY <2>6, <3>1, <3>3
  <2> QED
    BY <2>4, <2>5, <2>6
<1>4. ASSUME TypeOK, PlanInv, LookInv, [Next]_vars
      PROVE  [\A p \in Changed(lock, lock') :
                 \E r \in Commands : SaveLock(r) /\ Kept(p, r)]_vars
  <2>1. ASSUME NEW p \in Changed(lock, lock')
        PROVE  \E r \in Commands : SaveLock(r)
    <3>1. lock' # lock
      BY DEF Changed
    <3> QED
      BY <1>4, <3>1, OneWriter
  <2> QED
    BY <1>3, <1>4, <2>1
<1>5. TypeOK /\ PlanInv /\ LookInv /\ [Next]_vars
         => [\A p \in Changed(lock, lock') : \E r \in Commands :
                /\ SaveLock(r)
                /\ Kept(p, r)]_vars
  BY <1>4
<1> QED
  BY <1>1, <1>2, <1>5, Shaped, PTL DEF Spec, TrustKeptUnlessOvertaken

=============================================================================
