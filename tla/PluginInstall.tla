--------------------------- MODULE PluginInstall ---------------------------
(***************************************************************************)
(* Installing plugins from GitHub sources, and the state of instances the  *)
(* command line keeps (registry/, plugincontrol/controller.go and state.go,*)
(* cmd/cloudpath). Each command is an operating system process of its own: *)
(* the mutex of plugins.lock lives in one process only, so any two steps   *)
(* of two commands interleave, the reading and the writing of the lock     *)
(* included. A command may stop after any step, on an error or when it is  *)
(* killed, and leaves behind what it wrote.                                *)
(*                                                                         *)
(* The author of a source commits manifests, publishes releases and may    *)
(* upload an asset again under the same tag. Data abstracted: a version is *)
(* a number, the digest of an asset names the upload it comes from, the    *)
(* text of constraints and selectors is parsed already. The attestation    *)
(* verifier, which no command configures, is left out.                     *)
(***************************************************************************)
EXTENDS Naturals, FiniteSets

CONSTANTS
    Plugins, Instances,
    Sources, Catalogs,      \* repositories; those with a plugins.yaml
    Offers,                 \* plugins a source has an active entry for
    Assets,                 \* of a release: [name, base, platform, kind]
    Preferred,              \* asset a catalog names, or None
    Manifest,               \* of a version: [permissions, protocol, core]
    Core,                   \* our version
    Platform,
    Requested,              \* names of assets users ask for
    Reviewed,               \* digests a user can have got out of band
    Index,                  \* registry entries for a plugin, one per index
    Commands,               \* processes
    None,
    MaxVersion,             \* of a source
    MaxUploads, MaxCommands

ASSUME InstallAssumption ==
    /\ Catalogs \subseteq Sources
    /\ None \notin Plugins \cup Sources
    /\ MaxVersion \in [Sources -> Nat \ {0}]
    /\ MaxUploads \in Nat /\ MaxCommands \in Nat

Versions == UNION {1..MaxVersion[s] : s \in Sources}

VARIABLES
    remote,         \* of a source: [head, release, uploads]
    lock,           \* plugins.lock: the entry of a plugin, or None
    disk,           \* the plugin.yaml in the directory of a plugin, or None
    assets,         \* digests stored in the directory of a plugin
    states,         \* None, or [plugin, version, enabled] of an instance
    proc,           \* what each command does next
    begun,          \* commands so far
    confirmed,      \* history: permissions a user confirmed for a plugin
    overtaken       \* history: plugins whose entry of the lock has changed
                    \* since the command looked at it

localVars == <<lock, disk, assets, states>>
history == <<confirmed, overtaken>>
vars == <<remote, localVars, proc, begun, history>>

Idle == [pc |-> "idle"]

(***************************************************************************)
(* Compatibility with the core: a version is <<major, minor, patch>>, a    *)
(* constraint [op, target].                                                *)
(***************************************************************************)
SupportedProtocol == 1

Below(a, b) ==
    \/ a[1] < b[1]
    \/ a[1] = b[1] /\ a[2] < b[2]
    \/ a[1] = b[1] /\ a[2] = b[2] /\ a[3] < b[3]

NextMinor(v) == <<v[1], v[2] + 1, 0>>

Caret(v) == IF v[1] = 0 THEN NextMinor(v) ELSE <<v[1] + 1, 0, 0>>

ConstraintMatches(c, current) ==
    CASE c.op = "*"         -> TRUE
      [] c.op \in {"", "="} -> current = c.target
      [] c.op = ">="        -> ~Below(current, c.target)
      [] c.op = "<="        -> ~Below(c.target, current)
      [] c.op = ">"         -> Below(c.target, current)
      [] c.op = "<"         -> Below(current, c.target)
      [] c.op = "^"         -> /\ ~Below(current, c.target)
                               /\ Below(current, Caret(c.target))
      [] c.op = "~"         -> /\ ~Below(current, c.target)
                               /\ Below(current, NextMinor(c.target))

CoreCompatible(s, p, v) ==
    \A c \in Manifest[s][p][v].core : ConstraintMatches(c, Core)

ContractHolds(s, p, v) ==
    /\ Manifest[s][p][v].protocol = SupportedProtocol
    /\ CoreCompatible(s, p, v)

(***************************************************************************)
(* What a source offers.                                                   *)
(***************************************************************************)
Offered(s, p) == p \in Offers[s]

Downloadable(a) == a.kind = "binary"

Candidates(s) == {a \in Assets[s] : Downloadable(a)}

Checksums(s) == {a \in Assets[s] : a.kind = "checksum"}

ForPlatform(as) == {a \in as : a.platform = Platform}

\* The assets that fit; an install goes on only with exactly one.
Selected(s, requested) ==
    IF requested # None THEN {a \in Assets[s] : a.name = requested}
    ELSE IF Preferred[s] # None
         THEN ForPlatform({a \in Candidates(s) : Preferred[s] \in {a.name, a.base}})
              \cup {a \in Candidates(s) : a.name = Preferred[s]
                                           /\ Cardinality(Candidates(s)) = 1}
    ELSE IF Cardinality(Candidates(s)) = 1 THEN Candidates(s)
    ELSE ForPlatform(Candidates(s))

\* The content behind the address of an asset, as it is now.
Digest(s, v, a) == <<s, v, a.name, remote[s].uploads[v]>>

\* In a catalog the tag of the newest release is the one of the manifest. A
\* source with a single plugin promises nothing of the kind.
ReleaseFits(s, v) == s \in Catalogs => remote[s].release = v

(***************************************************************************)
(* Trust.                                                                  *)
(***************************************************************************)
Verified(mode) == mode \in {"digest", "registry"}

Bound(e, c) ==
    /\ e.source = c.source /\ e.version = c.version /\ e.publisher # None
    /\ e.tag # None => e.tag = c.tag

\* What planTrust may answer, by the flags of the command.
Plans(c) ==
    LET plan(mode, expected, publisher) ==
            [mode |-> mode, expected |-> expected, publisher |-> publisher]
    IN  {plan("digest", d, None) : d \in Reviewed}
        \cup {plan("registry", e.digest, e.publisher) :
                 e \in {x \in Index[c.plugin] : Bound(x, c)}}
        \cup {plan("tofu", Digest(c.source, c.tag, c.asset), None) :
                 x \in Checksums(c.source)}

\* Mutant: the trust of what is replaced is not looked at.
DowngradeNever(old, mode) == FALSE

Downgrade(old, mode) == Verified(old.mode) /\ mode = "tofu"

UpdateTrusted(old, s, plan, move) ==
    old # None =>
        /\ ~Downgrade(old, plan.mode)
        /\ old.source # s => move
        /\ (old.publisher # None /\ plan.mode = "registry")
              => plan.publisher = old.publisher

Asked(p, m) == Manifest[m.source][p][m.version].permissions

\* Mutant: what the installed version does not ask for is not looked at.
ExpansionNone(p, m) == {}

Expansion(p, m) == Asked(p, m) \ Asked(p, disk[p])

NeedsConfirmation(p, m) == disk[p] = None \/ Expansion(p, m) # {}

Init ==
    /\ remote = [s \in Sources |->
                    [head |-> 1, release |-> 1, uploads |-> [v \in Versions |-> 0]]]
    /\ lock = [p \in Plugins |-> None] /\ disk = [p \in Plugins |-> None]
    /\ assets = [p \in Plugins |-> {}]
    /\ states = [i \in Instances |-> None]
    /\ proc = [r \in Commands |-> Idle] /\ begun = 0
    /\ confirmed = [p \in Plugins |-> {}]
    /\ overtaken = [r \in Commands |-> {}]

(***************************************************************************)
(* The author.                                                             *)
(***************************************************************************)
Commit(s) ==
    /\ remote[s].head < MaxVersion[s]
    /\ remote' = [remote EXCEPT ![s].head = @ + 1]
    /\ UNCHANGED <<localVars, proc, begun, history>>

Publish(s) ==
    /\ remote[s].release # remote[s].head
    /\ remote' = [remote EXCEPT ![s].release = remote[s].head]
    /\ UNCHANGED <<localVars, proc, begun, history>>

UploadAgain(s) ==
    /\ \A t \in Sources, v \in Versions : remote[t].uploads[v] < MaxUploads
    /\ remote' = [remote EXCEPT ![s].uploads[remote[s].release] = @ + 1]
    /\ UNCHANGED <<localVars, proc, begun, history>>

(***************************************************************************)
(* install and update.                                                     *)
(***************************************************************************)
Goto(r, pc) == proc' = [proc EXCEPT ![r].pc = pc]

Started(cmd, p, i, s, existing) ==
    [pc |-> "begun", cmd |-> cmd, plugin |-> p, inst |-> i, source |-> s,
     existing |-> existing, version |-> None, tag |-> None, asset |-> None,
     plan |-> None, move |-> FALSE, digest |-> None, copy |-> None]

CommandBegins(r) ==
    /\ proc[r] = Idle /\ begun < MaxCommands
    /\ begun' = begun + 1

Install(r, p, s) ==
    /\ CommandBegins(r)
    /\ proc' = [proc EXCEPT ![r] = Started("install", p, None, s, None)]
    /\ UNCHANGED <<remote, localVars, history>>

\* The entry of the lock is read before anything else.
Update(r, p, i, s) ==
    /\ CommandBegins(r)
    /\ lock[p] # None
    /\ proc' = [proc EXCEPT ![r] = Started("update", p, i, s, lock[p])]
    /\ UNCHANGED <<remote, localVars, history>>

Accepts(c, v) ==
    Offered(c.source, c.plugin) /\ ContractHolds(c.source, c.plugin, v)

Fetch(r) ==
    LET c == proc[r] v == remote[c.source].head
    IN  /\ c.pc = "begun"
        /\ Accepts(c, v)
        /\ proc' = [proc EXCEPT ![r].pc = "fetched", ![r].version = v]
        /\ UNCHANGED <<remote, localVars, begun, history>>

\* An installation reads what it replaces here.
Resolve(r) ==
    LET c == proc[r]
    IN  /\ c.pc = "fetched"
        /\ proc' = [proc EXCEPT ![r] =
              [c EXCEPT !.pc = "resolved",
                        !.existing = IF @ = None THEN lock[c.plugin] ELSE @]]
        /\ overtaken' = [overtaken EXCEPT ![r] = IF c.existing = None THEN {} ELSE @]
        /\ UNCHANGED <<remote, localVars, begun, confirmed>>

Confirm(r, yes) ==
    LET c == proc[r]
    IN  /\ c.pc = "resolved"
        /\ NeedsConfirmation(c.plugin, c) => yes
        /\ confirmed' = [confirmed EXCEPT ![c.plugin] =
                            @ \cup IF yes THEN Asked(c.plugin, c) ELSE {}]
        /\ Goto(r, "confirmed")
        /\ UNCHANGED <<remote, localVars, begun, overtaken>>

SelectRelease(r, requested) ==
    LET c == proc[r]
    IN  /\ c.pc = "confirmed"
        /\ ReleaseFits(c.source, c.version)
        /\ c.cmd = "update" => requested = None
        /\ \E a \in Assets[c.source] :
              /\ Selected(c.source, requested) = {a}
              /\ proc' = [proc EXCEPT ![r].pc = "selected", ![r].asset = a,
                                      ![r].tag = remote[c.source].release]
        /\ UNCHANGED <<remote, localVars, begun, history>>

PlanTrust(r, move) ==
    LET c == proc[r]
    IN  /\ c.pc = "selected"
        /\ \E plan \in Plans(c) :
              /\ UpdateTrusted(c.existing, c.source, plan, move)
              /\ move => c.existing # None
              /\ proc' = [proc EXCEPT ![r].pc = "planned", ![r].plan = plan,
                                      ![r].move = move]
        /\ UNCHANGED <<remote, localVars, begun, history>>

\* Mutant: what was downloaded is not compared with what was expected.
MatchesAlways(actual, expected) == TRUE

Matches(actual, expected) == actual = expected

Download(r) ==
    LET c == proc[r] actual == Digest(c.source, c.tag, c.asset)
    IN  /\ c.pc = "planned"
        /\ Matches(actual, c.plan.expected)
        /\ assets' = [assets EXCEPT ![c.plugin] = @ \cup {actual}]
        /\ proc' = [proc EXCEPT ![r].pc = "downloaded", ![r].digest = actual]
        /\ UNCHANGED <<remote, lock, disk, states, begun, history>>

WriteManifest(r) ==
    LET c == proc[r]
    IN  /\ c.pc = "downloaded"
        /\ disk' = [disk EXCEPT ![c.plugin] =
                        [source |-> c.source, version |-> c.version]]
        /\ Goto(r, "written")
        /\ UNCHANGED <<remote, lock, assets, states, begun, history>>

LoadLock(r) ==
    /\ proc[r].pc = "written"
    /\ proc' = [proc EXCEPT ![r].pc = "loaded", ![r].copy = lock]
    /\ overtaken' = [overtaken EXCEPT ![r] = @ \cap {proc[r].plugin}]
    /\ UNCHANGED <<remote, localVars, begun, confirmed>>

Entry(c) ==
    [source |-> c.source, version |-> c.version, tag |-> c.tag,
     digest |-> c.digest, mode |-> c.plan.mode, publisher |-> c.plan.publisher]

Upserted(c) == [c.copy EXCEPT ![c.plugin] = Entry(c)]

Changed(old, new) == {p \in Plugins : old[p] # new[p]}

\* Commands that have looked at an entry and may still write it.
Looking(x) == "existing" \in DOMAIN proc[x]

\* The file is replaced as a whole by the copy.
SaveLock(r) ==
    LET c == proc[r]
    IN  /\ c.pc = "loaded"
        /\ lock' = Upserted(c)
        /\ overtaken' = [x \in Commands |->
              IF x # r /\ Looking(x) THEN overtaken[x] \cup Changed(lock, Upserted(c))
              ELSE {}]
        /\ proc' = [proc EXCEPT ![r] = IF c.cmd = "install" THEN Idle
              ELSE [pc |-> "locked", cmd |-> c.cmd, plugin |-> c.plugin,
                    inst |-> c.inst, version |-> c.version]]
        /\ UNCHANGED <<remote, disk, assets, states, begun, confirmed>>

(***************************************************************************)
(* The state of instances: enable, the end of an update, disable, remove.  *)
(***************************************************************************)
Stored(i) == states[i] # None

Saving(i, state) == [pc |-> "save", inst |-> i, state |-> state]

Enabled(c) == [plugin |-> c.plugin, version |-> c.version, enabled |-> TRUE]

Disabled(state) == [state EXCEPT !.enabled = FALSE]

Updated(state, c) == [state EXCEPT !.version = c.version]

Enable(r, p, i) ==
    /\ CommandBegins(r)
    /\ lock[p] # None
    /\ proc' = [proc EXCEPT ![r] = [pc |-> "entry", cmd |-> "enable", plugin |-> p,
                                    inst |-> i, version |-> lock[p].version]]
    /\ UNCHANGED <<remote, localVars, history>>

ReadEntry(r) ==
    LET c == proc[r]
    IN  /\ c.pc = "locked"
        /\ lock[c.plugin] # None
        /\ lock[c.plugin].version = c.version
        /\ Goto(r, "entry")
        /\ UNCHANGED <<remote, localVars, begun, history>>

\* installedPlugin: the manifest is read after the lock.
ReadManifest(r) ==
    LET c == proc[r]
    IN  /\ c.pc = "entry"
        /\ disk[c.plugin] # None
        /\ disk[c.plugin].version = c.version
        /\ ContractHolds(disk[c.plugin].source, c.plugin, c.version)
        /\ proc' = [proc EXCEPT ![r] =
              IF c.cmd = "update" THEN [c EXCEPT !.pc = "load"]
              ELSE Saving(c.inst, Enabled(c))]
        /\ UNCHANGED <<remote, localVars, begun, history>>

LoadState(r) ==
    LET c == proc[r]
    IN  /\ c.pc = "load"
        /\ Stored(c.inst) /\ states[c.inst].plugin = c.plugin
        /\ proc' = [proc EXCEPT ![r] =
              Saving(c.inst, Updated(states[c.inst], c))]
        /\ UNCHANGED <<remote, localVars, begun, history>>

Disable(r, i) ==
    /\ CommandBegins(r)
    /\ Stored(i)
    /\ proc' = [proc EXCEPT ![r] = Saving(i, Disabled(states[i]))]
    /\ UNCHANGED <<remote, localVars, history>>

SaveState(r) ==
    LET c == proc[r]
    IN  /\ c.pc = "save"
        /\ states' = [states EXCEPT ![c.inst] = c.state]
        /\ proc' = [proc EXCEPT ![r] = Idle]
        /\ UNCHANGED <<remote, lock, disk, assets, begun, history>>

Remove(i) ==
    /\ Stored(i)
    /\ states' = [states EXCEPT ![i] = None]
    /\ UNCHANGED <<remote, lock, disk, assets, proc, begun, history>>

\* An error, the limit of three minutes, or a kill.
Stop(r) ==
    /\ proc[r] # Idle
    /\ proc' = [proc EXCEPT ![r] = Idle]
    /\ overtaken' = [overtaken EXCEPT ![r] = {}]
    /\ UNCHANGED <<remote, localVars, begun, confirmed>>

Author == \E s \in Sources : Commit(s) \/ Publish(s) \/ UploadAgain(s)

Begin(r) ==
    \/ \E p \in Plugins, s \in Sources : Install(r, p, s)
    \/ \E p \in Plugins, i \in Instances, s \in Sources : Update(r, p, i, s)
    \/ \E p \in Plugins, i \in Instances : Enable(r, p, i)
    \/ \E i \in Instances : Disable(r, i)

Step(r) ==
    \/ Fetch(r) \/ Resolve(r)
    \/ \E yes \in BOOLEAN : Confirm(r, yes)
    \/ \E requested \in {None} \cup Requested : SelectRelease(r, requested)
    \/ \E move \in BOOLEAN : PlanTrust(r, move)
    \/ Download(r) \/ WriteManifest(r) \/ LoadLock(r) \/ SaveLock(r)
    \/ ReadEntry(r) \/ ReadManifest(r) \/ LoadState(r) \/ SaveState(r)

Next ==
    \/ Author
    \/ \E r \in Commands : Begin(r) \/ Step(r) \/ Stop(r)
    \/ \E i \in Instances : Remove(i)

Spec == Init /\ [][Next]_vars

(***************************************************************************)
(* Properties.                                                             *)
(***************************************************************************)
\* An entry of the lock names content that is in the store, and evidence that
\* is about this very content: a digest the user brought, or an entry of an
\* index for this source, version and upload. It stays true although commands
\* write old copies of the lock over newer ones (install.go:278, 302).
EntryIsAuthentic ==
    \A p \in Plugins : lock[p] # None =>
        LET e == lock[p]
        IN  /\ e.digest \in assets[p]
            /\ e.mode = "digest" => e.digest \in Reviewed
            /\ e.mode = "registry" => \E x \in Index[p] :
                  /\ x.source = e.source /\ x.version = e.version
                  /\ x.digest = e.digest /\ x.publisher = e.publisher

\* The manifest in the directory of a plugin asks only for permissions somebody
\* confirmed. The expansion is compared with a manifest that another command
\* may have replaced before ours is written (install.go:421, 281).
PermissionsWereConfirmed ==
    \A p \in Plugins : disk[p] # None => Asked(p, disk[p]) \subseteq confirmed[p]

\* The rules of an update, between the entry replaced and the one that replaces
\* it: no verification is dropped, no source or publisher changed unasked.
Follows(old, new, move) ==
    old # None =>
        /\ Verified(old.mode) => Verified(new.mode)
        /\ old.source = new.source \/ move
        /\ None \in {old.publisher, new.publisher} \/ old.publisher = new.publisher

\* The lock loses an entry, gets an old one back or sees the rules of an update
\* broken (trust.go:128) in one way only: the command that writes was overtaken
\* by another one that wrote this very entry after the first had looked at it,
\* at the beginning for its own plugin (install.go:147), in the copy for the
\* others (install.go:303). Along any chain of commands that do not overtake one
\* another, what is verified stays verified.
TrustKeptUnlessOvertaken ==
    [][\A p \in Changed(lock, lock') : \E r \in Commands :
          /\ SaveLock(r)
          /\ \/ p \in overtaken[r]
             \/ /\ p = proc[r].plugin
                /\ Follows(lock[p], lock'[p], proc[r].move)
      ]_vars

=============================================================================
