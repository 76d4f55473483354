---------------------------- MODULE DesiredSync ----------------------------
(***************************************************************************)
(* The plugin control plane of one (tenant, edge) pair: the Server is the  *)
(* authority on the desired set of plugin instances and numbers every      *)
(* change with a revision, the Edge installs whole snapshots of that set   *)
(* and answers each with a plugin_ack.                                     *)
(*                                                                         *)
(* Interleavings kept: the write handlers (serialised by writeMu), the     *)
(* hello and reconcile senders (which are not), the reads of s.edges and   *)
(* of the plane under two different locks, one goroutine per plugin_desired*)
(* on the Edge, a plugin_ack queue that outlives the session, links that   *)
(* break, links that evict one another, and crashes of either side.        *)
(*                                                                         *)
(* Data abstracted: an instance row is one member of Configs; the sha256   *)
(* digest of a snapshot is the instance map itself (equal iff equal).      *)
(***************************************************************************)
EXTENDS Naturals, Sequences, FiniteSets

CONSTANTS
    Instances,      \* plugin instance ids of this tenant/edge
    Configs,        \* what an instance row holds (version, enabled, config, ...)
    Absent,         \* no row for this instance
    None,           \* "no link", "no snapshot", "no digest", "no message"
    Links,          \* connections that exist at the same time
    Workers,        \* goroutines the Edge runs for plugin_desired messages
    Quota,          \* tenantpolicy plugin_instances
    SendCap,        \* capacity of link.send, of wsClient.send and of a socket
    MaxRevision,    \* bound: number of desired-state writes
    MaxBreaks,      \* bound: connections the network drops
    MaxFailures,    \* bound: snapshot applications that fail
    MaxCrashes,     \* bound: crashes of the Server and of the Edge together
    MaxReconciles   \* bound: reconcile requests

ASSUME ConstantsAssumption ==
    /\ Absent \notin Configs
    /\ IsFiniteSet(Instances)
    /\ {Quota, SendCap, MaxRevision, MaxBreaks, MaxFailures, MaxCrashes,
        MaxReconciles} \subseteq Nat
    /\ None \notin Links

Content  == [Instances -> Configs \cup {Absent}]
Snapshot == [rev : Nat, content : Content]
Status   == {"applied", "rejected", "failed"}
Ack      == [snap : Snapshot, status : Status]
Nothing  == [i \in Instances |-> Absent]

ASSUME NoneAssumption ==
    None \notin Snapshot /\ None \notin Ack /\ None \notin Content

(* AppliedCache's zero value: revision 0 and no digest. *)
EmptyCache == [rev |-> 0, content |-> None]

Senders == {"write", "reconcile", "hello"}
Plane   == [loaded : BOOLEAN, rev : Nat, content : Content, applied : Nat]
Writer  == [pc : {"idle", "stored", "remembered", "pushing"},
            inst : Instances \cup {None}, config : Configs \cup {Absent}, rev : Nat]
Push    == [by : Senders, link : Links, snap : Snapshot \cup {None}]

-----------------------------------------------------------------------------
VARIABLES
    \* Server, durable (SQLite): plugin_desired_instances, plugin_edge_revisions
    dbRev, dbContent, dbApplied,
    \* Server, in memory: pluginTenantPlane/pluginEdgePlane of this edge
    plane,
    writer,         \* the write handler holding writeMu
    pushes,         \* calls of sendPluginDesiredToLink in flight
    current,        \* s.edges[edge]
    \* connections
    reg, alive, down, up,
    rx,             \* an ack past the current-link check, waiting for p.mu
    \* Edge
    session, todo, reply, out, cache, disk, local,
    \* budgets
    breaks, failures, crashes, reconciles,
    \* history: snapshots the Server committed, snapshots the Edge installed
    \* completely, and the last of these
    issued, installed, lastInstall

serverVars == <<dbRev, dbContent, dbApplied, plane, writer>>
linkVars   == <<reg, alive, down, up>>
edgeVars   == <<session, todo, reply, out, cache, disk, local>>
auxVars    == <<breaks, failures, crashes, reconciles, issued, installed, lastInstall>>
vars == <<serverVars, pushes, current, linkVars, rx, edgeVars, auxVars>>

IdleWriter == [pc |-> "idle", inst |-> None, config |-> Absent, rev |-> 0]

Unloaded == [loaded |-> FALSE, rev |-> 0, content |-> Nothing, applied |-> 0]
NoRow    == [loaded |-> TRUE,  rev |-> 0, content |-> Nothing, applied |-> 0]

Init ==
    /\ dbRev = 0 /\ dbContent = Nothing /\ dbApplied = 0
    /\ plane = Unloaded
    /\ writer = IdleWriter
    /\ pushes = {}
    /\ current = None
    /\ reg   = [l \in Links |-> "none"]
    /\ alive = [l \in Links |-> FALSE]
    /\ down  = [l \in Links |-> <<>>]
    /\ up    = [l \in Links |-> <<>>]
    /\ rx    = [l \in Links |-> None]
    /\ session = None
    /\ todo  = [w \in Workers |-> None]
    /\ reply = [w \in Workers |-> None]
    /\ out = <<>>
    /\ cache = EmptyCache /\ disk = EmptyCache
    /\ local = Nothing
    /\ breaks = 0 /\ failures = 0 /\ crashes = 0 /\ reconciles = 0
    /\ issued = {[rev |-> 0, content |-> Nothing]}
    /\ installed = {}
    /\ lastInstall = [rev |-> 0, content |-> Nothing]

Present(content) == {i \in Instances : content[i] # Absent}

-----------------------------------------------------------------------------
(* Server: the plane *)

(* ensureLoadedLocked: the planes an entry point may find itself with. The *)
(* revision row is read only for edges that some instance, observation or  *)
(* installation row names, so an edge whose desired set is empty may come   *)
(* back with revision 0, whatever it runs.                                 *)
Ensured ==
    IF plane.loaded THEN {plane}
    ELSE {[loaded |-> TRUE, rev |-> dbRev, content |-> dbContent, applied |-> dbApplied]}
         \cup (IF dbContent = Nothing THEN {NoRow} ELSE {})

(* desiredSnapshotLocked *)
SnapshotOf(p) == [rev |-> p.rev, content |-> p.content]

(* One transaction takes the next revision and writes the row. *)
Commit(i, row) ==
    /\ dbRev < MaxRevision
    /\ dbRev' = dbRev + 1
    /\ dbContent' = [dbContent EXCEPT ![i] = row]
    /\ issued' = issued \cup {[rev |-> dbRev', content |-> dbContent']}

(* Store.CreatePluginInstance: the quota is counted in the transaction. *)
InsertRow(i, c) ==
    /\ dbContent[i] = Absent
    /\ Cardinality(Present(dbContent)) < Quota
    /\ Commit(i, c)

(* Store.UpdatePluginInstance: an update takes a revision even when the row *)
(* it writes is the row it read.                                            *)
UpdateRow(i, c) == dbContent[i] # Absent /\ Commit(i, c)

(* Store.DeletePluginInstance *)
DeleteRow(i) == dbContent[i] # Absent /\ Commit(i, Absent)

(* What the three write handlers have in common: they hold writeMu, and     *)
(* what they committed has still to enter the plane and to be pushed.       *)
Holds(i, row) ==
    /\ writer.pc = "idle"
    /\ writer' = [pc |-> "stored", inst |-> i, config |-> row, rev |-> dbRev + 1]
    /\ UNCHANGED <<dbApplied, pushes, current, linkVars, rx, edgeVars,
                   breaks, failures, crashes, reconciles, installed,
                   lastInstall>>

(* handleCreatePluginInstance *)
CreateInstance(i, c) ==
    /\ Holds(i, c)
    /\ \E p \in Ensured : plane' = p /\ p.content[i] = Absent
    /\ InsertRow(i, c)

(* handleUpdatePluginInstance *)
UpdateInstance(i, c) ==
    /\ Holds(i, c)
    /\ \E p \in Ensured : plane' = p /\ p.content[i] # Absent
    /\ UpdateRow(i, c)

(* handleDeletePluginInstance *)
DeleteInstance(i) ==
    /\ Holds(i, Absent)
    /\ \E p \in Ensured : plane' = p /\ p.content[i] # Absent
    /\ DeleteRow(i)

(* Deviant: a deletion that leaves the cached revision where it was. *)
RememberKeepsRevision ==
    /\ writer.pc = "stored"
    /\ plane' = [plane EXCEPT
                    !.content = [@ EXCEPT ![writer.inst] = writer.config],
                    !.rev = IF writer.config = Absent THEN @ ELSE writer.rev]
    /\ writer' = [writer EXCEPT !.pc = "remembered"]
    /\ UNCHANGED <<dbRev, dbContent, dbApplied, pushes, current, linkVars, rx,
                   edgeVars, auxVars>>

(* remember / forget: the committed row enters the cache, under p.mu. A     *)
(* deletion only ever raises the cached revision.                           *)
Remember ==
    /\ writer.pc = "stored"
    /\ plane' = [plane EXCEPT
                    !.content = [@ EXCEPT ![writer.inst] = writer.config],
                    !.rev = IF writer.config = Absent /\ writer.rev <= @
                            THEN @ ELSE writer.rev]
    /\ writer' = [writer EXCEPT !.pc = "remembered"]
    /\ UNCHANGED <<dbRev, dbContent, dbApplied, pushes, current, linkVars, rx,
                   edgeVars, auxVars>>

-----------------------------------------------------------------------------
(* Server: sending the desired snapshot *)

(* pushPluginDesired, called by a write handler that still holds writeMu:   *)
(* first the link, under s.mu.                                              *)
WritePush ==
    /\ writer.pc = "remembered"
    /\ IF current = None
       THEN writer' = IdleWriter /\ UNCHANGED pushes
       ELSE /\ writer' = [writer EXCEPT !.pc = "pushing"]
            /\ pushes' = pushes \cup {[by |-> "write", link |-> current, snap |-> None]}
    /\ UNCHANGED <<dbRev, dbContent, dbApplied, plane, current, linkVars, rx,
                   edgeVars, auxVars>>

(* handleReconcilePluginInstance: no writeMu, no new revision; only for an  *)
(* instance that exists and an edge that is online.                         *)
Reconcile ==
    /\ current # None
    /\ reconciles < MaxReconciles
    /\ reconciles' = reconciles + 1
    /\ \E p \in Ensured :
        /\ Present(p.content) # {}
        /\ plane' = p
    /\ pushes' = pushes \cup {[by |-> "reconcile", link |-> current, snap |-> None]}
    /\ UNCHANGED <<dbRev, dbContent, dbApplied, writer, current, linkVars, rx,
                   edgeVars, breaks, failures, crashes, issued, installed, lastInstall>>

(* sendPluginDesiredToLink: then the snapshot, under p.mu *)
TakeSnapshot(q) ==
    /\ q.snap = None
    /\ \E p \in Ensured :
        /\ plane' = p
        /\ pushes' = (pushes \ {q}) \cup {[q EXCEPT !.snap = SnapshotOf(p)]}
    /\ UNCHANGED <<dbRev, dbContent, dbApplied, writer, current, linkVars, rx,
                   edgeVars, auxVars>>

(* writePluginEnvelope: and last the non-blocking enqueue, under no lock; a *)
(* full queue drops the message.                                            *)
EnqueueSnapshot(q) ==
    /\ q.snap # None
    /\ pushes' = pushes \ {q}
    /\ down' = IF Len(down[q.link]) < SendCap /\ alive[q.link]
               THEN [down EXCEPT ![q.link] = Append(@, q.snap)]
               ELSE down
    /\ writer' = IF q.by = "write" THEN IdleWriter ELSE writer
    /\ UNCHANGED <<dbRev, dbContent, dbApplied, plane, current, reg,
                   alive, up, rx, edgeVars, auxVars>>

-----------------------------------------------------------------------------
(* Connections *)

(* A connection object nothing refers to any more. *)
Free(l) == /\ reg[l] = "none" /\ ~alive[l] /\ session # l /\ rx[l] = None
           /\ \A q \in pushes : q.link # l

(* wsClient.session: dial, write hello, go online *)
Dial(l) ==
    /\ session = None
    /\ Free(l)
    /\ session' = l
    /\ reg' = [reg EXCEPT ![l] = "hello"]
    /\ alive' = [alive EXCEPT ![l] = TRUE]
    /\ down' = [down EXCEPT ![l] = <<>>]
    /\ UNCHANGED <<serverVars, pushes, current, up, rx, todo, reply, out,
                   cache, disk, local, auxVars>>

(* Deviant: a new link is not sent the desired snapshot. *)
RegisterWithoutPush(l) ==
    /\ reg[l] = "hello"
    /\ reg' = [reg EXCEPT ![l] = "open"]
    /\ current' = l
    /\ alive' = [k \in Links |-> alive[k] /\ k # current]
    /\ UNCHANGED <<serverVars, pushes, down, up, rx, edgeVars, auxVars>>

(* handleEdgeWS: the hello is registered, whoever was registered before is  *)
(* cancelled, and the sender of the full snapshot starts. The hello of a    *)
(* link the Edge has already given up may come late.                        *)
Register(l) ==
    /\ reg[l] = "hello"
    /\ reg' = [reg EXCEPT ![l] = "open"]
    /\ current' = l
    /\ alive' = [k \in Links |-> alive[k] /\ k # current]
    /\ pushes' = pushes \cup {[by |-> "hello", link |-> l, snap |-> None]}
    /\ UNCHANGED <<serverVars, down, up, rx, edgeVars, auxVars>>

(* ... or is never read. *)
DropHello(l) ==
    /\ reg[l] = "hello"
    /\ ~alive[l]
    /\ reg' = [reg EXCEPT ![l] = "none"]
    /\ up' = [up EXCEPT ![l] = <<>>]
    /\ UNCHANGED <<serverVars, pushes, current, alive, down, rx, edgeVars, auxVars>>

(* The network drops a connection; neither end knows yet. *)
Break(l) ==
    /\ alive[l]
    /\ breaks < MaxBreaks
    /\ breaks' = breaks + 1
    /\ alive' = [alive EXCEPT ![l] = FALSE]
    /\ UNCHANGED <<serverVars, pushes, current, reg, down, up, rx, edgeVars,
                   failures, crashes, reconciles, issued, installed, lastInstall>>

(* The Server's read loop on l ends: cleanup removes l only if it is still  *)
(* the registered link.                                                     *)
Unregister(l) ==
    /\ reg[l] = "open"
    /\ ~alive[l]
    /\ rx[l] = None
    /\ \A q \in pushes : ~(q.by = "hello" /\ q.link = l)
    /\ reg' = [reg EXCEPT ![l] = "none"]
    /\ current' = IF current = l THEN None ELSE current
    /\ up' = [up EXCEPT ![l] = <<>>]
    /\ UNCHANGED <<serverVars, pushes, alive, down, rx, edgeVars, auxVars>>

(* wsClient.session returns: the Edge is offline, its send queue stays. *)
SessionEnds ==
    /\ session # None
    /\ ~alive[session]
    /\ session' = None
    /\ down' = [down EXCEPT ![session] = <<>>]
    /\ UNCHANGED <<serverVars, pushes, current, reg, alive, up, rx,
                   todo, reply, out, cache, disk, local, auxVars>>

-----------------------------------------------------------------------------
(* Edge *)

(* The read loop hands every plugin_desired to a goroutine of its own. *)
ReceiveDesired(w) ==
    /\ session # None
    /\ down[session] # <<>>
    /\ todo[w] = None /\ reply[w] = None
    /\ todo' = [todo EXCEPT ![w] = Head(down[session])]
    /\ down' = [down EXCEPT ![session] = Tail(@)]
    /\ UNCHANGED <<serverVars, pushes, current, reg, alive, up, rx,
                   session, reply, out, cache, disk, local, auxVars>>

(* Deviant: the Edge compares revisions for equality only. *)
StaleNever(s) == FALSE

(* The gate of Syncer.HandleDesired (s.mu held throughout). *)
Stale(s)    == s.rev < cache.rev
SameRev(s)  == s.rev = cache.rev /\ cache # EmptyCache
Replay(s)   == SameRev(s) /\ s.content = cache.content
Mismatch(s) == SameRev(s) /\ s.content # cache.content
Fresh(s)    == ~Stale(s) /\ ~SameRev(s)

Answer(w, status) ==
    /\ todo' = [todo EXCEPT ![w] = None]
    /\ reply' = [reply EXCEPT ![w] = [snap |-> todo[w], status |-> status]]

(* HandleDesired, answers that touch nothing *)
AnswerOnly(w) ==
    /\ todo[w] # None
    /\ \/ (Stale(todo[w]) \/ Mismatch(todo[w])) /\ Answer(w, "rejected")
       \/ Replay(todo[w]) /\ Answer(w, "applied")
    /\ UNCHANGED <<serverVars, pushes, current, linkVars, rx, session, out,
                   cache, disk, local, auxVars>>

(* What ApplySnapshot may leave behind when it does not complete: every     *)
(* instance is where it was or where the snapshot wants it.                 *)
Partial(s) == {m \in Content : \A i \in Instances : m[i] \in {local[i], s.content[i]}}

(* HandleDesired, a complete application: the cache advances in memory; its *)
(* file may fail to be written, which is only logged.                       *)
Install(w) ==
    /\ todo[w] # None
    /\ Fresh(todo[w])
    /\ Answer(w, "applied")
    /\ local' = todo[w].content
    /\ cache' = todo[w]
    /\ disk' \in {disk, todo[w]}
    /\ installed' = installed \cup {todo[w]}
    /\ lastInstall' = todo[w]
    /\ UNCHANGED <<serverVars, pushes, current, linkVars, rx, session, out,
                   breaks, failures, crashes, reconciles, issued>>

(* HandleDesired, an application that fails or succeeds only in part *)
InstallFails(w) ==
    /\ todo[w] # None
    /\ Fresh(todo[w])
    /\ failures < MaxFailures
    /\ failures' = failures + 1
    /\ Answer(w, "failed")
    /\ local' \in Partial(todo[w])
    /\ UNCHANGED <<serverVars, pushes, current, linkVars, rx, session, out,
                   cache, disk, breaks, crashes, reconciles, issued, installed,
                   lastInstall>>

(* Edge.onPluginDesired enqueues the ack after HandleDesired released s.mu; *)
(* plugin_ack is not bufferable, so offline or with a full queue it is lost.*)
EnqueueAck(w) ==
    /\ reply[w] # None
    /\ reply' = [reply EXCEPT ![w] = None]
    /\ out' = IF session # None /\ Len(out) < SendCap
              THEN Append(out, reply[w]) ELSE out
    /\ UNCHANGED <<serverVars, pushes, current, linkVars, rx, session, todo,
                   cache, disk, local, auxVars>>

(* The write pump; what it writes on a dead connection is gone. *)
SendAck ==
    /\ session # None
    /\ out # <<>>
    /\ out' = Tail(out)
    /\ IF alive[session]
       THEN /\ Len(up[session]) < SendCap
            /\ up' = [up EXCEPT ![session] = Append(@, Head(out))]
       ELSE UNCHANGED up
    /\ UNCHANGED <<serverVars, pushes, current, reg, alive, down, rx,
                   session, todo, reply, cache, disk, local, auxVars>>

-----------------------------------------------------------------------------
(* Server: receiving acks *)

(* The read loop of l takes a message and checks, under s.mu, that l is     *)
(* still the registered link.                                               *)
ReceiveAck(l) ==
    /\ reg[l] = "open"
    /\ rx[l] = None
    /\ up[l] # <<>>
    /\ up' = [up EXCEPT ![l] = Tail(@)]
    /\ rx' = IF current = l THEN [rx EXCEPT ![l] = Head(up[l])] ELSE rx
    /\ UNCHANGED <<serverVars, pushes, current, reg, alive, down,
                   edgeVars, auxVars>>

(* The guards of applyPluginAck, in the order the code asks them. *)
UnknownRevision(p, a) == a.snap.rev > p.rev
DigestMismatch(p, a)  == a.snap.rev = p.rev /\ a.snap.content # p.content
Advances(p, a) ==
    /\ a.status = "applied"
    /\ ~UnknownRevision(p, a)
    /\ ~DigestMismatch(p, a)
    /\ a.snap.rev > p.applied

(* applyPluginAck under p.mu. An ack that advances the plane and one that   *)
(* reports a failure both write the row; whether the row takes the value is *)
(* decided by the cursor rules of the store (module ReportCursor), so here  *)
(* it may or may not, but it never goes back.                               *)
ApplyAck(l) ==
    /\ rx[l] # None
    /\ rx' = [rx EXCEPT ![l] = None]
    /\ \E p \in Ensured :
        \/ /\ Advances(p, rx[l])
           /\ plane' = [p EXCEPT !.applied = rx[l].snap.rev]
           /\ dbApplied' \in {dbApplied} \cup ({rx[l].snap.rev} \cap dbApplied..dbRev)
        \/ /\ ~Advances(p, rx[l])
           /\ plane' = p
           /\ IF rx[l].status # "applied" /\ ~UnknownRevision(p, rx[l])
              THEN dbApplied' \in {dbApplied} \cup ({p.applied} \cap dbApplied..dbRev)
              ELSE UNCHANGED dbApplied
    /\ UNCHANGED <<dbRev, dbContent, writer, pushes, current, linkVars, edgeVars, auxVars>>

-----------------------------------------------------------------------------
(* Crashes *)

(* The Server process dies: memory and connections go, SQLite stays. *)
ServerCrash ==
    /\ crashes < MaxCrashes
    /\ crashes' = crashes + 1
    /\ plane' = Unloaded
    /\ writer' = IdleWriter
    /\ pushes' = {}
    /\ current' = None
    /\ rx' = [l \in Links |-> None]
    /\ reg' = [l \in Links |-> "none"]
    /\ alive' = [l \in Links |-> FALSE]
    /\ up' = [l \in Links |-> <<>>]
    /\ UNCHANGED <<dbRev, dbContent, dbApplied, down, edgeVars,
                   breaks, failures, reconciles, issued, installed, lastInstall>>

(* The Edge process dies, perhaps in the middle of an application; NewSyncer*)
(* loads the cache file, or starts from the zero value when it is corrupt.  *)
EdgeCrash ==
    /\ crashes < MaxCrashes
    /\ crashes' = crashes + 1
    /\ \/ UNCHANGED local
       \/ \E w \in Workers : todo[w] # None /\ Fresh(todo[w]) /\ local' \in Partial(todo[w])
    /\ session' = None
    /\ alive' = [l \in Links |-> alive[l] /\ l # session]
    /\ down' = IF session = None THEN down ELSE [down EXCEPT ![session] = <<>>]
    /\ todo' = [w \in Workers |-> None]
    /\ reply' = [w \in Workers |-> None]
    /\ out' = <<>>
    /\ cache' \in {disk, EmptyCache}
    /\ UNCHANGED <<serverVars, pushes, current, reg, up, rx, disk,
                   breaks, failures, reconciles, issued, installed, lastInstall>>

-----------------------------------------------------------------------------
Write == \E i \in Instances :
            \/ \E c \in Configs : CreateInstance(i, c) \/ UpdateInstance(i, c)
            \/ DeleteInstance(i)

ServerStep == Remember \/ WritePush \/ \E q \in pushes : TakeSnapshot(q) \/ EnqueueSnapshot(q)

LinkStep == SessionEnds \/ \E l \in Links : \/ Dial(l) \/ Register(l)
                                             \/ DropHello(l) \/ Unregister(l)

EdgeStep == SendAck \/ \E w \in Workers : \/ ReceiveDesired(w)
                                          \/ AnswerOnly(w)
                                          \/ Install(w)
                                          \/ EnqueueAck(w)

AckStep == \E l \in Links : ReceiveAck(l) \/ ApplyAck(l)

Fault == \/ ServerCrash
         \/ EdgeCrash
         \/ \E l \in Links : Break(l)
         \/ \E w \in Workers : InstallFails(w)

Next == Write \/ Reconcile \/ ServerStep \/ LinkStep \/ EdgeStep \/ AckStep \/ Fault

Spec == Init /\ [][Next]_vars

(* Every started handler, goroutine and loop keeps running; nobody is       *)
(* obliged to write, to reconcile, or to fail.                              *)
Fairness ==
    /\ WF_vars(Remember) /\ WF_vars(WritePush)
    /\ \A b \in Senders, l \in Links :
         WF_vars(\E q \in pushes : q.by = b /\ q.link = l
                                   /\ (TakeSnapshot(q) \/ EnqueueSnapshot(q)))
    /\ WF_vars(\E l \in Links : Dial(l)) /\ WF_vars(SessionEnds)
    /\ \A l \in Links : /\ WF_vars(Register(l) \/ DropHello(l)) /\ WF_vars(Unregister(l))
                        /\ WF_vars(ReceiveAck(l)) /\ WF_vars(ApplyAck(l))
    /\ \A w \in Workers : /\ WF_vars(ReceiveDesired(w))
                          /\ WF_vars(AnswerOnly(w) \/ Install(w))
                          /\ WF_vars(EnqueueAck(w))
    /\ WF_vars(SendAck)

FairSpec == Spec /\ Fairness

-----------------------------------------------------------------------------
(* Properties *)

TypeOK ==
    /\ dbRev \in Nat /\ dbContent \in Content /\ dbApplied \in Nat
    /\ plane \in Plane /\ writer \in Writer
    /\ pushes \subseteq Push
    /\ current \in Links \cup {None} /\ session \in Links \cup {None}
    /\ reg \in [Links -> {"none", "hello", "open"}]
    /\ alive \in [Links -> BOOLEAN]
    /\ down \in [Links -> Seq(Snapshot)]
    /\ up \in [Links -> Seq(Ack)]
    /\ rx \in [Links -> Ack \cup {None}]
    /\ todo \in [Workers -> Snapshot \cup {None}]
    /\ reply \in [Workers -> Ack \cup {None}]
    /\ out \in Seq(Ack)
    /\ cache \in Snapshot \cup {EmptyCache} /\ disk \in Snapshot \cup {EmptyCache}
    /\ local \in Content
    /\ breaks \in Nat /\ failures \in Nat /\ crashes \in Nat /\ reconciles \in Nat
    /\ issued \subseteq Snapshot /\ installed \subseteq Snapshot
    /\ lastInstall \in Snapshot

(* control-plane-sync.md 2.3: one revision, one payload. No snapshot the    *)
(* Edge is about to handle is refused for a digest other than the one it    *)
(* installed under that revision, and no ack the Server is about to apply   *)
(* names another payload than the Server holds under that revision: the     *)
(* protocol alarms of HandleDesired and applyPluginAck stay silent whatever *)
(* the senders' order, the crashes and the lost caches.                     *)
OnePayloadPerRevision ==
    /\ \A w \in Workers : todo[w] # None => ~Mismatch(todo[w])
    /\ \A l \in Links : rx[l] # None => \A p \in Ensured : ~DigestMismatch(p, rx[l])

(* What the proofs carry from step to step: a revision names one content,   *)
(* the database holds the newest, and everything the plane, a sender, a     *)
(* queue, a goroutine or a cache holds is a snapshot the Server issued (an   *)
(* acknowledged one, one the Edge installed).                               *)
KnownAck == {a \in Ack : /\ a.snap \in issued
                         /\ a.status = "applied" => a.snap \in installed}

Revisions(S) == {0} \cup {s.rev : s \in S}

HistoryOK ==
    /\ \A s, t \in issued : s.rev = t.rev => s = t
    /\ \A s \in issued : s.rev <= dbRev
    /\ [rev |-> dbRev, content |-> dbContent] \in issued
    /\ [rev |-> 0, content |-> Nothing] \in issued
    /\ installed \subseteq issued

PlaneOK ==
    /\ ~plane.loaded => plane = Unloaded
    /\ SnapshotOf(plane) \in issued
    /\ plane.loaded /\ writer.pc # "stored" => plane.content = dbContent
    /\ writer.pc = "stored" =>
         /\ plane.loaded
         /\ writer.inst \in Instances
         /\ writer.rev = dbRev /\ plane.rev < dbRev
         /\ dbContent = [plane.content EXCEPT ![writer.inst] = writer.config]
    /\ plane.applied \in Revisions(installed)
    /\ dbApplied \in Revisions(installed)

WriterOK ==
    \A q, r \in pushes : q.by = "write" /\ r.by = "write" => q = r /\ writer.pc = "pushing"

CarriedOK ==
    /\ \A q \in pushes : q.snap \in issued \cup {None}
    /\ down  \in [Links -> Seq(issued)]
    /\ todo  \in [Workers -> issued \cup {None}]
    /\ reply \in [Workers -> KnownAck \cup {None}]
    /\ out   \in Seq(KnownAck)
    /\ up    \in [Links -> Seq(KnownAck)]
    /\ rx    \in [Links -> KnownAck \cup {None}]
    /\ cache \in installed \cup {EmptyCache}
    /\ disk  \in installed \cup {EmptyCache}

(* A revision the Edge may be told of again: 0, by a Server that restarted  *)
(* while nothing was desired.                                               *)
Fallback == crashes > 0 /\ \E s \in issued : s.rev > 0 /\ s.content = Nothing

(* A snapshot is handled without effect, or is no older than the last one   *)
(* the Edge completed, and the plane has not been behind it since.          *)
InOrder(s) ==
    /\ s.rev < lastInstall.rev /\ Fresh(s) => s.rev = 0 /\ Fallback
    /\ plane.loaded /\ plane.rev < s.rev => plane.rev = 0 /\ Fallback

Sendable == {s \in issued : InOrder(s)}

(* No revision is missing, and every snapshot on its way to the Edge is in  *)
(* order.                                                                   *)
OrderOK ==
    /\ \A n \in 0..dbRev : \E s \in issued : s.rev = n
    /\ ~plane.loaded /\ dbRev > 0 => crashes > 0
    /\ lastInstall \in issued /\ InOrder(lastInstall)
    /\ \A l \in Links : alive[l] => l = session
    /\ \A w \in Workers : todo[w] \in Sendable \cup {None}
    /\ session # None => down[session] \in Seq(Sendable)
    /\ \A q \in pushes : alive[q.link] => q.snap \in Sendable \cup {None}

Coherent == HistoryOK /\ PlaneOK /\ WriterOK /\ CarriedOK

(* applied_revision, in memory and in SQLite, is a revision the Server      *)
(* issued and whose snapshot the Edge installed completely: an ack lost,    *)
(* late, of another link or of another Edge process never makes it lie.     *)
AckedWasInstalled ==
    \A r \in {plane.applied, dbApplied} :
        /\ r <= dbRev
        /\ r > 0 => \E s \in installed : s.rev = r

(* The promise of the whole plane, module DesiredContract: one log, an Edge *)
(* that moves forward along it (or, of a restarted Server with nothing      *)
(* desired, back to revision 0), and a Server that credits it with nothing  *)
(* it did not complete and forgets that only when it restarts.              *)
ContentOf(n) == (CHOOSE s \in issued : s.rev = n).content

Contract == INSTANCE DesiredContract WITH
    log       <- [n \in 0..dbRev |-> ContentOf(n)],
    completed <- Revisions(installed),
    edge      <- lastInstall.rev,
    running   <- lastInstall.content,
    acked     <- IF plane.loaded THEN plane.applied ELSE 0,
    restarts  <- crashes

RefinesContract == Contract!Spec

Converged ==
    /\ local = dbContent
    /\ plane.loaded
    /\ plane.applied = plane.rev

(* control-plane-sync.md 1: snapshots converge by themselves after any      *)
(* disconnection. Once the writes, crashes and breaks are over, the Edge    *)
(* runs the desired set and the Server knows it.                            *)
Convergence == <>[]Converged
=============================================================================
