---------------------------- MODULE ReportCursor ----------------------------
(***************************************************************************)
(* The way back of the plugin control plane, for one (tenant, edge) pair:  *)
(* the Edge numbers full reports of its actual state (plugin_status) and   *)
(* acknowledges revisions (plugin_ack); the Server keeps the newest report *)
(* in memory and, through a cursor of its own, in SQLite.                  *)
(*                                                                         *)
(* Interleavings kept: several goroutines of the Edge report at once and   *)
(* take their number before they look; a report checked against the        *)
(* registered link is applied later, under another lock; Edge processes    *)
(* and connections replace one another; the Server restarts, also in the   *)
(* middle of the writes of one report, and each of them may fail.          *)
(*                                                                         *)
(* Data abstracted: a boot id is the number of the Edge process; what a    *)
(* report observes is the number of changes the Edge has been through.     *)
(* That an ack names a revision and a digest the Server knows is the       *)
(* subject of DesiredSync; here every ack does.                            *)
(***************************************************************************)
EXTENDS Naturals, Sequences

CONSTANTS
    Links,          \* connections that exist at the same time
    Reporters,      \* goroutines of the Edge that report
    None,           \* "no link", "no message", "no report yet"
    MaxRetired,     \* maxRetiredBoots
    SendCap,        \* capacity of wsClient.send and of a socket
    MaxBoot,        \* bound: Edge processes
    MaxSequence,    \* bound: reports of one Edge process
    MaxChanges,     \* bound: changes of the Edge's actual state
    MaxRestarts,    \* bound: Server restarts
    MaxFailures     \* bound: writes to SQLite that fail

ASSUME BoundsAssumption ==
    /\ {MaxRetired, SendCap, MaxBoot, MaxSequence, MaxChanges, MaxRestarts,
        MaxFailures} \subseteq Nat
    /\ MaxBoot >= 1

(* Restarting MaxRetired times within the time a report takes from the link *)
(* check to p.mu is what the bound of the history excludes.                 *)
ASSUME RetiredAssumption == MaxRetired >= MaxBoot

Report == [kind : {"status"}, boot : Nat, seq : Nat, born : Nat, obs : Nat]
AckMsg == [kind : {"ack"}, rev : Nat, ok : BOOLEAN]
Msg    == Report \cup AckMsg

ASSUME NoneAssumption == None \notin Msg /\ None \notin Links

Free == [pc |-> "free", seq |-> 0, born |-> 0, obs |-> 0]

VARIABLES
    \* Edge
    boot,       \* the running process; its boot id
    seq,        \* Syncer.sequence
    actual,     \* changes of installations and instances so far
    revision,   \* AppliedRevision
    job,        \* reporting goroutines
    out,        \* wsClient.send
    session,    \* the Edge's connection
    \* connections, as the Server sees them
    open, up, current,
    rx,         \* a message past the current-link check, waiting for p.mu
    \* Server: pluginEdgePlane and the rows of plugin_edge_revisions and
    \* plugin_observations
    mem, row,
    \* history: the report accepted last, the processes in the order the
    \* plane adopted them, whether the rows hold the report accepted last
    \* (complete), not yet (behind), or lost it in a restart; budgets
    accepted, heard, rows, restarts, failures

edgeVars == <<boot, seq, actual, revision, job, out, session>>
linkVars == <<open, up, current, rx>>
history  == <<accepted, heard>>
vars == <<edgeVars, linkVars, mem, row, history, rows, restarts, failures>>

NoBoot == 0
Blank  == [loaded |-> TRUE, boot |-> NoBoot, retired |-> <<>>, seq |-> 0, obs |-> 0,
           applied |-> 0]
Unloaded == [Blank EXCEPT !.loaded = FALSE]

Init ==
    /\ boot = 1 /\ seq = 0 /\ actual = 0 /\ revision = 0
    /\ job = [g \in Reporters |-> Free]
    /\ out = <<>>
    /\ session = None
    /\ open = {} /\ current = None
    /\ up = [l \in Links |-> <<>>]
    /\ rx = [l \in Links |-> None]
    /\ mem = Unloaded
    /\ row = [boot |-> NoBoot, prev |-> NoBoot, seq |-> 0, obs |-> 0, applied |-> 0]
    /\ accepted = None /\ heard = <<>>
    /\ rows = "complete" /\ restarts = 0 /\ failures = 0

-----------------------------------------------------------------------------
(* Edge *)

Enqueued(m) == IF session # None /\ Len(out) < SendCap THEN Append(out, m) ELSE out

(* onPluginDesired: a revision is applied, or fails and stays unapplied; it  *)
(* is acknowledged, and a report is due.                                    *)
ApplyDesired(g, ok) ==
    /\ job[g] = Free
    /\ actual < MaxChanges
    /\ actual' = actual + 1
    /\ revision' = IF ok THEN revision + 1 ELSE revision
    /\ out' = Enqueued([kind |-> "ack", rev |-> revision + 1, ok |-> ok])
    /\ job' = [job EXCEPT ![g].pc = "due"]
    /\ UNCHANGED <<boot, seq, session, linkVars, mem, row, history, rows, restarts, failures>>

(* A plugin crashes, recovers, degrades ... *)
Change ==
    /\ actual < MaxChanges
    /\ actual' = actual + 1
    /\ UNCHANGED <<boot, seq, revision, job, out, session, linkVars, mem, row, history,
                   rows, restarts, failures>>

(* Syncer.Status, first under s.mu: the number. Called when a revision was  *)
(* handled, on every tick of pluginStatusLoop and by onServerOnline.        *)
Number(g) ==
    /\ job[g].pc \in {"free", "due"}
    /\ seq < MaxSequence
    /\ seq' = seq + 1
    /\ job' = [job EXCEPT ![g] = [pc |-> "numbered", seq |-> seq', born |-> actual, obs |-> 0]]
    /\ UNCHANGED <<boot, actual, revision, out, session, linkVars, mem, row, history, rows,
                   restarts, failures>>

(* Syncer.Status, then without the lock: the observation. *)
Observe(g) ==
    /\ job[g].pc = "numbered"
    /\ job' = [job EXCEPT ![g].pc = "observed", ![g].obs = actual]
    /\ UNCHANGED <<boot, seq, actual, revision, out, session, linkVars, mem, row, history,
                   rows, restarts, failures>>

(* reportPluginStatus *)
EnqueueReport(g) ==
    /\ job[g].pc = "observed"
    /\ out' = Enqueued([kind |-> "status", boot |-> boot, seq |-> job[g].seq,
                        born |-> job[g].born, obs |-> job[g].obs])
    /\ job' = [job EXCEPT ![g] = Free]
    /\ UNCHANGED <<boot, seq, actual, revision, session, linkVars, mem, row, history, rows,
                   restarts, failures>>

(* The write pump; a connection the Server has closed loses the message. *)
Send ==
    /\ session # None /\ out # <<>>
    /\ out' = Tail(out)
    /\ IF session \in open
       THEN /\ Len(up[session]) < SendCap
            /\ up' = [up EXCEPT ![session] = Append(@, Head(out))]
       ELSE UNCHANGED up
    /\ UNCHANGED <<boot, seq, actual, revision, job, session, open, current, rx, mem, row,
                   history, rows, restarts, failures>>

(* The process is replaced: a new boot id, numbers from 1 again. *)
EdgeRestart ==
    /\ boot < MaxBoot
    /\ boot' = boot + 1
    /\ seq' = 0
    /\ job' = [g \in Reporters |-> Free]
    /\ out' = <<>>
    /\ session' = None
    /\ UNCHANGED <<actual, revision, linkVars, mem, row, history, rows, restarts, failures>>

-----------------------------------------------------------------------------
(* Connections *)

(* A session starts: handleEdgeWS registers its link, and the link that was *)
(* registered before is superseded.                                         *)
Connect(l) ==
    /\ session = None
    /\ l \notin open /\ rx[l] = None
    /\ session' = l
    /\ open' = open \cup {l}
    /\ current' = l
    /\ UNCHANGED <<boot, seq, actual, revision, job, out, up, rx, mem, row, history, rows,
                   restarts, failures>>

(* The Edge gives a connection up; what is on its way may still be read. *)
Disconnect ==
    /\ session # None
    /\ session' = None
    /\ UNCHANGED <<boot, seq, actual, revision, job, out, linkVars, mem, row, history, rows,
                   restarts, failures>>

(* The Server's read loop ends. *)
Close(l) ==
    /\ l \in open
    /\ rx[l] = None
    /\ open' = open \ {l}
    /\ up' = [up EXCEPT ![l] = <<>>]
    /\ current' = IF current = l THEN None ELSE current
    /\ UNCHANGED <<edgeVars, rx, mem, row, history, rows, restarts, failures>>

(* The read loop of l takes a message; applyPluginStatus and applyPluginAck *)
(* first ask, under s.mu, whether l is still the registered link.           *)
Receive(l) ==
    /\ l \in open
    /\ rx[l] = None
    /\ up[l] # <<>>
    /\ up' = [up EXCEPT ![l] = Tail(@)]
    /\ rx' = IF current = l THEN [rx EXCEPT ![l] = Head(up[l])] ELSE rx
    /\ UNCHANGED <<edgeVars, open, current, mem, row, history, rows, restarts, failures>>

-----------------------------------------------------------------------------
(* Server: the store *)

(* applyBootSequenceRules: late reports of the boot before, duplicates and  *)
(* reports out of order are refused.                                        *)
TakesCursorAnyBoot(r, b, n) == n > r.seq      \* deviant: numbers of all boots compared
TakesCursor(r, b, n) == /\ r.prev # NoBoot => b # r.prev
                        /\ b = r.boot => n > r.seq

(* setPluginEdgeCursor: a refused report leaves every column alone. *)
Cursor(r, b, n) ==
    IF TakesCursor(r, b, n)
    THEN [r EXCEPT !.boot = b, !.seq = n, !.prev = IF b = r.boot THEN @ ELSE r.boot]
    ELSE r

(* SetPluginEdgeApplied: cursor and applied revision, or nothing at all; an *)
(* empty boot id is an error that the caller only logs.                     *)
RowAfterAck(r, b, n, rev) ==
    IF b # NoBoot /\ TakesCursor(r, b, n) /\ rev >= r.applied
    THEN [Cursor(r, b, n) EXCEPT !.applied = rev]
    ELSE r

-----------------------------------------------------------------------------
(* Server: the plane *)

(* ensureLoadedLocked, for an edge that a row of plugin_desired_instances   *)
(* names. (DesiredSync!RevisionRecovered is about the others.)              *)
Ensured ==
    IF mem.loaded THEN mem
    ELSE [Blank EXCEPT !.boot = row.boot, !.seq = row.seq, !.obs = row.obs,
                       !.applied = row.applied]

(* hasRetiredBoot, retireBoot *)
HasRetired(p, b) == \E k \in 1..Len(p.retired) : p.retired[k] = b

Retire(p) ==
    IF p.boot = NoBoot THEN p.retired
    ELSE IF Len(p.retired) < MaxRetired THEN Append(p.retired, p.boot)
    ELSE Append(Tail(p.retired), p.boot)

AcceptsRetired(p, m) ==         \* deviant: a replaced process is not recognised
    IF p.boot = m.boot THEN m.seq > p.seq ELSE m.seq # 0
AcceptsReordered(p, m) ==       \* deviant: numbers of one process are not compared
    IF p.boot = m.boot THEN m.seq # p.seq ELSE ~HasRetired(p, m.boot) /\ m.seq # 0
AcceptsAnyBoot(p, m) ==         \* deviant: a new process must outnumber the old one
    m.seq > p.seq /\ (p.boot # m.boot => ~HasRetired(p, m.boot))

(* The gate of applyPluginStatus. *)
Accepts(p, m) ==
    IF p.boot = m.boot THEN m.seq > p.seq ELSE ~HasRetired(p, m.boot) /\ m.seq # 0

(* The plane after an accepted report. *)
Reported(p, m) ==
    [p EXCEPT !.retired = IF p.boot = m.boot THEN @ ELSE Retire(p),
              !.boot = m.boot, !.seq = m.seq, !.obs = m.obs]

(* The writes of an accepted report, SetPluginEdgeReport and the upserts of *)
(* the projection: one transaction each, so each may fail, or be the last   *)
(* before a crash.                                                          *)
RowCursor(m)  == Cursor(row, m.boot, m.seq)
RowWritten(m) == [RowCursor(m) EXCEPT !.obs = m.obs]
RowPartly(m)  == {row, RowCursor(m), [row EXCEPT !.obs = m.obs]}

Adopt(m) ==
    /\ accepted' = m
    /\ heard' = IF heard # <<>> /\ heard[Len(heard)] = m.boot THEN heard
                ELSE Append(heard, m.boot)

(* applyPluginStatus under p.mu, refused ... *)
IgnoreStatus(l) ==
    /\ rx[l] # None /\ rx[l].kind = "status"
    /\ ~Accepts(Ensured, rx[l])
    /\ mem' = Ensured
    /\ rx' = [rx EXCEPT ![l] = None]
    /\ UNCHANGED <<edgeVars, open, up, current, row, history, rows, restarts, failures>>

(* ... or accepted: memory first, then the rows. *)
AcceptStatus(l) ==
    /\ rx[l] # None /\ rx[l].kind = "status"
    /\ Accepts(Ensured, rx[l])
    /\ mem' = Reported(Ensured, rx[l])
    /\ \/ /\ row' = RowWritten(rx[l])
          /\ rows' = IF rows = "lost" THEN rows ELSE "complete"
          /\ UNCHANGED failures
       \/ /\ failures < MaxFailures
          /\ failures' = failures + 1
          /\ row' \in RowPartly(rx[l])
          /\ rows' = IF rows = "lost" THEN rows ELSE "behind"
    /\ Adopt(rx[l])
    /\ rx' = [rx EXCEPT ![l] = None]
    /\ UNCHANGED <<edgeVars, open, up, current, restarts>>

(* applyPluginAck under p.mu: the cursor is offered the boot and the number *)
(* of the report the plane already holds.                                   *)
ApplyAck(l) ==
    /\ rx[l] # None /\ rx[l].kind = "ack"
    /\ LET p == Ensured
           applied == IF rx[l].ok THEN rx[l].rev ELSE p.applied
       IN  IF rx[l].ok /\ rx[l].rev <= p.applied
           THEN mem' = p /\ UNCHANGED row
           ELSE /\ mem' = [p EXCEPT !.applied = applied]
                /\ row' = RowAfterAck(row, p.boot, p.seq, applied)
    /\ rx' = [rx EXCEPT ![l] = None]
    /\ UNCHANGED <<edgeVars, open, up, current, history, rows, restarts, failures>>

(* The Server dies, perhaps between the writes of a report. *)
ServerRestart ==
    /\ restarts < MaxRestarts
    /\ restarts' = restarts + 1
    /\ \/ UNCHANGED <<row, history>>
       \/ \E l \in Links :
            /\ rx[l] # None /\ rx[l].kind = "status"
            /\ Accepts(Ensured, rx[l])
            /\ row' = RowCursor(rx[l])
            /\ Adopt(rx[l])
    /\ mem' = Unloaded
    /\ rows' = IF rows = "behind" THEN "lost" ELSE rows
    /\ open' = {} /\ current' = None
    /\ up' = [l \in Links |-> <<>>]
    /\ rx' = [l \in Links |-> None]
    /\ UNCHANGED <<edgeVars, failures>>

-----------------------------------------------------------------------------
EdgeStep == \/ Change \/ Send \/ EdgeRestart \/ Disconnect
            \/ \E g \in Reporters : \/ \E ok \in BOOLEAN : ApplyDesired(g, ok)
                                    \/ Number(g) \/ Observe(g) \/ EnqueueReport(g)

ServerStep == \/ ServerRestart
              \/ \E l \in Links : \/ Connect(l) \/ Close(l) \/ Receive(l)
                                  \/ IgnoreStatus(l) \/ AcceptStatus(l) \/ ApplyAck(l)

Next == EdgeStep \/ ServerStep

Spec == Init /\ [][Next]_vars

-----------------------------------------------------------------------------
(* Properties *)

TypeOK ==
    /\ boot \in Nat /\ seq \in Nat /\ actual \in Nat /\ revision \in Nat
    /\ job \in [Reporters -> [pc : {"free", "due", "numbered", "observed"},
                              seq : Nat, born : Nat, obs : Nat]]
    /\ out \in Seq(Msg) /\ Len(out) <= SendCap
    /\ session \in Links \cup {None} /\ current \in Links \cup {None}
    /\ open \subseteq Links
    /\ up \in [Links -> Seq(Msg)]
    /\ rx \in [Links -> Msg \cup {None}]
    /\ mem \in [loaded : BOOLEAN, boot : Nat, retired : Seq(Nat), seq : Nat, obs : Nat,
                applied : Nat]
    /\ row \in [boot : Nat, prev : Nat, seq : Nat, obs : Nat, applied : Nat]
    /\ accepted \in Report \cup {None} /\ heard \in Seq(Nat)
    /\ rows \in {"complete", "behind", "lost"} /\ restarts \in Nat /\ failures \in Nat

Newer(m, a) == a = None \/ m.boot > a.boot \/ (m.boot = a.boot /\ m.seq > a.seq)

Heard == {heard[k] : k \in 1..Len(heard)}
InOrder == \A k \in 2..Len(heard) : heard[k - 1] < heard[k]

(* The processes were heard in their order, and no restart found the rows   *)
(* without the report accepted last. Past that the Server cannot tell late  *)
(* from new.                                                                *)
Remembered == InOrder /\ rows # "lost"

(* What the gates do guarantee: reports of one process enter in the order   *)
(* of their numbers, and a process that was heard and then replaced never   *)
(* comes back, also when the link check passed before the replacement, and  *)
(* across restarts of the Server that lose its list of retired boots, but   *)
(* not the rows. (A process nobody heard before it was replaced is not in   *)
(* that list; once it was heard late, the plane no longer knows which one   *)
(* replaced which.)                                                         *)
ReplacedStaysOut ==
    [][Remembered => Newer(accepted', accepted) \/ accepted'.boot \notin Heard]_accepted

(* The gates refuse no more than they must: as long as processes were heard *)
(* in their order, a report newer than everything accepted so far passes    *)
(* the gate of the plane and the one of the store, whatever boot and number *)
(* a restarted Server finds in its rows.                                    *)
NewestIsHeard ==
    Remembered => \A l \in Links :
        rx[l] # None /\ rx[l].kind = "status" /\ Newer(rx[l], accepted) =>
            /\ Accepts(Ensured, rx[l])
            /\ TakesCursor(row, rx[l].boot, rx[l].seq)

(* A report is numbered before it observes, so the projection may go back a *)
(* little when two goroutines overtake one another, but never behind what   *)
(* held when the report before, of this process or of one it replaced, was  *)
(* numbered. (A Server whose write failed and that then restarted accepts   *)
(* an older report again.)                                                  *)
NeverBehindItsNumber ==
    [][Remembered /\ accepted # None /\ accepted'.boot >= accepted.boot =>
          accepted'.obs >= accepted.born]_accepted

(* Memory and rows hold the same report unless a write failed, although     *)
(* each decides with rules and a history of its own what is late.           *)
RowsAgree ==
    mem.loaded /\ mem.boot # NoBoot /\ rows = "complete" /\ InOrder =>
        row.boot = mem.boot /\ row.seq = mem.seq /\ row.obs = mem.obs

-----------------------------------------------------------------------------
(* What the proofs carry from step to step *)

Reports(q) == {q[k] : k \in DOMAIN q} \cap Report

(* The reports being written; one without an observation is as good as one  *)
(* that observes now.                                                       *)
Working ==
    {[kind |-> "status", boot |-> boot, seq |-> job[g].seq, born |-> job[g].born,
      obs |-> IF job[g].pc = "observed" THEN job[g].obs ELSE actual] :
        g \in {h \in Reporters : job[h].pc \in {"numbered", "observed"}}}

Arriving(l) == Reports(up[l]) \cup ({rx[l]} \cap Report)
Travelling  == UNION {Arriving(l) : l \in Links}
Known       == Working \cup Reports(out) \cup Travelling \cup ({accepted} \cap Report)

(* Numbers are given once, and in the order of time. *)
NumbersOK ==
    /\ boot \in 1..MaxBoot
    /\ \A m \in Known : /\ m.boot \in 1..boot /\ m.seq >= 1
                        /\ m.boot = boot => m.seq <= seq
                        /\ m.born <= m.obs /\ m.born <= actual
    /\ \A m, n \in Known : Newer(n, m) => m.born <= n.born
    /\ \A m \in Working \cup Reports(out) : m.boot = boot

(* The report accepted last is of the process heard last. *)
HeardOK ==
    /\ accepted = None <=> heard = <<>>
    /\ heard # <<>> => heard[Len(heard)] = accepted.boot
    /\ \A b \in Heard : b \in 1..boot
    /\ InOrder => \A b \in Heard : b <= accepted.boot

Last == IF accepted = None THEN [boot |-> NoBoot, seq |-> 0] ELSE accepted

(* Plane and rows know the report accepted last, the rows perhaps an older  *)
(* one; no replaced process that may still be on its way is forgotten.      *)
CursorOK ==
    /\ ~mem.loaded => mem = Unloaded
    /\ rows = "behind" => mem.loaded
    /\ Remembered =>
        /\ mem.loaded => mem.boot = Last.boot /\ mem.seq = Last.seq
        /\ rows = "complete" => /\ row.boot = Last.boot /\ row.seq = Last.seq
                                /\ mem.loaded => row.obs = mem.obs
        /\ row.boot <= Last.boot /\ (row.boot = Last.boot => row.seq <= Last.seq)
        /\ row.prev # NoBoot => row.prev < row.boot
        /\ mem.retired # <<>> => Len(mem.retired) < mem.boot
        /\ \A k \in 1..Len(mem.retired) : mem.retired[k] < mem.boot
        /\ \A m \in Travelling : m.boot \in Heard => m.boot = Last.boot \/ HasRetired(mem, m.boot)

Cursors == NumbersOK /\ HeardOK /\ CursorOK
=============================================================================
