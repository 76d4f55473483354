----------------------------- MODULE EdgeLinks -----------------------------
(***************************************************************************)
(* The links of the Edges on the Server: hello, authentication, the        *)
(* registration in three steps, the read loop, the cleanup (server/ws.go), *)
(* with what they share: the registered links, the views of the devices,   *)
(* the tenants the identities are bound to (server.go), the rows of the    *)
(* store, and the browsers that get every change.                          *)
(*                                                                         *)
(* Every step between two locks is an action, so links of one Edge         *)
(* interleave as the goroutines of the handler do. A link is a value of    *)
(* Conns and connects once; a reconnection is another link. Data           *)
(* abstracted: of a state report only "online" is left, of the capability  *)
(* documents that there are some.                                          *)
(***************************************************************************)
EXTENDS Naturals, Sequences, SequencesExt

CONSTANTS
    Tenants, Default,
    Edges, Devices,
    Conns,          \* links, each with its hello:
    EdgeOf, DevicesOf, Credential,
    HelloTenant,    \* the tenant it says it is of
    LegacyToken,    \* whether the Server has a -token
    AccountMode,
    Browsers, BrowserTenant,
    None, All,      \* "no value"; "any tenant"
    QueueSize,      \* sendChanSize
    MaxReports, MaxRestarts

ASSUME LinkAssumption ==
    /\ IsFiniteSet(Edges) /\ IsFiniteSet(Devices)
    /\ None \notin Conns \cup Devices \cup Edges /\ None \notin BOOLEAN
    /\ None \notin [tenant : Tenants, online : BOOLEAN]
    /\ Default \in Tenants /\ None \notin Tenants /\ All \notin Tenants
    /\ EdgeOf \in [Conns -> Edges]
    /\ DevicesOf \in [Conns -> SUBSET Devices]
    /\ HelloTenant \in [Conns -> Tenants]
    /\ Credential \in [Conns -> Tenants \cup {"legacy", "none", "bad"}]
    /\ BrowserTenant \in [Browsers -> Tenants \cup {All}]
    /\ {LegacyToken, AccountMode} \subseteq BOOLEAN
    /\ {QueueSize, MaxReports, MaxRestarts} \subseteq Nat

Keys == Edges \X Devices

\* a message may name no device: the key is empty
Blank == <<None, None>>

\* the subject of capabilities
Whole(e) == <<e, None>>

VARIABLES
    \* Server, under s.mu
    edges,          \* the registered link of an edge_id
    view,           \* devices: online, or None
    devTenant, edgeTenant,
    caps,           \* edgeCapabilities: the tenant they came with
    blank,          \* the view of the empty key
    \* store
    row,            \* devices and device_state
    \* the handler of each link
    pc,
    slug,           \* the tenant it goes by
    cancelled,      \* its context
    message,        \* what it has read and not yet applied
    pend,           \* what it has changed and not yet persisted and told
    \* browsers
    conn, queue,
    snap,           \* the snapshot a new browser has not got yet
    \* history
    report,         \* the last report of a device a link has applied
    unowned,        \* keys and edges whose last writer was not the registered link
    reports, restarts

linkVars    == <<pc, slug, cancelled, message, pend>>
browserVars == <<conn, queue, snap>>
boundVars   == <<reports, restarts>>
vars == <<edges, view, devTenant, edgeTenant, caps, blank, row, linkVars, browserVars, report, unowned,
          boundVars>>

KeysOf(c) == {<<EdgeOf[c], d>> : d \in DevicesOf[c]}

\* the tenant of a link: of its token, by default the default one
TenantOf(c) == IF Credential[c] \in Tenants THEN Credential[c] ELSE Default

Registered(c) == edges[EdgeOf[c]] = c

Init ==
    /\ edges = [e \in Edges |-> None]
    /\ view = [k \in Keys |-> None] /\ row = [k \in Keys |-> None]
    /\ devTenant = [k \in Keys |-> None] /\ edgeTenant = [e \in Edges |-> None]
    /\ caps = [e \in Edges |-> None] /\ blank = None
    /\ slug = [c \in Conns |-> TenantOf(c)]
    /\ pc = [c \in Conns |-> "new"] /\ cancelled = {}
    /\ message = [c \in Conns |-> None] /\ pend = [c \in Conns |-> {}]
    /\ conn = [b \in Browsers |-> "out"] /\ queue = [b \in Browsers |-> <<>>]
    /\ snap = [b \in Browsers |-> None]
    /\ report = [c \in Conns |-> [d \in Devices |-> None]]
    /\ unowned = {} /\ reports = 0 /\ restarts = 0

Goes(c, from, to) == pc[c] = from /\ pc' = [pc EXCEPT ![c] = to]

(***************************************************************************)
(* Browsers                                                                *)
(***************************************************************************)

Accepts(b, tenant) == conn[b] = "in" /\ (BrowserTenant[b] \in {All, tenant} \/ tenant = All)

\* broadcastAs: a slow browser loses the frame
Put(q, frames) ==
    LET all == q \o frames IN IF Len(all) <= QueueSize THEN all ELSE SubSeq(all, 1, QueueSize)

Broadcast(frames) ==
    queue' = [b \in Browsers |-> Put(queue[b], SetToSeq({f \in frames : Accepts(b, f.to)}))]

\* envelopeTenantLocked: a device has the tenant it is bound to, by default
\* the default one
DeviceTenant(k) == IF devTenant[k] = None THEN Default ELSE devTenant[k]

Visible(b, tenant) == BrowserTenant[b] \in {All, tenant}

\* edgeTenant: of the link, else of any of the devices
EdgeTenants(e) ==
    IF edges[e] # None THEN {slug[edges[e]]}
    ELSE {DeviceTenant(k) : k \in {j \in Keys : j[1] = e /\ view[j] # None}}

\* deviceViewsFor, edgeViewsFor: an edge comes with its devices
Snapshot(b) ==
    LET known  == {k \in Keys : view[k] # None}
        shown  == {e \in Edges : \E t \in EdgeTenants(e) : Visible(b, t)}
    IN  {k \in known : Visible(b, DeviceTenant(k))}
           \cup (UNION {IF edges[e] # None THEN KeysOf(edges[e]) ELSE {k \in known : k[1] = e} :
                           e \in shown})
           \cup IF blank # None /\ Visible(b, Default) THEN {Blank} ELSE {}

\* handleBrowserWS: registered and its snapshot taken under one lock; frames
\* may be written before the snapshot
BrowserConnects(b) ==
    /\ conn[b] = "out"
    /\ conn' = [conn EXCEPT ![b] = "in"] /\ queue' = [queue EXCEPT ![b] = <<>>]
    /\ snap' = [snap EXCEPT ![b] = Snapshot(b)]
    /\ UNCHANGED <<edges, view, devTenant, edgeTenant, caps, blank, row, linkVars, report,
                   unowned, boundVars>>

\* the first frame, written beside the pump
SnapshotWritten(b) ==
    /\ snap[b] # None
    /\ snap' = [snap EXCEPT ![b] = None]
    /\ UNCHANGED <<edges, view, devTenant, edgeTenant, caps, blank, row, linkVars, conn, queue,
                   report, unowned, boundVars>>

\* writePump
BrowserWrites(b) ==
    /\ queue[b] # <<>>
    /\ queue' = [queue EXCEPT ![b] = Tail(@)]
    /\ UNCHANGED <<edges, view, devTenant, edgeTenant, caps, blank, row, linkVars, conn, snap,
                   report, unowned, boundVars>>

BrowserLeaves(b) ==
    /\ conn[b] = "in"
    /\ conn' = [conn EXCEPT ![b] = "out"] /\ queue' = [queue EXCEPT ![b] = <<>>]
    /\ snap' = [snap EXCEPT ![b] = None]
    /\ UNCHANGED <<edges, view, devTenant, edgeTenant, caps, blank, row, linkVars, report,
                   unowned, boundVars>>

(***************************************************************************)
(* Hello                                                                   *)
(***************************************************************************)

\* a tenant token decides the tenant; a legacy token is the default tenant's;
\* without any credential only while there are no accounts
Admitted(c) ==
    \/ Credential[c] \in Tenants
    \/ Credential[c] = "legacy" /\ LegacyToken
    \/ Credential[c] \notin Tenants /\ ~LegacyToken /\ ~AccountMode

\* the registered link of the edge_id is another tenant's
Taken(c) == edges[EdgeOf[c]] # None /\ TenantOf(edges[EdgeOf[c]]) # TenantOf(c)

\* what the tenant of a link is called: when that of a token cannot be looked
\* up, as its hello says
CalledSlugs(c) == {TenantOf(c)} \cup IF Credential[c] \in Tenants THEN {HelloTenant[c]} ELSE {}

\* an identity of this hello is bound to another tenant
Collides(c, called) ==
    \/ Taken(c)
    \/ edgeTenant[EdgeOf[c]] \notin {None, called}
    \/ \E k \in KeysOf(c) : devTenant[k] \notin {None, called}

\* 1, 2a: under the lock, which is released again
Hello(c) ==
    /\ \E called \in CalledSlugs(c) :
          IF Admitted(c) /\ ~Collides(c, called)
          THEN Goes(c, "new", "checked") /\ slug' = [slug EXCEPT ![c] = called]
          ELSE Goes(c, "new", "closed") /\ slug' = slug
    /\ UNCHANGED <<edges, view, devTenant, edgeTenant, caps, blank, row, cancelled, message,
                   pend, browserVars, report, unowned, boundVars>>

\* Mutant: the statement of the store does not compare the tenants.
BoundElsewhereNever(c) == FALSE

\* UpsertDevicesTenant: a row of the edge is another tenant's
BoundElsewhere(c) ==
    \E k \in Keys : /\ row[k] # None /\ row[k].tenant # TenantOf(c)
                    /\ k[1] = EdgeOf[c]

\* 2b: one transaction; a conflict rolls it back and ends the link
Persist(c) ==
    /\ Goes(c, "checked", IF BoundElsewhere(c) THEN "closed" ELSE "stored")
    /\ row' = IF BoundElsewhere(c) THEN row
              ELSE [k \in Keys |-> IF k \in KeysOf(c) /\ row[k] = None
                                   THEN [tenant |-> TenantOf(c), online |-> FALSE] ELSE row[k]]
    /\ UNCHANGED <<edges, view, devTenant, edgeTenant, caps, blank, slug, cancelled, message,
                   pend, browserVars, report, unowned, boundVars>>

\* 2c: only the tenant of the registered link is compared again
RegisterRefused(c) ==
    /\ Taken(c) /\ Goes(c, "stored", "closed")
    /\ UNCHANGED <<edges, view, devTenant, edgeTenant, caps, blank, row, slug, cancelled, message,
                   pend, browserVars, report, unowned, boundVars>>

\* the older link is cancelled; applyMeta, markLinkDevicesOnlineLocked
Register(c) ==
    LET old == edges[EdgeOf[c]]
    IN  /\ ~Taken(c)
        /\ Goes(c, "stored", "registered")
        /\ cancelled' = IF old = None THEN cancelled ELSE cancelled \cup {old}
        /\ edges' = [edges EXCEPT ![EdgeOf[c]] = c]
        /\ edgeTenant' = [edgeTenant EXCEPT ![EdgeOf[c]] = slug[c]]
        /\ devTenant' = [k \in Keys |-> IF k \in KeysOf(c) THEN slug[c] ELSE devTenant[k]]
        /\ view' = [k \in Keys |-> IF k \in KeysOf(c) THEN TRUE ELSE view[k]]
        /\ pend' = [pend EXCEPT ![c] = {[key |-> k, online |-> TRUE] :
                                           k \in {j \in KeysOf(c) : view[j] # TRUE}}]
        /\ unowned' = (unowned \ (KeysOf(c) \cup {Whole(EdgeOf[c])}))
                         \cup IF old = None THEN {} ELSE KeysOf(old) \ KeysOf(c)
        /\ UNCHANGED <<caps, blank, row, slug, message, browserVars, report, boundVars>>

(***************************************************************************)
(* The read loop                                                           *)
(***************************************************************************)

\* ownsDevice keeps a link to the devices of its hello; a message that names
\* no device passes
Read(c) ==
    /\ reports < MaxReports /\ reports' = reports + 1
    /\ Goes(c, "reading", "message")
    /\ \/ \E d \in DevicesOf[c] \cup {None}, o \in BOOLEAN :
             message' = [message EXCEPT ![c] = [type |-> "state", device |-> d, online |-> o]]
       \/ \E any \in BOOLEAN :
             message' = [message EXCEPT ![c] = [type |-> "capabilities", any |-> any]]
    /\ UNCHANGED <<edges, view, devTenant, edgeTenant, caps, blank, row, slug, cancelled, pend,
                   browserVars, report, unowned, restarts>>

\* what the registered link writes is its own, what another writes is not
Wrote(c, subject) == IF Registered(c) THEN unowned \ {subject} ELSE unowned \cup {subject}

\* MsgState, applyState: nobody asks whether the link is the registered one
ApplyState(c) ==
    /\ message[c] # None /\ message[c].type = "state" /\ message[c].device # None
    /\ Goes(c, "message", "applied")
    /\ LET k == <<EdgeOf[c], message[c].device>>
       IN  /\ view' = [view EXCEPT ![k] = message[c].online]
           /\ pend' = [pend EXCEPT ![c] = {[key |-> k, online |-> message[c].online]}]
           /\ unowned' = Wrote(c, k)
    /\ report' = [report EXCEPT ![c][message[c].device] = message[c].online]
    /\ message' = [message EXCEPT ![c] = None]
    /\ UNCHANGED <<edges, devTenant, edgeTenant, caps, blank, row, slug, cancelled, browserVars,
                   boundVars>>

\* the same for the empty key
ApplyBlankState(c) ==
    /\ message[c] # None /\ message[c].type = "state" /\ message[c].device = None
    /\ Goes(c, "message", "applied")
    /\ blank' = message[c].online
    /\ pend' = [pend EXCEPT ![c] = {[key |-> Blank, online |-> message[c].online]}]
    /\ message' = [message EXCEPT ![c] = None]
    /\ UNCHANGED <<edges, view, devTenant, edgeTenant, caps, row, slug, cancelled, browserVars,
                   report, unowned, boundVars>>

\* MsgCapabilities: the documents replace those of the edge_id
ApplyCapabilities(c) ==
    /\ message[c] # None /\ message[c].type = "capabilities"
    /\ Goes(c, "message", "reading")
    /\ caps' = [caps EXCEPT ![EdgeOf[c]] = IF message[c].any THEN slug[c] ELSE None]
    /\ unowned' = Wrote(c, Whole(EdgeOf[c]))
    /\ message' = [message EXCEPT ![c] = None]
    /\ UNCHANGED <<edges, view, devTenant, edgeTenant, blank, row, slug, cancelled, pend,
                   browserVars, report, boundVars>>

(***************************************************************************)
(* After the lock: the store, then the browsers                            *)
(***************************************************************************)

\* persistStates: SetState, for rows that exist
Flush(c) ==
    /\ pc[c] \in {"registered", "applied", "marked"}
    /\ pc' = [pc EXCEPT ![c] = CASE @ = "registered" -> "tell up"
                                 [] @ = "applied" -> "tell state"
                                 [] OTHER -> "tell down"]
    /\ row' = [k \in Keys |-> IF row[k] # None /\ \E p \in pend[c] : p.key = k
                              THEN [row[k] EXCEPT !.online = (CHOOSE p \in pend[c] : p.key = k).online]
                              ELSE row[k]]
    /\ UNCHANGED <<edges, view, devTenant, edgeTenant, caps, blank, slug, cancelled, message,
                   pend, browserVars, report, unowned, boundVars>>

\* Mutant: the tenant of an edge frame is looked up in the registered links.
LinkTenantNow(c) == IF edges[EdgeOf[c]] = None THEN All ELSE slug[edges[EdgeOf[c]]]

\* the tenant edge_up and edge_down are told to
LinkTenant(c) == slug[c]

\* envelopeTenantLocked: what names no device is everybody's
FrameTenant(k) == IF k = Blank THEN All ELSE DeviceTenant(k)

\* owner and edge are the tenant and the edge it comes from
StateFrames(c) ==
    {[about |-> {p.key}, online |-> p.online, to |-> FrameTenant(p.key), owner |-> TenantOf(c),
      edge |-> EdgeOf[c]] : p \in pend[c]}

EdgeFrame(c, up) ==
    [about |-> {}, online |-> up, to |-> LinkTenant(c), owner |-> TenantOf(c), edge |-> EdgeOf[c]]

Tell(c) ==
    /\ \/ /\ Goes(c, "tell up", "reading")
          /\ Broadcast(StateFrames(c) \cup {EdgeFrame(c, TRUE)})
       \/ /\ Goes(c, "tell state", "reading")
          /\ Broadcast(StateFrames(c))
       \/ /\ Goes(c, "tell down", "closed")
          /\ Broadcast(StateFrames(c) \cup {EdgeFrame(c, FALSE)})
    /\ pend' = [pend EXCEPT ![c] = {}]
    /\ UNCHANGED <<edges, view, devTenant, edgeTenant, caps, blank, row, slug, cancelled, message,
                   conn, snap, report, unowned, boundVars>>

(***************************************************************************)
(* The end of a link                                                       *)
(***************************************************************************)

\* cancelled, or lost: Read returns an error
Leave(c) ==
    /\ Goes(c, "reading", "leaving")
    /\ UNCHANGED <<edges, view, devTenant, edgeTenant, caps, blank, row, slug, cancelled, message,
                   pend, browserVars, report, unowned, boundVars>>

\* Mutant: whoever leaves removes the link of its edge_id.
IsCurrentAlways(c) == TRUE

IsCurrent(c) == Registered(c)

\* the deferred cleanup, under the lock
Unregister(c) ==
    /\ Goes(c, "leaving", IF IsCurrent(c) THEN "removed" ELSE "closed")
    /\ IF IsCurrent(c)
       THEN /\ edges' = [edges EXCEPT ![EdgeOf[c]] = None]
            /\ caps' = [caps EXCEPT ![EdgeOf[c]] = None]
       ELSE UNCHANGED <<edges, caps>>
    /\ UNCHANGED <<view, devTenant, edgeTenant, blank, row, slug, cancelled, message, pend,
                   browserVars, report, unowned, boundVars>>

\* markEdgeOffline, under the lock again: another link may be there by now
MarkOffline(c) ==
    /\ Goes(c, "removed", "marked")
    /\ view' = [k \in Keys |-> IF k \in KeysOf(c) THEN FALSE ELSE view[k]]
    /\ pend' = [pend EXCEPT ![c] = {[key |-> k, online |-> FALSE] : k \in KeysOf(c)}]
    /\ unowned' = IF edges[EdgeOf[c]] = None THEN unowned \ KeysOf(c) ELSE unowned \cup KeysOf(c)
    /\ UNCHANGED <<edges, devTenant, edgeTenant, caps, blank, row, slug, cancelled, message,
                   browserVars, report, boundVars>>

\* New, hydrate: what the rows say, and nothing is online
Restart ==
    /\ restarts < MaxRestarts /\ restarts' = restarts + 1
    /\ edges' = [e \in Edges |-> None] /\ caps' = [e \in Edges |-> None] /\ blank' = None
    /\ slug' = [c \in Conns |-> TenantOf(c)]
    /\ view' = [k \in Keys |-> IF row[k] = None THEN None ELSE FALSE]
    /\ devTenant' = [k \in Keys |-> IF row[k] = None THEN None ELSE row[k].tenant]
    /\ edgeTenant' = [e \in Edges |->
                        LET rows == {k \in Keys : k[1] = e /\ row[k] # None}
                        IN  IF rows = {} THEN None ELSE row[CHOOSE k \in rows : TRUE].tenant]
    /\ pc' = [c \in Conns |-> IF pc[c] = "new" THEN "new" ELSE "closed"]
    /\ cancelled' = {} /\ message' = [c \in Conns |-> None] /\ pend' = [c \in Conns |-> {}]
    /\ conn' = [b \in Browsers |-> "out"] /\ queue' = [b \in Browsers |-> <<>>]
    /\ snap' = [b \in Browsers |-> None]
    /\ unowned' = {}
    /\ UNCHANGED <<row, report, reports>>

Link(c) ==
    \/ Hello(c) \/ Persist(c) \/ RegisterRefused(c) \/ Register(c)
    \/ Read(c) \/ ApplyState(c) \/ ApplyBlankState(c) \/ ApplyCapabilities(c)
    \/ Flush(c) \/ Tell(c)
    \/ Leave(c) \/ Unregister(c) \/ MarkOffline(c)

Browser(b) == BrowserConnects(b) \/ SnapshotWritten(b) \/ BrowserWrites(b) \/ BrowserLeaves(b)

Next == Restart \/ (\E c \in Conns : Link(c)) \/ (\E b \in Browsers : Browser(b))

Spec == Init /\ [][Next]_vars

(***************************************************************************)
(* Properties                                                              *)
(***************************************************************************)

\* a link is connected; no other link of the edge is on its way in or out
Connected(c) == pc[c] = "reading" /\ c \notin cancelled

AtRest(e) ==
    \A c \in Conns : EdgeOf[c] = e => Connected(c) \/ pc[c] \in {"new", "checked", "stored", "closed"}

Reachable(k) ==
    \E c \in Conns : Connected(c) /\ k \in KeysOf(c) /\ report[c][k[2]] # FALSE

(* internal/server/ws.go:303-305 and 325: the connection decides: at rest a  *)
(* device is online exactly if a link that declares it is connected and has  *)
(* not said otherwise, and there are capabilities only with a link. Except   *)
(* for what was last written by a link that was not the registered one, or   *)
(* left behind by one that was replaced.                                     *)
PresenceIsTrue ==
    /\ \A k \in Keys \ unowned : view[k] # None /\ AtRest(k[1]) => (view[k] <=> Reachable(k))
    /\ \A e \in Edges : caps[e] # None /\ AtRest(e) /\ Whole(e) \notin unowned =>
          \E c \in Conns : EdgeOf[c] = e /\ Connected(c)

\* a link of the edge was admitted under the name of another tenant: when its
\* token was valid and the tenant could not be looked up
Misnamed(e) == \E c \in Conns : EdgeOf[c] = e /\ slug[c] # TenantOf(c)

(* internal/server/ws.go:268-283: the bindings in memory are those of the    *)
(* store, except on an edge that goes by a wrong name; and a registered link *)
(* declares only devices of its own tenant, whatever two hellos did between  *)
(* the checks.                                                               *)
BindingAgrees ==
    /\ \A k \in Keys : devTenant[k] # None /\ ~Misnamed(k[1]) =>
          row[k] # None /\ row[k].tenant = devTenant[k]
    /\ \A c \in Conns : Registered(c) =>
          \A k \in KeysOf(c) : row[k] # None /\ row[k].tenant = TenantOf(c)

(* internal/server/server.go:656-657: of what names a device or an edge, a   *)
(* browser gets frames of its tenant only, those of a link that is gone      *)
(* already included, and a snapshot of devices that are its tenant's in the  *)
(* store as well. What names neither is everybody's (envelopeTenantLocked),  *)
(* and an edge that goes by a wrong name is shown under that.                *)
FramesStayInTenant ==
    \A b \in Browsers : BrowserTenant[b] # All =>
        /\ \A i \in 1..Len(queue[b]) :
              LET f == queue[b][i]
              IN  f.about # {Blank} /\ ~Misnamed(f.edge) => f.owner = BrowserTenant[b]
        /\ snap[b] # None =>
              \A k \in snap[b] \ {Blank} :
                 ~Misnamed(k[1]) => row[k] # None /\ row[k].tenant = BrowserTenant[b]
=============================================================================
