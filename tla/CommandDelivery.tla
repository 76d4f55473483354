-------------------------- MODULE CommandDelivery --------------------------
(***************************************************************************)
(* The life of device commands, for one tenant and one edge: the row in    *)
(* SQLite, the handler that delivers the command through the writer of the *)
(* Edge's link and waits for the write, the execution on the Edge, the     *)
(* acknowledgement through the send queue, the doubt window and the        *)
(* offline buffer of wsClient, the sweeper that times commands out, and    *)
(* the completion an Application is told of a command it requested.        *)
(*                                                                         *)
(* Interleavings kept: any number of handlers, the Edge's executions, the  *)
(* write pumps, the sweeper and the connections' ends run independently;   *)
(* connections are cut with messages in flight and replaced before the     *)
(* Server noticed; both processes restart; writes to SQLite fail.          *)
(*                                                                         *)
(* Data abstracted: a command is its id, an acknowledgement is the id and  *)
(* whether the device succeeded. Requests refused before a row is created  *)
(* (unknown device, whitelist, rate limit, edge offline) change nothing.   *)
(***************************************************************************)
EXTENDS Naturals, Sequences, FiniteSets

CONSTANTS
    Commands,           \* ids of commands
    AppCommands,        \* those an Application requested
    Links,              \* connections that exist at the same time
    None,               \* "no link", "no acknowledgement"
    CommandCap,         \* capacity of edgeLink.commandSend
    SendCap,            \* capacity of wsClient.send
    BufferCap,          \* offlineBufferCap
    Prompt,             \* whether a lost connection is noticed within ackDoubtWindow
    MaxBreaks,          \* bound: connections cut by the network
    MaxFailures,        \* bound: writes to SQLite that fail
    MaxCrashes          \* bound: restarts of the Server and of the Edge

ASSUME BoundsAssumption ==
    /\ AppCommands \subseteq Commands
    /\ Prompt \in BOOLEAN
    /\ {CommandCap, SendCap, BufferCap, MaxBreaks, MaxFailures, MaxCrashes} \subseteq Nat
    /\ BufferCap >= 1

Ack == [id : Commands, ok : BOOLEAN]

ASSUME NoneAssumption == None \notin Ack /\ None \notin Links

VARIABLES
    \* Server
    status,     \* commands.status; "none": no row
    call,       \* the request that issues the command: where it is, with which link
    refs,       \* AppHost.appCmds
    told,       \* RequestCompleted events the runtime took, in order
    missed,     \* why the Application of a command is not told of its end
    swept,      \* timed out, AppHost not yet notified
    current,    \* Server.edges
    open,       \* links whose read loop runs
    pump,       \* links whose writer runs (done is not closed)
    queue,      \* edgeLink.commandSend
    rx,         \* an acknowledgement stored, AppHost not yet notified
    \* sockets
    cut, down, up,
    \* Edge
    session,    \* the link of the running session
    phase,      \* of wsClient.run
    job,        \* the goroutine of each command received
    out,        \* wsClient.send
    pending,    \* offline buffer
    inflight,   \* acknowledgements in the doubt window
    \* history
    outcome,    \* what the device did
    settled,    \* commands whose acknowledgement the Server read
    dropped, breaks, failures, crashes

requestVars == <<status, call, refs, told, missed, swept>>
linkVars    == <<current, open, pump, queue, rx, cut, down, up>>
edgeVars    == <<session, phase, job, out, pending, inflight, outcome, dropped>>
vars == <<requestVars, linkVars, edgeVars, settled, breaks, failures, crashes>>

Stage == {"idle", "created", "marked", "waiting", "written", "undelivered", "erred",
          "accepted", "rejected"}
Call == [pc : Stage, link : Links \cup {None}]
Idle == [pc |-> "idle", link |-> None]
Terminal == {"ok", "failed", "timeout"}

Init ==
    /\ status = [c \in Commands |-> "none"]
    /\ call = [c \in Commands |-> Idle]
    /\ refs = {} /\ told = [c \in Commands |-> <<>>]
    /\ missed = [c \in Commands |-> "no"]
    /\ swept = {}
    /\ current = None /\ open = {} /\ pump = {} /\ cut = {}
    /\ queue = [l \in Links |-> <<>>]
    /\ rx = [l \in Links |-> None]
    /\ down = [l \in Links |-> <<>>] /\ up = [l \in Links |-> <<>>]
    /\ session = None /\ phase = "off"
    /\ job = [c \in Commands |-> "none"]
    /\ out = <<>> /\ pending = <<>> /\ inflight = <<>>
    /\ outcome = [c \in Commands |-> "none"]
    /\ settled = {} /\ dropped = 0 /\ breaks = 0 /\ failures = 0 /\ crashes = 0

-----------------------------------------------------------------------------
(* The request moves on, or returns. *)
At(c, pc)    == [call EXCEPT ![c].pc = pc]
Ended(c, pc) == [call EXCEPT ![c] = [pc |-> pc, link |-> None]]

(* Server: dispatchDeviceCommandWithHook; handlePostCommand is the same      *)
(* without a reference                                                      *)

(* The link is looked up and the row inserted; AppHost registers the        *)
(* reference before anything is sent.                                       *)
Create(c) ==
    /\ call[c] = Idle /\ status[c] = "none"
    /\ current # None
    /\ status' = [status EXCEPT ![c] = "pending"]
    /\ call' = [call EXCEPT ![c] = [pc |-> "created", link |-> current]]
    /\ refs' = refs \cup ({c} \cap AppCommands)
    /\ UNCHANGED <<told, missed, swept, linkVars, edgeVars, settled, breaks, failures, crashes>>

(* "sent" is written before the frame is offered; if that write fails the   *)
(* request ends with an error and nothing is sent.                          *)
MarkSent(c) ==
    /\ call[c].pc = "created"
    /\ \/ /\ status' = [status EXCEPT ![c] = "sent"]
          /\ call' = At(c, "marked")
          /\ UNCHANGED failures
       \/ /\ failures < MaxFailures
          /\ failures' = failures + 1
          /\ call' = At(c, "erred")
          /\ UNCHANGED status
    /\ UNCHANGED <<refs, told, missed, swept, linkVars, edgeVars, settled, breaks, crashes>>

Room(l) == Len(queue[l]) < CommandCap

(* sendCommand, up to the wait: the writer gone, or its queue full ... *)
Refuse(c) ==
    /\ call[c].pc = "marked"
    /\ call[c].link \notin pump \/ ~Room(call[c].link)
    /\ call' = At(c, "undelivered")
    /\ UNCHANGED <<status, refs, told, missed, swept, linkVars, edgeVars, settled, breaks,
                   failures, crashes>>

(* ... or room in the queue. *)
Offer(c) ==
    LET l == call[c].link
    IN  /\ call[c].pc = "marked"
        /\ l \in pump
        /\ Room(l)
        /\ queue' = [queue EXCEPT ![l] = Append(@, c)]
        /\ call' = At(c, "waiting")
        /\ UNCHANGED <<status, refs, told, missed, swept, current, open, pump, rx, cut, down, up,
                       edgeVars, settled, breaks, failures, crashes>>

(* sendCommand, the wait: the writer's result; ... *)
Delivered(c) ==
    /\ call[c].pc = "written"
    /\ call' = Ended(c, "accepted")
    /\ UNCHANGED <<status, refs, told, missed, swept, linkVars, edgeVars, settled, breaks,
                   failures, crashes>>

GiveUpRetries(c) ==             \* deviant: offers the frame again
    /\ call[c].pc \in {"waiting", "written"}
    /\ call' = At(c, "marked")
    /\ UNCHANGED <<status, refs, told, missed, swept, linkVars, edgeVars, settled, breaks,
                   failures, crashes>>

(* ... or the link is done, also when a result is there: select picks any;  *)
(* or the request's context ends.                                           *)
GiveUp(c) ==
    /\ call[c].pc \in {"waiting", "written"}
    /\ call' = At(c, "undelivered")
    /\ UNCHANGED <<status, refs, told, missed, swept, linkVars, edgeVars, settled, breaks,
                   failures, crashes>>

(* UpdateCommandStatusScoped(id, "failed"), whatever the row says now. *)
MarkFailed(c) ==
    /\ call[c].pc = "undelivered"
    /\ \/ status' = [status EXCEPT ![c] = "failed"] /\ UNCHANGED failures
       \/ failures < MaxFailures /\ failures' = failures + 1 /\ UNCHANGED status
    /\ call' = At(c, "erred")
    /\ UNCHANGED <<refs, told, missed, swept, linkVars, edgeVars, settled, breaks, crashes>>

(* NotifyCommandAck, execRequestCommand: the reference is taken out of      *)
(* appCmds; nothing when somebody took it already. Then                     *)
(* dispatchRequestCompleted: runtime.DispatchEvent queues the event for the *)
(* instance, or refuses it, because the queue is full, which other events   *)
(* share, or the instance is not running; of a refusal only a log line is   *)
(* left.                                                                    *)
CompletedAgain(c, state) ==        \* deviant: the send error always completes
    /\ refs' = refs \ {c}
    /\ told' = IF c \in AppCommands THEN [told EXCEPT ![c] = Append(@, state)] ELSE told
    /\ UNCHANGED missed
Completed(c, state) ==
    IF c \notin refs THEN UNCHANGED <<refs, told, missed>>
    ELSE /\ refs' = refs \ {c}
         /\ \/ told' = [told EXCEPT ![c] = Append(@, state)] /\ UNCHANGED missed
            \/ missed' = [missed EXCEPT ![c] = "refused"] /\ UNCHANGED told

(* execRequestCommand after an error *)
Erred(c) ==
    /\ call[c].pc = "erred"
    /\ Completed(c, "failed")
    /\ call' = Ended(c, "rejected")
    /\ UNCHANGED <<status, swept, linkVars, edgeVars, settled, breaks, failures, crashes>>

-----------------------------------------------------------------------------
(* Server: the sweeper *)

InFlightSentOnly == {c \in Commands : status[c] = "sent"}    \* deviant: forgets pending rows
InFlightAny == {c \in Commands : status[c] # "none"}         \* deviant: no status condition
InFlight == {c \in Commands : status[c] \in {"pending", "sent"}}

NotifiedNone(S) == {}           \* deviant: AppHost is not notified
Notified(S) == S

(* TimeoutStaleCommandIDs, one transaction. Which commands in flight are    *)
(* older than commandTimeoutTTL is not modelled: any of them may be.        *)
Sweep(S) ==
    /\ S # {} /\ S \subseteq InFlight /\ swept = {}
    /\ status' = [c \in Commands |-> IF c \in S THEN "timeout" ELSE status[c]]
    /\ swept' = Notified(S)
    /\ UNCHANGED <<call, refs, told, missed, linkVars, edgeVars, settled, breaks, failures,
                   crashes>>

(* ... then NotifyCommandAck for each. *)
NotifySwept(c) ==
    /\ c \in swept
    /\ swept' = swept \ {c}
    /\ Completed(c, "timeout")
    /\ UNCHANGED <<status, call, linkVars, edgeVars, settled, breaks, failures, crashes>>

-----------------------------------------------------------------------------
(* Connections *)

(* The Edge dials and says hello; the Server registers the link, and cancels *)
(* the context of the one that was registered before.                       *)
InUse(l) == \E c \in Commands : call[c].link = l

Connect(l) ==
    /\ phase = "off"
    /\ l \notin open \cup pump /\ ~InUse(l)
    /\ session' = l /\ phase' = "dialed"
    /\ current' = l
    /\ open' = open \cup {l} /\ pump' = pump \cup {l} /\ cut' = cut \ {l}
    /\ queue' = [queue EXCEPT ![l] = <<>>]
    /\ down' = [down EXCEPT ![l] = <<>>] /\ up' = [up EXCEPT ![l] = <<>>]
    /\ UNCHANGED <<requestVars, rx, job, out, pending, inflight, outcome, dropped, settled,
                   breaks, failures, crashes>>

(* The network: what is in flight is lost, or arrived already. *)
Break(l) ==
    /\ breaks < MaxBreaks
    /\ l \in open \ cut
    /\ breaks' = breaks + 1
    /\ cut' = cut \cup {l}
    /\ \E n \in 0..Len(up[l])   : up'   = [up EXCEPT ![l] = SubSeq(@, 1, n)]
    /\ \E n \in 0..Len(down[l]) : down' = [down EXCEPT ![l] = SubSeq(@, 1, n)]
    /\ UNCHANGED <<requestVars, current, open, pump, queue, rx, edgeVars, settled, failures,
                   crashes>>

Cancelled(l) == current # l \/ l \notin pump
Alive(l) == l \in open \ cut

(* The Server's read loop ends; what it has not read is lost. *)
Close(l) ==
    /\ l \in open /\ rx[l] = None
    /\ Cancelled(l) \/ l \in cut \/ session # l
    /\ open' = open \ {l}
    /\ current' = IF current = l THEN None ELSE current
    /\ up' = [up EXCEPT ![l] = <<>>]
    /\ UNCHANGED <<requestVars, pump, queue, rx, cut, down, edgeVars, settled, breaks, failures,
                   crashes>>

(* writeEdgePump: a command frame; its result goes back to the request.     *)
(* Written to a connection that is already cut, it may seem to succeed.     *)
PumpCommand(l) ==
    LET c == Head(queue[l])
        answered(pc) == IF call[c].pc = "waiting" THEN At(c, pc) ELSE call
    IN  /\ l \in pump /\ queue[l] # <<>>
        /\ queue' = [queue EXCEPT ![l] = Tail(@)]
        /\ \/ /\ call' = answered("written")
              /\ down' = IF Alive(l) /\ session = l THEN [down EXCEPT ![l] = Append(@, c)]
                         ELSE down
              /\ UNCHANGED pump
           \/ /\ ~(Alive(l) /\ session = l)
              /\ call' = answered("undelivered")
              /\ pump' = pump \ {l}
              /\ UNCHANGED down
        /\ UNCHANGED <<status, refs, told, missed, swept, current, open, rx, cut, up, edgeVars,
                       settled, breaks, failures, crashes>>

(* writeEdgePump: the context is cancelled. *)
PumpStops(l) ==
    /\ l \in pump /\ Cancelled(l)
    /\ pump' = pump \ {l}
    /\ UNCHANGED <<requestVars, current, open, queue, rx, cut, down, up, edgeVars, settled,
                   breaks, failures, crashes>>

(* handleEdgeWS, command_ack: the row, whatever it says now ... *)
ReadAck(l) ==
    LET a == Head(up[l])
    IN  /\ l \in open /\ rx[l] = None /\ up[l] # <<>>
        /\ up' = [up EXCEPT ![l] = Tail(@)]
        /\ \/ /\ status' = [status EXCEPT ![a.id] = IF a.ok THEN "ok" ELSE "failed"]
              /\ UNCHANGED failures
           \/ /\ failures < MaxFailures /\ failures' = failures + 1
              /\ UNCHANGED status
        /\ settled' = settled \cup {a.id}
        /\ rx' = [rx EXCEPT ![l] = a]
        /\ UNCHANGED <<call, refs, told, missed, swept, current, open, pump, queue, cut, down,
                       edgeVars, breaks, crashes>>

(* ... then NotifyCommandAck. *)
NotifyAck(l) ==
    /\ rx[l] # None
    /\ Completed(rx[l].id, IF rx[l].ok THEN "ok" ELSE "failed")
    /\ rx' = [rx EXCEPT ![l] = None]
    /\ UNCHANGED <<status, call, swept, current, open, pump, queue, cut, down, up,
                   edgeVars, settled, breaks, failures, crashes>>

-----------------------------------------------------------------------------
(* Edge: commands *)

(* The read loop starts a goroutine per command. *)
Receive ==
    /\ phase = "up" /\ down[session] # <<>>
    /\ down' = [down EXCEPT ![session] = Tail(@)]
    /\ job' = [job EXCEPT ![Head(down[session])] = "running"]
    /\ UNCHANGED <<requestVars, current, open, pump, queue, rx, cut, up, session, phase, out,
                   pending, inflight, outcome, dropped, settled, breaks, failures, crashes>>

(* onCommand: the device, the unknown device, the unsupported command. *)
Execute(c) ==
    /\ job[c] = "running"
    /\ \E result \in {"ok", "failed"} : outcome' = [outcome EXCEPT ![c] = result]
    /\ job' = [job EXCEPT ![c] = "executed"]
    /\ UNCHANGED <<requestVars, linkVars, session, phase, out, pending, inflight, dropped,
                   settled, breaks, failures, crashes>>

(* enqueue reads online under c.mu ... *)
Online == phase \in {"online", "up", "ended"}

ReadOnline(c) ==
    /\ job[c] = "executed"
    /\ job' = [job EXCEPT ![c] = IF Online THEN "send" ELSE "buffer"]
    /\ UNCHANGED <<requestVars, linkVars, session, phase, out, pending, inflight, outcome,
                   dropped, settled, breaks, failures, crashes>>

AckOf(c) == [id |-> c, ok |-> outcome[c] = "ok"]

(* buffer, requeue: bounded, the oldest goes first *)
Buffered(b, q) == LET all == b \o q
                      n == Len(all)
                  IN  IF n <= BufferCap THEN all ELSE SubSeq(all, n - BufferCap + 1, n)
Overflow(b, q) == IF Len(b) + Len(q) > BufferCap THEN Len(b) + Len(q) - BufferCap ELSE 0

(* ... and acts on it without the lock: the queue, if there is room, or the *)
(* buffer.                                                                  *)
EnqueueAck(c) ==
    /\ job[c] \in {"send", "buffer"}
    /\ IF job[c] = "send" /\ Len(out) < SendCap
       THEN out' = Append(out, AckOf(c)) /\ UNCHANGED <<pending, dropped>>
       ELSE /\ pending' = Buffered(pending, <<AckOf(c)>>)
            /\ dropped' = dropped + Overflow(pending, <<AckOf(c)>>)
            /\ UNCHANGED out
    /\ job' = [job EXCEPT ![c] = "done"]
    /\ UNCHANGED <<requestVars, linkVars, session, phase, inflight, outcome, settled, breaks,
                   failures, crashes>>

-----------------------------------------------------------------------------
(* Edge: sessions *)

(* The hello is written: setOnline(true). *)
GoOnline ==
    /\ phase = "dialed"
    /\ phase' = "online"
    /\ UNCHANGED <<requestVars, linkVars, session, job, out, pending, inflight, outcome,
                   dropped, settled, breaks, failures, crashes>>

(* flushPending, before the write pump runs: what finds no room in the      *)
(* queue goes back to the buffer.                                           *)
Fits == LET room == SendCap - Len(out) IN IF room < Len(pending) THEN room ELSE Len(pending)
Rest == SubSeq(pending, Fits + 1, Len(pending))

Flush ==
    /\ phase = "online"
    /\ phase' = "up"
    /\ out' = out \o SubSeq(pending, 1, Fits)
    /\ pending' = Rest
    /\ UNCHANGED <<requestVars, linkVars, session, job, inflight, outcome, dropped, settled,
                   breaks, failures, crashes>>

(* The write pump: a successful write puts the acknowledgement in doubt,    *)
(* also when the connection is cut already and nothing will arrive.         *)
PumpAck ==
    /\ phase = "up" /\ out # <<>>
    /\ out' = Tail(out)
    /\ inflight' = Append(inflight, Head(out))
    /\ up' = IF Alive(session) THEN [up EXCEPT ![session] = Append(@, Head(out))] ELSE up
    /\ UNCHANGED <<requestVars, current, open, pump, queue, rx, cut, down, session, phase, job,
                   pending, outcome, dropped, settled, breaks, failures, crashes>>

(* The doubt window of the oldest ends with the session alive. Prompt: by   *)
(* then it was read, or the connection is lost and the session notices.     *)
Confirm ==
    /\ phase = "up" /\ inflight # <<>>
    /\ Prompt => /\ Alive(session)
                 /\ \A k \in DOMAIN up[session] : up[session][k] # Head(inflight)
    /\ inflight' = Tail(inflight)
    /\ UNCHANGED <<requestVars, linkVars, session, phase, job, out, pending, outcome, dropped,
                   settled, breaks, failures, crashes>>

DoubtfulNone == <<>>              \* deviant: what is in doubt is not drained
Doubtful == inflight

(* The session ends: a write fails (the message goes back) or a read does;  *)
(* the write pump is stopped, then what is in doubt is drained.             *)
EndSession ==
    /\ phase = "up" /\ ~Alive(session)
    /\ phase' = "ended" /\ session' = None
    /\ \E n \in 0..(IF out = <<>> THEN 0 ELSE 1) :
          LET back == SubSeq(out, 1, n) \o Doubtful
          IN  /\ out' = SubSeq(out, n + 1, Len(out))
              /\ pending' = Buffered(pending, back)
              /\ dropped' = dropped + Overflow(pending, back)
    /\ inflight' = <<>>
    /\ UNCHANGED <<requestVars, linkVars, job, outcome, settled, breaks, failures, crashes>>

(* run, after the session: setOnline(false). *)
GoOffline ==
    /\ phase = "ended"
    /\ phase' = "off"
    /\ UNCHANGED <<requestVars, linkVars, session, job, out, pending, inflight, outcome,
                   dropped, settled, breaks, failures, crashes>>

-----------------------------------------------------------------------------
(* Restarts *)

ServerRestart ==
    /\ crashes < MaxCrashes
    /\ crashes' = crashes + 1
    /\ call' = [c \in Commands |-> IF call[c].link = None THEN call[c] ELSE Idle]
    /\ refs' = {} /\ swept' = {}
    /\ missed' = [c \in Commands |-> IF c \in refs THEN "restart" ELSE missed[c]]
    /\ current' = None /\ open' = {} /\ pump' = {}
    /\ queue' = [l \in Links |-> <<>>]
    /\ rx' = [l \in Links |-> None]
    /\ up' = [l \in Links |-> <<>>]
    /\ UNCHANGED <<status, told, cut, down, edgeVars, settled, breaks, failures>>

EdgeRestart ==
    /\ crashes < MaxCrashes
    /\ crashes' = crashes + 1
    /\ session' = None /\ phase' = "off"
    /\ job' = [c \in Commands |-> IF job[c] = "none" THEN "none" ELSE "done"]
    /\ out' = <<>> /\ pending' = <<>> /\ inflight' = <<>>
    /\ UNCHANGED <<requestVars, linkVars, outcome, dropped, settled, breaks, failures>>

-----------------------------------------------------------------------------
HandlerStep(c) == \/ MarkSent(c) \/ Refuse(c) \/ Offer(c) \/ Delivered(c) \/ MarkFailed(c)
                  \/ Erred(c)
Job(c)         == Execute(c) \/ ReadOnline(c) \/ EnqueueAck(c)
ReadLoop(l)    == ReadAck(l) \/ NotifyAck(l)
Writer(l)      == PumpCommand(l) \/ PumpStops(l)
EdgeSession    == \/ Receive \/ GoOnline \/ Flush \/ PumpAck \/ Confirm \/ EndSession
                  \/ GoOffline

Next ==
    \/ \E c \in Commands : \/ Create(c) \/ HandlerStep(c) \/ GiveUp(c)
                           \/ NotifySwept(c) \/ Job(c)
    \/ \E l \in Links : \/ Connect(l) \/ Break(l) \/ Close(l) \/ Writer(l) \/ ReadLoop(l)
    \/ \E S \in SUBSET InFlight : Sweep(S)
    \/ EdgeSession \/ ServerRestart \/ EdgeRestart

Spec == Init /\ [][Next]_vars

(* Goroutines that can run do run, and the sweeper's ticker ticks. Nothing  *)
(* is assumed of requests, of the network, or of restarts.                  *)
Fairness ==
    /\ WF_vars(EdgeSession)
    /\ \A c \in Commands : /\ WF_vars(\E S \in SUBSET InFlight : c \in S /\ Sweep(S))
                           /\ WF_vars(NotifySwept(c)) /\ WF_vars(HandlerStep(c))
                           /\ WF_vars(Job(c))
    /\ \A l \in Links : WF_vars(ReadLoop(l)) /\ WF_vars(Writer(l))

FairSpec == Spec /\ Fairness

-----------------------------------------------------------------------------
(* Properties *)

TypeOK ==
    /\ status \in [Commands -> {"none", "pending", "sent"} \cup Terminal]
    /\ call \in [Commands -> Call]
    /\ refs \subseteq AppCommands /\ told \in [Commands -> Seq(Terminal)]
    /\ missed \in [Commands -> {"no", "refused", "restart"}]
    /\ swept \subseteq Commands
    /\ current \in Links \cup {None} /\ session \in Links \cup {None}
    /\ open \subseteq Links /\ pump \subseteq Links /\ cut \subseteq Links
    /\ queue \in [Links -> Seq(Commands)] /\ \A l \in Links : Len(queue[l]) <= CommandCap
    /\ rx \in [Links -> Ack \cup {None}]
    /\ down \in [Links -> Seq(Commands)] /\ up \in [Links -> Seq(Ack)]
    /\ phase \in {"off", "dialed", "online", "up", "ended"}
    /\ phase \in {"dialed", "online", "up"} <=> session # None
    /\ job \in [Commands -> {"none", "running", "executed", "send", "buffer", "done"}]
    /\ out \in Seq(Ack) /\ Len(out) <= SendCap
    /\ pending \in Seq(Ack) /\ Len(pending) <= BufferCap
    /\ inflight \in Seq(Ack)
    /\ outcome \in [Commands -> {"none", "ok", "failed"}]
    /\ settled \subseteq Commands /\ dropped \in Nat
    /\ breaks \in Nat /\ failures \in Nat /\ crashes \in Nat

(* internal/edge/wsclient.go, ackDoubtWindow: a real result is never lost   *)
(* on a dying connection. Whatever the connections do, an acknowledgement   *)
(* that entered wsClient was read by the Server or is still held by the     *)
(* Edge, in the queue, the doubt window or the buffer; short of a full      *)
(* buffer, of restarts, and of connections that look alive for longer than  *)
(* the window.                                                              *)
Held(c) == \E q \in {out, pending, inflight} : \E k \in DOMAIN q : q[k].id = c

OutcomeNotLost ==
    Prompt /\ dropped = 0 /\ crashes = 0 =>
        \A c \in Commands : job[c] = "done" => c \in settled \/ Held(c)

(* The acknowledgement decides: once the Server has read it, neither the    *)
(* mark "sent" nor the sweeper, nor any acknowledgement that comes twice,   *)
(* changes the row; only a failed delivery may.                             *)
AckDecides ==
    failures = 0 =>
        \A c \in settled : outcome[c] # "none" /\ status[c] \in {outcome[c], "failed"}

(* internal/server/apphost.go:673-709 and 1065-1101: the end of a command an *)
(* Application requested is handed over once, whoever comes first of the     *)
(* acknowledgement, the sweeper and the failed delivery: it is told once, or *)
(* never, because the runtime refused the event or the reference was lost    *)
(* with the Server; and until then somebody can still take the reference.    *)
CompletedOnce ==
    \A c \in AppCommands :
        /\ Len(told[c]) <= 1
        /\ c \in refs => told[c] = <<>> /\ missed[c] = "no"
        /\ told[c] # <<>> => missed[c] = "no"
        /\ status[c] # "none" <=> c \in refs \/ told[c] # <<>> \/ missed[c] # "no"

(* internal/server/server.go, sendCommand: a frame is offered once and never *)
(* again, so no device executes a command twice, whatever becomes of the    *)
(* write, of the connection and of both processes.                          *)
ExecutedOnce ==
    [][\A c \in Commands : job'[c] = "running" => job[c] \in {"none", "running"}]_job

(* What the proofs carry from step to step. A command goes through its      *)
(* stages in order; its frame is in one place at a time and is gone once    *)
(* the Edge started it; every acknowledgement anywhere says what the device *)
(* did; and a reference is kept only as long as nobody was told.            *)
Offered   == {c \in Commands : status[c] # "none" /\ call[c].pc \notin {"created", "marked"}}
Unstarted == {c \in Offered : job[c] = "none"}
Faithful  == {a \in Ack : outcome[a.id] = IF a.ok THEN "ok" ELSE "failed"}

StagesOK ==
    \A c \in Commands :
        /\ status[c] = "none" => call[c].pc = "idle" /\ c \notin refs /\ told[c] = <<>>
        /\ job[c] # "none" => c \in Offered
        /\ outcome[c] # "none" => job[c] \in {"executed", "send", "buffer", "done"}
        /\ job[c] \in {"executed", "send", "buffer"} => outcome[c] # "none"

Distinct(f) == \A l, m \in Links : \A i \in DOMAIN f[l], j \in DOMAIN f[m] :
                    f[l][i] = f[m][j] => l = m /\ i = j
Apart(f, g) == \A l, m \in Links : \A i \in DOMAIN f[l], j \in DOMAIN g[m] : f[l][i] # g[m][j]

FramesOK ==
    /\ queue \in [Links -> Seq(Unstarted)] /\ down \in [Links -> Seq(Unstarted)]
    /\ Distinct(queue) /\ Distinct(down) /\ Apart(queue, down)

AcksOK ==
    /\ out \in Seq(Faithful) /\ pending \in Seq(Faithful) /\ inflight \in Seq(Faithful)
    /\ up \in [Links -> Seq(Faithful)]
    /\ rx \in [Links -> Faithful \cup {None}]

OwedOK == \A c \in refs : told[c] = <<>>

Consistent == StagesOK /\ FramesOK /\ AcksOK /\ OwedOK

(* Only a running session has acknowledgements in doubt; each of them was   *)
(* read by the Server or is on its way, unless the connection is gone.      *)
OnItsWay(a) == \E k \in DOMAIN up[session] : up[session][k] = a

DoubtOK ==
    /\ inflight # <<>> => phase = "up"
    /\ \A k \in DOMAIN inflight :
          inflight[k].id \in settled \/ ~Alive(session) \/ OnItsWay(inflight[k])

(* README: commands without an acknowledgement are timed out, also those of *)
(* requests a restart cut short.                                            *)
Settles ==
    \A c \in Commands : status[c] \in {"pending", "sent"} ~> status[c] \in Terminal

(* ... and the Application waiting for one is told, unless its runtime      *)
(* refuses the event or the Server restarts with the reference.             *)
Completes == \A c \in AppCommands : c \in refs ~> told[c] # <<>> \/ missed[c] # "no"

=============================================================================
