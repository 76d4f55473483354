-------------------------- MODULE DeviceSupervisor --------------------------
(***************************************************************************)
(* One device of an Edge: the loop that opens it and opens it again        *)
(* (edge.supervise), the device an external Driver backs                   *)
(* (edge/external_driver.go), the reports of its state to the Server       *)
(* (reportState, reportDescriptor), and the connection they travel on.     *)
(*                                                                         *)
(* A report is not atomic: a snapshot is taken, the message enqueued, and  *)
(* what was sent recorded, each under a lock of its own, by any of several *)
(* goroutines. The environment unplugs the device and plugs it in, changes *)
(* its value, and loses the connection. Data abstracted: a state is the    *)
(* value of the one property observed, or Off.                             *)
(***************************************************************************)
EXTENDS Naturals, Sequences

CONSTANTS
    Heartbeat,      \* reportState repeats what it sent every ReportIntervalS
                    \* (TRUE); reportDescriptor does not (FALSE)
    None, Off,      \* Off: a state with online = false
    QueueSize,      \* of the send queue
    MaxEvents       \* bounds what the environment does

ASSUME SupervisorAssumption ==
    /\ Heartbeat \in BOOLEAN
    /\ {QueueSize, MaxEvents} \subseteq Nat /\ QueueSize > 0

(***************************************************************************)
(* The goroutines that report: the supervision loop, the poll loop (and    *)
(* the events of the device, alike), the connection when it is up again,   *)
(* and what follows the opening or a command. All but the poll force.      *)
(***************************************************************************)
Reporters == {"supervise", "poll", "online", "after"}

Forced(r) == r # "poll"

VARIABLES
    plugged, value,             \* the hardware
    dev,                        \* supervisor.dev: None, or what the Driver told of it
    phase,                      \* of supervise
    rep,                        \* the reports that run, and their snapshots
    lastSent, due,              \* supervisor.lastSent; sentAt is an interval ago
    link, send,                 \* the connection and the queue of the client
    server,                     \* what the Server shows; None: online, as of old
    events

hardware == <<plugged, value>>
conn     == <<link, send, server>>
vars     == <<hardware, dev, phase, rep, lastSent, due, conn, events>>

Idle == [pc |-> "idle", state |-> None]

Init ==
    /\ plugged = TRUE /\ value = 0
    /\ dev = None
    /\ phase = "opening"
    /\ rep = [r \in Reporters |-> Idle]
    /\ lastSent = None /\ due = TRUE
    /\ link = "down" /\ send = <<>>
    /\ server = Off
    /\ events = 0

Event == events < MaxEvents /\ events' = events + 1

(***************************************************************************)
(* The hardware and the Driver                                             *)
(***************************************************************************)

Change ==
    /\ Event
    /\ value' = 1 - value
    /\ UNCHANGED <<plugged, dev, phase, rep, lastSent, due, conn>>

\* the Watch stream ends with the device, and closes done
Unplug ==
    /\ plugged /\ Event
    /\ plugged' = FALSE
    /\ dev' = IF dev = None THEN None ELSE [dev EXCEPT !.done = TRUE]
    /\ UNCHANGED <<value, phase, rep, lastSent, due, conn>>

PlugIn ==
    /\ ~plugged
    /\ plugged' = TRUE
    /\ UNCHANGED <<value, dev, phase, rep, lastSent, due, conn, events>>

\* applyMessage: a message of the Watch stream
Observe ==
    /\ dev # None /\ ~dev.done /\ dev.state # value
    /\ dev' = [dev EXCEPT !.state = value]
    /\ UNCHANGED <<hardware, phase, rep, lastSent, due, conn, events>>

(***************************************************************************)
(* Reports                                                                 *)
(***************************************************************************)

\* a report starts, unless one of the same kind still runs
Started(r) ==
    IF rep[r].pc = "idle" THEN [rep EXCEPT ![r].pc = "start"] ELSE rep

\* snapshot: of the device, or the last one with online off; Driver's
\* snapshots are off until it observed something
Snapshot == IF dev = None THEN Off ELSE dev.state

Take(r) ==
    /\ rep[r].pc = "start"
    /\ rep' = [rep EXCEPT ![r] = [pc |-> "taken", state |-> Snapshot]]
    /\ UNCHANGED <<hardware, dev, phase, lastSent, due, conn, events>>

\* Mutant: without the heartbeat.
StaleNever == FALSE

Stale == Heartbeat /\ due

Wanted(r) == Forced(r) \/ rep[r].state # lastSent \/ Stale

\* wsClient.enqueue: offline, or with a full queue, a state is dropped
Queued == link = "up" /\ Len(send) < QueueSize

Enqueue(r) ==
    /\ rep[r].pc = "taken"
    /\ send' = IF Wanted(r) /\ Queued THEN Append(send, rep[r].state) ELSE send
    /\ rep' = [rep EXCEPT ![r] = IF Wanted(r) /\ (Queued \/ Forced(r))
                                 THEN [@ EXCEPT !.pc = "sent"] ELSE Idle]
    /\ UNCHANGED <<hardware, dev, phase, lastSent, due, link, server, events>>

\* a forced report counts as sent even if it was dropped
Record(r) ==
    /\ rep[r].pc = "sent"
    /\ lastSent' = rep[r].state /\ due' = FALSE
    /\ rep' = [rep EXCEPT ![r] = Idle]
    /\ UNCHANGED <<hardware, dev, phase, conn, events>>

Report(r) == Take(r) \/ Enqueue(r) \/ Record(r)

\* pollLoop: half a second after the poll command; onDeviceEvent
Poll ==
    /\ rep["poll"].pc = "idle"
    /\ rep' = Started("poll")
    /\ UNCHANGED <<hardware, dev, phase, lastSent, due, conn, events>>

IntervalPasses ==
    /\ ~due
    /\ due' = TRUE
    /\ UNCHANGED <<hardware, dev, phase, rep, lastSent, conn, events>>

(***************************************************************************)
(* supervise                                                               *)
(***************************************************************************)

\* client, ConfigureInstance, OpenDevice; the first commands and a forced
\* report follow in a goroutine of their own
Open ==
    /\ phase = "opening" /\ plugged
    /\ phase' = "open"
    /\ dev' = [done |-> FALSE, state |-> Off]
    /\ rep' = Started("after")
    /\ UNCHANGED <<hardware, lastSent, due, conn, events>>

OpenFails ==
    /\ phase = "opening" /\ ~plugged
    /\ phase' = "closed"
    /\ dev' = None
    /\ rep' = Started("supervise")
    /\ UNCHANGED <<hardware, lastSent, due, conn, events>>

\* done: Close, setDev(nil), a forced report
PortDies ==
    /\ phase = "open" /\ dev.done
    /\ phase' = "closed"
    /\ dev' = None
    /\ rep' = Started("supervise")
    /\ UNCHANGED <<hardware, lastSent, due, conn, events>>

\* reported, and the backoff or the three seconds are over
Retry ==
    /\ phase = "closed" /\ rep["supervise"].pc = "idle"
    /\ phase' = "opening"
    /\ UNCHANGED <<hardware, dev, rep, lastSent, due, conn, events>>

(***************************************************************************)
(* The connection                                                          *)
(***************************************************************************)

\* hello: the Server shows the devices of the link online; onServerOnline
\* reports before the writer starts
Connect ==
    /\ link = "down"
    /\ link' = "up"
    /\ server' = None
    /\ rep' = Started("online")
    /\ UNCHANGED <<hardware, dev, phase, lastSent, due, send, events>>

\* the writer, and applyState on the Server
Deliver ==
    /\ link = "up" /\ rep["online"].pc = "idle" /\ send # <<>>
    /\ send' = Tail(send) /\ server' = Head(send)
    /\ UNCHANGED <<hardware, dev, phase, rep, lastSent, due, link, events>>

\* what was being written is lost, what was not is left in the queue; the
\* Server shows the devices of the link offline
Lose ==
    /\ link = "up" /\ rep["online"].pc = "idle" /\ Event
    /\ link' = "down"
    /\ \E i \in 1..(Len(send) + 1) : send' = SubSeq(send, i, Len(send))
    /\ server' = Off
    /\ UNCHANGED <<hardware, dev, phase, rep, lastSent, due>>

Supervise == Open \/ OpenFails \/ PortDies \/ Retry

Next ==
    \/ Change \/ Unplug \/ PlugIn \/ Observe \/ Supervise
    \/ (\E r \in Reporters : Report(r)) \/ Poll \/ IntervalPasses
    \/ Connect \/ Deliver \/ Lose

Spec == Init /\ [][Next]_vars

\* the goroutines, the tickers, the Driver's stream and the reconnection
FairSpec ==
    /\ Spec
    /\ WF_vars(Observe) /\ WF_vars(Supervise) /\ WF_vars(Poll) /\ WF_vars(IntervalPasses)
    /\ \A r \in Reporters : WF_vars(Report(r))
    /\ WF_vars(Connect) /\ WF_vars(Deliver)

(***************************************************************************)
(* Properties                                                              *)
(***************************************************************************)

(* internal/edge/edge.go:446, "a change is sent at once, the heartbeat       *)
(* covers the rest": once the hardware and the connection stay as they are,  *)
(* the Server shows the device as it is, whatever reports overtook each      *)
(* other or were dropped.                                                    *)
Shown == server = IF plugged THEN value ELSE Off

ServerCatchesUp == <>[]Shown
=============================================================================
