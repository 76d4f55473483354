------------------------------ MODULE AppJobs ------------------------------
(***************************************************************************)
(* The durable scheduled jobs of one Application instance: the effects     *)
(* that declare and cancel them (appruntime, executeOnce, and the executor *)
(* of server.AppHost), the table scheduled_jobs, and the minute loop that  *)
(* claims what is due and dispatches it.                                   *)
(*                                                                         *)
(* Interleavings kept: the receive loop reads the clock, and writes the    *)
(* table between any two later steps of the minute loop (the store waits   *)
(* and tries again while the database is busy); time passes during a pass; *)
(* the Server crashes anywhere and starts again later; the session of the  *)
(* instance is rebuilt, which forgets the idempotency keys and does not    *)
(* wait for a write of the old one. Data abstracted: a cron expression is  *)
(* a member of a small set, a job payload does not exist.                  *)
(*                                                                         *)
(* The names are such that the module can be extended next to AppHost: the *)
(* theorems about both are in one module.                                  *)
(***************************************************************************)
EXTENDS Cron, Sequences

CONSTANTS
    Schedules,      \* schedule ids
    Crons,          \* the expressions the Application declares
    Grace,          \* scheduledMissedGrace, in minutes
    MaxTime, MaxEffects, MaxCrashes     \* bounds

ASSUME JobsAssumption == {Grace, MaxTime, MaxEffects, MaxCrashes} \subseteq Nat

Times == 0..(MaxTime + ScanLimit + 1)

\* a row of scheduled_jobs, and a planned run of it
JobRow == [cron : Crons, next : Times, active : BOOLEAN, policy : {"skip"}, rev : Nat \ {0}]
Run    == [id : Schedules, planned : Times]

ASSUME NothingAssumption == Nothing \notin Times /\ Nothing \notin JobRow /\ Nothing \notin Run

VARIABLES
    now,
    table,      \* scheduled_jobs
    inbox,      \* effects on the stream of the instance
    executed,   \* instanceRecord.executed
    writing,    \* effects a receive loop is at the store with; one that is
                \* live is of the session there is
    \* the minute loop
    stage,         \* down, wait, scan, claim, dispatch
    wake,       \* the minute it waits for
    passNow,    \* the minute of the pass
    due,        \* the rows the scan returned, still to handle
    job,        \* the run that was claimed
    \* history
    dispatched, \* how often each planned run was dispatched
    rewound,    \* how often a declaration that had computed the time of a run
                \* before was written when the run was claimed
    raced,      \* schedules that were claimed over a later declaration
    effects, crashes

loopVars == <<stage, wake, passNow, due, job>>
jobsVars == <<now, table, inbox, executed, writing, loopVars, dispatched, rewound, raced, effects, crashes>>

\* a constant, so that it is computed once
NextTimes == [c \in Crons |-> [t \in Times |-> NextAfter(c, t)]]

NextTime(cron, t) == NextTimes[cron][t]

JobsInit ==
    /\ now = 0
    /\ table = [s \in Schedules |-> Nothing]
    /\ inbox = <<>> /\ executed = {} /\ writing = {}
    /\ stage = "wait" /\ wake = 1 /\ passNow = 0 /\ due = {} /\ job = Nothing
    /\ dispatched = [r \in Run |-> 0] /\ rewound = [r \in Run |-> 0] /\ raced = {}
    /\ effects = 0 /\ crashes = 0

Tick ==
    /\ now < MaxTime
    /\ now' = now + 1
    /\ UNCHANGED <<table, inbox, executed, writing, loopVars, dispatched, rewound, raced, effects, crashes>>

(***************************************************************************)
(* Effects                                                                 *)
(***************************************************************************)

\* the idempotency key of an effect, EffectFromSDK
KeyOf(e) == <<e.kind, e.id>>

\* the Application sends an effect on its stream
Emit ==
    /\ stage # "down" /\ effects < MaxEffects /\ Len(inbox) < 2
    /\ effects' = effects + 1
    /\ \E s \in Schedules :
          \/ \E c \in Crons :
                inbox' = Append(inbox, [kind |-> "schedule", id |-> s, cron |-> c])
          \/ inbox' = Append(inbox, [kind |-> "cancel", id |-> s, cron |-> Nothing])
    /\ UNCHANGED <<now, table, executed, writing, loopVars, dispatched, rewound, raced, crashes>>

\* recvLoop handles one effect after the other
Idle == stage # "down" /\ inbox # <<>> /\ \A w \in writing : ~w.live

\* recvLoop, executeOnce: a key that was executed is a duplicate
Duplicate ==
    /\ Idle /\ KeyOf(Head(inbox)) \in executed
    /\ inbox' = Tail(inbox)
    /\ UNCHANGED <<now, table, executed, writing, loopVars, dispatched, rewound, raced, effects,
                   crashes>>

\* an expression that does not parse or never fires is an error, and its
\* key stays free
Rejected(e) == e.kind = "schedule" /\ (~Parses(e.cron) \/ NextTime(e.cron, now) = Nothing)

Reject ==
    /\ Idle /\ KeyOf(Head(inbox)) \notin executed
    /\ Rejected(Head(inbox))
    /\ inbox' = Tail(inbox)
    /\ UNCHANGED <<now, table, executed, writing, loopVars, dispatched, rewound, raced, effects,
                   crashes>>

\* the executor computes the next time from the clock, then goes to the store;
\* num tells two effects that read the same apart
Execute ==
    /\ Idle /\ KeyOf(Head(inbox)) \notin executed
    /\ LET e == Head(inbox)
       IN  /\ ~Rejected(e)
           /\ writing' = writing \cup
                {[kind |-> e.kind, id |-> e.id, cron |-> e.cron, live |-> TRUE,
                  next |-> IF e.kind = "cancel" THEN Nothing ELSE NextTime(e.cron, now),
                  num |-> effects - Len(inbox)]}
    /\ inbox' = Tail(inbox)
    /\ UNCHANGED <<now, table, executed, loopVars, dispatched, rewound, raced, effects, crashes>>

Cancelled(row) == IF row = Nothing THEN Nothing ELSE [row EXCEPT !.active = FALSE]

\* Mutant: a new declaration keeps the time of the old one.
UpsertedKeepsTime(w) ==
    [cron |-> w.cron, next |-> IF table[w.id] = Nothing THEN w.next ELSE table[w.id].next,
     active |-> TRUE, policy |-> "skip",
     rev |-> IF table[w.id] = Nothing THEN 1 ELSE table[w.id].rev + 1]

\* an insert, or an update that makes the row active again; the executor
\* knows one policy
Upserted(w) ==
    [cron |-> w.cron, next |-> w.next, active |-> TRUE, policy |-> "skip",
     rev |-> IF table[w.id] = Nothing THEN 1 ELSE table[w.id].rev + 1]

\* how often a run was claimed to be dispatched, one lost in a crash left out
Claims(r) == dispatched[r] + (IF job = r THEN 1 ELSE 0)

\* the time a declaration writes, as a run
RunOf(w) == [id |-> w.id, planned |-> w.next]

\* UpsertScheduledJob, CancelScheduledJob: whatever the row has become since;
\* the key of an effect of an earlier session is no longer looked at
WriteRow ==
    \E w \in writing :
       /\ writing' = writing \ {w}
       /\ executed' = IF w.live THEN executed \cup {KeyOf(w)} ELSE executed
       /\ \/ /\ w.kind = "cancel"
             /\ table' = [table EXCEPT ![w.id] = Cancelled(@)]
             /\ UNCHANGED <<rewound, raced>>
          \/ /\ w.kind = "schedule"
             /\ table' = [table EXCEPT ![w.id] = Upserted(w)]
             /\ rewound' = [rewound EXCEPT ![RunOf(w)] = IF Claims(RunOf(w)) > 0 THEN @ + 1 ELSE @]
             /\ raced' = raced \ {w.id}
       /\ UNCHANGED <<now, inbox, loopVars, dispatched, effects, crashes>>

\* the database is busy too long: an error, and the key stays free
WriteRowFails ==
    /\ \E w \in writing : writing' = writing \ {w}
    /\ UNCHANGED <<now, table, inbox, executed, loopVars, dispatched, rewound, raced, effects,
                   crashes>>

\* the session is rebuilt: a new record with no keys; the old receive loop is
\* waited for two seconds and left to finish its write
Rebuild ==
    /\ stage # "down" /\ (executed # {} \/ \E w \in writing : w.live)
    /\ executed' = {} /\ inbox' = <<>>
    /\ writing' = {[w EXCEPT !.live = FALSE] : w \in writing}
    /\ UNCHANGED <<now, table, loopVars, dispatched, rewound, raced, effects, crashes>>

(***************************************************************************)
(* The minute loop                                                         *)
(***************************************************************************)

\* minuteLoop: the minute it waited for has come; the last minute of the
\* bounded clock comes again and again
Wake ==
    /\ stage = "wait" /\ (now >= wake \/ now = MaxTime)
    /\ stage' = "scan" /\ passNow' = IF wake > MaxTime THEN MaxTime ELSE wake
    /\ UNCHANGED <<now, table, inbox, executed, writing, wake, due, job, dispatched, rewound, raced, effects,
                   crashes>>

\* ListScheduledJobsDue
Scan ==
    /\ stage = "scan"
    /\ due' = {[id |-> s, row |-> table[s]] :
                 s \in {t \in Schedules : /\ table[t] # Nothing /\ table[t].active
                                          /\ table[t].next <= passNow}}
    /\ stage' = "claim"
    /\ UNCHANGED <<now, table, inbox, executed, writing, wake, passNow, job, dispatched, rewound, raced, effects,
                   crashes>>

\* from one time of the expression to the next, until one is past the limit
Later(cron, limit) ==
    LET from[u \in Times] == IF u > limit THEN u
                             ELSE IF NextTime(cron, u) = Nothing THEN Nothing
                             ELSE from[NextTime(cron, u)]
    IN  from

Following(d) ==
    LET second == NextTime(d.row.cron, d.row.next)
    IN  IF second = Nothing THEN Nothing ELSE Later(d.row.cron, passNow)[second]

Earliest == {d \in due : \A o \in due : d.row.next <= o.row.next}

\* in time, or missed and to be made up for
Dispatches(d) == passNow - d.row.next <= Grace \/ d.row.policy = "run_once"

\* Mutant: a row without a next time is left as it is.
ExpireKeeps ==
    /\ stage = "claim"
    /\ \E d \in Earliest : Following(d) = Nothing /\ due' = due \ {d}
    /\ UNCHANGED <<now, table, inbox, executed, writing, stage, wake, passNow, job, dispatched, rewound,
                   raced, effects, crashes>>

\* no time left within the scan: cancelled, and the due run is dropped
Expire ==
    /\ stage = "claim"
    /\ \E d \in Earliest :
          /\ Following(d) = Nothing
          /\ due' = due \ {d}
          /\ table' = [table EXCEPT ![d.id] = Cancelled(@)]
    /\ UNCHANGED <<now, inbox, executed, writing, stage, wake, passNow, job, dispatched, rewound, raced, effects,
                   crashes>>

\* Mutant: the run is dispatched before the row is advanced, by the next pass.
ClaimLate ==
    /\ stage = "claim"
    /\ \E d \in Earliest :
          /\ Following(d) # Nothing
          /\ due' = due \ {d}
          /\ IF Dispatches(d)
             THEN /\ job' = [id |-> d.id, planned |-> d.row.next] /\ stage' = "dispatch"
                  /\ table' = table
             ELSE UNCHANGED <<job, stage>> /\ table' = [table EXCEPT ![d.id].next = Following(d)]
    /\ UNCHANGED <<now, inbox, executed, writing, wake, passNow, dispatched, rewound, raced, effects, crashes>>

\* ClaimScheduledJobRun: whatever the row has become
Claim ==
    /\ stage = "claim"
    /\ \E d \in Earliest :
          /\ Following(d) # Nothing
          /\ due' = due \ {d}
          /\ table' = [table EXCEPT ![d.id].next = Following(d)]
          /\ raced' = IF table[d.id].rev = d.row.rev THEN raced ELSE raced \cup {d.id}
          /\ IF Dispatches(d)
             THEN job' = [id |-> d.id, planned |-> d.row.next] /\ stage' = "dispatch"
             ELSE UNCHANGED <<job, stage>>
    /\ UNCHANGED <<now, inbox, executed, writing, wake, passNow, dispatched, rewound, effects, crashes>>

\* RunJob, whatever it answers; it may take its time
Dispatch ==
    /\ stage = "dispatch"
    /\ dispatched' = [dispatched EXCEPT ![job] = @ + 1]
    /\ job' = Nothing /\ stage' = "claim"
    /\ UNCHANGED <<now, table, inbox, executed, writing, wake, passNow, due, rewound, raced, effects, crashes>>

PassDone ==
    /\ stage = "claim" /\ due = {}
    /\ stage' = "wait" /\ wake' = now + 1
    /\ UNCHANGED <<now, table, inbox, executed, writing, passNow, due, job, dispatched, rewound, raced, effects,
                   crashes>>

(***************************************************************************)
(* The Server stops anywhere and starts again: only the table is left, and *)
(* what is due is scanned at once.                                         *)
(***************************************************************************)

ServerStops ==
    /\ stage # "down" /\ crashes < MaxCrashes
    /\ crashes' = crashes + 1
    /\ stage' = "down" /\ due' = {} /\ job' = Nothing /\ inbox' = <<>> /\ executed' = {}
    /\ writing' = {} /\ wake' = 0 /\ passNow' = 0
    /\ UNCHANGED <<now, table, dispatched, rewound, raced, effects>>

Start ==
    /\ stage = "down"
    /\ stage' = "scan" /\ passNow' = now
    /\ UNCHANGED <<now, table, inbox, executed, writing, wake, due, job, dispatched, rewound, raced, effects,
                   crashes>>

Loop == Wake \/ Scan \/ Expire \/ Claim \/ Dispatch \/ PassDone

Receive == Duplicate \/ Reject \/ Execute \/ WriteRow \/ WriteRowFails

JobsNext == Tick \/ Emit \/ Receive \/ Rebuild \/ Loop \/ ServerStops \/ Start

JobsSpec == JobsInit /\ [][JobsNext]_jobsVars

\* the clock, the goroutines, also those left to finish, and whoever restarts the Server go on
JobsFairSpec ==
    /\ JobsSpec
    /\ WF_jobsVars(Tick) /\ WF_jobsVars(Receive) /\ WF_jobsVars(Loop) /\ WF_jobsVars(Start)

(***************************************************************************)
(* Properties                                                              *)
(***************************************************************************)

Effect ==
    [kind : {"schedule"}, id : Schedules, cron : Crons]
    \cup [kind : {"cancel"}, id : Schedules, cron : {Nothing}]

\* an effect at the store: what it is to write
Pending ==
    [kind : {"schedule"}, id : Schedules, cron : Crons, live : BOOLEAN, next : Times, num : Int]
    \cup [kind : {"cancel"}, id : Schedules, cron : {Nothing}, live : BOOLEAN, next : {Nothing},
           num : Int]

JobsTypeOK ==
    /\ now \in 0..MaxTime
    /\ table \in [Schedules -> JobRow \cup {Nothing}]
    /\ inbox \in Seq(Effect)
    /\ executed \subseteq {"schedule", "cancel"} \X Schedules
    /\ writing \subseteq Pending
    /\ stage \in {"down", "wait", "scan", "claim", "dispatch"}
    /\ wake \in 0..(MaxTime + 1) /\ passNow \in 0..MaxTime
    /\ due \subseteq [id : Schedules, row : JobRow]
    /\ job \in Run \cup {Nothing} /\ (job # Nothing <=> stage = "dispatch")
    /\ dispatched \in [Run -> Nat] /\ rewound \in [Run -> Nat]
    /\ raced \subseteq Schedules
    /\ effects \in 0..MaxEffects /\ crashes \in 0..MaxCrashes

(* internal/server/apphost.go:778-781, claim before dispatch: a planned run  *)
(* is dispatched once, and once more for each declaration that computed its  *)
(* time before and was written after the run was claimed. Crashes, restarts, *)
(* passes that hold an older row, rebuilt sessions and declarations written  *)
(* late at any other time repeat nothing.                                    *)
OnceUnlessWrittenBack == \A r \in Run : dispatched[r] <= 1 + rewound[r]

(* internal/server/apphost.go:782, "the rhythm is kept": the next time of an *)
(* active row is one its own expression has, unless a pass claimed the row   *)
(* over a declaration it did not see.                                        *)
OnSchedule ==
    \A s \in Schedules \ raced :
        table[s] # Nothing /\ table[s].active => Matches(table[s].cron, table[s].next)

(* internal/server/apphost.go, runScheduledJobs: what is due does not stay   *)
(* due; it is claimed, dropped or cancelled.                                 *)
IsDue(s) == table[s] # Nothing /\ table[s].active /\ table[s].next <= now

NothingStaysDue == \A s \in Schedules : IsDue(s) ~> ~IsDue(s)

-----------------------------------------------------------------------------
(* What the proofs carry from step to step.                                 *)

(* What is on its way to the store has a time of its expression.            *)
PendingOK ==
    \A w \in writing : w.kind = "schedule" => Matches(w.cron, w.next)

(* What a pass holds was in the table when it scanned, once.                *)
ScanOK ==
    /\ passNow <= now
    /\ stage \notin {"claim", "dispatch"} => due = {}
    /\ \A d \in due :
          /\ d.row.next <= passNow
          /\ table[d.id] # Nothing /\ d.row.rev <= table[d.id].rev
          /\ d.row.rev = table[d.id].rev => d.row.cron = table[d.id].cron
          /\ \A e \in due : e.id = d.id => e = d

(* A run that was claimed is not after the pass there is or comes; and when *)
(* it was claimed as often as it may be, its time is neither in the table   *)
(* nor in what the pass holds.                                              *)
RunsOK ==
    \A r \in Run :
       /\ Claims(r) <= 1 + rewound[r]
       /\ Claims(r) > 0 =>
             /\ r.planned <= now
             /\ stage = "wait" => r.planned <= wake
             /\ stage \in {"scan", "claim", "dispatch"} => r.planned <= passNow
       /\ Claims(r) = 1 + rewound[r] =>
             /\ table[r.id] # Nothing => table[r.id].next # r.planned
             /\ \A d \in due : d.id = r.id => d.row.next # r.planned

JobsInv == PendingOK /\ ScanOK /\ RunsOK
=============================================================================
