--------------------------- MODULE AppHost_proofs ---------------------------
(***************************************************************************)
(* Theorems about AppHost, for every set of instances and records, every   *)
(* set of actuators and every bound, about the bindings of Binding, and    *)
(* about the scheduled jobs of AppJobs: every set of schedules and         *)
(* expressions, and every scan.                                            *)
(***************************************************************************)
EXTENDS MCAppHost, AppJobs, WellFoundedInduction, TLAPS

IInv == TypeOK /\ HostInv

(* A record of an instance, as TypeOK has it.                               *)
Record == [inst : Insts \cup {None}, row : Row \cup {None},
           state : {"free", "created", "running", "failed", "stopping", "stopped"},
           ctx : {"none", "open", "done"}, workers : 0..2, lost : BOOLEAN]

-----------------------------------------------------------------------------
(* Records *)

(* A record that is not in use is one. *)
LEMMA FreeRecord == Free \in Record
BY DEF Free, Record

(* The end of a process changes nothing of a record but that it is lost. *)
LEMMA LostOnly ==
    ASSUME rec \in [Recs -> Record], rec' = SessionsLost
    PROVE  /\ rec' \in [Recs -> Record]
           /\ \A r \in Recs : /\ rec'[r].inst = rec[r].inst /\ rec'[r].row = rec[r].row
                              /\ rec'[r].ctx = rec[r].ctx /\ rec'[r].state = rec[r].state
                              /\ rec'[r].workers = rec[r].workers
<1>1. \A r \in Recs : rec'[r] = [rec[r] EXCEPT !.lost = rec[r].state # "free"]
  BY DEF SessionsLost
<1>2. DOMAIN rec' = Recs /\ rec' = [r \in Recs |-> rec'[r]]
  BY DEF SessionsLost
<1>3. ASSUME NEW r \in Recs
      PROVE  /\ rec'[r] \in Record
             /\ rec'[r].inst = rec[r].inst /\ rec'[r].row = rec[r].row
             /\ rec'[r].ctx = rec[r].ctx /\ rec'[r].state = rec[r].state
             /\ rec'[r].workers = rec[r].workers
  <2>1. PICK x \in Record : x = rec[r]
    OBVIOUS
  <2>2. PICK b \in BOOLEAN : b = (rec[r].state # "free")
    OBVIOUS
  <2>3. /\ [x EXCEPT !.lost = b] \in Record
        /\ [x EXCEPT !.lost = b].inst = x.inst /\ [x EXCEPT !.lost = b].row = x.row
        /\ [x EXCEPT !.lost = b].ctx = x.ctx /\ [x EXCEPT !.lost = b].state = x.state
        /\ [x EXCEPT !.lost = b].workers = x.workers
    BY DEF Record
  <2> QED
    BY <1>1, <2>1, <2>2, <2>3
<1> QED
  BY <1>2, <1>3

(* What a step of the pass or of a goroutine writes into a record. *)
LEMMA Rewritten ==
    ASSUME NEW x \in Record
    PROVE  /\ [x EXCEPT !.state = "running"] \in Record
           /\ [x EXCEPT !.ctx = "done", !.state = "stopping"] \in Record
           /\ [x EXCEPT !.ctx = "open", !.workers = 2] \in Record
<1>1. /\ [x EXCEPT !.state = "running"] \in Record
      /\ [x EXCEPT !.ctx = "done", !.state = "stopping"] \in Record
  BY DEF Record
<1>2. [x EXCEPT !.ctx = "open", !.workers = 2] \in Record
  <2>1. ASSUME NEW c \in {"none", "open", "done"}, NEW n \in 0..2
        PROVE  [x EXCEPT !.ctx = c, !.workers = n] \in Record
    BY DEF Record
  <2> QED
    BY <2>1
<1> QED
  BY <1>1, <1>2

-----------------------------------------------------------------------------
(* Typing *)

(* Nothing runs at first. *)
LEMMA TypeInit == Init => TypeOK
<1> SUFFICES ASSUME Init PROVE TypeOK
  OBVIOUS
<1>1. rec \in [Recs -> Record]
  BY FreeRecord DEF Init
<1>2. up \in BOOLEAN /\ leaving \in BOOLEAN
  BY DEF Init
<1>4. exits \in 0..(MaxRestarts + 1)
  BY RuntimeAssumption DEF Init
<1>3. faults \in 0..MaxFaults /\ writes \in 0..MaxWrites
  BY AppHostAssumption, RuntimeAssumption DEF Init
<1> QED
  BY <1>1, <1>2, <1>3, <1>4 DEF Init, TypeOK, Record

(* Every step keeps the types. *)
LEMMA TypeStep == ASSUME TypeOK, PassOK, [Next]_vars PROVE TypeOK'
<1>1. rec \in [Recs -> Record]
  BY DEF TypeOK, Record
<1>2. TypeOK' <=> /\ rec' \in [Recs -> Record] /\ TypeOK'
  BY DEF TypeOK, Record
<1>. USE AppHostAssumption, RuntimeAssumption DEF runtimeVars, processVars, hostVars, passVars
<1>3. ASSUME NEW i \in Insts, Write(i) PROVE TypeOK'
  BY <1>3 DEF Write, TypeOK, Row
<1>4. CASE Process
  <2>1. rec' \in [Recs -> Record]
    BY <1>1, <1>4, LostOnly DEF Process, Crash, Leave, Launch, Relaunch, Exits
  <2>2. exits' \in 0..(MaxRestarts + 1) /\ faults' \in 0..MaxFaults
    BY <1>4 DEF Process, Crash, Leave, Launch, Relaunch, Exits, TypeOK
  <2>4. up' \in BOOLEAN /\ leaving' \in BOOLEAN
    BY <1>4, Zenon DEF Process, Crash, Leave, Launch, Relaunch, Exits, TypeOK
  <2>3. UNCHANGED <<instances, want, defs, hostVars, passVars, writes>>
    BY <1>4 DEF Process, Launch
  <2> QED
    BY <2>1, <2>2, <2>3, <2>4 DEF TypeOK, Record
<1>5. ASSUME NEW r \in Recs, Worker(r) PROVE TypeOK'
  <2>1. rec' \in [Recs -> Record]
    BY <1>1, <1>5, FreeRecord DEF Worker, WorkerFails, WorkerEnds, Collect, Record
  <2>2. UNCHANGED <<instances, processVars, faults, want, defs, hostVars, passVars, writes>>
    BY <1>5 DEF Worker, WorkerFails, WorkerEnds, Collect
  <2> QED
    BY <2>1, <2>2 DEF TypeOK, Record
<1>6. CASE List
  BY <1>6 DEF List, TypeOK
<1>7. CASE Apply
  <2>1. rec' \in [Recs -> Record]
    BY <1>1, <1>7, LostOnly DEF Apply
  <2>2. up' \in BOOLEAN /\ leaving' \in BOOLEAN
    BY <1>7, Zenon DEF Apply, TypeOK
  <2>6. exits' \in 0..(MaxRestarts + 1)
    BY <1>7 DEF Apply, TypeOK
  <2>3. faults' \in 0..MaxFaults
    BY <1>7 DEF Apply, TypeOK
  <2>4. applied' \subseteq Insts /\ defs' \subseteq Insts /\ pc' = "choose"
    BY <1>7 DEF Apply, TypeOK, Enabled
  <2>5. UNCHANGED <<instances, want, hostVars, rows, toStop, toStart, cur, writes>>
    BY <1>7 DEF Apply
  <2> QED
    BY <2>1, <2>2, <2>3, <2>4, <2>5, <2>6 DEF TypeOK, Record
<1>8. CASE Choose
  BY <1>8 DEF Choose, TypeOK
<1>9. CASE PassEnds
  BY <1>9 DEF PassEnds, TypeOK
<1>10. ASSUME NEW i \in Insts, StopBegins(i) PROVE TypeOK'
  <2>1. rec' \in [Recs -> Record]
    BY <1>1, <1>10 DEF StopBegins, Known, AskShutdown, Cancel, InState, Record, TypeOK
  <2>2. leaving' \in BOOLEAN
    BY <1>10 DEF StopBegins, AskShutdown, Cancel, TypeOK
  <2>3. /\ pc' \in {"work", "asked", "detached"} /\ cur' \in Insts \cup {None}
        /\ running' \in [Insts -> Row \cup {None}]
        /\ failed' \subseteq Insts /\ toStop' \subseteq Insts
    BY <1>10 DEF StopBegins, TypeOK
  <2>4. UNCHANGED <<instances, up, exits, faults, want, defs, rows, applied, toStart, writes>>
    BY <1>10 DEF StopBegins
  <2> QED
    BY <2>1, <2>2, <2>3, <2>4 DEF TypeOK, Record
<1>11. ASSUME NEW i \in Insts, StartRefused(i) PROVE TypeOK'
  BY <1>11 DEF StartRefused, Fails, TypeOK
<1>12. ASSUME NEW i \in Insts, StartBegins(i) PROVE TypeOK'
  <2>1. rec' \in [Recs -> Record] /\ instances' \in [Insts -> Recs \cup {None}]
    <3>1. rows[i] \in Row \cup {None}
      BY DEF TypeOK
    <3>2. ASSUME NEW x \in Record
          PROVE  [x EXCEPT !.inst = i, !.row = rows[i], !.state = "created"] \in Record
      BY <3>1 DEF Record
    <3>3. [Free EXCEPT !.inst = i, !.row = rows[i], !.state = "created"] \in Record
      BY <3>2, FreeRecord
    <3> QED
      BY <1>1, <1>12, <3>3 DEF StartBegins, Register, TypeOK
  <2>2. /\ pc' = "opening" /\ cur' = i
        /\ UNCHANGED <<processVars, faults, want, defs, hostVars, rows, applied, toStop, toStart,
                       writes>>
    BY <1>12 DEF StartBegins
  <2> QED
    BY <2>1, <2>2 DEF TypeOK, Record
<1>13. CASE StopCancels
  <2>2. instances[cur] \in Recs
    BY <1>13 DEF StopCancels, PassOK, TypeOK, Quiet, Known
  <2>3. rec[instances[cur]] \in Record
    BY <1>1, <2>2
  <2>4. [rec[instances[cur]] EXCEPT !.ctx = "done", !.state = "stopping"] \in Record
    BY <2>3, Rewritten
  <2>5. rec' = [rec EXCEPT ![instances[cur]] = [rec[instances[cur]] EXCEPT !.ctx = "done", !.state = "stopping"]]
    BY <1>13, <2>2 DEF StopCancels, Cancel
  <2>1. rec' \in [Recs -> Record]
    BY <1>1, <2>2, <2>4, <2>5
  <2> QED
    BY <1>13, <2>1 DEF StopCancels, TypeOK, Record
<1>14. CASE StopEnds
  <2>1. rec' \in [Recs -> Record] /\ instances' \in [Insts -> Recs \cup {None}]
    BY <1>1, <1>14 DEF StopEnds, Finish, Overdue, FinishAnyway, InState, TypeOK, Record
  <2>2. faults' \in 0..MaxFaults
    BY <1>14 DEF StopEnds, Finish, Overdue, FinishAnyway, TypeOK
  <2> QED
    BY <1>14, <2>1, <2>2 DEF StopEnds, TypeOK, Record
<1>15. CASE StartFails
  <2>1. rec' \in [Recs -> Record] /\ instances' \in [Insts -> Recs \cup {None}]
    BY <1>1, <1>15, FreeRecord DEF StartFails, RollBack, TypeOK
  <2>2. cur \in Insts
    BY <1>15 DEF StartFails, PassOK, TypeOK, Quiet
  <2> QED
    BY <1>15, <2>1, <2>2 DEF StartFails, Fails, TypeOK, Record
<1>16. CASE StartOpens
  <2>2. instances[cur] \in Recs
    BY <1>16 DEF StartOpens, PassOK, TypeOK, Quiet, Known
  <2>3. rec[instances[cur]] \in Record
    BY <1>1, <2>2
  <2>4. [rec[instances[cur]] EXCEPT !.ctx = "open", !.workers = 2] \in Record
    BY <2>3, Rewritten
  <2>5. rec' = [rec EXCEPT ![instances[cur]] = [rec[instances[cur]] EXCEPT !.ctx = "open", !.workers = 2]]
    BY <1>16, <2>2 DEF StartOpens, OpenStream
  <2>1. rec' \in [Recs -> Record]
    BY <1>1, <2>2, <2>4, <2>5
  <2> QED
    BY <1>16, <2>1 DEF StartOpens, TypeOK, Record
<1>17. CASE StartRuns
  <2>2. instances[cur] \in Recs
    BY <1>17 DEF StartRuns, PassOK, TypeOK, Quiet, Known
  <2>3. rec[instances[cur]] \in Record
    BY <1>1, <2>2
  <2>4. [rec[instances[cur]] EXCEPT !.state = "running"] \in Record
    BY <2>3, Rewritten
  <2>5. rec' = [rec EXCEPT ![instances[cur]] = [rec[instances[cur]] EXCEPT !.state = "running"]]
    BY <1>17, <2>2 DEF StartRuns, MarkRunning, InState
  <2>1. rec' \in [Recs -> Record]
    BY <1>1, <2>2, <2>4, <2>5
  <2> QED
    BY <1>17, <2>1 DEF StartRuns, TypeOK, Record
<1>18. CASE StartEnds
  BY <1>18 DEF StartEnds, TypeOK
<1>19. CASE UNCHANGED vars
  BY <1>19 DEF vars, TypeOK
<1> QED
  BY <1>3, <1>4, <1>5, <1>6, <1>7, <1>8, <1>9, <1>10, <1>11, <1>12, <1>13, <1>14, <1>15,
     <1>16, <1>17, <1>18, <1>19 DEF Next, Reconcile

-----------------------------------------------------------------------------
(* What the steps leave of the records *)

(* The fields of a record that the invariants are about. *)
SameSession(r) == /\ rec'[r].inst = rec[r].inst /\ rec'[r].row = rec[r].row
                  /\ rec'[r].ctx = rec[r].ctx

(* The session may have ended. *)
NoNewer(r) == /\ rec'[r].inst = rec[r].inst /\ rec'[r].row = rec[r].row
              /\ rec'[r].ctx \in {rec[r].ctx, "done"}

(* The process takes nothing of a session but its connection. *)
LEMMA ProcessKeeps ==
    ASSUME TypeOK, Process
    PROVE  /\ \A r \in Recs : SameSession(r)
           /\ UNCHANGED <<instances, want, defs, hostVars, passVars, writes>>
<1>1. rec \in [Recs -> Record]
  BY DEF TypeOK, Record
<1>2. rec' = rec \/ rec' = SessionsLost
  BY DEF Process, Crash, Leave, Launch, Relaunch, Exits
<1>3. \A r \in Recs : SameSession(r)
  BY <1>1, <1>2, LostOnly DEF SameSession
<1> QED
  BY <1>3 DEF Process, Launch

(* A goroutine may end its own session, and a record nothing refers to is   *)
(* used again.                                                              *)
LEMMA WorkerKeeps ==
    ASSUME TypeOK, NEW r \in Recs, Worker(r)
    PROVE  /\ \A s \in Recs :
                 NoNewer(s) \/ (rec'[s].ctx = "none" /\ \A i \in Insts : instances[i] # s)
           /\ UNCHANGED <<instances, want, defs, hostVars, passVars, writes>>
<1>1. rec \in [Recs -> Record]
  BY DEF TypeOK, Record
<1>2. CASE WorkerFails(r)
  BY <1>1, <1>2 DEF WorkerFails, Worker, NoNewer, Record
<1>3. CASE WorkerEnds(r)
  BY <1>1, <1>3 DEF WorkerEnds, Worker, NoNewer, Record
<1>4. CASE Collect(r)
  BY <1>1, <1>4 DEF Collect, Worker, NoNewer, Record, Free
<1> QED
  BY <1>2, <1>3, <1>4 DEF Worker

(* Retiring the process is an exit of it. *)
LEMMA ApplyKeeps ==
    ASSUME TypeOK, Apply
    PROVE  /\ \A r \in Recs : SameSession(r)
           /\ UNCHANGED <<instances, want, hostVars, rows, toStop, toStart, cur, writes>>
<1>1. rec \in [Recs -> Record]
  BY DEF TypeOK, Record
<1>2. rec' = rec \/ rec' = SessionsLost
  BY DEF Apply
<1> QED
  BY <1>1, <1>2, LostOnly DEF SameSession, Apply

(* The steps of a stop end the session of the instance that is stopped. *)
LEMMA StopBeginsKeeps ==
    ASSUME TypeOK, RecordsOK, NEW i \in Insts, StopBegins(i)
    PROVE  /\ \A r \in Recs : IF pc' = "detached" /\ r = instances[i]
                              THEN NoNewer(r) /\ rec'[r].ctx = "done" ELSE SameSession(r)
           /\ Known(i) => cur' = i /\ pc' = IF Siblings(i) = {} THEN "asked" ELSE "detached"
           /\ ~Known(i) => cur' = cur /\ pc' = "work"
           /\ running' = [running EXCEPT ![i] = None] /\ toStop' = toStop \ {i}
           /\ UNCHANGED <<instances, rows, toStart>>
<1>1. rec \in [Recs -> Record] /\ instances \in [Insts -> Recs \cup {None}]
  BY DEF TypeOK, Record
<1>2. CASE ~Known(i)
  BY <1>1, <1>2 DEF StopBegins, SameSession
<1>3. CASE Known(i) /\ Siblings(i) = {}
  <2>1. rec' = [rec EXCEPT ![instances[i]].state = "stopping"] /\ pc' = "asked"
    BY <1>3 DEF StopBegins, AskShutdown, InState
  <2>2. \A r \in Recs : SameSession(r)
    BY <1>1, <2>1 DEF SameSession, Record
  <2> QED
    BY <1>3, <2>1, <2>2 DEF StopBegins
<1>4. CASE Known(i) /\ Siblings(i) # {}
  <2>1. /\ rec' = [rec EXCEPT ![instances[i]].ctx = "done", ![instances[i]].state = "stopping"]
        /\ pc' = "detached"
    BY <1>4 DEF StopBegins, Cancel
  <2>2. \A r \in Recs : IF r = instances[i] THEN NoNewer(r) /\ rec'[r].ctx = "done" ELSE SameSession(r)
    BY <1>1, <2>1 DEF NoNewer, SameSession, Record
  <2> QED
    BY <1>4, <2>1, <2>2 DEF StopBegins
<1> QED
  BY <1>2, <1>3, <1>4

(* What the pass does to the record of the instance it is at. *)
LEMMA CurKeeps ==
    ASSUME TypeOK, PassOK, cur # None
    PROVE  /\ cur \in Insts /\ instances[cur] \in Recs
           /\ StopCancels => \A r \in Recs :
                 IF r = instances[cur] THEN NoNewer(r) /\ rec'[r].ctx = "done" ELSE SameSession(r)
           /\ StartOpens => \A r \in Recs :
                 IF r = instances[cur] THEN rec'[r].inst = rec[r].inst /\ rec'[r].row = rec[r].row
                                       ELSE SameSession(r)
           /\ StartRuns => \A r \in Recs : SameSession(r)
           /\ StopEnds =>
                 /\ \A r \in Recs : SameSession(r)
                 /\ instances' \in {instances, [instances EXCEPT ![cur] = None]}
           /\ StartFails =>
                 /\ \A r \in Recs : IF r = instances[cur] THEN rec'[r].ctx = "none" ELSE SameSession(r)
                 /\ instances' = [instances EXCEPT ![cur] = None]
<1>1. rec \in [Recs -> Record] /\ instances \in [Insts -> Recs \cup {None}]
  BY DEF TypeOK, Record
<1>2. cur \in Insts /\ instances[cur] \in Recs
  BY DEF TypeOK, PassOK, Known
<1>3. ASSUME StopCancels, NEW r \in Recs
      PROVE  IF r = instances[cur] THEN NoNewer(r) /\ rec'[r].ctx = "done" ELSE SameSession(r)
  BY <1>1, <1>2, <1>3 DEF StopCancels, Cancel, NoNewer, SameSession, Record
<1>4. ASSUME StartOpens, NEW r \in Recs
      PROVE  IF r = instances[cur] THEN rec'[r].inst = rec[r].inst /\ rec'[r].row = rec[r].row
                                   ELSE SameSession(r)
  BY <1>1, <1>2, <1>4 DEF StartOpens, OpenStream, SameSession, Record
<1>5. ASSUME StartRuns, NEW r \in Recs PROVE SameSession(r)
  BY <1>1, <1>2, <1>5 DEF StartRuns, MarkRunning, InState, SameSession, Record
<1>6. ASSUME StopEnds PROVE \A r \in Recs : SameSession(r)
  <2>1. rec' = rec \/ rec' = [rec EXCEPT ![instances[cur]].state = "stopped"]
    BY <1>6 DEF StopEnds, Finish, Overdue, FinishAnyway, InState
  <2> QED
    BY <1>1, <1>2, <2>1 DEF SameSession, Record
<1>7. ASSUME StopEnds PROVE instances' \in {instances, [instances EXCEPT ![cur] = None]}
  BY <1>7 DEF StopEnds, Finish, Overdue, FinishAnyway
<1>8. ASSUME StartFails
      PROVE  /\ \A r \in Recs : IF r = instances[cur] THEN rec'[r].ctx = "none" ELSE SameSession(r)
             /\ instances' = [instances EXCEPT ![cur] = None]
  BY <1>1, <1>2, <1>8 DEF StartFails, RollBack, Free, SameSession
<1> QED
  BY <1>2, <1>3, <1>4, <1>5, <1>6, <1>7, <1>8

(* A record is entered for an instance that had none. *)
LEMMA StartBeginsKeeps ==
    ASSUME TypeOK, NEW i \in Insts, StartBegins(i)
    PROVE  \E r \in Recs :
              /\ instances[i] = None /\ instances' = [instances EXCEPT ![i] = r]
              /\ rec[r].ctx = "none" /\ rec[r].inst = None
              /\ rec'[r].inst = i /\ rec'[r].row = rows[i] /\ rec'[r].ctx = "none"
              /\ \A s \in Recs \ {r} : SameSession(s)
<1>1. rec \in [Recs -> Record] /\ instances \in [Insts -> Recs \cup {None}]
  BY DEF TypeOK, Record
<1>2. PICK r \in Recs : Register(i, rows[i], r)
  BY DEF StartBegins
<1>3. rec'[r] = [Free EXCEPT !.inst = i, !.row = rows[i], !.state = "created"]
  BY <1>1, <1>2 DEF Register
<1>4. ASSUME NEW x \in Record
      PROVE  LET y == [x EXCEPT !.inst = i, !.row = rows[i], !.state = "created"]
             IN  y.inst = i /\ y.row = rows[i] /\ y.ctx = x.ctx
  BY DEF Record
<1>5. rec'[r].inst = i /\ rec'[r].row = rows[i] /\ rec'[r].ctx = Free.ctx
  BY <1>3, <1>4, FreeRecord
<1>6. instances[i] = None /\ instances' = [instances EXCEPT ![i] = r] /\ rec[r] = Free
  BY <1>2 DEF Register, Known
<1>7. \A s \in Recs \ {r} : SameSession(s)
  BY <1>1, <1>2 DEF Register, SameSession
<1>8. Free.ctx = "none" /\ Free.inst = None
  BY DEF Free
<1> QED
  BY <1>5, <1>6, <1>7, <1>8

-----------------------------------------------------------------------------
(* The invariant *)

LEMMA InvInit == Init => HostInv
<1> SUFFICES ASSUME Init PROVE HostInv
  OBVIOUS
<1>1. \A r \in Recs : rec[r].ctx = "none"
  BY DEF Init, Free
<1> QED
  BY <1>1 DEF Init, HostInv, RecordsOK, PassOK, OwnersOK, Known, Open, Quiet, Starting

(* The steps that touch neither the records nor what they are known by. *)
Aside ==
    \/ \E i \in Insts : Write(i) \/ StartRefused(i)
    \/ List \/ Choose \/ PassEnds \/ StartEnds \/ UNCHANGED vars

LEMMA AsideKeeps == Aside => UNCHANGED <<rec, instances>>
BY DEF Aside, Write, StartRefused, List, Choose, PassEnds, StartEnds, vars, runtimeVars

LEMMA NextCases ==
    ASSUME [Next]_vars
    PROVE  \/ Aside \/ Process \/ Apply
           \/ \E r \in Recs : Worker(r)
           \/ \E i \in Insts : StopBegins(i) \/ StartBegins(i)
           \/ StopCancels \/ StopEnds \/ StartFails \/ StartOpens \/ StartRuns
BY DEF Next, Reconcile, Aside

LEMMA AtCur ==
    ASSUME PassOK, StopCancels \/ StopEnds \/ StartFails \/ StartOpens \/ StartRuns \/ StartEnds
    PROVE  cur # None
BY DEF PassOK, Quiet, StopCancels, StopEnds, StartFails, StartOpens, StartRuns, StartEnds

LEMMA RecordsStep == ASSUME IInv, [Next]_vars PROVE RecordsOK'
<1> USE DEF RecordsOK, Open, Known
<1>1. /\ TypeOK /\ RecordsOK /\ PassOK
      /\ instances \in [Insts -> Recs \cup {None}] /\ None \notin Insts \cup Recs
  BY RuntimeAssumption DEF IInv, HostInv, TypeOK
<1>2. CASE Aside
  BY <1>1, <1>2, AsideKeeps
<1>3. CASE Process
  BY <1>1, <1>3, ProcessKeeps DEF SameSession
<1>4. CASE Apply
  BY <1>1, <1>4, ApplyKeeps DEF SameSession
<1>5. ASSUME NEW r \in Recs, Worker(r) PROVE RecordsOK'
  BY <1>1, <1>5, WorkerKeeps DEF NoNewer
<1>6. ASSUME NEW i \in Insts, StopBegins(i) PROVE RecordsOK'
  BY <1>1, <1>6, StopBeginsKeeps DEF SameSession, NoNewer
<1>7. ASSUME NEW i \in Insts, StartBegins(i) PROVE RecordsOK'
  BY <1>1, <1>7, StartBeginsKeeps DEF SameSession
<1>8. CASE StopCancels
  BY <1>1, <1>8, AtCur, CurKeeps DEF StopCancels, SameSession, NoNewer
<1>9. CASE StopEnds
  <2>1. ~Open(instances[cur])
    BY <1>1, <1>9 DEF StopEnds, PassOK
  <2> QED
    BY <1>1, <1>9, <2>1, AtCur, CurKeeps DEF SameSession
<1>10. CASE StartFails
  BY <1>1, <1>10, AtCur, CurKeeps DEF SameSession
<1>11. CASE StartOpens
  BY <1>1, <1>11, AtCur, CurKeeps DEF StartOpens, SameSession
<1>12. CASE StartRuns
  BY <1>1, <1>12, AtCur, CurKeeps DEF StartRuns, SameSession
<1> QED
  BY <1>2, <1>3, <1>4, <1>5, <1>6, <1>7, <1>8, <1>9, <1>10, <1>11, <1>12, NextCases

(* The pass keeps what it works on. *)
LEMMA PassStep == ASSUME IInv, [Next]_vars PROVE PassOK'
<1> USE DEF PassOK, Open, Known, Quiet, Starting
<1>1. /\ TypeOK /\ RecordsOK /\ PassOK
      /\ instances \in [Insts -> Recs \cup {None}] /\ None \notin Insts \cup Recs
      /\ running \in [Insts -> Row \cup {None}] /\ cur \in Insts \cup {None}
      /\ toStop \subseteq Insts /\ toStart \subseteq Insts
  BY RuntimeAssumption DEF IInv, HostInv, TypeOK
<1>2. CASE Aside
  <2>1. ASSUME NEW i \in Insts, Write(i) PROVE PassOK'
    BY <1>1, <2>1 DEF Write, runtimeVars, processVars, hostVars, passVars
  <2>2. ASSUME NEW i \in Insts, StartRefused(i) PROVE PassOK'
    BY <1>1, <2>2 DEF StartRefused, Fails, runtimeVars, processVars, hostVars, passVars
  <2>3. CASE List
    BY <1>1, <2>3 DEF List, runtimeVars, processVars, hostVars, passVars
  <2>4. CASE Choose
    <3>1. \A i \in toStart' : rows[i] # None /\ (running[i] # None => i \in toStop')
      <4>1. \A i \in toStart' : i \in Insts /\ rows[i] # None
        BY <2>4 DEF Choose, IInv, TypeOK
      <4>2. \A i \in toStart' : running[i] # None => i \in toStop'
        BY <2>4, <4>1 DEF Choose
      <4> QED
        BY <4>1, <4>2
    <3> QED
      BY <1>1, <2>4, <3>1 DEF Choose, runtimeVars, processVars, hostVars, passVars
  <2>5. CASE PassEnds
    BY <1>1, <2>5 DEF PassEnds, runtimeVars, processVars, hostVars, passVars
  <2>6. CASE StartEnds
    <3>1. \A i \in toStart' : rows[i] # None /\ (running'[i] # None => i \in toStop)
      BY <1>1, <2>6 DEF StartEnds
    <3> QED
      BY <1>1, <2>6, <3>1 DEF StartEnds, runtimeVars, processVars, hostVars, passVars
  <2>7. CASE UNCHANGED vars
    BY <1>1, <2>7 DEF vars, runtimeVars, processVars, hostVars, passVars
  <2> QED
    BY <1>2, <2>1, <2>2, <2>3, <2>4, <2>5, <2>6, <2>7 DEF Aside
<1>3. CASE Process
  BY <1>1, <1>3, ProcessKeeps DEF SameSession, hostVars, passVars
<1>4. CASE Apply
  BY <1>1, <1>4, ApplyKeeps DEF SameSession, hostVars, Apply
<1>5. ASSUME NEW r \in Recs, Worker(r) PROVE PassOK'
  BY <1>1, <1>5, WorkerKeeps DEF NoNewer, hostVars, passVars
<1>6. ASSUME NEW i \in Insts, StopBegins(i) PROVE PassOK'
  <2>1. /\ running' = [running EXCEPT ![i] = None] /\ toStop' = toStop \ {i}
        /\ UNCHANGED <<instances, rows, toStart>> /\ pc = "work" /\ cur = None
    BY <1>1, <1>6, StopBeginsKeeps DEF StopBegins
  <2>2. \A j \in toStart' : rows'[j] # None /\ (running'[j] # None => j \in toStop')
    BY <1>1, <2>1
  <2>3. CASE ~Known(i)
    BY <1>1, <1>6, <2>1, <2>2, <2>3, StopBeginsKeeps
  <2>4. CASE Known(i)
    <3>1. cur' = i /\ pc' \in {"asked", "detached"} /\ instances[i] \in Recs
      BY <1>1, <1>6, <2>4, StopBeginsKeeps
    <3>2. pc' = "detached" => rec'[instances[i]].ctx = "done"
      BY <1>1, <1>6, <3>1, StopBeginsKeeps
    <3> QED
      BY <1>1, <2>1, <2>2, <2>4, <3>1, <3>2
  <2> QED
    BY <2>3, <2>4
<1>7. ASSUME NEW i \in Insts, StartBegins(i) PROVE PassOK'
  BY <1>1, <1>7, StartBeginsKeeps DEF SameSession, StartBegins, hostVars
<1>8. CASE StopCancels
  BY <1>1, <1>8, AtCur, CurKeeps DEF StopCancels, SameSession, NoNewer, hostVars
<1>9. CASE StopEnds
  BY <1>1, <1>9, AtCur, CurKeeps DEF SameSession, StopEnds, hostVars
<1>10. CASE StartFails
  BY <1>1, <1>10, AtCur, CurKeeps DEF SameSession, StartFails, Fails
<1>11. CASE StartOpens
  BY <1>1, <1>11, AtCur, CurKeeps DEF StartOpens, SameSession, hostVars
<1>12. CASE StartRuns
  BY <1>1, <1>12, AtCur, CurKeeps DEF StartRuns, SameSession, hostVars
<1> QED
  BY <1>2, <1>3, <1>4, <1>5, <1>6, <1>7, <1>8, <1>9, <1>10, <1>11, <1>12, NextCases

(* Two open sessions stay apart: the row a session is of is in h.running,   *)
(* or the instance of the session is the one the pass is at.                *)
LEMMA OwnersStep == ASSUME IInv, [Next]_vars PROVE OwnersOK'
<1> USE DEF OwnersOK, Open, Known, Quiet, Starting, DrivenApart
<1>1. /\ TypeOK /\ RecordsOK /\ PassOK /\ OwnersOK
      /\ instances \in [Insts -> Recs \cup {None}] /\ None \notin Insts \cup Recs
      /\ running \in [Insts -> Row \cup {None}] /\ cur \in Insts \cup {None}
      /\ toStop \subseteq Insts /\ toStart \subseteq Insts
  BY RuntimeAssumption DEF IInv, HostInv, TypeOK
<1>2. CASE Aside
  <2>1. ASSUME NEW i \in Insts, Write(i) PROVE OwnersOK'
    BY <1>1, <2>1 DEF Write, runtimeVars, processVars, hostVars, passVars
  <2>2. ASSUME NEW i \in Insts, StartRefused(i) PROVE OwnersOK'
    BY <1>1, <2>2 DEF StartRefused, Fails, runtimeVars, processVars, hostVars, passVars
  <2>3. CASE List
    BY <1>1, <2>3 DEF List, runtimeVars, processVars, hostVars, passVars
  <2>4. CASE Choose
    BY <1>1, <2>4 DEF Choose, runtimeVars, processVars, hostVars, passVars
  <2>5. CASE PassEnds
    BY <1>1, <2>5 DEF PassEnds, runtimeVars, processVars, hostVars, passVars
  <2>6. CASE StartEnds
    BY <1>1, <2>6 DEF StartEnds, RecordsOK, PassOK, runtimeVars, processVars, hostVars, passVars
  <2>7. CASE UNCHANGED vars
    BY <1>1, <2>7 DEF vars, runtimeVars, processVars, hostVars, passVars
  <2> QED
    BY <1>2, <2>1, <2>2, <2>3, <2>4, <2>5, <2>6, <2>7 DEF Aside
<1>3. CASE Process
  BY <1>1, <1>3, ProcessKeeps DEF SameSession, hostVars, passVars
<1>4. CASE Apply
  BY <1>1, <1>4, ApplyKeeps DEF SameSession, hostVars, Apply
<1>5. ASSUME NEW r \in Recs, Worker(r) PROVE OwnersOK'
  BY <1>1, <1>5, WorkerKeeps DEF NoNewer, hostVars, passVars
<1>6. ASSUME NEW i \in Insts, StopBegins(i) PROVE OwnersOK'
  <2>1. /\ running' = [running EXCEPT ![i] = None]
        /\ UNCHANGED <<instances, rows, toStart>> /\ pc = "work" /\ cur = None
    BY <1>1, <1>6, StopBeginsKeeps DEF StopBegins, PassOK
  <2>2. (\A j \in Insts : running[j] # None => DrivenApart(running[j].drives, j))'
    BY <1>1, <2>1
  <2>3. pc' \in {"work", "asked", "detached"}
    BY <1>1, <1>6, StopBeginsKeeps
  <2>4. ASSUME pc' = "asked", NEW j \in Insts PROVE running'[j] = None
    <3>1. Siblings(i) = {}
      BY <1>1, <1>6, <2>4, StopBeginsKeeps
    <3> QED
      BY <1>1, <2>1, <3>1 DEF Siblings
  <2>5. ASSUME NEW r \in Recs, Open(r)'
        PROVE  \/ rec'[r].row # None /\ running'[rec'[r].inst] = rec'[r].row
               \/ rec'[r].inst = cur' /\ pc' \in {"asked", "opened", "started"}
    <3>1. SameSession(r) /\ Open(r)
      BY <1>1, <1>6, <2>5, StopBeginsKeeps DEF SameSession
    <3>2. rec[r].inst \in Insts /\ instances[rec[r].inst] = r
      BY <1>1, <3>1 DEF RecordsOK
    <3>3. rec[r].row # None /\ running[rec[r].inst] = rec[r].row
      BY <1>1, <2>1, <3>1
    <3>4. CASE rec[r].inst # i
      BY <1>1, <2>1, <3>1, <3>2, <3>3, <3>4 DEF SameSession
    <3>5. CASE rec[r].inst = i
      <4>1. Known(i) /\ instances[i] = r
        BY <1>1, <3>2, <3>5
      <4>2. pc' = "asked" /\ cur' = i
        BY <1>1, <1>6, <2>5, <4>1, StopBeginsKeeps
      <4> QED
        BY <3>1, <3>5, <4>2 DEF SameSession
    <3> QED
      BY <3>4, <3>5
  <2> QED
    BY <2>2, <2>3, <2>4, <2>5
<1>7. ASSUME NEW i \in Insts, StartBegins(i) PROVE OwnersOK'
  BY <1>1, <1>7, StartBeginsKeeps DEF SameSession, StartBegins, Conflict, hostVars
<1>8. CASE StopCancels
  BY <1>1, <1>8, AtCur, CurKeeps DEF StopCancels, SameSession, NoNewer, hostVars, RecordsOK
<1>9. CASE StopEnds
  BY <1>1, <1>9, AtCur, CurKeeps DEF SameSession, StopEnds, hostVars
<1>10. CASE StartFails
  BY <1>1, <1>10, AtCur, CurKeeps DEF SameSession, StartFails, Fails, RecordsOK
<1>11. CASE StartOpens
  BY <1>1, <1>11, AtCur, CurKeeps DEF StartOpens, SameSession, hostVars, RecordsOK
<1>12. CASE StartRuns
  BY <1>1, <1>12, AtCur, CurKeeps DEF StartRuns, SameSession, hostVars
<1> QED
  BY <1>2, <1>3, <1>4, <1>5, <1>6, <1>7, <1>8, <1>9, <1>10, <1>11, <1>12, NextCases

(* While a session closes with the process, nothing else is in h.running,   *)
(* so no other session of the plugin is open.                               *)
LEMMA SiblingsStep ==
    ASSUME IInv, [Next]_vars, leaving', ~leaving, NEW r \in Recs, Open(r)
    PROVE  rec[r].inst = cur'
<1>1. TypeOK /\ RecordsOK /\ PassOK /\ OwnersOK
  BY DEF IInv, HostInv
<1>2. PICK i \in Insts : StopBegins(i)
  <2>1. ~Aside
    BY DEF Aside, Write, StartRefused, List, Choose, PassEnds, StartEnds, vars, processVars
  <2>2. ~Process
    BY DEF Process, Crash, Leave, Launch, Relaunch, Exits
  <2>3. ~Apply
    BY DEF Apply
  <2>4. \A s \in Recs : ~Worker(s)
    BY DEF Worker, WorkerFails, WorkerEnds, Collect, processVars
  <2>5. \A i \in Insts : ~StartBegins(i)
    BY DEF StartBegins, processVars
  <2>6. ~StopCancels /\ ~StopEnds /\ ~StartFails /\ ~StartOpens /\ ~StartRuns
    BY DEF StopCancels, StopEnds, StartFails, StartOpens, StartRuns, processVars
  <2> QED
    BY <2>1, <2>2, <2>3, <2>4, <2>5, <2>6, NextCases
<1>3. Known(i) /\ Siblings(i) = {} /\ cur' = i
  BY <1>2 DEF StopBegins
<1>4. pc = "work"
  BY <1>2 DEF StopBegins
<1>5. rec[r].inst \in Insts
  BY <1>1 DEF RecordsOK
<1>6. running[rec[r].inst] # None
  BY <1>1, <1>4, <1>5 DEF OwnersOK
<1> QED
  BY <1>3, <1>5, <1>6 DEF Siblings

-----------------------------------------------------------------------------
(* What Spec promises *)

LEMMA InvStep == IInv /\ [Next]_vars => IInv'
<1> SUFFICES ASSUME IInv, [Next]_vars PROVE IInv'
  OBVIOUS
<1>1. TypeOK'
  BY TypeStep DEF IInv, HostInv
<1> QED
  BY <1>1, RecordsStep, PassStep, OwnersStep DEF IInv, HostInv

LEMMA Invariant == Spec => []IInv
<1>1. Init => IInv
  BY TypeInit, InvInit DEF IInv
<1> QED
  BY <1>1, InvStep, PTL DEF Spec

(* Every variable of the reconcile goroutine, of the sessions and of the    *)
(* process keeps its type.                                                  *)
THEOREM TypeCorrect == Spec => []TypeOK
<1>1. IInv => TypeOK
  BY DEF IInv
<1> QED
  BY <1>1, Invariant, PTL

(* A session whose context is open is the one its instance is known by: no  *)
(* rebuild, roll-back or removal of a record leaves a session that goes on  *)
(* executing effects unseen.                                                *)
THEOREM SessionsAreKnown == Spec => []NoOrphanSession
<1>1. IInv => NoOrphanSession
  BY DEF IInv, HostInv, RecordsOK, NoOrphanSession
<1> QED
  BY <1>1, Invariant, PTL

(* Two open sessions of different instances never drive the same exclusive  *)
(* actuator, though the conflict check of startInstance reads h.running     *)
(* only.                                                                    *)
THEOREM OwnersApart == Spec => []ActuatorHasOneOwner
<1>1. ASSUME IInv PROVE ActuatorHasOneOwner
  <2> SUFFICES ASSUME NEW r \in Recs, NEW s \in Recs, Open(r), Open(s), rec[r].inst # rec[s].inst
               PROVE  rec[r].row.drives # rec[s].row.drives
    BY DEF ActuatorHasOneOwner
  <2>1. RecordsOK /\ PassOK /\ OwnersOK
    BY <1>1 DEF IInv, HostInv
  <2>2. ASSUME NEW x \in Recs, Open(x), rec[x].inst = cur, pc \in {"opened", "started"}
        PROVE  rec[x].row = rows[cur]
    <3>1. instances[cur] = x
      BY <2>1, <2>2 DEF RecordsOK
    <3> QED
      BY <2>1, <2>2, <3>1 DEF PassOK, Starting
  <2>3. rec[r].inst \in Insts /\ rec[s].inst \in Insts
    BY <2>1 DEF RecordsOK
  <2>4. CASE pc = "asked"
    BY <2>1, <2>3, <2>4 DEF OwnersOK
  <2>5. CASE pc # "asked"
    BY <2>1, <2>2, <2>3, <2>5 DEF OwnersOK, DrivenApart, Starting
  <2> QED
    BY <2>4, <2>5
<1> QED
  BY <1>1, Invariant, PTL

(* stopInstance sends the Shutdown RPC, which ends the process, only when   *)
(* no other instance has an open session in it.                             *)
THEOREM SiblingsAreSafe == Spec => SiblingsSurvive
<1>1. IInv /\ [Next]_vars =>
        [leaving' /\ ~leaving => \A r \in Recs : Open(r) => rec[r].inst = cur']_vars
  BY SiblingsStep
<1> QED
  BY <1>1, Invariant, PTL DEF Spec, SiblingsSurvive

-----------------------------------------------------------------------------
(* Bindings *)

(* A binding that names a device commands that device or none. *)
LEMMA NamedDevice ==
    ASSUME NEW b, NEW w, b.dev # 0
    PROVE  Commanded(b, w, Owner) \subseteq {b.dev}
BY DEF Commanded, DeviceFor

(* Two bindings of one entity that do not clash name two devices. *)
LEMMA DrivenByOneHolds == DrivenByOne
<1> SUFFICES ASSUME NEW mine \in Held, NEW theirs \in Held,
                    \A b \in mine, c \in theirs : ~Clashes(b.cap, b, c.cap, c),
                    NEW b \in mine, NEW c \in theirs,
                    b.ent = c.ent, b.cap = c.cap, b.cap \in Exclusive,
                    NEW w \in Worlds
             PROVE  Commanded(b, w, Owner) \cap Commanded(c, w, Owner) = {}
  BY DEF DrivenByOne
<1>1. b.dev # c.dev /\ b.dev # 0 /\ c.dev # 0
  BY DEF Clashes
<1> QED
  BY <1>1, NamedDevice

(* app_binding_conflicts.go: two Applications the conflict check let start  *)
(* never command the same entity of the same device for the same exclusive  *)
(* capability, for any number of devices and in every later world.          *)
THEOREM OneDriverAlways == Spec => []OneDriver
<1>1. OneDriver
  BY DrivenByOneHolds DEF OneDriver
<1> QED
  BY <1>1, PTL

-----------------------------------------------------------------------------
(* Least numbers *)

(* The order of the numbers, as the library's theorems take it.             *)
Less == {ss \in Nat \X Nat : ss[1] < ss[2]}

LEMMA LessWellFounded == IsWellFoundedOn(Less, Nat)
<1>1. OpToRel(<, Nat) = Less
  BY DEF OpToRel, Less
<1> QED
  BY <1>1, NatLessThanWellFounded

(* A set of numbers that is not empty has a least one. *)
LEMMA LeastNumber ==
    ASSUME NEW S, S \subseteq Nat, S # {}
    PROVE  \E m \in S : \A n \in S : m <= n
<1>1. PICK m \in S : \A n \in S : <<n, m>> \notin Less
  BY LessWellFounded, WFMin
<1>2. ASSUME NEW n \in S PROVE m <= n
  <2>1. n \in Nat /\ m \in Nat /\ <<n, m>> \in Nat \X Nat
    OBVIOUS
  <2>2. ~(<<n, m>>[1] < <<n, m>>[2])
    BY <1>1, <2>1 DEF Less
  <2> QED
    BY <2>1, <2>2
<1> QED
  BY <1>2

-----------------------------------------------------------------------------
(* What a binding means *)

Places == NDevices * NEntities

LEMMA PlacesAreNumbers == Places \in Nat /\ NDevices \in Nat /\ NEntities \in Nat
<1>1. NDevices \in Nat /\ NEntities \in Nat
  BY BindingAssumption
<1> QED
  BY <1>1 DEF Places

(* The n-th candidate is collected after those before it, given their list. *)
CollectStep(w, tenant, g, n) ==
    IF n = 0 THEN <<>>
    ELSE IF Offered(w, tenant, CandidateAt(w, n))
         THEN Append(g[n - 1], CandidateAt(w, n)) ELSE g[n - 1]

(* Some function has, for every place, the candidates up to it. *)
LEMMA CollectExists ==
    ASSUME NEW w, NEW tenant
    PROVE  \E g : g = [n \in 0..Places |-> CollectStep(w, tenant, g, n)]
<1> DEFINE Without == {m \in 0..Places :
                         ~\E g : g = [n \in 0..m |-> CollectStep(w, tenant, g, n)]}
<1>0. Places \in Nat
  BY PlacesAreNumbers
<1>1. ASSUME Without # {} PROVE FALSE
  <2>1. PICK m \in Without : \A k \in Without : m <= k
    <3>1. Without \subseteq Nat
      BY <1>0
    <3> HIDE DEF Without
    <3> QED
      BY <1>1, <3>1, LeastNumber
  <2>2. m \in 0..Places
    OBVIOUS
  <2>3. CASE m = 0
    <3> DEFINE h == [n \in 0..0 |-> <<>>]
    <3>1. h = [n \in 0..0 |-> CollectStep(w, tenant, h, n)]
      BY DEF CollectStep
    <3> HIDE DEF h
    <3> QED
      BY <2>1, <2>3, <3>1
  <2>4. CASE m # 0
    <3>1. m - 1 \in 0..Places /\ m - 1 < m /\ m \in Nat /\ ~(m <= m - 1)
      BY <1>0, <2>2, <2>4
    <3>2. m - 1 \notin Without
      <4> HIDE DEF Without
      <4> QED
        BY <2>1, <3>1
    <3>3. PICK g : g = [n \in 0..(m - 1) |-> CollectStep(w, tenant, g, n)]
      BY <3>1, <3>2
    <3> DEFINE h == [n \in 0..m |-> IF n \in 0..(m - 1) THEN g[n]
                                    ELSE CollectStep(w, tenant, g, m)]
    <3>4. ASSUME NEW n \in 0..m PROVE h[n] = CollectStep(w, tenant, h, n)
      <4>1. h[n] = CollectStep(w, tenant, g, n)
        <5>1. CASE n \in 0..(m - 1)
          <6>1. g[n] = CollectStep(w, tenant, g, n)
            BY <3>3, <5>1
          <6> QED
            BY <5>1, <6>1
        <5>2. CASE n \notin 0..(m - 1)
          <6>1. n = m
            BY <3>1, <5>2
          <6>2. h[n] = CollectStep(w, tenant, g, m)
            BY <5>2
          <6> QED
            BY <6>1, <6>2
        <5> QED
          BY <5>1, <5>2
      <4>2. CASE n = 0
        BY <4>1, <4>2 DEF CollectStep
      <4>3. CASE n # 0
        <5>1. n - 1 \in 0..(m - 1) /\ n - 1 \in 0..m
          BY <3>1, <4>3
        <5>2. h[n - 1] = g[n - 1]
          BY <5>1
        <5> QED
          BY <4>1, <4>3, <5>2 DEF CollectStep
      <4> QED
        BY <4>2, <4>3
    <3>5. h = [n \in 0..m |-> CollectStep(w, tenant, h, n)]
      BY <3>4
    <3> HIDE DEF h
    <3> QED
      BY <2>1, <3>5
  <2> QED
    BY <2>3, <2>4
<1>2. Places \notin Without
  BY <1>1
<1> QED
  BY <1>0, <1>2

(* What a list has when an element is appended. *)
LEMMA AppendedSet ==
    ASSUME NEW C, NEW s \in Seq(C), NEW c \in C
    PROVE  Append(s, c) \in Seq(C) /\ ToSet(Append(s, c)) = ToSet(s) \cup {c}
<1>1. /\ Append(s, c) \in Seq(C) /\ Len(s) \in Nat
      /\ DOMAIN s = 1..Len(s) /\ DOMAIN Append(s, c) = 1..(Len(s) + 1)
      /\ \A i \in 1..Len(s) : Append(s, c)[i] = s[i]
      /\ Append(s, c)[Len(s) + 1] = c
  OBVIOUS
<1>2. ASSUME NEW x \in ToSet(Append(s, c)) PROVE x \in ToSet(s) \cup {c}
  <2>1. PICK i \in 1..(Len(s) + 1) : x = Append(s, c)[i]
    BY <1>1 DEF ToSet
  <2>2. CASE i \in 1..Len(s)
    BY <1>1, <2>1, <2>2 DEF ToSet
  <2>3. CASE i = Len(s) + 1
    BY <1>1, <2>1, <2>3
  <2> QED
    BY <1>1, <2>2, <2>3
<1>3. ASSUME NEW x \in ToSet(s) PROVE x \in ToSet(Append(s, c))
  <2>1. PICK i \in 1..Len(s) : x = s[i]
    BY <1>1 DEF ToSet
  <2>2. i \in 1..(Len(s) + 1) /\ x = Append(s, c)[i]
    BY <1>1, <2>1
  <2> QED
    BY <1>1, <2>2 DEF ToSet
<1>4. c \in ToSet(Append(s, c))
  <2>1. Len(s) + 1 \in DOMAIN Append(s, c)
    BY <1>1
  <2> QED
    BY <1>1, <2>1 DEF ToSet
<1> QED
  BY <1>1, <1>2, <1>3, <1>4

(* The candidates of a tenant are the entities its devices declare. *)
LEMMA CandidatesAre ==
    ASSUME NEW w, NEW tenant
    PROVE  \A c : c \in ToSet(Candidates(w, tenant)) <=>
                    /\ Offered(w, tenant, c)
                    /\ \E n \in 1..Places : c = CandidateAt(w, n)
<1> DEFINE upto == CHOOSE g : g = [n \in 0..Places |-> CollectStep(w, tenant, g, n)]
           All == {CandidateAt(w, n) : n \in 1..Places}
           Right(m) == /\ upto[m] \in Seq(All)
                       /\ ToSet(upto[m]) = {c \in {CandidateAt(w, n) : n \in 1..m} :
                                              Offered(w, tenant, c)}
           Wrong == {m \in 0..Places : ~Right(m)}
<1>0. Places \in Nat
  BY PlacesAreNumbers
<1>1. Candidates(w, tenant) = upto[Places]
  BY DEF Candidates, CollectStep, Places
<1>2. upto = [n \in 0..Places |-> CollectStep(w, tenant, upto, n)]
  BY CollectExists
<1>3. \A n \in 0..Places : upto[n] = CollectStep(w, tenant, upto, n)
  BY <1>2
<1> HIDE DEF upto
<1>4. ASSUME Wrong # {} PROVE FALSE
  <2>1. PICK m \in Wrong : \A k \in Wrong : m <= k
    <3>1. Wrong \subseteq Nat
      BY <1>0
    <3> HIDE DEF Wrong
    <3> QED
      BY <1>4, <3>1, LeastNumber
  <2>2. m \in 0..Places /\ ~Right(m)
    OBVIOUS
  <2>3. CASE m = 0
    <3>1. upto[m] = <<>>
      BY <1>3, <2>2, <2>3 DEF CollectStep
    <3>2. ToSet(<<>>) = {} /\ <<>> \in Seq(All) /\ 1..m = {}
      BY <2>3 DEF ToSet
    <3> QED
      BY <2>2, <3>1, <3>2
  <2>4. CASE m # 0
    <3>1. m - 1 \in 0..Places /\ ~(m <= m - 1) /\ m \in 1..Places
      BY <1>0, <2>2, <2>4
    <3>2. Right(m - 1)
      <4>1. m - 1 \notin Wrong
        <5> HIDE DEF Wrong
        <5> QED
          BY <2>1, <3>1
      <4> HIDE DEF Right
      <4> QED
        BY <3>1, <4>1
    <3> DEFINE c == CandidateAt(w, m)
    <3>3. upto[m] = IF Offered(w, tenant, c) THEN Append(upto[m - 1], c) ELSE upto[m - 1]
      BY <1>3, <2>2, <2>4 DEF CollectStep
    <3>4. {CandidateAt(w, n) : n \in 1..m} = {CandidateAt(w, n) : n \in 1..(m - 1)} \cup {c}
      <4>1. 1..m = 1..(m - 1) \cup {m}
        BY <3>1
      <4> QED
        BY <4>1
    <3>5. c \in All
      BY <3>1
    <3> DEFINE before == {CandidateAt(w, n) : n \in 1..(m - 1)}
    <3>6. /\ upto[m - 1] \in Seq(All)
          /\ ToSet(upto[m - 1]) = {x \in before : Offered(w, tenant, x)}
      BY <3>2
    <3> HIDE DEF c, All, before
    <3>7. /\ upto[m] \in Seq(All)
          /\ ToSet(upto[m]) = {x \in before \cup {c} : Offered(w, tenant, x)}
      <4>1. CASE Offered(w, tenant, c)
        <5>1. /\ Append(upto[m - 1], c) \in Seq(All)
              /\ ToSet(Append(upto[m - 1], c)) = ToSet(upto[m - 1]) \cup {c}
          BY <3>5, <3>6, AppendedSet
        <5> QED
          BY <3>3, <3>6, <4>1, <5>1
      <4>2. CASE ~Offered(w, tenant, c)
        BY <3>3, <3>6, <4>2
      <4> QED
        BY <4>1, <4>2
    <3> QED
      BY <2>2, <3>4, <3>7 DEF before
  <2> QED
    BY <2>3, <2>4
<1>5. Right(Places)
  <2>1. Places \in 0..Places
    BY <1>0
  <2> HIDE DEF Right
  <2> QED
    BY <1>4, <2>1
<1> QED
  BY <1>1, <1>5

(* The place of an entity of a device. *)
LEMMA PlaceOf ==
    ASSUME NEW w, NEW d \in Devices, NEW e \in Entities
    PROVE  \E n \in 1..Places : CandidateAt(w, n) = [dev |-> d, ent |-> e, caps |-> w.caps[d][e]]
<1> DEFINE n == (d - 1) * NEntities + e
<1>0. /\ NDevices \in Nat /\ NEntities \in Nat /\ Places \in Nat
      /\ d \in 1..NDevices /\ e \in 1..NEntities
  BY PlacesAreNumbers DEF Devices, Entities
<1>1. (d - 1) * NEntities \in Nat /\ (d - 1) * NEntities + NEntities <= NDevices * NEntities
  BY <1>0
<1>2. n \in 1..Places
  BY <1>0, <1>1 DEF Places
<1>3. (n - 1) \div NEntities = d - 1 /\ (n - 1) % NEntities = e - 1
  BY <1>0, <1>1
<1>4. CandidateAt(w, n) = [dev |-> d, ent |-> e, caps |-> w.caps[d][e]]
  <2>1. (n - 1) \div NEntities + 1 = d /\ ((n - 1) % NEntities) + 1 = e
    BY <1>0, <1>3
  <2> HIDE DEF n
  <2> QED
    BY <2>1 DEF CandidateAt
<1> QED
  BY <1>2, <1>4

(* The entity of a candidate is one of the entities. *)
LEMMA PlaceIsAnEntity ==
    ASSUME NEW w, NEW n \in 1..Places
    PROVE  CandidateAt(w, n).ent \in Entities
<1>1. NEntities \in Nat \ {0} /\ n - 1 \in Nat
  <2>1. NDevices \in Nat /\ NEntities \in Nat /\ Places \in Nat /\ Places # 0
    BY PlacesAreNumbers
  <2>2. NEntities # 0
    BY <2>1 DEF Places
  <2> QED
    BY <2>1, <2>2
<1>2. (n - 1) % NEntities \in 0..(NEntities - 1)
  BY <1>1
<1> QED
  BY <1>1, <1>2 DEF CandidateAt, Entities

(* What was accepted is valid in the world it was started in.               *)
LEMMA AcceptedIsValid ==
    ASSUME NEW s \in Accepted
    PROVE  /\ s.world \in Worlds
           /\ Valid(s.reqs, Candidates(s.world, Owner), s.bs)
<1>1. PICK w \in Worlds, reqs \in Lists :
          \E bs \in Selected(reqs, Candidates(w, Owner), Explicit) :
              s = [world |-> w, reqs |-> reqs, bs |-> bs]
  BY DEF Accepted
<1>2. PICK bs \in Selected(reqs, Candidates(w, Owner), Explicit) :
          s = [world |-> w, reqs |-> reqs, bs |-> bs]
  BY <1>1
<1>3. Valid(reqs, Candidates(w, Owner), bs)
  BY <1>2 DEF Selected
<1> QED
  BY <1>2, <1>3

(* A binding that is valid means one candidate, and no other has its entity. *)
LEMMA ValidBinding ==
    ASSUME NEW reqs, NEW cands, NEW bs, Valid(reqs, cands, bs), NEW b \in ToSet(bs)
    PROVE  /\ \E c \in ToSet(cands) : Meant(b, cands) = {c} /\ Provides(c, reqs[b.req].cap)
           /\ \A x \in ToSet(bs) : x.ent = b.ent => x = b
<1>1. BindingKnown(b, reqs, cands)
  BY DEF Valid
<1>2. \A x \in ToSet(bs) : x.ent = b.ent => x = b
  BY DEF Valid, Distinct, ToSet
<1> QED
  BY <1>1, <1>2 DEF BindingKnown

(* internal/appruntime/effect.go, commandBinding: for what Binder accepts,  *)
(* the entity alone is enough, with any number of devices and entities, in  *)
(* every world and for every list of requirements and bindings.             *)
LEMMA AddressedHolds == Addressed
<1> SUFFICES ASSUME NEW s \in Accepted, NEW b \in ToSet(s.bs)
             PROVE  LET cands == Candidates(s.world, Owner)
                    IN  /\ CommandBinding(s.bs, cands, b.ent) = {b}
                        /\ \A on \in SUBSET Devices :
                              RightDevice(s, b, cands, [s.world EXCEPT !.online = on])
  BY DEF Addressed
<1> DEFINE w == s.world
           cands == Candidates(w, Owner)
<1>1. w \in Worlds /\ Valid(s.reqs, cands, s.bs)
  BY AcceptedIsValid
<1>2. PICK c \in ToSet(cands) : Meant(b, cands) = {c} /\ Provides(c, s.reqs[b.req].cap)
  BY <1>1, ValidBinding
<1>3. \A x \in ToSet(s.bs) : x.ent = b.ent => x = b
  BY <1>1, ValidBinding
<1>4. /\ Declares(w, c.dev, c.ent) /\ w.owner[c.dev] = Owner
      /\ c.ent \in Entities
  <2>1. Offered(w, Owner, c) /\ \E n \in 1..Places : c = CandidateAt(w, n)
    BY CandidatesAre
  <2> QED
    BY <2>1, PlaceIsAnEntity DEF Offered
<1>5. c.ent = b.ent /\ b.dev \in {0, c.dev}
  BY <1>2 DEF Meant
<1>6. ASSUME NEW d \in Devices, Declares(w, d, b.ent), w.owner[d] = Owner, b.dev \in {0, d}
      PROVE  c.dev = d
  <2>1. PICK n \in 1..Places : CandidateAt(w, n) = [dev |-> d, ent |-> b.ent, caps |-> w.caps[d][b.ent]]
    BY <1>4, <1>5, PlaceOf
  <2> DEFINE x == CandidateAt(w, n)
  <2>2. x.dev = d /\ x.ent = b.ent
    BY <2>1
  <2>3. x \in ToSet(cands)
    BY <1>6, <2>2, CandidatesAre DEF Offered
  <2>4. x \in Meant(b, cands)
    BY <1>6, <2>2, <2>3 DEF Meant
  <2> QED
    BY <1>2, <2>2, <2>4
<1>7. CommandBinding(s.bs, cands, b.ent) = {b}
  BY <1>2, <1>3 DEF CommandBinding
<1>8. ASSUME NEW on \in SUBSET Devices
      PROVE  RightDevice(s, b, cands, [w EXCEPT !.online = on])
  <2> DEFINE v == [w EXCEPT !.online = on]
  <2>1. v.caps = w.caps /\ v.owner = w.owner /\ v.online = on
    BY <1>1 DEF Worlds
  <2> HIDE DEF v, w, cands
  <2>2. \A d, e : Declares(v, d, e) <=> Declares(w, d, e)
    BY <2>1 DEF Declares
  <2>3. ASSUME b.dev \in on PROVE Commanded(b, v, Owner) = {b.dev}
    <3>1. b.dev \in Devices /\ b.dev # 0
      <4>1. b.dev \in Devices
        BY <2>3
      <4>2. \A d \in Devices : d # 0
        BY PlacesAreNumbers DEF Devices
      <4> QED
        BY <4>1, <4>2
    <3>2. Declares(w, b.dev, b.ent) /\ w.owner[b.dev] = Owner
      BY <1>4, <1>5, <3>1
    <3>3. DeviceFor(b, v) = {b.dev}
      BY <2>1, <2>2, <2>3, <3>1, <3>2 DEF DeviceFor
    <3> QED
      BY <2>1, <3>2, <3>3 DEF Commanded
  <2>4. ASSUME NEW d \in Commanded(b, v, Owner)
        PROVE  /\ \E x \in Meant(b, cands) : x.dev = d /\ Provides(x, s.reqs[b.req].cap)
               /\ EventRoutes(s.bs, v, d, b.ent, Owner) = {b.req}
    <3>1. d \in DeviceFor(b, v) /\ w.owner[d] = Owner
      BY <2>1 DEF Commanded
    <3>2. d \in Devices /\ Declares(w, d, b.ent) /\ b.dev \in {0, d}
      <4>1. CASE b.dev # 0
        BY <2>2, <3>1, <4>1 DEF DeviceFor
      <4>2. CASE b.dev = 0
        BY <2>2, <3>1, <4>2 DEF DeviceFor
      <4> QED
        BY <4>1, <4>2
    <3>3. c.dev = d
      BY <1>6, <3>1, <3>2
    <3>4. EventRoutes(s.bs, v, d, b.ent, Owner) = {b.req}
      <4>1. {x \in ToSet(s.bs) : x.ent = b.ent /\ x.dev \in {0, d} /\ v.owner[d] = Owner} = {b}
        BY <1>3, <2>1, <3>1, <3>2
      <4> QED
        BY <4>1 DEF EventRoutes
    <3> QED
      BY <1>2, <3>3, <3>4
  <2> QED
    BY <2>1, <2>3, <2>4 DEF RightDevice, v
<1> QED
  BY <1>7, <1>8

(* internal/appruntime/effect.go, commandBinding, and the delivery of        *)
(* events: what an Application that runs commands is what was bound when it *)
(* was accepted, and what it hears is for the requirement it was bound for, *)
(* for any number of devices, entities and requirements.                    *)
THEOREM AddressedAlways == Spec => []AddressedAsBound
<1>1. AddressedAsBound
  BY AddressedHolds DEF AddressedAsBound
<1> QED
  BY <1>1, PTL

-----------------------------------------------------------------------------
(* The scan of an expression *)

(* What nextAfter returns: no time, or a later one within the scan that     *)
(* matches.                                                                 *)
LEMMA ScanFinds ==
    ASSUME NEW cron \in Crons, NEW t \in Times, NextTime(cron, t) # Nothing
    PROVE  /\ NextTime(cron, t) \in Nat /\ t < NextTime(cron, t)
           /\ NextTime(cron, t) <= t + ScanLimit
           /\ Matches(cron, NextTime(cron, t))
           /\ t <= MaxTime => NextTime(cron, t) \in Times
<1> DEFINE hits == {u \in (t + 1)..(t + ScanLimit) : Matches(cron, u)}
<1>0. ScanLimit \in Nat \ {0} /\ MaxTime \in Nat /\ t \in Nat
  BY CronAssumption, JobsAssumption DEF Times
<1>1. NextTime(cron, t) = IF hits = {} THEN Nothing ELSE CHOOSE u \in hits : \A v \in hits : u <= v
  BY DEF NextTime, NextTimes, NextAfter
<1>2. hits # {} /\ hits \subseteq Nat
  BY <1>0, <1>1
<1>3. PICK m \in hits : \A v \in hits : m <= v
  <2> HIDE DEF hits
  <2> QED
    BY <1>2, LeastNumber
<1>4. NextTime(cron, t) \in hits
  <2> HIDE DEF hits
  <2> QED
    BY <1>1, <1>2, <1>3
<1> QED
  BY <1>0, <1>4 DEF Times

(* What one step of the loop over the missed times does, given its results  *)
(* for the times after it.                                                  *)
LaterStep(cron, limit, g, u) ==
    IF u > limit THEN u
    ELSE IF NextTime(cron, u) = Nothing THEN Nothing ELSE g[NextTime(cron, u)]

(* The loop ends: some function is the result for every time.               *)
LEMMA LaterExists ==
    ASSUME NEW cron \in Crons, NEW limit \in 0..MaxTime
    PROVE  \E g : g = [u \in Times |-> LaterStep(cron, limit, g, u)]
<1> DEFINE Horizon == MaxTime + ScanLimit + 1
           From == {m \in 0..(Horizon + 1) :
                      \E g : g = [u \in m..Horizon |-> LaterStep(cron, limit, g, u)]}
<1>0. ScanLimit \in Nat \ {0} /\ MaxTime \in Nat /\ Horizon \in Nat /\ Times = 0..Horizon
  BY CronAssumption, JobsAssumption DEF Times
<1>1. Horizon + 1 \in From
  <2> DEFINE g == [u \in (Horizon + 1)..Horizon |-> 0]
  <2>1. g = [u \in (Horizon + 1)..Horizon |-> LaterStep(cron, limit, g, u)]
    BY <1>0
  <2> HIDE DEF g
  <2> QED
    BY <1>0, <2>1
<1>2. PICK m \in From : \A n \in From : m <= n
  <2>1. From \subseteq Nat /\ From # {}
    BY <1>0, <1>1
  <2> HIDE DEF From
  <2> QED
    BY <2>1, LeastNumber
<1>3. CASE m = 0
  BY <1>0, <1>3
<1>4. ASSUME m # 0 PROVE FALSE
  <2>1. PICK g : g = [u \in m..Horizon |-> LaterStep(cron, limit, g, u)]
    OBVIOUS
  <2> DEFINE h == [u \in (m - 1)..Horizon |-> IF u \in m..Horizon THEN g[u]
                                           ELSE LaterStep(cron, limit, g, m - 1)]
  <2>2. m \in 1..(Horizon + 1) /\ m - 1 \in 0..Horizon
    BY <1>0, <1>4
  <2>3. ASSUME NEW u \in (m - 1)..Horizon
        PROVE  h[u] = LaterStep(cron, limit, h, u)
    <3>1. u \in Times /\ u \in Nat
      BY <1>0, <2>2
    <3>2. h[u] = LaterStep(cron, limit, g, u)
      <4>1. CASE u \in m..Horizon
        <5>1. g[u] = LaterStep(cron, limit, g, u)
          BY <2>1, <4>1
        <5> QED
          BY <4>1, <5>1
      <4>2. CASE u \notin m..Horizon
        <5>1. u = m - 1
          BY <1>0, <2>2, <4>2
        <5>2. h[u] = LaterStep(cron, limit, g, m - 1)
          BY <4>2
        <5> QED
          BY <5>1, <5>2
      <4> QED
        BY <4>1, <4>2
    <3>3. CASE u > limit
      BY <3>2, <3>3 DEF LaterStep
    <3>4. CASE NextTime(cron, u) = Nothing
      BY <3>2, <3>4 DEF LaterStep
    <3>5. CASE ~(u > limit) /\ NextTime(cron, u) # Nothing
      <4>1. NextTime(cron, u) \in m..Horizon
        <5>1. u <= MaxTime
          BY <1>0, <3>1, <3>5
        <5>2. NextTime(cron, u) \in Times /\ u < NextTime(cron, u)
          BY <3>1, <3>5, <5>1, ScanFinds
        <5> QED
          BY <1>0, <2>2, <3>1, <5>2
      <4>2. h[NextTime(cron, u)] = g[NextTime(cron, u)]
        BY <1>0, <2>2, <4>1
      <4> QED
        BY <3>2, <3>5, <4>2 DEF LaterStep
    <3> QED
      BY <3>3, <3>4, <3>5
  <2>4. h = [u \in (m - 1)..Horizon |-> LaterStep(cron, limit, h, u)]
    BY <2>3
  <2>5. m - 1 \in From
    <3> HIDE DEF h
    <3> QED
      BY <1>0, <2>2, <2>4
  <2> QED
    BY <1>2, <2>2, <2>5
<1> QED
  BY <1>3, <1>4

(* So the definition of Later is a function that has its results.           *)
LEMMA LaterIsItsStep ==
    ASSUME NEW cron \in Crons, NEW limit \in 0..MaxTime, NEW u \in Times
    PROVE  Later(cron, limit)[u] = LaterStep(cron, limit, Later(cron, limit), u)
<1>1. Later(cron, limit) = CHOOSE g : g = [v \in Times |-> LaterStep(cron, limit, g, v)]
  BY DEF Later, LaterStep
<1>2. Later(cron, limit) = [v \in Times |-> LaterStep(cron, limit, Later(cron, limit), v)]
  BY <1>1, LaterExists
<1> QED
  BY <1>2

(* The loop over the missed times ends without a time, or past the limit,   *)
(* at a time of the expression.                                             *)
LEMMA LaterIsLater ==
    ASSUME NEW cron \in Crons, NEW limit \in 0..MaxTime, NEW t \in Times,
           Matches(cron, t), Later(cron, limit)[t] # Nothing
    PROVE  /\ Later(cron, limit)[t] \in Times /\ limit < Later(cron, limit)[t]
           /\ Matches(cron, Later(cron, limit)[t])
<1> DEFINE Horizon == MaxTime + ScanLimit + 1
           res == Later(cron, limit)
           Right(u) == Matches(cron, u) /\ res[u] # Nothing
                         => res[u] \in Times /\ limit < res[u] /\ Matches(cron, res[u])
           Wrong == {n \in 0..Horizon : ~Right(Horizon - n)}
<1>0. ScanLimit \in Nat \ {0} /\ MaxTime \in Nat /\ Horizon \in Nat /\ Times = 0..Horizon
  BY CronAssumption, JobsAssumption DEF Times
<1>1. ASSUME Wrong # {} PROVE FALSE
  <2>1. PICK n \in Wrong : \A k \in Wrong : n <= k
    <3>1. Wrong \subseteq Nat
      BY <1>0
    <3> HIDE DEF Wrong
    <3> QED
      BY <1>1, <3>1, LeastNumber
  <2> DEFINE u == Horizon - n
  <2>2. u \in Times /\ u \in 0..Horizon /\ u \in Nat /\ n \in 0..Horizon
    BY <1>0
  <2>3. Matches(cron, u) /\ res[u] # Nothing
    BY <2>1
  <2>4. res[u] = LaterStep(cron, limit, res, u)
    BY <2>2, LaterIsItsStep
  <2> HIDE DEF res
  <2>5. CASE u > limit
    <3>1. res[u] = u
      BY <2>4, <2>5 DEF LaterStep
    <3>2. limit < u
      BY <1>0, <2>2, <2>5
    <3> QED
      BY <2>1, <2>2, <2>3, <3>1, <3>2
  <2>6. CASE ~(u > limit)
    <3>1. NextTime(cron, u) # Nothing /\ res[u] = res[NextTime(cron, u)]
      BY <2>3, <2>4, <2>6 DEF LaterStep
    <3> DEFINE v == NextTime(cron, u)
    <3>2. u <= MaxTime
      BY <1>0, <2>2, <2>6
    <3>3. v \in Times /\ u < v /\ Matches(cron, v)
      BY <2>2, <3>1, <3>2, ScanFinds
    <3> HIDE DEF v
    <3>4. Horizon - v \in 0..Horizon /\ Horizon - v < n /\ Horizon - (Horizon - v) = v
      BY <1>0, <2>2, <3>3
    <3>5. Right(v)
      <4>1. Horizon - v \notin Wrong
        <5> HIDE DEF Wrong
        <5> QED
          BY <1>0, <2>1, <2>2, <3>4
      <4>2. Right(Horizon - (Horizon - v))
        BY <3>4, <4>1
      <4> HIDE DEF Right
      <4> QED
        BY <3>4, <4>2
    <3> QED
      BY <2>1, <2>3, <3>1, <3>3, <3>5 DEF v
  <2> QED
    BY <2>5, <2>6
<1>2. Horizon - t \in 0..Horizon /\ Horizon - (Horizon - t) = t
  BY <1>0
<1>3. Right(Horizon - (Horizon - t))
  BY <1>1, <1>2
<1>4. Right(t)
  <2> HIDE DEF Right
  <2> QED
    BY <1>2, <1>3
<1> QED
  BY <1>4

(* The next time of a row that is due: none, or past the pass and one of    *)
(* the expression.                                                          *)
LEMMA FollowingIsNext ==
    ASSUME NEW d \in [id : Schedules, row : JobRow], d.row.next <= passNow,
           passNow \in 0..MaxTime, Following(d) # Nothing
    PROVE  /\ Following(d) \in Times /\ passNow < Following(d)
           /\ Matches(d.row.cron, Following(d))
<1> DEFINE second == NextTime(d.row.cron, d.row.next)
<1>1. d.row.cron \in Crons /\ d.row.next \in Times /\ d.row.next <= MaxTime
  <2>1. d.row.cron \in Crons /\ d.row.next \in Times
    BY DEF JobRow
  <2> QED
    BY <2>1, JobsAssumption, CronAssumption DEF Times
<1>2. second # Nothing /\ Following(d) = Later(d.row.cron, passNow)[second]
  BY DEF Following
<1>3. second \in Times /\ Matches(d.row.cron, second)
  BY <1>1, <1>2, ScanFinds
<1> QED
  BY <1>1, <1>2, <1>3, LaterIsLater

-----------------------------------------------------------------------------
(* What the steps work on *)

(* An effect of the stream, and one at the store.                           *)
LEMMA EffectParts ==
    ASSUME NEW e \in Effect
    PROVE  /\ e.kind \in {"schedule", "cancel"} /\ e.id \in Schedules
           /\ e.kind = "schedule" => e.cron \in Crons
           /\ e.kind = "cancel" => e.cron = Nothing
BY DEF Effect

LEMMA PendingParts ==
    ASSUME NEW w \in Pending
    PROVE  /\ w.kind \in {"schedule", "cancel"} /\ w.id \in Schedules
           /\ KeyOf(w) \in {"schedule", "cancel"} \X Schedules
           /\ w.kind = "schedule" => w.cron \in Crons /\ w.next \in Times /\ RunOf(w) \in Run
           /\ [w EXCEPT !.live = FALSE] \in Pending
           /\ [w EXCEPT !.live = FALSE].kind = w.kind /\ [w EXCEPT !.live = FALSE].cron = w.cron
           /\ [w EXCEPT !.live = FALSE].next = w.next
<1>1. CASE w \in [kind : {"schedule"}, id : Schedules, cron : Crons, live : BOOLEAN,
                 next : Times, num : Int]
  BY <1>1 DEF Pending, KeyOf, RunOf, Run
<1>2. CASE w \in [kind : {"cancel"}, id : Schedules, cron : {Nothing}, live : BOOLEAN,
                 next : {Nothing}, num : Int]
  BY <1>2 DEF Pending, KeyOf
<1> QED
  BY <1>1, <1>2 DEF Pending

(* The stream, read and written. *)
LEMMA StreamParts ==
    ASSUME inbox \in Seq(Effect)
    PROVE  /\ Len(inbox) \in Nat
           /\ \A e \in Effect : Append(inbox, e) \in Seq(Effect)
           /\ inbox # <<>> => Head(inbox) \in Effect /\ Tail(inbox) \in Seq(Effect)
OBVIOUS

(* A row that is cancelled is what it was, and not active. *)
LEMMA CancelledRow ==
    ASSUME NEW row \in JobRow \cup {Nothing}
    PROVE  /\ Cancelled(row) \in JobRow \cup {Nothing}
           /\ row = Nothing <=> Cancelled(row) = Nothing
           /\ row # Nothing => /\ Cancelled(row).rev = row.rev /\ Cancelled(row).next = row.next
                               /\ Cancelled(row).cron = row.cron /\ ~Cancelled(row).active
<1>1. CASE row = Nothing
  BY <1>1, NothingAssumption DEF Cancelled
<1>2. CASE row # Nothing
  <2>1. row \in JobRow /\ Cancelled(row) = [row EXCEPT !.active = FALSE]
    BY <1>2 DEF Cancelled
  <2>2. [row EXCEPT !.active = FALSE] \in JobRow
    BY <2>1 DEF JobRow
  <2> QED
    BY <1>2, <2>1, <2>2, NothingAssumption DEF JobRow
<1> QED
  BY <1>1, <1>2

(* A row that a pass advances is what it was, at another time. *)
LEMMA AdvancedRow ==
    ASSUME NEW row \in JobRow, NEW t \in Times
    PROVE  /\ [row EXCEPT !.next = t] \in JobRow /\ [row EXCEPT !.next = t] # Nothing
           /\ [row EXCEPT !.next = t].next = t /\ [row EXCEPT !.next = t].rev = row.rev
           /\ [row EXCEPT !.next = t].cron = row.cron
           /\ [row EXCEPT !.next = t].active = row.active
<1>1. [row EXCEPT !.next = t] \in JobRow
  BY DEF JobRow
<1> QED
  BY <1>1, NothingAssumption DEF JobRow


(* What a declaration writes: a row at the time it computed, of a new       *)
(* revision.                                                                *)
LEMMA DeclaredRow ==
    ASSUME JobsTypeOK, PendingOK, NEW w \in writing, w.kind = "schedule"
    PROVE  LET row == Upserted(w)
           IN  /\ row \in JobRow /\ row # Nothing
               /\ row.cron = w.cron /\ row.next = w.next
               /\ Matches(row.cron, row.next)
               /\ table[w.id] # Nothing => table[w.id].rev < row.rev
<1> DEFINE rev == IF table[w.id] = Nothing THEN 1 ELSE table[w.id].rev + 1
           row == [cron |-> w.cron, next |-> w.next, active |-> TRUE, policy |-> "skip",
                   rev |-> rev]
<1>1. w \in Pending /\ table \in [Schedules -> JobRow \cup {Nothing}] /\ Matches(w.cron, w.next)
  BY DEF JobsTypeOK, PendingOK
<1>2. w.id \in Schedules /\ w.cron \in Crons /\ w.next \in Times
  BY <1>1, PendingParts
<1>3. rev \in Nat \ {0} /\ (table[w.id] # Nothing => table[w.id].rev < rev)
  <2>1. CASE table[w.id] = Nothing
    BY <2>1
  <2>2. CASE table[w.id] # Nothing
    <3>1. table[w.id] \in JobRow
      BY <1>1, <1>2, <2>2
    <3>2. table[w.id].rev \in Nat \ {0}
      BY <3>1 DEF JobRow
    <3> QED
      BY <2>2, <3>2
  <2> QED
    BY <2>1, <2>2
<1>4. Upserted(w) = row
  BY DEF Upserted
<1> HIDE DEF rev
<1>5. row \in JobRow
  BY <1>2, <1>3 DEF JobRow
<1>6. row # Nothing
  BY <1>5, NothingAssumption
<1>7. row.cron = w.cron /\ row.next = w.next /\ row.rev = rev
  OBVIOUS
<1> HIDE DEF row
<1>8. Upserted(w) = row
  BY <1>4 DEF row
<1> QED
  BY <1>1, <1>3, <1>5, <1>6, <1>7, <1>8

-----------------------------------------------------------------------------
(* Types *)

LEMMA JobsInitInv == JobsInit => JobsTypeOK /\ JobsInv
<1> SUFFICES ASSUME JobsInit PROVE JobsTypeOK /\ JobsInv
  OBVIOUS
<1>1. JobsTypeOK
  BY JobsAssumption DEF JobsInit, JobsTypeOK
<1>2. RunsOK
  <2>1. \A r \in Run : dispatched[r] = 0 /\ rewound[r] = 0 /\ job # r
    BY NothingAssumption DEF JobsInit
  <2>2. \A r \in Run : Claims(r) = 0
    BY <2>1 DEF Claims
  <2> QED
    BY <2>1, <2>2 DEF RunsOK
<1>3. JobsInv
  BY <1>2 DEF JobsInit, JobsInv, PendingOK, ScanOK
<1> QED
  BY <1>1, <1>3

(* The pass reads rows of the table. *)
LEMMA Scanned ==
    ASSUME JobsTypeOK, Scan
    PROVE  /\ due' \subseteq [id : Schedules, row : JobRow]
           /\ \A d \in due' : /\ d.id \in Schedules /\ d.row = table[d.id]
                              /\ table[d.id] # Nothing /\ d.row.next <= passNow
           /\ \A d \in due' : \A e \in due' : e.id = d.id => e = d
BY DEF JobsTypeOK, Scan

(* A claim: the row that was advanced, and the run that was claimed.        *)
LEMMA Claimed ==
    ASSUME JobsTypeOK, ScanOK, Claim
    PROVE  \E d \in due :
              /\ d \in [id : Schedules, row : JobRow] /\ d \in Earliest
              /\ d.id \in Schedules /\ d.row \in JobRow
              /\ table[d.id] \in JobRow /\ Following(d) # Nothing
              /\ Following(d) \in Times /\ passNow < Following(d)
              /\ Matches(d.row.cron, Following(d))
              /\ due' = due \ {d}
              /\ table' = [table EXCEPT ![d.id].next = Following(d)]
              /\ raced' = IF table[d.id].rev = d.row.rev THEN raced ELSE raced \cup {d.id}
              /\ IF Dispatches(d)
                 THEN job' = [id |-> d.id, planned |-> d.row.next] /\ stage' = "dispatch"
                 ELSE job' = job /\ stage' = stage
<1>1. PICK d \in Earliest :
          /\ Following(d) # Nothing
          /\ due' = due \ {d}
          /\ table' = [table EXCEPT ![d.id].next = Following(d)]
          /\ raced' = IF table[d.id].rev = d.row.rev THEN raced ELSE raced \cup {d.id}
          /\ IF Dispatches(d)
             THEN job' = [id |-> d.id, planned |-> d.row.next] /\ stage' = "dispatch"
             ELSE job' = job /\ stage' = stage
  BY DEF Claim
<1>2. d \in due
  BY <1>1 DEF Earliest
<1>3. /\ d \in [id : Schedules, row : JobRow] /\ passNow \in 0..MaxTime
      /\ d.row.next <= passNow /\ table[d.id] # Nothing
      /\ table \in [Schedules -> JobRow \cup {Nothing}]
  BY <1>2 DEF JobsTypeOK, ScanOK
<1>4. d.id \in Schedules /\ d.row \in JobRow /\ table[d.id] \in JobRow
  BY <1>3
<1>5. /\ Following(d) \in Times /\ passNow < Following(d)
      /\ Matches(d.row.cron, Following(d))
  BY <1>1, <1>3, FollowingIsNext
<1> QED
  BY <1>1, <1>2, <1>3, <1>4, <1>5

(* No time is left: the row that was cancelled. *)
LEMMA Expired ==
    ASSUME JobsTypeOK, ScanOK, Expire
    PROVE  \E d \in due : /\ d.id \in Schedules /\ due' = due \ {d}
                          /\ table' = [table EXCEPT ![d.id] = Cancelled(@)]
BY DEF JobsTypeOK, Expire, Earliest


(* An effect at the store: what becomes of its row.                         *)
LEMMA Written ==
    ASSUME JobsTypeOK, PendingOK, WriteRow
    PROVE  \E w \in writing, row \in JobRow \cup {Nothing} :
              /\ w \in Pending /\ w.id \in Schedules
              /\ writing' = writing \ {w}
              /\ executed' \in {executed, executed \cup {KeyOf(w)}}
              /\ table' = [table EXCEPT ![w.id] = row]
              /\ \/ /\ row = Cancelled(table[w.id])
                    /\ raced' = raced /\ rewound' = rewound
                 \/ /\ w.kind = "schedule" /\ row # Nothing
                    /\ row.next = w.next /\ Matches(row.cron, row.next)
                    /\ table[w.id] # Nothing => table[w.id].rev < row.rev
                    /\ raced' = raced \ {w.id}
                    /\ rewound' = [rewound EXCEPT ![RunOf(w)] =
                                     IF Claims(RunOf(w)) > 0 THEN @ + 1 ELSE @]
<1>1. PICK w \in writing :
          /\ writing' = writing \ {w}
          /\ executed' = IF w.live THEN executed \cup {KeyOf(w)} ELSE executed
          /\ \/ /\ w.kind = "cancel"
                /\ table' = [table EXCEPT ![w.id] = Cancelled(@)]
                /\ rewound' = rewound /\ raced' = raced
             \/ /\ w.kind = "schedule"
                /\ table' = [table EXCEPT ![w.id] = Upserted(w)]
                /\ rewound' = [rewound EXCEPT ![RunOf(w)] =
                                 IF Claims(RunOf(w)) > 0 THEN @ + 1 ELSE @]
                /\ raced' = raced \ {w.id}
  BY DEF WriteRow
<1>2. w \in Pending /\ w.id \in Schedules /\ table \in [Schedules -> JobRow \cup {Nothing}]
  BY PendingParts DEF JobsTypeOK
<1>3. CASE w.kind = "cancel"
  <2> DEFINE row == Cancelled(table[w.id])
  <2>1. row \in JobRow \cup {Nothing}
    BY <1>2, CancelledRow
  <2>2. table' = [table EXCEPT ![w.id] = row] /\ raced' = raced /\ rewound' = rewound
    BY <1>1, <1>2, <1>3
  <2> QED
    BY <1>1, <1>2, <2>1, <2>2
<1>4. CASE w.kind = "schedule"
  <2> DEFINE row == Upserted(w)
  <2>1. /\ row \in JobRow /\ row # Nothing /\ row.next = w.next /\ Matches(row.cron, row.next)
        /\ table[w.id] # Nothing => table[w.id].rev < row.rev
    BY <1>4, DeclaredRow
  <2>2. /\ table' = [table EXCEPT ![w.id] = row] /\ raced' = raced \ {w.id}
        /\ rewound' = [rewound EXCEPT ![RunOf(w)] = IF Claims(RunOf(w)) > 0 THEN @ + 1 ELSE @]
    BY <1>1, <1>4
  <2> HIDE DEF row
  <2> QED
    BY <1>1, <1>2, <1>4, <2>1, <2>2
<1> QED
  BY <1>1, <1>3, <1>4

(* What the receive loop goes to the store with.                            *)
LEMMA Taken ==
    ASSUME JobsTypeOK, Execute
    PROVE  \E w \in Pending : /\ writing' = writing \cup {w} /\ inbox' = Tail(inbox)
                              /\ inbox # <<>>
                              /\ w.kind = "schedule" => Matches(w.cron, w.next)
<1> DEFINE e == Head(inbox)
           w == [kind |-> e.kind, id |-> e.id, cron |-> e.cron, live |-> TRUE,
                 next |-> IF e.kind = "cancel" THEN Nothing ELSE NextTime(e.cron, now),
                 num |-> effects - Len(inbox)]
<1>1. /\ inbox # <<>> /\ inbox' = Tail(inbox) /\ ~Rejected(e)
      /\ writing' = writing \cup {w}
  BY DEF Execute, Idle
<1>2. e \in Effect /\ Len(inbox) \in Nat /\ effects \in Nat
  BY <1>1, StreamParts, JobsAssumption DEF JobsTypeOK
<1>3. now \in Times /\ now \in Nat /\ now <= MaxTime
  <2>1. now \in 0..MaxTime
    BY DEF JobsTypeOK
  <2> QED
    BY <2>1, JobsAssumption, CronAssumption DEF Times
<1>4. effects - Len(inbox) \in Int
  BY <1>2
<1> HIDE DEF e
<1>5. CASE e.kind = "cancel"
  <2>1. e.id \in Schedules /\ e.cron = Nothing
    BY <1>2, <1>5, EffectParts
  <2>2. w \in Pending
    BY <1>4, <1>5, <2>1 DEF Pending
  <2> QED
    BY <1>1, <1>5, <2>2
<1>6. CASE e.kind = "schedule"
  <2>1. e.id \in Schedules /\ e.cron \in Crons
    BY <1>2, <1>6, EffectParts
  <2>2. NextTime(e.cron, now) # Nothing
    BY <1>1, <1>6 DEF Rejected
  <2>3. NextTime(e.cron, now) \in Times /\ Matches(e.cron, NextTime(e.cron, now))
    BY <1>3, <2>1, <2>2, ScanFinds
  <2>4. w \in Pending
    BY <1>4, <1>6, <2>1, <2>3 DEF Pending
  <2> QED
    BY <1>1, <1>6, <2>3, <2>4
<1> QED
  BY <1>2, <1>5, <1>6, EffectParts

LEMMA JobsTypeStep ==
    ASSUME JobsTypeOK, JobsInv, [JobsNext]_jobsVars
    PROVE  JobsTypeOK'
<1> USE DEF JobsTypeOK, loopVars
<1>0. {MaxTime, MaxEffects, MaxCrashes} \subseteq Nat
  BY JobsAssumption
<1>1. CASE Tick
  BY <1>0, <1>1 DEF Tick
<1>2. CASE Emit
  <2>1. PICK e \in Effect : inbox' = Append(inbox, e)
    <3>1. /\ \A s \in Schedules, c \in Crons :
                [kind |-> "schedule", id |-> s, cron |-> c] \in Effect
          /\ \A s \in Schedules : [kind |-> "cancel", id |-> s, cron |-> Nothing] \in Effect
      BY DEF Effect
    <3> QED
      BY <1>2, <3>1 DEF Emit
  <2>2. inbox' \in Seq(Effect)
    BY <2>1, StreamParts
  <2> QED
    BY <1>0, <1>2, <2>2 DEF Emit
<1>3. CASE Duplicate
  <2>1. inbox' \in Seq(Effect)
    BY <1>3, StreamParts DEF Duplicate, Idle
  <2> QED
    BY <1>3, <2>1 DEF Duplicate
<1>4. CASE Reject
  <2>1. inbox' \in Seq(Effect)
    BY <1>4, StreamParts DEF Reject, Idle
  <2> QED
    BY <1>4, <2>1 DEF Reject
<1>5. CASE Execute
  <2>1. PICK w \in Pending : /\ writing' = writing \cup {w} /\ inbox' = Tail(inbox)
                             /\ inbox # <<>>
    BY <1>5, Taken
  <2>2. inbox' \in Seq(Effect) /\ writing' \subseteq Pending
    BY <2>1, StreamParts
  <2> QED
    BY <1>5, <2>2 DEF Execute
<1>6. CASE Rebuild
  <2>1. writing' \subseteq Pending
    BY <1>6, PendingParts DEF Rebuild
  <2> QED
    BY <1>6, <2>1 DEF Rebuild
<1>16. CASE WriteRow
  <2>1. PICK w \in writing, row \in JobRow \cup {Nothing} :
              /\ w \in Pending /\ w.id \in Schedules
              /\ writing' = writing \ {w}
              /\ executed' \in {executed, executed \cup {KeyOf(w)}}
              /\ table' = [table EXCEPT ![w.id] = row]
              /\ raced' \in {raced, raced \ {w.id}}
              /\ \/ rewound' = rewound
                 \/ /\ w.kind = "schedule"
                    /\ rewound' = [rewound EXCEPT ![RunOf(w)] =
                                     IF Claims(RunOf(w)) > 0 THEN @ + 1 ELSE @]
    <3>1. PendingOK
      BY DEF JobsInv
    <3> QED
      BY <1>16, <3>1, Written
  <2>2. executed' \subseteq {"schedule", "cancel"} \X Schedules
    BY <2>1, PendingParts
  <2>3. table' \in [Schedules -> JobRow \cup {Nothing}] /\ raced' \subseteq Schedules
    BY <2>1
  <2>4. rewound' \in [Run -> Nat]
    <3>1. CASE rewound' = rewound
      BY <3>1
    <3>2. CASE rewound' # rewound
      <4> DEFINE run == RunOf(w)
      <4>1. /\ run \in Run
            /\ rewound' = [rewound EXCEPT ![run] = IF Claims(run) > 0 THEN @ + 1 ELSE @]
        BY <2>1, <3>2, PendingParts
      <4> HIDE DEF run
      <4>2. rewound[run] \in Nat
        BY <4>1
      <4> QED
        BY <4>1, <4>2
    <3> QED
      BY <3>1, <3>2
  <2> QED
    BY <1>16, <2>1, <2>2, <2>3, <2>4 DEF WriteRow
<1>17. CASE WriteRowFails
  BY <1>17 DEF WriteRowFails
<1>7. CASE Wake
  BY <1>0, <1>7 DEF Wake
<1>8. CASE Scan
  <2>1. due' \subseteq [id : Schedules, row : JobRow]
    BY <1>8, Scanned
  <2> QED
    BY <1>8, <2>1 DEF Scan
<1>9. CASE Expire
  <2>1. PICK d \in due : /\ d.id \in Schedules /\ due' = due \ {d}
                         /\ table' = [table EXCEPT ![d.id] = Cancelled(@)]
    <3>1. ScanOK
      BY DEF JobsInv
    <3> QED
      BY <1>9, <3>1, Expired
  <2>2. Cancelled(table[d.id]) \in JobRow \cup {Nothing}
    BY <2>1, CancelledRow
  <2> QED
    BY <1>9, <2>1, <2>2 DEF Expire
<1>10. CASE Claim
  <2>1. PICK d \in due :
              /\ d.id \in Schedules /\ d.row \in JobRow
              /\ table[d.id] \in JobRow /\ Following(d) \in Times
              /\ due' = due \ {d}
              /\ table' = [table EXCEPT ![d.id].next = Following(d)]
              /\ raced' \in {raced, raced \cup {d.id}}
              /\ \/ job' = [id |-> d.id, planned |-> d.row.next] /\ stage' = "dispatch"
                 \/ job' = job /\ stage' = stage
    <3>1. ScanOK
      BY DEF JobsInv
    <3> QED
      BY <1>10, <3>1, Claimed
  <2>2. table' = [table EXCEPT ![d.id] = [table[d.id] EXCEPT !.next = Following(d)]]
    BY <2>1
  <2>3. [table[d.id] EXCEPT !.next = Following(d)] \in JobRow
    BY <2>1, AdvancedRow
  <2>4. table' \in [Schedules -> JobRow \cup {Nothing}]
    BY <2>1, <2>2, <2>3
  <2>5. [id |-> d.id, planned |-> d.row.next] \in Run
    BY <2>1 DEF Run, JobRow
  <2>6. job' \in Run \cup {Nothing} /\ (job' # Nothing <=> stage' = "dispatch")
    BY <2>1, <2>5, NothingAssumption
  <2> QED
    BY <1>10, <2>1, <2>4, <2>6 DEF Claim
<1>11. CASE Dispatch
  <2>1. job \in Run
    BY <1>11 DEF Dispatch
  <2>2. dispatched' \in [Run -> Nat]
    BY <1>11, <2>1 DEF Dispatch
  <2> QED
    BY <1>11, <2>1, <2>2, NothingAssumption DEF Dispatch
<1>12. CASE PassDone
  BY <1>0, <1>12 DEF PassDone
<1>13. CASE ServerStops
  BY <1>0, <1>13 DEF ServerStops
<1>14. CASE Start
  BY <1>14 DEF Start
<1>15. CASE UNCHANGED jobsVars
  BY <1>15 DEF jobsVars
<1> QED
  BY <1>1, <1>2, <1>3, <1>4, <1>5, <1>6, <1>7, <1>8, <1>9, <1>10, <1>11, <1>12, <1>13, <1>14,
     <1>15, <1>16, <1>17 DEF JobsNext, Receive, Loop


-----------------------------------------------------------------------------
(* The invariant *)

(* What goes to the store has a time of its expression, and keeps it.       *)
LEMMA PendingStep ==
    ASSUME JobsTypeOK, JobsInv, [JobsNext]_jobsVars
    PROVE  PendingOK'
<1>0. PendingOK /\ writing \subseteq Pending
  BY DEF JobsInv, JobsTypeOK
<1>1. CASE Execute
  <2>1. PICK w \in Pending : writing' = writing \cup {w}
                             /\ (w.kind = "schedule" => Matches(w.cron, w.next))
    BY <1>1, Taken
  <2> QED
    BY <1>0, <2>1 DEF PendingOK
<1>2. CASE Rebuild
  <2>1. ASSUME NEW v \in writing', v.kind = "schedule"
        PROVE  Matches(v.cron, v.next)
    <3>1. PICK w \in writing : v = [w EXCEPT !.live = FALSE]
      BY <1>2 DEF Rebuild
    <3>2. v.kind = w.kind /\ v.cron = w.cron /\ v.next = w.next
      BY <1>0, <3>1, PendingParts
    <3> QED
      BY <1>0, <2>1, <3>2 DEF PendingOK
  <2> QED
    BY <2>1 DEF PendingOK
<1>3. CASE ~(Execute \/ Rebuild)
  <2>1. writing' \subseteq writing
    BY <1>3 DEF JobsNext, Receive, Loop, Tick, Emit, Duplicate, Reject, WriteRow, WriteRowFails, Wake,
                Scan, Expire, Claim, Dispatch, PassDone, ServerStops, Start, jobsVars
  <2> QED
    BY <1>0, <2>1 DEF PendingOK
<1> QED
  BY <1>1, <1>2, <1>3

(* How a step changes a row: not at all, or it is cancelled, advanced past  *)
(* the pass, or declared anew.                                              *)
LEMMA RowStep ==
    ASSUME JobsTypeOK, JobsInv, [JobsNext]_jobsVars, NEW s \in Schedules, table[s] # Nothing
    PROVE  /\ table'[s] # Nothing
           /\ table[s] \in JobRow /\ table'[s].next \in Nat /\ table'[s].rev \in Nat
           /\ table[s].next \in Nat /\ table[s].rev \in Nat
           /\ \/ table'[s] = table[s]
              \/ /\ table'[s].rev = table[s].rev /\ table'[s].cron = table[s].cron
                 /\ table'[s].next = table[s].next
              \/ /\ table'[s].rev = table[s].rev /\ table'[s].cron = table[s].cron
                 /\ passNow < table'[s].next
                 /\ Claim /\ \E d \in due : d.id = s /\ due' = due \ {d}
              \/ WriteRow /\ table[s].rev < table'[s].rev /\ due' = due
<1>0. /\ PendingOK /\ ScanOK /\ table \in [Schedules -> JobRow \cup {Nothing}]
      /\ \A row \in JobRow : row.next \in Nat /\ row.rev \in Nat
  <2>1. Times \subseteq Nat
    BY JobsAssumption, CronAssumption DEF Times
  <2>2. \A row \in JobRow : row.next \in Nat /\ row.rev \in Nat
    BY <2>1 DEF JobRow
  <2> QED
    BY <2>2 DEF JobsInv, JobsTypeOK
<1>a. table[s] \in JobRow
  BY <1>0
<1>1. CASE WriteRow
  <2>1. PICK w \in writing, row \in JobRow \cup {Nothing} :
              /\ table' = [table EXCEPT ![w.id] = row]
              /\ \/ row = Cancelled(table[w.id])
                 \/ /\ row # Nothing
                    /\ table[w.id] # Nothing => table[w.id].rev < row.rev
    BY <1>0, <1>1, Written
  <2>2. CASE s = w.id
    <3>1. table'[s] = row
      BY <1>0, <2>1, <2>2
    <3>2. CASE row = Cancelled(table[s])
      BY <1>0, <1>a, <3>1, <3>2, CancelledRow
    <3>3. CASE row # Nothing /\ table[s].rev < row.rev
      BY <1>0, <1>1, <1>a, <2>1, <3>1, <3>3 DEF WriteRow, loopVars
    <3> QED
      BY <2>1, <2>2, <3>2, <3>3
  <2>3. CASE s # w.id
    BY <1>0, <1>a, <2>1, <2>3
  <2> QED
    BY <2>2, <2>3
<1>2. CASE Expire
  <2>1. PICK d \in due : table' = [table EXCEPT ![d.id] = Cancelled(@)]
    BY <1>0, <1>2, Expired
  <2>2. table'[s] \in {table[s], Cancelled(table[s])}
    BY <1>0, <2>1
  <2> QED
    BY <1>0, <1>a, <2>2, CancelledRow
<1>3. CASE Claim
  <2>1. PICK d \in due : /\ Following(d) \in Times /\ passNow < Following(d)
                         /\ due' = due \ {d}
                         /\ table' = [table EXCEPT ![d.id].next = Following(d)]
    BY <1>0, <1>3, Claimed
  <2>2. CASE s = d.id
    <3>1. table'[s] = [table[s] EXCEPT !.next = Following(d)]
      BY <1>0, <2>1, <2>2
    <3>2. /\ table'[s] \in JobRow /\ table'[s] # Nothing /\ table'[s].next = Following(d)
          /\ table'[s].rev = table[s].rev /\ table'[s].cron = table[s].cron
      <4> DEFINE row == table[s]
                 next == Following(d)
      <4>1. row \in JobRow /\ next \in Times
        BY <1>a, <2>1
      <4>2. table'[s] = [row EXCEPT !.next = next]
        BY <3>1
      <4> HIDE DEF row, next
      <4>3. /\ table'[s] \in JobRow /\ table'[s] # Nothing /\ table'[s].next = next
            /\ table'[s].rev = row.rev /\ table'[s].cron = row.cron
        BY <4>1, <4>2, AdvancedRow
      <4> QED
        BY <4>3 DEF row, next
    <3> QED
      BY <1>0, <1>3, <1>a, <2>1, <2>2, <3>2
  <2>3. CASE s # d.id
    BY <1>0, <1>a, <2>1, <2>3
  <2> QED
    BY <2>2, <2>3
<1>4. CASE table' = table
  BY <1>0, <1>a, <1>4
<1> QED
  BY <1>1, <1>2, <1>3, <1>4
     DEF JobsNext, Receive, Loop, Tick, Emit, Duplicate, Reject, Execute, WriteRowFails, Rebuild, Wake,
         Scan, Dispatch, PassDone, ServerStops, Start, jobsVars

(* What a pass holds was in the table, and the row it came from is older    *)
(* than a declaration made since.                                           *)
LEMMA ScanStep ==
    ASSUME JobsTypeOK, JobsInv, [JobsNext]_jobsVars
    PROVE  ScanOK'
<1>0. /\ ScanOK /\ MaxTime \in Nat /\ now \in 0..MaxTime /\ passNow \in 0..MaxTime
      /\ wake \in 0..(MaxTime + 1)
      /\ due \subseteq [id : Schedules, row : JobRow]
  BY JobsAssumption DEF JobsInv, JobsTypeOK
<1>a. \A row \in JobRow : row.next \in Nat /\ row.rev \in Nat
  <2>1. Times \subseteq Nat
    BY JobsAssumption, CronAssumption DEF Times
  <2> QED
    BY <2>1 DEF JobRow
<1>1. CASE Scan
  <2>1. /\ passNow' = passNow /\ now' = now /\ stage' = "claim" /\ table' = table
    BY <1>1 DEF Scan
  <2>2. /\ \A d \in due' : /\ d.id \in Schedules /\ d.row = table[d.id]
                           /\ table[d.id] # Nothing /\ d.row.next <= passNow
        /\ \A d \in due' : \A e \in due' : e.id = d.id => e = d
    <3>1. JobsTypeOK
      OBVIOUS
    <3> QED
      BY <1>1, <3>1, Scanned
  <2>3. \A s \in Schedules : table[s] # Nothing => table[s].rev \in Nat
    BY <1>a DEF JobsTypeOK
  <2> QED
    BY <1>0, <2>1, <2>2, <2>3 DEF ScanOK
<1>2. CASE Wake \/ ServerStops \/ Start
  <2>1. due' = {} /\ passNow' <= now'
    BY <1>0, <1>2 DEF Wake, ServerStops, Start, ScanOK
  <2> QED
    BY <2>1 DEF ScanOK
<1>3. CASE ~(Scan \/ Wake \/ ServerStops \/ Start)
  <2>1. /\ passNow' = passNow /\ now <= now' /\ now' \in Nat /\ due' \subseteq due
        /\ stage' \notin {"claim", "dispatch"} => due' = {}
    <3>1. CASE Tick \/ Emit \/ Duplicate \/ Reject \/ Execute \/ WriteRow \/ WriteRowFails \/ Rebuild
               \/ UNCHANGED jobsVars
      BY <1>0, <3>1 DEF Tick, Emit, Duplicate, Reject, Execute, WriteRow, WriteRowFails,
                        Rebuild, loopVars, jobsVars, ScanOK
    <3>2. CASE Expire
      BY <1>0, <3>2 DEF Expire
    <3>3. CASE Claim
      BY <1>0, <3>3 DEF Claim
    <3>4. CASE Dispatch \/ PassDone
      BY <1>0, <3>4 DEF Dispatch, PassDone
    <3> QED
      BY <1>3, <3>1, <3>2, <3>3, <3>4 DEF JobsNext, Receive, Loop
  <2>2. ASSUME NEW d \in due'
        PROVE  /\ d.row.next <= passNow
               /\ table'[d.id] # Nothing /\ d.row.rev <= table'[d.id].rev
               /\ d.row.rev = table'[d.id].rev => d.row.cron = table'[d.id].cron
               /\ \A e \in due' : e.id = d.id => e = d
    <3>1. /\ d \in due /\ d.id \in Schedules /\ d.row.rev \in Nat
      BY <1>0, <1>a, <2>1
    <3>2. /\ d.row.next <= passNow /\ \A e \in due : e.id = d.id => e = d
          /\ table[d.id] # Nothing /\ d.row.rev <= table[d.id].rev
          /\ d.row.rev = table[d.id].rev => d.row.cron = table[d.id].cron
      BY <1>0, <3>1 DEF ScanOK
    <3>3. /\ table'[d.id] # Nothing /\ table'[d.id].rev \in Nat /\ table[d.id].rev \in Nat
          /\ \/ /\ table'[d.id].rev = table[d.id].rev /\ table'[d.id].cron = table[d.id].cron
             \/ table[d.id].rev < table'[d.id].rev
      BY <3>1, <3>2, RowStep
    <3> QED
      BY <2>1, <3>1, <3>2, <3>3
  <2> QED
    BY <1>0, <2>1, <2>2 DEF ScanOK
<1> QED
  BY <1>1, <1>2, <1>3

(* What a step does to a run: its time is in the table or in what a pass    *)
(* holds only if it was there before, or was written back.                  *)
LEMMA RunsStep ==
    ASSUME JobsTypeOK, JobsInv, [JobsNext]_jobsVars
    PROVE  RunsOK'
<1>0. /\ PendingOK /\ ScanOK /\ RunsOK
      /\ MaxTime \in Nat /\ now \in 0..MaxTime /\ passNow \in 0..MaxTime
      /\ wake \in 0..(MaxTime + 1)
      /\ table \in [Schedules -> JobRow \cup {Nothing}]
      /\ due \subseteq [id : Schedules, row : JobRow]
      /\ job \in Run \cup {Nothing} /\ (job # Nothing <=> stage = "dispatch")
      /\ dispatched \in [Run -> Nat] /\ rewound \in [Run -> Nat]
  BY JobsAssumption DEF JobsInv, JobsTypeOK
<1>a. /\ \A row \in JobRow : row.next \in Nat
      /\ \A r \in Run : r.planned \in Nat /\ r.id \in Schedules
  <2>1. Times \subseteq Nat
    BY JobsAssumption, CronAssumption DEF Times
  <2> QED
    BY <2>1 DEF JobRow, Run
<1> SUFFICES ASSUME NEW r \in Run
             PROVE  /\ Claims(r)' <= 1 + rewound'[r]
                    /\ Claims(r)' > 0 =>
                          /\ r.planned <= now'
                          /\ stage' = "wait" => r.planned <= wake'
                          /\ stage' \in {"scan", "claim", "dispatch"} => r.planned <= passNow'
                    /\ Claims(r)' = 1 + rewound'[r] =>
                          /\ table'[r.id] # Nothing => table'[r.id].next # r.planned
                          /\ \A d \in due' : d.id = r.id => d.row.next # r.planned
  BY DEF RunsOK
<1>b. /\ Claims(r) \in Nat /\ rewound[r] \in Nat /\ r.planned \in Nat /\ r.id \in Schedules
      /\ Claims(r) <= 1 + rewound[r]
      /\ Claims(r) > 0 =>
            /\ r.planned <= now
            /\ stage = "wait" => r.planned <= wake
            /\ stage \in {"scan", "claim", "dispatch"} => r.planned <= passNow
      /\ Claims(r) = 1 + rewound[r] =>
            /\ table[r.id] # Nothing => table[r.id].next # r.planned
            /\ \A d \in due : d.id = r.id => d.row.next # r.planned
  BY <1>0, <1>a DEF RunsOK, Claims
<1>1. CASE WriteRow
  <2>1. PICK w \in writing, row \in JobRow \cup {Nothing} :
              /\ w \in Pending /\ w.id \in Schedules
              /\ table' = [table EXCEPT ![w.id] = row]
              /\ \/ row = Cancelled(table[w.id]) /\ rewound' = rewound
                 \/ /\ w.kind = "schedule" /\ row # Nothing /\ row.next = w.next
                    /\ rewound' = [rewound EXCEPT ![RunOf(w)] =
                                     IF Claims(RunOf(w)) > 0 THEN @ + 1 ELSE @]
    BY <1>0, <1>1, Written
  <2>2. /\ Claims(r)' = Claims(r) /\ due' = due /\ now' = now /\ stage' = stage
        /\ wake' = wake /\ passNow' = passNow
    BY <1>1 DEF WriteRow, loopVars, Claims
  <2>3. rewound'[r] \in Nat /\ rewound[r] <= rewound'[r]
    BY <1>0, <1>b, <2>1
  <2>4. ASSUME Claims(r) = 1 + rewound'[r], table'[r.id] # Nothing
        PROVE  table'[r.id].next # r.planned
    <3>1. Claims(r) = 1 + rewound[r] /\ Claims(r) > 0 /\ rewound'[r] = rewound[r]
      BY <1>b, <2>3, <2>4
    <3>2. CASE r.id # w.id
      <4>1. table'[r.id] = table[r.id]
        BY <1>0, <1>b, <2>1, <3>2
      <4> QED
        BY <1>b, <2>4, <3>1, <4>1
    <3>3. CASE r.id = w.id /\ row = Cancelled(table[w.id])
      <4>1. table'[r.id] = Cancelled(table[r.id])
        BY <1>0, <1>b, <2>1, <3>3
      <4>2. table[r.id] # Nothing /\ table'[r.id].next = table[r.id].next
        BY <1>0, <1>b, <2>4, <4>1, CancelledRow
      <4> QED
        BY <1>b, <3>1, <4>2
    <3>4. CASE /\ r.id = w.id /\ w.kind = "schedule" /\ row.next = w.next
               /\ rewound' = [rewound EXCEPT ![RunOf(w)] =
                                IF Claims(RunOf(w)) > 0 THEN @ + 1 ELSE @]
      <4>1. table'[r.id].next = w.next
        BY <1>0, <1>b, <2>1, <3>4
      <4>2. ASSUME w.next = r.planned PROVE FALSE
        <5>1. RunOf(w) = r
          BY <3>4, <4>2 DEF RunOf, Run
        <5>2. rewound'[r] = rewound[r] + 1
          BY <1>0, <3>1, <3>4, <5>1
        <5> QED
          BY <1>b, <3>1, <5>2
      <4> QED
        BY <4>1, <4>2
    <3> QED
      BY <2>1, <3>2, <3>3, <3>4
  <2>5. Claims(r) = 1 + rewound'[r] => \A d \in due : d.id = r.id => d.row.next # r.planned
    BY <1>b, <2>3
  <2> QED
    BY <1>b, <2>2, <2>3, <2>4, <2>5
<1>2. CASE Claim
  <2>1. PICK d \in due :
              /\ d.id \in Schedules /\ d.row \in JobRow /\ table[d.id] \in JobRow
              /\ Following(d) \in Times /\ passNow < Following(d)
              /\ due' = due \ {d}
              /\ table' = [table EXCEPT ![d.id].next = Following(d)]
              /\ \/ job' = [id |-> d.id, planned |-> d.row.next] /\ stage' = "dispatch"
                 \/ job' = job /\ stage' = stage
    BY <1>0, <1>2, Claimed
  <2>2. /\ job = Nothing /\ stage = "claim" /\ dispatched' = dispatched /\ rewound' = rewound
        /\ passNow' = passNow /\ now' = now /\ wake' = wake
    BY <1>0, <1>2 DEF Claim
  <2>3. /\ d.row.next <= passNow /\ d.row.next \in Nat /\ passNow <= now
        /\ \A e \in due : e.id = d.id => e = d
        /\ Following(d) \in Nat
    BY <1>0, <1>a, <2>1, JobsAssumption, CronAssumption DEF ScanOK, Times
  <2>4. table'[d.id] # Nothing /\ table'[d.id].next = Following(d)
    <3> DEFINE row == table[d.id]
               next == Following(d)
    <3>1. row \in JobRow /\ next \in Times /\ table'[d.id] = [row EXCEPT !.next = next]
      BY <1>0, <2>1
    <3> HIDE DEF row, next
    <3>2. table'[d.id] # Nothing /\ table'[d.id].next = next
      BY <3>1, AdvancedRow
    <3> QED
      BY <3>2 DEF next
  <2>5. \A s \in Schedules : s # d.id => table'[s] = table[s]
    BY <1>0, <2>1
  <2>6. CASE job' = r
    <3>1. r.id = d.id /\ r.planned = d.row.next /\ stage' = "dispatch"
      BY <2>1, <2>2, <2>6, NothingAssumption
    <3>2. Claims(r)' = Claims(r) + 1 /\ Claims(r) # 1 + rewound[r]
      <4>1. Claims(r)' = dispatched[r] + 1 /\ Claims(r) = dispatched[r]
        BY <1>0, <2>2, <2>6, NothingAssumption DEF Claims
      <4> QED
        BY <1>b, <2>1, <3>1, <4>1
    <3>3. Claims(r)' <= 1 + rewound'[r]
      BY <1>b, <2>2, <3>2
    <3>4. r.planned <= now' /\ r.planned <= passNow'
      BY <1>0, <2>2, <2>3, <3>1
    <3>5. table'[r.id].next # r.planned
      BY <1>0, <1>b, <2>3, <2>1, <2>4, <3>1
    <3>6. \A e \in due' : e.id # r.id
      BY <2>1, <2>3, <3>1
    <3> QED
      BY <3>1, <3>3, <3>4, <3>5, <3>6
  <2>7. CASE job' # r
    <3>1. Claims(r)' = Claims(r) /\ Claims(r) = dispatched[r]
      BY <1>0, <2>2, <2>7, NothingAssumption DEF Claims
    <3>2. stage' \in {"claim", "dispatch"}
      BY <2>1, <2>2
    <3>3. ASSUME Claims(r) = 1 + rewound[r]
          PROVE  table'[r.id] # Nothing => table'[r.id].next # r.planned
      <4>1. CASE r.id = d.id
        <5>1. r.planned <= passNow
          BY <1>b, <2>2, <3>3
        <5> QED
          BY <1>0, <1>b, <2>1, <2>3, <2>4, <4>1, <5>1
      <4>2. CASE r.id # d.id
        BY <1>b, <2>5, <3>3, <4>2
      <4> QED
        BY <4>1, <4>2
    <3> QED
      BY <1>b, <2>1, <2>2, <3>1, <3>2, <3>3
  <2> QED
    BY <2>6, <2>7
<1>3. CASE Dispatch
  <2>1. /\ job \in Run /\ job' = Nothing /\ dispatched' = [dispatched EXCEPT ![job] = @ + 1]
        /\ stage = "dispatch" /\ stage' = "claim" /\ rewound' = rewound
        /\ table' = table /\ due' = due /\ now' = now /\ passNow' = passNow
    BY <1>0, <1>3 DEF Dispatch
  <2>2. Claims(r)' = Claims(r)
    <3>1. CASE job = r
      BY <1>0, <2>1, <3>1, NothingAssumption DEF Claims
    <3>2. CASE job # r
      BY <1>0, <2>1, <3>2, NothingAssumption DEF Claims
    <3> QED
      BY <3>1, <3>2
  <2> QED
    BY <1>b, <2>1, <2>2
<1>4. CASE Scan
  <2>1. /\ passNow' = passNow /\ now' = now /\ stage = "scan" /\ stage' = "claim" /\ table' = table
        /\ Claims(r)' = Claims(r) /\ rewound' = rewound
    BY <1>4 DEF Scan, Claims
  <2>2. \A d \in due' : d.row = table[d.id] /\ table[d.id] # Nothing
    BY <1>4, Scanned
  <2> QED
    BY <1>b, <2>1, <2>2
<1>5. CASE Expire
  <2>1. PICK d \in due : /\ d.id \in Schedules /\ due' = due \ {d}
                         /\ table' = [table EXCEPT ![d.id] = Cancelled(@)]
    BY <1>0, <1>5, Expired
  <2>2. /\ Claims(r)' = Claims(r) /\ rewound' = rewound /\ now' = now /\ stage' = stage
        /\ passNow' = passNow /\ wake' = wake
    BY <1>5 DEF Expire, Claims
  <2>3. table'[r.id] # Nothing => table[r.id] # Nothing /\ table'[r.id].next = table[r.id].next
    <3>1. table'[r.id] \in {table[r.id], Cancelled(table[r.id])}
      BY <1>0, <1>b, <2>1
    <3> QED
      BY <1>0, <1>b, <3>1, CancelledRow
  <2> QED
    BY <1>b, <2>1, <2>2, <2>3
<1>6. CASE ServerStops
  <2>1. /\ job' = Nothing /\ due' = {} /\ stage' = "down" /\ now' = now /\ table' = table
        /\ dispatched' = dispatched /\ rewound' = rewound
    BY <1>6 DEF ServerStops
  <2>2. Claims(r)' \in Nat /\ Claims(r)' <= Claims(r)
    BY <1>0, <1>b, <2>1, NothingAssumption DEF Claims
  <2>3. Claims(r)' = 1 + rewound'[r] => Claims(r) = 1 + rewound[r]
    BY <1>b, <2>1, <2>2
  <2> QED
    BY <1>0, <1>b, <2>1, <2>2, <2>3
<1>7. CASE Wake \/ Start \/ PassDone
  <2>1. /\ Claims(r)' = Claims(r) /\ rewound' = rewound /\ table' = table /\ now' = now
        /\ due' = due
    BY <1>7 DEF Wake, Start, PassDone, Claims
  <2>2. /\ Claims(r) > 0 =>
              /\ stage' = "wait" => r.planned <= wake'
              /\ stage' \in {"scan", "claim", "dispatch"} => r.planned <= passNow'
    <3>1. CASE Wake
      BY <1>0, <1>b, <3>1 DEF Wake
    <3>2. CASE Start
      BY <1>0, <1>b, <3>2 DEF Start
    <3>3. CASE PassDone
      BY <1>0, <1>b, <3>3 DEF PassDone
    <3> QED
      BY <1>7, <3>1, <3>2, <3>3
  <2> QED
    BY <1>b, <2>1, <2>2
<1>8. CASE Tick \/ Emit \/ Duplicate \/ Reject \/ Execute \/ WriteRowFails \/ Rebuild
           \/ UNCHANGED jobsVars
  <2>1. /\ Claims(r)' = Claims(r) /\ rewound' = rewound /\ table' = table /\ due' = due
        /\ stage' = stage /\ wake' = wake /\ passNow' = passNow
        /\ now' = now \/ now' = now + 1
    BY <1>8 DEF Tick, Emit, Duplicate, Reject, Execute, WriteRowFails, Rebuild, loopVars, jobsVars, Claims
  <2> QED
    BY <1>0, <1>b, <2>1
<1> QED
  BY <1>1, <1>2, <1>3, <1>4, <1>5, <1>6, <1>7, <1>8 DEF JobsNext, Receive, Loop

(* A row that is active is at a time of its expression, or it was claimed   *)
(* over a declaration the pass did not see.                                 *)
LEMMA ScheduleStep ==
    ASSUME JobsTypeOK, JobsInv, OnSchedule, [JobsNext]_jobsVars
    PROVE  OnSchedule'
<1>0. /\ PendingOK /\ ScanOK /\ table \in [Schedules -> JobRow \cup {Nothing}]
  BY DEF JobsInv, JobsTypeOK
<1>1. CASE WriteRow
  <2>1. PICK w \in writing, row \in JobRow \cup {Nothing} :
              /\ w.id \in Schedules
              /\ table' = [table EXCEPT ![w.id] = row]
              /\ \/ row = Cancelled(table[w.id]) /\ raced' = raced
                 \/ row # Nothing /\ Matches(row.cron, row.next) /\ raced' = raced \ {w.id}
    BY <1>0, <1>1, Written
  <2>2. ASSUME NEW s \in Schedules \ raced', table'[s] # Nothing, table'[s].active
        PROVE  Matches(table'[s].cron, table'[s].next)
    <3>1. CASE s = w.id
      <4>1. table'[s] = row
        BY <1>0, <2>1, <3>1
      <4>2. row # Cancelled(table[w.id])
        BY <1>0, <2>1, <2>2, <4>1, CancelledRow
      <4> QED
        BY <2>1, <4>1, <4>2
    <3>2. CASE s # w.id
      <4>1. table'[s] = table[s] /\ s \notin raced
        BY <1>0, <2>1, <3>2
      <4> QED
        BY <2>2, <4>1 DEF OnSchedule
    <3> QED
      BY <3>1, <3>2
  <2> QED
    BY <2>2 DEF OnSchedule
<1>2. CASE Expire
  <2>1. PICK d \in due : table' = [table EXCEPT ![d.id] = Cancelled(@)]
    BY <1>0, <1>2, Expired
  <2>2. ASSUME NEW s \in Schedules \ raced', table'[s] # Nothing, table'[s].active
        PROVE  Matches(table'[s].cron, table'[s].next)
    <3>1. s \notin raced
      BY <1>2 DEF Expire
    <3>2. table'[s] = table[s]
      <4>1. table'[s] \in {table[s], Cancelled(table[s])}
        BY <1>0, <2>1
      <4> QED
        BY <1>0, <2>2, <4>1, CancelledRow
    <3> QED
      BY <2>2, <3>1, <3>2 DEF OnSchedule
  <2> QED
    BY <2>2 DEF OnSchedule
<1>3. CASE Claim
  <2>1. PICK d \in due :
              /\ d.id \in Schedules /\ table[d.id] \in JobRow /\ Following(d) \in Times
              /\ Matches(d.row.cron, Following(d))
              /\ table' = [table EXCEPT ![d.id].next = Following(d)]
              /\ raced' = IF table[d.id].rev = d.row.rev THEN raced ELSE raced \cup {d.id}
    BY <1>0, <1>3, Claimed
  <2>2. ASSUME NEW s \in Schedules \ raced', table'[s] # Nothing, table'[s].active
        PROVE  Matches(table'[s].cron, table'[s].next)
    <3>1. CASE s = d.id
      <4> DEFINE row == table[d.id]
                 next == Following(d)
      <4>1. row \in JobRow /\ next \in Times /\ table'[s] = [row EXCEPT !.next = next]
        BY <1>0, <2>1, <3>1
      <4>2. row.rev = d.row.rev
        BY <2>1, <2>2, <3>1
      <4>3. row.cron = d.row.cron
        BY <1>0, <4>2 DEF ScanOK
      <4>4. Matches(d.row.cron, next)
        BY <2>1
      <4> HIDE DEF row, next
      <4>5. table'[s].next = next /\ table'[s].cron = row.cron
        BY <4>1, AdvancedRow
      <4> QED
        BY <4>3, <4>4, <4>5
    <3>2. CASE s # d.id
      <4>1. table'[s] = table[s] /\ s \notin raced
        BY <1>0, <2>1, <2>2, <3>2
      <4> QED
        BY <2>2, <4>1 DEF OnSchedule
    <3> QED
      BY <3>1, <3>2
  <2> QED
    BY <2>2 DEF OnSchedule
<1>4. CASE table' = table /\ raced' = raced
  BY <1>4 DEF OnSchedule
<1> QED
  BY <1>1, <1>2, <1>3, <1>4
     DEF JobsNext, Receive, Loop, Tick, Emit, Duplicate, Reject, Execute, WriteRowFails, Rebuild, Wake,
         Scan, Dispatch, PassDone, ServerStops, Start, jobsVars


(* The scheduled jobs are always what JobsTypeOK says, and what the proofs  *)
(* carry holds of them: the executor of server.AppHost and dispatchScheduledJob. *)
THEOREM JobsTypeCorrect == JobsSpec => [](JobsTypeOK /\ JobsInv)
<1>1. JobsInit => JobsTypeOK /\ JobsInv
  BY JobsInitInv
<1>2. JobsTypeOK /\ JobsInv /\ [JobsNext]_jobsVars => JobsTypeOK' /\ JobsInv'
  <2> SUFFICES ASSUME JobsTypeOK, JobsInv, [JobsNext]_jobsVars
               PROVE  JobsTypeOK' /\ JobsInv'
    OBVIOUS
  <2>1. JobsTypeOK'
    BY JobsTypeStep
  <2>2. PendingOK' /\ ScanOK' /\ RunsOK'
    BY PendingStep, ScanStep, RunsStep
  <2> QED
    BY <2>1, <2>2 DEF JobsInv
<1> QED
  BY <1>1, <1>2, PTL DEF JobsSpec

(* internal/server/apphost.go:778-781, claim before dispatch. A planned run  *)
(* is dispatched once, and once more for each declaration that computed its  *)
(* time before and was written after the run was claimed: whatever           *)
(* expressions are declared, however far the scan looks, wherever the Server *)
(* stops, and whenever the store gets to a write.                            *)
THEOREM DispatchedOnce == JobsSpec => []OnceUnlessWrittenBack
<1>1. JobsTypeOK /\ JobsInv => OnceUnlessWrittenBack
  <2> SUFFICES ASSUME JobsTypeOK, JobsInv, NEW r \in Run
               PROVE  dispatched[r] <= 1 + rewound[r]
    BY DEF OnceUnlessWrittenBack
  <2>1. Claims(r) <= 1 + rewound[r]
    BY DEF JobsInv, RunsOK
  <2> QED
    BY <2>1 DEF Claims, JobsTypeOK
<1> QED
  BY <1>1, JobsTypeCorrect, PTL

(* internal/server/apphost.go:782: the rhythm is kept. The next time of an  *)
(* active row is one its expression has, unless a pass claimed the row over *)
(* a declaration it did not see.                                            *)
THEOREM RhythmKept == JobsSpec => []OnSchedule
<1>1. JobsInit => OnSchedule
  BY DEF JobsInit, OnSchedule
<1>2. JobsTypeOK /\ JobsInv /\ OnSchedule /\ [JobsNext]_jobsVars => OnSchedule'
  BY ScheduleStep
<1> QED
  BY <1>1, <1>2, JobsTypeCorrect, PTL DEF JobsSpec
=============================================================================
