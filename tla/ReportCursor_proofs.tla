------------------------ MODULE ReportCursor_proofs ------------------------
(***************************************************************************)
(* Theorems about ReportCursor, for every set of links and reporting       *)
(* goroutines and every bound.                                             *)
(***************************************************************************)
EXTENDS ReportCursor, SequenceTheorems, TLAPS

-----------------------------------------------------------------------------
(* Sequences *)

(* What enters and leaves the queues. *)
LEMMA Queue ==
    ASSUME NEW S, NEW q \in Seq(S)
    PROVE  /\ <<>> \in Seq(S)
           /\ Len(q) \in Nat
           /\ \A e \in S : Append(q, e) \in Seq(S) /\ Len(Append(q, e)) = Len(q) + 1
           /\ q # <<>> => /\ Head(q) \in S /\ Tail(q) \in Seq(S)
                          /\ Len(Tail(q)) = Len(q) - 1 /\ Len(q) > 0
BY AppendProperties, HeadTailProperties, EmptySeq, LenProperties

(* The reports in a queue. *)
LEMMA QueueReports ==
    ASSUME NEW q \in Seq(Msg)
    PROVE  /\ Reports(<<>>) = {}
           /\ \A e \in Msg : Reports(Append(q, e)) = Reports(q) \cup ({e} \cap Report)
           /\ q # <<>> => /\ Reports(Tail(q)) \subseteq Reports(q)
                          /\ {Head(q)} \cap Report \subseteq Reports(q)
<1>1. Reports(<<>>) = {}
  BY DEF Reports
<1>2. ASSUME NEW e \in Msg PROVE Reports(Append(q, e)) = Reports(q) \cup ({e} \cap Report)
  <2>1. /\ DOMAIN q = 1..Len(q) /\ DOMAIN Append(q, e) = 1..(Len(q) + 1) /\ Len(q) \in Nat
        /\ \A k \in 1..Len(q) : Append(q, e)[k] = q[k]
        /\ Append(q, e)[Len(q) + 1] = e
    BY AppendProperties, LenProperties
  <2>2. 1..(Len(q) + 1) = (1..Len(q)) \cup {Len(q) + 1}
    BY <2>1
  <2> QED
    BY <2>1, <2>2 DEF Reports
<1>3. ASSUME q # <<>>
      PROVE  Reports(Tail(q)) \subseteq Reports(q) /\ {Head(q)} \cap Report \subseteq Reports(q)
  <2>1. /\ DOMAIN q = 1..Len(q) /\ Len(q) \in Nat /\ Len(q) >= 1
        /\ DOMAIN Tail(q) = 1..(Len(q) - 1)
        /\ \A k \in 1..(Len(q) - 1) : Tail(q)[k] = q[k + 1]
        /\ Head(q) = q[1]
    BY <1>3, HeadTailProperties, LenProperties, EmptySeq
  <2>2. \A k \in 1..(Len(q) - 1) : k + 1 \in 1..Len(q)
    BY <2>1
  <2>3. 1 \in 1..Len(q)
    BY <2>1
  <2> QED
    BY <2>1, <2>2, <2>3 DEF Reports
<1> QED
  BY <1>1, <1>2, <1>3

-----------------------------------------------------------------------------
(* Typing *)

Plane == [loaded : BOOLEAN, boot : Nat, retired : Seq(Nat), seq : Nat, obs : Nat, applied : Nat]
Row   == [boot : Nat, prev : Nat, seq : Nat, obs : Nat, applied : Nat]
Job   == [pc : {"free", "due", "numbered", "observed"}, seq : Nat, born : Nat, obs : Nat]

(* Whatever entry point loads the plane, it is whole afterwards. *)
LEMMA EnsuredType ==
    ASSUME TypeOK
    PROVE  Ensured \in Plane /\ Ensured.loaded
<1>1. CASE mem.loaded
  BY <1>1 DEF TypeOK, Ensured, Plane
<1>2. CASE ~mem.loaded
  <2>1. <<>> \in Seq(Nat)
    BY EmptySeq
  <2> QED
    BY <1>2, <2>1 DEF TypeOK, Ensured, Blank, NoBoot, Plane
<1> QED
  BY <1>1, <1>2

(* The cursor rules and the writes of a report or an ack give a row again. *)
LEMMA RowType ==
    ASSUME NEW r \in Row, NEW b \in Nat, NEW n \in Nat, NEW x \in Nat
    PROVE  /\ Cursor(r, b, n) \in Row
           /\ [Cursor(r, b, n) EXCEPT !.obs = x] \in Row
           /\ [r EXCEPT !.obs = x] \in Row
           /\ RowAfterAck(r, b, n, x) \in Row
<1>1. Cursor(r, b, n) \in Row
  BY DEF Cursor, Row
<1>2. /\ [Cursor(r, b, n) EXCEPT !.obs = x] \in Row
      /\ [Cursor(r, b, n) EXCEPT !.applied = x] \in Row
  BY <1>1 DEF Row
<1>3. [r EXCEPT !.obs = x] \in Row
  BY DEF Row
<1> QED
  BY <1>1, <1>2, <1>3 DEF RowAfterAck

(* An accepted report gives a plane again. *)
LEMMA ReportedType ==
    ASSUME NEW p \in Plane, NEW m \in Report
    PROVE  Reported(p, m) \in Plane
<1>1. p.retired \in Seq(Nat) /\ p.boot \in Nat /\ Len(p.retired) \in Nat
  BY LenProperties DEF Plane
<1>2. Append(p.retired, p.boot) \in Seq(Nat)
  BY <1>1, Queue
<1>3. Len(p.retired) >= MaxRetired => Append(Tail(p.retired), p.boot) \in Seq(Nat)
  <2>1. CASE p.retired # <<>>
    <3>1. Tail(p.retired) \in Seq(Nat)
      BY <1>1, <2>1, Queue
    <3> QED
      BY <1>1, <3>1, Queue
  <2>2. CASE p.retired = <<>>
    <3>1. Len(p.retired) = 0
      BY <2>2, EmptySeq
    <3>2. MaxRetired \in Nat /\ MaxRetired > 0
      BY BoundsAssumption, RetiredAssumption
    <3> QED
      BY <3>1, <3>2
  <2> QED
    BY <2>1, <2>2
<1>4. Retire(p) \in Seq(Nat)
  <2>1. MaxRetired \in Nat
    BY BoundsAssumption
  <2> QED
    BY <1>1, <1>2, <1>3, <2>1 DEF Retire
<1> QED
  BY <1>1, <1>4 DEF Reported, Plane, Report

(* At first nobody has been heard. *)
LEMMA TypeInit == Init => TypeOK
<1> SUFFICES ASSUME Init PROVE TypeOK
  OBVIOUS
<1>1. <<>> \in Seq(Msg) /\ <<>> \in Seq(Nat) /\ Len(<<>>) = 0
  BY EmptySeq
<1>2. mem \in Plane /\ row \in Row /\ job \in [Reporters -> Job]
  BY <1>1 DEF Init, Unloaded, Blank, NoBoot, Free, Plane, Row, Job
<1> QED
  BY <1>1, <1>2, BoundsAssumption DEF Init, TypeOK, Plane, Row, Job

(* A message is queued, or dropped for want of a session or of room. *)
LEMMA EnqueuedType ==
    ASSUME TypeOK, NEW m \in Msg
    PROVE  Enqueued(m) \in Seq(Msg) /\ Len(Enqueued(m)) <= SendCap
<1>1. SendCap \in Nat
  BY BoundsAssumption
<1> QED
  BY <1>1, Queue DEF TypeOK, Enqueued

(* An accepted report becomes the last one of the process heard last. *)
LEMMA AdoptType ==
    ASSUME TypeOK, NEW m \in Report, Adopt(m)
    PROVE  accepted' \in Report /\ heard' \in Seq(Nat)
BY Queue DEF TypeOK, Adopt, Report

(* A goroutine goes on to its next step. *)
LEMMA JobType ==
    ASSUME TypeOK, NEW g \in Reporters, NEW pc \in {"free", "due", "numbered", "observed"}
    PROVE  [job EXCEPT ![g].pc = pc] \in [Reporters -> Job]
<1>1. job \in [Reporters -> Job] /\ job[g] \in Job
  BY DEF TypeOK, Job
<1>2. [job[g] EXCEPT !.pc = pc] \in Job
  BY <1>1 DEF Job
<1>3. [job EXCEPT ![g].pc = pc] = [job EXCEPT ![g] = [job[g] EXCEPT !.pc = pc]]
  BY <1>1
<1> QED
  BY <1>1, <1>2, <1>3

(* A report past the link check is one. *)
LEMMA StatusType ==
    ASSUME TypeOK, NEW l \in Links, rx[l] # None
    PROVE  /\ rx[l] \in Msg
           /\ rx[l].kind = "status" => rx[l] \in Report
           /\ rx[l].kind = "ack" => rx[l] \in AckMsg
BY DEF TypeOK, Msg, Report, AckMsg

(* Every step of the Edge, of a link and of the Server keeps the types. *)
LEMMA TypeStep == TypeOK /\ [Next]_vars => TypeOK'
<1> SUFFICES ASSUME TypeOK, [Next]_vars PROVE TypeOK'
  OBVIOUS
<1> USE DEF edgeVars, linkVars, history
<1>1. ASSUME NEW g \in Reporters, NEW ok \in BOOLEAN, ApplyDesired(g, ok) PROVE TypeOK'
  <2>1. [kind |-> "ack", rev |-> revision + 1, ok |-> ok] \in Msg
    BY DEF TypeOK, Msg, AckMsg
  <2>2. out' \in Seq(Msg) /\ Len(out') <= SendCap
    BY <1>1, <2>1, EnqueuedType DEF ApplyDesired
  <2>3. job' \in [Reporters -> Job]
    BY <1>1, JobType DEF ApplyDesired
  <2>4. actual' \in Nat /\ revision' \in Nat
    <3>1. actual' = actual + 1 /\ revision' \in {revision, revision + 1}
      BY <1>1 DEF ApplyDesired
    <3> QED
      BY <3>1 DEF TypeOK
  <2> QED
    BY <1>1, <2>2, <2>3, <2>4 DEF TypeOK, ApplyDesired, Job
<1>2. CASE Change
  BY <1>2 DEF TypeOK, Change
<1>3. ASSUME NEW g \in Reporters, Number(g) PROVE TypeOK'
  <2>1. seq' \in Nat /\ job' \in [Reporters -> Job]
    BY <1>3 DEF TypeOK, Number, Job
  <2> QED
    BY <1>3, <2>1 DEF TypeOK, Number, Job
<1>4. ASSUME NEW g \in Reporters, Observe(g) PROVE TypeOK'
  <2>1. job' \in [Reporters -> Job]
    <3>1. job \in [Reporters -> Job] /\ job[g] \in Job /\ actual \in Nat
      BY DEF TypeOK, Job
    <3>2. [job[g] EXCEPT !.pc = "observed", !.obs = actual] \in Job
      BY <3>1 DEF Job
    <3>3. job' = [job EXCEPT ![g] = [job[g] EXCEPT !.pc = "observed", !.obs = actual]]
      BY <1>4, <3>1 DEF Observe
    <3> QED
      BY <3>1, <3>2, <3>3
  <2> QED
    BY <1>4, <2>1 DEF TypeOK, Observe, Job
<1>5. ASSUME NEW g \in Reporters, EnqueueReport(g) PROVE TypeOK'
  <2>1. [kind |-> "status", boot |-> boot, seq |-> job[g].seq, born |-> job[g].born,
         obs |-> job[g].obs] \in Msg
    BY DEF TypeOK, Msg, Report
  <2>2. out' \in Seq(Msg) /\ Len(out') <= SendCap
    BY <1>5, <2>1, EnqueuedType DEF EnqueueReport
  <2>3. job' \in [Reporters -> Job]
    BY <1>5 DEF TypeOK, EnqueueReport, Free, Job
  <2> QED
    BY <1>5, <2>2, <2>3 DEF TypeOK, EnqueueReport, Job
<1>6. CASE Send
  <2>1. session \in Links /\ Head(out) \in Msg /\ out' \in Seq(Msg) /\ Len(out') <= SendCap
    <3>1. SendCap \in Nat
      BY BoundsAssumption
    <3> QED
      BY <1>6, <3>1, Queue DEF TypeOK, Send
  <2>2. up' \in [Links -> Seq(Msg)]
    <3>1. Append(up[session], Head(out)) \in Seq(Msg)
      BY <2>1, Queue DEF TypeOK
    <3> QED
      BY <1>6, <3>1 DEF TypeOK, Send
  <2> QED
    BY <1>6, <2>1, <2>2 DEF TypeOK, Send
<1>7. CASE EdgeRestart
  <2>1. job' \in [Reporters -> Job] /\ out' \in Seq(Msg) /\ Len(out') <= SendCap
    BY <1>7, EmptySeq, BoundsAssumption DEF EdgeRestart, Free, Job
  <2>2. boot' \in Nat /\ seq' \in Nat /\ session' \in Links \cup {None}
    BY <1>7 DEF TypeOK, EdgeRestart
  <2>3. UNCHANGED <<actual, revision, open, up, current, rx, mem, row, accepted, heard, rows,
                    restarts, failures>>
    BY <1>7 DEF EdgeRestart
  <2> QED
    BY <2>1, <2>2, <2>3 DEF TypeOK, Job
<1>8. ASSUME NEW l \in Links, Connect(l) PROVE TypeOK'
  BY <1>8 DEF TypeOK, Connect
<1>9. CASE Disconnect
  BY <1>9 DEF TypeOK, Disconnect
<1>10. ASSUME NEW l \in Links, Close(l) PROVE TypeOK'
  BY <1>10, EmptySeq DEF TypeOK, Close
<1>11. ASSUME NEW l \in Links, Receive(l) PROVE TypeOK'
  <2>1. Head(up[l]) \in Msg /\ Tail(up[l]) \in Seq(Msg)
    BY <1>11, Queue DEF TypeOK, Receive
  <2> QED
    BY <1>11, <2>1 DEF TypeOK, Receive
<1>12. ASSUME NEW l \in Links, IgnoreStatus(l) PROVE TypeOK'
  BY <1>12, EnsuredType DEF TypeOK, IgnoreStatus, Plane
<1>13. ASSUME NEW l \in Links, AcceptStatus(l) PROVE TypeOK'
  <2>1. rx[l] \in Report
    BY <1>13, StatusType DEF AcceptStatus
  <2>2. mem' \in Plane
    BY <1>13, <2>1, EnsuredType, ReportedType DEF AcceptStatus
  <2>3. row' \in Row
    <3>1. row \in Row /\ rx[l].boot \in Nat /\ rx[l].seq \in Nat /\ rx[l].obs \in Nat
      BY <2>1 DEF TypeOK, Row, Report
    <3>2. /\ RowCursor(rx[l]) \in Row /\ RowWritten(rx[l]) \in Row
          /\ [row EXCEPT !.obs = rx[l].obs] \in Row
      BY <3>1, RowType DEF RowWritten, RowCursor
    <3> QED
      BY <1>13, <3>1, <3>2 DEF AcceptStatus, RowPartly
  <2>4. accepted' \in Report /\ heard' \in Seq(Nat)
    BY <1>13, <2>1, AdoptType DEF AcceptStatus
  <2>5. rows' \in {"complete", "behind", "lost"} /\ failures' \in {failures, failures + 1}
    BY <1>13 DEF TypeOK, AcceptStatus
  <2>6. UNCHANGED <<boot, seq, actual, revision, job, out, session, open, up, current, restarts>>
    BY <1>13 DEF AcceptStatus
  <2>7. rx' \in [Links -> Msg \cup {None}] /\ failures' \in Nat
    BY <1>13, <2>5 DEF AcceptStatus, TypeOK
  <2> QED
    BY <2>2, <2>3, <2>4, <2>5, <2>6, <2>7 DEF TypeOK, Plane, Row
<1>14. ASSUME NEW l \in Links, ApplyAck(l) PROVE TypeOK'
  <2> DEFINE p == Ensured
             applied == IF rx[l].ok THEN rx[l].rev ELSE p.applied
  <2>1. p \in Plane /\ row \in Row
    BY EnsuredType DEF TypeOK, Row
  <2>2. applied \in Nat
    BY <1>14, <2>1, StatusType DEF ApplyAck, AckMsg, Plane
  <2>3. [p EXCEPT !.applied = applied] \in Plane
    BY <2>1, <2>2 DEF Plane
  <2>4. RowAfterAck(row, p.boot, p.seq, applied) \in Row
    <3>1. p.boot \in Nat /\ p.seq \in Nat
      BY <2>1 DEF Plane
    <3> QED
      BY <2>1, <2>2, <3>1, RowType
  <2>5. mem' \in Plane /\ row' \in Row
    BY <1>14, <2>1, <2>3, <2>4 DEF ApplyAck
  <2> QED
    BY <1>14, <2>5 DEF TypeOK, ApplyAck, Plane, Row
<1>15. CASE ServerRestart
  <2>1. mem' \in Plane /\ up' \in [Links -> Seq(Msg)]
    BY <1>15, EmptySeq DEF ServerRestart, Unloaded, Blank, NoBoot, Plane
  <2>2. row' \in Row /\ accepted' \in Report \cup {None} /\ heard' \in Seq(Nat)
    <3>1. CASE UNCHANGED <<row, accepted, heard>>
      BY <3>1 DEF TypeOK, Row
    <3>2. ASSUME NEW l \in Links, rx[l] # None, rx[l].kind = "status",
                 row' = RowCursor(rx[l]), Adopt(rx[l])
          PROVE  row' \in Row /\ accepted' \in Report \cup {None} /\ heard' \in Seq(Nat)
      <4>1. rx[l] \in Report
        BY <3>2, StatusType
      <4>2. row \in Row /\ rx[l].boot \in Nat /\ rx[l].seq \in Nat /\ rx[l].obs \in Nat
        BY <4>1 DEF TypeOK, Row, Report
      <4> QED
        BY <3>2, <4>1, <4>2, RowType, AdoptType DEF RowCursor
    <3> QED
      BY <1>15, <3>1, <3>2 DEF ServerRestart
  <2> QED
    BY <1>15, <2>1, <2>2 DEF TypeOK, ServerRestart, Plane, Row
<1>16. CASE UNCHANGED vars
  BY <1>16 DEF TypeOK, vars
<1> QED
  BY <1>1, <1>2, <1>3, <1>4, <1>5, <1>6, <1>7, <1>8, <1>9, <1>10, <1>11, <1>12, <1>13,
     <1>14, <1>15, <1>16 DEF Next, EdgeStep, ServerStep

(* The state always has its type, and the send queue of the Edge never      *)
(* exceeds its capacity.                                                    *)
THEOREM TypeCorrect == Spec => []TypeOK
<1>1. Init => TypeOK
  BY TypeInit
<1>2. TypeOK /\ [Next]_vars => TypeOK'
  BY TypeStep
<1> QED
  BY <1>1, <1>2, PTL DEF Spec

-----------------------------------------------------------------------------
(* Where reports come from *)

(* The messages the queues hold are typed, so what leaves them is. *)
LEMMA Arrivals ==
    ASSUME TypeOK
    PROVE  /\ out \in Seq(Msg)
           /\ \A l \in Links : up[l] \in Seq(Msg) /\ rx[l] \in Msg \cup {None}
           /\ \A l \in Links : rx[l] # None /\ rx[l].kind = "status" => rx[l] \in Travelling
<1>1. ASSUME NEW l \in Links, rx[l] # None, rx[l].kind = "status" PROVE rx[l] \in Travelling
  <2>1. rx[l] \in Report
    BY <1>1, StatusType
  <2>2. rx[l] \in Arriving(l)
    BY <2>1 DEF Arriving
  <2> QED
    BY <2>2 DEF Travelling
<1> QED
  BY <1>1 DEF TypeOK

(* An ack or a report is queued behind what the queue holds. *)
LEMMA EnqueuedReports ==
    ASSUME TypeOK, NEW m \in Msg
    PROVE  Reports(Enqueued(m)) \subseteq Reports(out) \cup ({m} \cap Report)
<1>1. Reports(Append(out, m)) = Reports(out) \cup ({m} \cap Report)
  BY Arrivals, QueueReports
<1> QED
  BY <1>1 DEF Enqueued

(* A step that leaves the connections alone. *)
LEMMA SameTravelling ==
    ASSUME UNCHANGED <<up, rx>>
    PROVE  Travelling' = Travelling
BY DEF Travelling, Arriving, Reports

(* A report enters the send queue when it is complete, a connection from    *)
(* the send queue, and the plane from a connection: nowhere else.           *)
LEMMA Flow ==
    ASSUME TypeOK, [Next]_vars
    PROVE  /\ Reports(out') \subseteq Reports(out) \cup Working
           /\ Travelling' \subseteq Travelling \cup Reports(out)
           /\ {accepted'} \cap Report \subseteq ({accepted} \cap Report) \cup Travelling
<1> DEFINE Goal == /\ Reports(out') \subseteq Reports(out) \cup Working
                   /\ Travelling' \subseteq Travelling \cup Reports(out)
                   /\ {accepted'} \cap Report \subseteq ({accepted} \cap Report) \cup Travelling
<1> USE DEF edgeVars, linkVars, history
<1>1. ASSUME NEW g \in Reporters, NEW ok \in BOOLEAN, ApplyDesired(g, ok) PROVE Goal
  <2> DEFINE a == [kind |-> "ack", rev |-> revision + 1, ok |-> ok]
  <2>1. a \in Msg /\ {a} \cap Report = {}
    BY DEF TypeOK, Msg, AckMsg, Report
  <2>2. out' = Enqueued(a) /\ UNCHANGED <<up, rx, accepted>>
    BY <1>1 DEF ApplyDesired
  <2> HIDE DEF a
  <2> QED
    BY <2>1, <2>2, EnqueuedReports, SameTravelling
<1>2. ASSUME NEW g \in Reporters, EnqueueReport(g) PROVE Goal
  <2> DEFINE m == [kind |-> "status", boot |-> boot, seq |-> job[g].seq, born |-> job[g].born,
                   obs |-> job[g].obs]
  <2>1. m \in Msg /\ m \in Working
    BY <1>2 DEF EnqueueReport, TypeOK, Msg, Report, Working
  <2>2. out' = Enqueued(m) /\ UNCHANGED <<up, rx, accepted>>
    BY <1>2 DEF EnqueueReport
  <2> HIDE DEF m
  <2> QED
    BY <2>1, <2>2, EnqueuedReports, SameTravelling
<1>3. CASE Send
  <2>1. /\ Reports(Tail(out)) \subseteq Reports(out)
        /\ Head(out) \in Msg /\ {Head(out)} \cap Report \subseteq Reports(out)
    BY <1>3, Arrivals, Queue, QueueReports DEF Send
  <2>2. UNCHANGED <<rx, accepted>> /\ out' = Tail(out) /\ session \in Links
    BY <1>3 DEF Send, TypeOK
  <2>3. ASSUME NEW l \in Links PROVE Arriving(l)' \subseteq Arriving(l) \cup Reports(out)
    <3>1. up'[l] = up[l] \/ up'[l] = Append(up[l], Head(out))
      BY <1>3, <2>2 DEF Send, TypeOK
    <3>2. Reports(Append(up[l], Head(out))) \subseteq Reports(up[l]) \cup Reports(out)
      BY <2>1, Arrivals, QueueReports
    <3> QED
      BY <2>2, <3>1, <3>2 DEF Arriving
  <2> QED
    BY <2>1, <2>2, <2>3 DEF Travelling
<1>4. CASE EdgeRestart
  <2>1. Reports(out') = {}
    BY <1>4 DEF EdgeRestart, Reports
  <2> QED
    BY <1>4, <2>1, SameTravelling DEF EdgeRestart
<1>5. ASSUME NEW l \in Links, Close(l) \/ Receive(l) PROVE Goal
  <2>1. UNCHANGED <<out, accepted>>
    BY <1>5 DEF Close, Receive
  <2>2. ASSUME NEW k \in Links PROVE Arriving(k)' \subseteq Arriving(k)
    <3>1. CASE k # l \/ Close(l)
      <4>1. /\ rx'[k] = rx[k] /\ (up'[k] = up[k] \/ up'[k] = <<>>)
        BY <1>5, <3>1 DEF Close, Receive, TypeOK
      <4>2. Reports(<<>>) = {}
        BY DEF Reports
      <4> QED
        BY <4>1, <4>2 DEF Arriving
    <3>2. CASE k = l /\ Receive(l)
      <4>1. /\ up[l] # <<>> /\ up'[l] = Tail(up[l]) /\ (rx'[l] = rx[l] \/ rx'[l] = Head(up[l]))
        BY <3>2 DEF Receive, TypeOK
      <4>2. /\ Reports(Tail(up[l])) \subseteq Reports(up[l])
            /\ {Head(up[l])} \cap Report \subseteq Reports(up[l])
        BY <4>1, Arrivals, QueueReports
      <4> QED
        BY <3>2, <4>1, <4>2 DEF Arriving
    <3> QED
      BY <1>5, <3>1, <3>2
  <2> QED
    BY <2>1, <2>2 DEF Travelling
<1>6. ASSUME NEW l \in Links, IgnoreStatus(l) \/ AcceptStatus(l) \/ ApplyAck(l) PROVE Goal
  <2>1. UNCHANGED <<out, up>> /\ rx' = [rx EXCEPT ![l] = None]
    BY <1>6 DEF IgnoreStatus, AcceptStatus, ApplyAck
  <2>2. accepted' = accepted \/ accepted' \in Travelling
    BY <1>6, Arrivals DEF IgnoreStatus, AcceptStatus, ApplyAck, Adopt
  <2>3. ASSUME NEW k \in Links PROVE Arriving(k)' \subseteq Arriving(k)
    <3>1. rx'[k] = rx[k] \/ rx'[k] \notin Report
      BY <2>1, NoneAssumption DEF TypeOK, Msg
    <3> QED
      BY <2>1, <3>1 DEF Arriving
  <2> QED
    BY <2>1, <2>2, <2>3 DEF Travelling
<1>7. CASE ServerRestart
  <2>1. Travelling' = {}
    BY <1>7, NoneAssumption DEF ServerRestart, Travelling, Arriving, Reports, Msg
  <2>2. accepted' = accepted \/ accepted' \in Travelling
    BY <1>7, Arrivals DEF ServerRestart, Adopt
  <2> QED
    BY <1>7, <2>1, <2>2 DEF ServerRestart
<1>8. CASE \/ Change \/ Disconnect \/ UNCHANGED vars
           \/ \E g \in Reporters : Number(g) \/ Observe(g)
           \/ \E l \in Links : Connect(l)
  <2>1. UNCHANGED <<out, up, rx, accepted>>
    BY <1>8 DEF Change, Disconnect, Number, Observe, Connect, vars
  <2> QED
    BY <2>1, SameTravelling
<1>9. CASE EdgeStep
  BY <1>9, <1>1, <1>2, <1>3, <1>4, <1>8 DEF EdgeStep
<1>10. CASE ServerStep
  BY <1>10, <1>5, <1>6, <1>7, <1>8 DEF ServerStep
<1> QED
  BY <1>8, <1>9, <1>10 DEF Next

-----------------------------------------------------------------------------
(* Numbers *)

(* What a goroutine's report says, or would say now. *)
Seen(j, a) == IF j.pc = "observed" THEN j.obs ELSE a

(* Everything known is a report. *)
LEMMA KnownType == TypeOK => Known \subseteq Report /\ Working \subseteq Report
<1> SUFFICES ASSUME TypeOK PROVE Known \subseteq Report /\ Working \subseteq Report
  OBVIOUS
<1>1. ASSUME NEW m \in Working PROVE m \in Report
  <2>1. PICK g \in Reporters :
          m = [kind |-> "status", boot |-> boot, seq |-> job[g].seq, born |-> job[g].born,
               obs |-> IF job[g].pc = "observed" THEN job[g].obs ELSE actual]
    BY DEF Working
  <2>2. /\ boot \in Nat /\ actual \in Nat
        /\ job[g].seq \in Nat /\ job[g].born \in Nat /\ job[g].obs \in Nat
    BY DEF TypeOK
  <2> QED
    BY <2>1, <2>2 DEF Report
<1>2. Reports(out) \subseteq Report /\ Travelling \subseteq Report
  BY DEF Reports, Travelling, Arriving
<1> QED
  BY <1>1, <1>2 DEF Known

(* A goroutine that goes on keeps its number, and can only see more. *)
LEMMA WorkingMoves ==
    ASSUME TypeOK, boot' = boot,
           \A h \in Reporters :
              job'[h].pc \in {"numbered", "observed"} =>
                /\ job[h].pc \in {"numbered", "observed"}
                /\ job'[h].seq = job[h].seq /\ job'[h].born = job[h].born
                /\ Seen(job'[h], actual') >= Seen(job[h], actual)
    PROVE  \A m \in Working' : \E n \in Working :
              m.boot = n.boot /\ m.seq = n.seq /\ m.born = n.born /\ m.obs >= n.obs
<1> SUFFICES ASSUME NEW m \in Working'
             PROVE  \E n \in Working :
                       m.boot = n.boot /\ m.seq = n.seq /\ m.born = n.born /\ m.obs >= n.obs
  OBVIOUS
<1>1. PICK h \in Reporters :
        /\ job'[h].pc \in {"numbered", "observed"}
        /\ m = [kind |-> "status", boot |-> boot', seq |-> job'[h].seq, born |-> job'[h].born,
                obs |-> Seen(job'[h], actual')]
  BY DEF Working, Seen
<1> DEFINE n == [kind |-> "status", boot |-> boot, seq |-> job[h].seq, born |-> job[h].born,
                 obs |-> Seen(job[h], actual)]
<1>2. n \in Working
  BY <1>1 DEF Working, Seen
<1>3. m.boot = n.boot /\ m.seq = n.seq /\ m.born = n.born /\ m.obs >= n.obs
  BY <1>1
<1> QED
  BY <1>2, <1>3

(* No new number, no process back from the past. *)
LEMMA NumbersKept ==
    ASSUME TypeOK, TypeOK', NumbersOK, boot' \in 1..MaxBoot, boot' >= boot,
           boot' = boot => seq' >= seq, actual' >= actual,
           \A m \in Known' : \E n \in Known :
              m.boot = n.boot /\ m.seq = n.seq /\ m.born = n.born /\ m.obs >= n.obs,
           \A m \in (Working \cup Reports(out))' : m.boot = boot'
    PROVE  NumbersOK'
<1>1. /\ Known \subseteq Report /\ boot \in Nat /\ boot' \in Nat /\ seq \in Nat /\ seq' \in Nat
      /\ actual \in Nat /\ actual' \in Nat
  BY KnownType DEF TypeOK
<1>2. Known' \subseteq Report
  <2>1. ASSUME NEW m \in Working' PROVE m \in Report
    <3>1. PICK g \in Reporters :
            m = [kind |-> "status", boot |-> boot', seq |-> job'[g].seq, born |-> job'[g].born,
                 obs |-> IF job'[g].pc = "observed" THEN job'[g].obs ELSE actual']
      BY DEF Working
    <3>2. /\ boot' \in Nat /\ actual' \in Nat
          /\ job'[g].seq \in Nat /\ job'[g].born \in Nat /\ job'[g].obs \in Nat
      BY DEF TypeOK
    <3> QED
      BY <3>1, <3>2 DEF Report
  <2> QED
    BY <2>1 DEF Known, Reports, Travelling, Arriving
<1>3. ASSUME NEW m \in Known'
      PROVE  /\ m.boot \in 1..boot' /\ m.seq >= 1
             /\ m.boot = boot' => m.seq <= seq'
             /\ m.born <= m.obs /\ m.born <= actual'
  <2>1. PICK n \in Known :
          m.boot = n.boot /\ m.seq = n.seq /\ m.born = n.born /\ m.obs >= n.obs
    OBVIOUS
  <2>2. /\ n.boot \in 1..boot /\ n.seq >= 1 /\ (n.boot = boot => n.seq <= seq)
        /\ n.born <= n.obs /\ n.born <= actual
    BY DEF NumbersOK
  <2>3. /\ n.boot \in Nat /\ n.seq \in Nat /\ n.born \in Nat /\ n.obs \in Nat /\ m.obs \in Nat
    BY <1>1, <1>2 DEF Report
  <2> QED
    BY <1>1, <2>1, <2>2, <2>3
<1>4. ASSUME NEW m \in Known', NEW k \in Known', Newer(k, m) PROVE m.born <= k.born
  <2>1. PICK n \in Known : m.boot = n.boot /\ m.seq = n.seq /\ m.born = n.born
    OBVIOUS
  <2>2. PICK j \in Known : k.boot = j.boot /\ k.seq = j.seq /\ k.born = j.born
    OBVIOUS
  <2>3. m # None
    BY <1>2, NoneAssumption DEF Msg
  <2>4. Newer(j, n)
    BY <1>4, <2>1, <2>2, <2>3 DEF Newer
  <2> QED
    BY <2>1, <2>2, <2>4 DEF NumbersOK
<1> QED
  BY <1>3, <1>4 DEF NumbersOK

(* Most steps take no new number, and hand on the reports there are. *)
LEMMA NumbersHandedOn ==
    ASSUME TypeOK, NumbersOK, TypeOK', [Next]_vars, boot' = boot, seq' = seq, actual' >= actual,
           \A h \in Reporters :
              job'[h].pc \in {"numbered", "observed"} =>
                /\ job[h].pc \in {"numbered", "observed"}
                /\ job'[h].seq = job[h].seq /\ job'[h].born = job[h].born
                /\ Seen(job'[h], actual') >= Seen(job[h], actual)
    PROVE  NumbersOK'
<1>1. \A m \in Working' : \E n \in Working :
         m.boot = n.boot /\ m.seq = n.seq /\ m.born = n.born /\ m.obs >= n.obs
  BY WorkingMoves
<1>2. \A m \in Known : m.obs \in Nat
  BY KnownType DEF Report
<1>3. \A m \in Known' : m \in Working' \/ m \in Known
  BY Flow DEF Known
<1>4. \A m \in Known' : \E n \in Known :
         m.boot = n.boot /\ m.seq = n.seq /\ m.born = n.born /\ m.obs >= n.obs
  BY <1>1, <1>2, <1>3 DEF Known
<1>5. \A m \in (Working \cup Reports(out))' : m.boot = boot'
  BY <1>1, Flow DEF NumbersOK
<1>6. boot' \in 1..MaxBoot /\ boot' >= boot /\ seq' >= seq
  BY DEF NumbersOK, TypeOK
<1> QED
  BY <1>4, <1>5, <1>6, NumbersKept

(* A new number is the highest of its process, and no change of the Edge is *)
(* younger than it.                                                         *)
LEMMA NumbersNew ==
    ASSUME TypeOK, NumbersOK, TypeOK', [Next]_vars, NEW g \in Reporters, Number(g)
    PROVE  NumbersOK'
<1> DEFINE new == [kind |-> "status", boot |-> boot, seq |-> seq + 1, born |-> actual,
                   obs |-> actual]
<1>1. /\ UNCHANGED <<boot, actual, out, up, rx, accepted>> /\ seq' = seq + 1
      /\ job' = [job EXCEPT ![g] = [pc |-> "numbered", seq |-> seq', born |-> actual, obs |-> 0]]
  BY DEF Number, linkVars, history
<1>2. ASSUME NEW m \in Working' PROVE m \in Working \/ m = new
  <2>1. PICK h \in Reporters :
          /\ job'[h].pc \in {"numbered", "observed"}
          /\ m = [kind |-> "status", boot |-> boot', seq |-> job'[h].seq, born |-> job'[h].born,
                  obs |-> Seen(job'[h], actual')]
    BY DEF Working, Seen
  <2>2. CASE h = g
    <3>1. job'[g] = [pc |-> "numbered", seq |-> seq', born |-> actual, obs |-> 0]
      BY <1>1 DEF TypeOK
    <3> QED
      BY <1>1, <2>1, <2>2, <3>1 DEF Seen
  <2>3. CASE h # g
    <3>1. job'[h] = job[h]
      BY <1>1, <2>3 DEF TypeOK
    <3> QED
      BY <1>1, <2>1, <3>1 DEF Working, Seen
  <2> QED
    BY <2>2, <2>3
<1>3. Travelling' = Travelling /\ Reports(out)' = Reports(out)
  BY <1>1, SameTravelling DEF Reports
<1>4. \A m \in Known' : m \in Known \/ m = new
  BY <1>1, <1>2, <1>3 DEF Known
<1>5. /\ Known \subseteq Report /\ boot \in Nat /\ seq \in Nat /\ actual \in Nat
      /\ new.boot = boot /\ new.seq = seq + 1 /\ new.born = actual /\ new.obs = actual
      /\ new \in Report
  <2>1. boot \in Nat /\ seq \in Nat /\ actual \in Nat
    BY DEF TypeOK
  <2>2. new \in Report
    BY <2>1 DEF Report
  <2> QED
    BY <2>1, <2>2, KnownType
<1> HIDE DEF new
<1>6. ASSUME NEW m \in Known'
      PROVE  /\ m.boot \in 1..boot' /\ m.seq >= 1
             /\ m.boot = boot' => m.seq <= seq'
             /\ m.born <= m.obs /\ m.born <= actual'
  <2>1. CASE m \in Known
    <3>1. /\ m.boot \in 1..boot /\ m.seq >= 1 /\ (m.boot = boot => m.seq <= seq)
          /\ m.born <= m.obs /\ m.born <= actual /\ m.seq \in Nat
      BY <2>1, <1>5 DEF NumbersOK, Report
    <3> QED
      BY <1>1, <1>5, <3>1
  <2>2. CASE m = new
    BY <1>1, <1>5, <2>2 DEF NumbersOK
  <2> QED
    BY <1>4, <2>1, <2>2
<1>7. ASSUME NEW m \in Known', NEW n \in Known', Newer(n, m) PROVE m.born <= n.born
  <2>1. CASE m \in Known /\ n \in Known
    BY <2>1, <1>7 DEF NumbersOK
  <2>2. CASE n = new
    BY <1>1, <1>5, <1>6, <2>2
  <2>3. CASE m = new /\ n \in Known
    <3>1. /\ n.boot \in 1..boot /\ (n.boot = boot => n.seq <= seq) /\ n.seq \in Nat
      BY <2>3, <1>5 DEF NumbersOK, Report
    <3>2. m # None
      BY <2>3, <1>5, NoneAssumption DEF Msg
    <3> QED
      BY <1>5, <1>7, <2>3, <3>1, <3>2 DEF Newer
  <2> QED
    BY <1>4, <2>1, <2>2, <2>3
<1>8. \A m \in (Working \cup Reports(out))' : m.boot = boot'
  BY <1>1, <1>2, <1>3, <1>5 DEF NumbersOK
<1> QED
  BY <1>1, <1>6, <1>7, <1>8 DEF NumbersOK

(* A new process has written nothing yet, and has a higher boot id.         *)
LEMMA NumbersRestart ==
    ASSUME TypeOK, NumbersOK, TypeOK', [Next]_vars, EdgeRestart
    PROVE  NumbersOK'
<1>1. /\ boot' = boot + 1 /\ boot < MaxBoot /\ out' = <<>> /\ job' = [g \in Reporters |-> Free]
      /\ actual' = actual
  BY DEF EdgeRestart
<1>2. Working' = {} /\ Reports(out)' = {}
  BY <1>1 DEF Working, Reports, Free
<1>3. \A m \in Known' : m \in Known
  BY <1>2, Flow DEF Known
<1>4. \A m \in Known : m.obs >= m.obs
  BY KnownType DEF Report
<1>5. MaxBoot \in Nat /\ boot \in Nat /\ actual \in Nat
  BY BoundsAssumption DEF TypeOK
<1>6. boot' \in 1..MaxBoot /\ boot' >= boot /\ boot' # boot /\ actual' >= actual
  BY <1>1, <1>5
<1>7. \A m \in Known' : \E n \in Known :
         m.boot = n.boot /\ m.seq = n.seq /\ m.born = n.born /\ m.obs >= n.obs
  BY <1>3, <1>4
<1> QED
  BY <1>2, <1>6, <1>7, NumbersKept

(* The inductive step of the numbers. *)
LEMMA NumbersStep == TypeOK /\ NumbersOK /\ [Next]_vars => NumbersOK'
<1> SUFFICES ASSUME TypeOK, NumbersOK, [Next]_vars PROVE NumbersOK'
  OBVIOUS
<1>t. TypeOK'
  BY TypeStep
<1>n. /\ actual \in Nat /\ seq \in Nat
      /\ \A h \in Reporters : job[h].obs \in Nat /\ Seen(job[h], actual) \in Nat
  BY DEF TypeOK, Seen
<1> USE DEF edgeVars, linkVars, history
<1>1. ASSUME NEW g \in Reporters, Number(g) PROVE NumbersOK'
  BY <1>1, <1>t, NumbersNew
<1>2. CASE EdgeRestart
  BY <1>2, <1>t, NumbersRestart
<1>3. ASSUME NEW g \in Reporters, NEW ok \in BOOLEAN, ApplyDesired(g, ok) PROVE NumbersOK'
  <2>1. UNCHANGED <<boot, seq>> /\ actual' = actual + 1 /\ job' = [job EXCEPT ![g].pc = "due"]
    BY <1>3 DEF ApplyDesired
  <2>2. \A h \in Reporters : job'[h].pc \in {"numbered", "observed"} => job'[h] = job[h]
    BY <2>1 DEF TypeOK
  <2>3. \A h \in Reporters : Seen(job[h], actual') >= Seen(job[h], actual)
    BY <1>n, <2>1 DEF Seen
  <2> QED
    BY <1>n, <1>t, <2>1, <2>2, <2>3, NumbersHandedOn
<1>4. CASE Change
  <2>1. UNCHANGED <<boot, seq, job>> /\ actual' = actual + 1
    BY <1>4 DEF Change
  <2>2. \A h \in Reporters : Seen(job'[h], actual') >= Seen(job[h], actual)
    BY <2>1 DEF Seen, TypeOK
  <2> QED
    BY <1>n, <1>t, <2>1, <2>2, NumbersHandedOn
<1>5. ASSUME NEW g \in Reporters, Observe(g) PROVE NumbersOK'
  <2>1. /\ UNCHANGED <<boot, seq, actual>> /\ job[g].pc = "numbered"
        /\ job' = [job EXCEPT ![g].pc = "observed", ![g].obs = actual]
    BY <1>5 DEF Observe
  <2>2. ASSUME NEW h \in Reporters
        PROVE  /\ job'[h].pc \in {"numbered", "observed"} => job[h].pc \in {"numbered", "observed"}
               /\ job'[h].seq = job[h].seq /\ job'[h].born = job[h].born
               /\ Seen(job'[h], actual') >= Seen(job[h], actual)
    <3>1. CASE h = g
      <4>1. job'[g] = [job[g] EXCEPT !.pc = "observed", !.obs = actual]
        BY <2>1 DEF TypeOK
      <4>2. /\ job'[g].pc = "observed" /\ job'[g].obs = actual
            /\ job'[g].seq = job[g].seq /\ job'[g].born = job[g].born
        BY <4>1 DEF TypeOK
      <4> QED
        BY <2>1, <3>1, <4>2, <1>n DEF Seen
    <3>2. CASE h # g
      <4>1. job'[h] = job[h]
        BY <2>1, <3>2 DEF TypeOK
      <4> QED
        BY <2>1, <4>1, <1>n
    <3> QED
      BY <3>1, <3>2
  <2>3. actual' >= actual /\ boot' = boot /\ seq' = seq
    BY <1>n, <2>1
  <2> QED
    BY <1>t, <2>2, <2>3, NumbersHandedOn
<1>6. ASSUME NEW g \in Reporters, EnqueueReport(g) PROVE NumbersOK'
  <2>1. UNCHANGED <<boot, seq, actual>> /\ job' = [job EXCEPT ![g] = Free]
    BY <1>6 DEF EnqueueReport
  <2>2. \A h \in Reporters : job'[h].pc \in {"numbered", "observed"} => job'[h] = job[h]
    BY <2>1 DEF TypeOK, Free
  <2> QED
    BY <1>n, <1>t, <2>1, <2>2, NumbersHandedOn
<1>7. CASE Send \/ Disconnect \/ ServerStep \/ UNCHANGED vars
  <2>1. UNCHANGED <<boot, seq, actual, job>>
    BY <1>7 DEF Send, Disconnect, ServerStep, ServerRestart, Connect, Close, Receive,
                IgnoreStatus, AcceptStatus, ApplyAck, vars
  <2> QED
    BY <1>n, <1>t, <2>1, NumbersHandedOn
<1> QED
  BY <1>1, <1>2, <1>3, <1>4, <1>5, <1>6, <1>7 DEF Next, EdgeStep

-----------------------------------------------------------------------------
(* Processes heard *)

(* The plane hears a report that passed the link check and its own gate, or *)
(* nothing new.                                                             *)
LEMMA AdoptSteps ==
    ASSUME TypeOK, [Next]_vars
    PROVE  \/ UNCHANGED <<accepted, heard>>
           \/ \E l \in Links : /\ rx[l] # None /\ rx[l].kind = "status"
                               /\ Accepts(Ensured, rx[l]) /\ Adopt(rx[l])
                               /\ UNCHANGED boot
<1>1. CASE EdgeStep
  BY <1>1 DEF EdgeStep, ApplyDesired, Number, Observe, EnqueueReport, Change, Send, EdgeRestart,
              Disconnect, history
<1>2. CASE ServerRestart
  BY <1>2 DEF ServerRestart, edgeVars, history
<1>3. ASSUME NEW l \in Links, AcceptStatus(l)
      PROVE  /\ rx[l] # None /\ rx[l].kind = "status"
             /\ Accepts(Ensured, rx[l]) /\ Adopt(rx[l]) /\ UNCHANGED boot
  BY <1>3 DEF AcceptStatus, edgeVars
<1>4. ASSUME NEW l \in Links,
             Connect(l) \/ Close(l) \/ Receive(l) \/ IgnoreStatus(l) \/ ApplyAck(l)
      PROVE  UNCHANGED <<accepted, heard>>
  BY <1>4 DEF Connect, Close, Receive, IgnoreStatus, ApplyAck, history
<1>5. CASE UNCHANGED vars
  BY <1>5 DEF vars, history
<1> QED
  BY <1>1, <1>2, <1>3, <1>4, <1>5 DEF Next, ServerStep

(* The report a plane hears is of a process of the Edge. *)
LEMMA StatusNumbers ==
    ASSUME TypeOK, NumbersOK, NEW l \in Links, rx[l] # None, rx[l].kind = "status"
    PROVE  /\ rx[l] \in Report /\ rx[l] \in Travelling /\ rx[l] \in Known
           /\ rx[l].boot \in 1..boot /\ rx[l].boot \in Nat /\ rx[l].boot <= MaxBoot
           /\ rx[l].seq \in Nat /\ rx[l].seq >= 1
<1>1. rx[l] \in Report /\ rx[l] \in Travelling
  BY Arrivals, StatusType
<1>2. rx[l] \in Known
  BY <1>1 DEF Known
<1>3. rx[l].boot \in 1..boot /\ rx[l].seq >= 1 /\ boot \in 1..MaxBoot /\ boot \in Nat
  BY <1>2 DEF NumbersOK, TypeOK
<1>4. MaxBoot \in Nat
  BY BoundsAssumption
<1> QED
  BY <1>1, <1>2, <1>3, <1>4 DEF Report

(* What was heard in order before is heard in order still, and the report   *)
(* that is heard now is of the process heard last or of a later one.        *)
LEMMA HeardAdopt ==
    ASSUME TypeOK, HeardOK, NEW m \in Report, m.boot >= 1, Adopt(m)
    PROVE  /\ accepted' = m /\ heard' # <<>> /\ heard'[Len(heard')] = m.boot
           /\ Heard' = Heard \cup {m.boot}
           /\ InOrder' => InOrder /\ (m.boot = Last.boot \/ Last.boot < m.boot)
<1>1. /\ Len(heard) \in Nat /\ DOMAIN heard = 1..Len(heard) /\ m.boot \in Nat
      /\ heard # <<>> => Len(heard) > 0
  BY LenProperties, EmptySeq DEF TypeOK, Report
<1>2. CASE heard # <<>> /\ heard[Len(heard)] = m.boot
  <2>1. heard' = heard /\ accepted' = m
    BY <1>2 DEF Adopt
  <2>2. Len(heard) \in 1..Len(heard)
    BY <1>1, <1>2
  <2>3. Heard' = Heard /\ m.boot \in Heard
    BY <1>2, <2>1, <2>2 DEF Heard
  <2>4. Last.boot = m.boot
    BY <1>2 DEF HeardOK, Last
  <2> QED
    BY <1>2, <2>1, <2>3, <2>4 DEF InOrder
<1>3. CASE ~(heard # <<>> /\ heard[Len(heard)] = m.boot)
  <2>1. heard' = Append(heard, m.boot) /\ accepted' = m
    BY <1>3 DEF Adopt
  <2>2. /\ Len(heard') = Len(heard) + 1 /\ heard' # <<>> /\ heard'[Len(heard) + 1] = m.boot
        /\ \A k \in 1..Len(heard) : heard'[k] = heard[k]
    <3>1. heard \in Seq(Nat)
      BY DEF TypeOK
    <3>2. heard' \in Seq(Nat)
      BY <1>1, <2>1, <3>1, AppendProperties
    <3>3. /\ Len(heard') = Len(heard) + 1 /\ heard'[Len(heard) + 1] = m.boot
          /\ \A k \in 1..Len(heard) : heard'[k] = heard[k]
      BY <1>1, <2>1, <3>1, AppendProperties
    <3>4. Len(heard') # 0
      BY <1>1, <3>3
    <3> QED
      BY <3>3, <3>4, EmptySeq
  <2>3. Heard' = Heard \cup {m.boot}
    <3>1. 1..Len(heard') = (1..Len(heard)) \cup {Len(heard) + 1}
      BY <1>1, <2>2
    <3> QED
      BY <2>2, <3>1 DEF Heard
  <2>4. InOrder' => InOrder
    <3> SUFFICES ASSUME InOrder', NEW k \in 2..Len(heard) PROVE heard[k - 1] < heard[k]
      BY DEF InOrder
    <3>1. k \in 2..Len(heard') /\ k \in 1..Len(heard) /\ k - 1 \in 1..Len(heard)
      BY <1>1, <2>2
    <3>2. heard'[k - 1] < heard'[k]
      BY <3>1 DEF InOrder
    <3> QED
      BY <2>2, <3>1, <3>2
  <2>5. InOrder' => m.boot = Last.boot \/ Last.boot < m.boot
    <3>1. CASE heard = <<>>
      <4>1. Last.boot = 0
        BY <3>1 DEF HeardOK, Last, NoBoot
      <4> QED
        BY <1>1, <4>1
    <3>2. CASE heard # <<>>
      <4> SUFFICES ASSUME InOrder' PROVE Last.boot < m.boot
        OBVIOUS
      <4>1. Len(heard) + 1 \in 2..Len(heard') /\ Len(heard) \in 1..Len(heard)
        BY <1>1, <2>2, <3>2
      <4>2. heard'[(Len(heard) + 1) - 1] < heard'[Len(heard) + 1]
        BY <4>1 DEF InOrder
      <4>3. (Len(heard) + 1) - 1 = Len(heard)
        BY <1>1
      <4>4. Last.boot = heard[Len(heard)]
        BY <3>2 DEF HeardOK, Last
      <4> QED
        BY <2>2, <4>1, <4>2, <4>3, <4>4
    <3> QED
      BY <3>1, <3>2
  <2> QED
    BY <2>1, <2>2, <2>3, <2>4, <2>5
<1> QED
  BY <1>2, <1>3

(* Nothing that was accepted is nothing. *)
LEMMA LastType ==
    ASSUME TypeOK
    PROVE  Last.boot \in Nat /\ Last.seq \in Nat
BY DEF TypeOK, Last, Report, NoBoot

(* The inductive step of what was heard. *)
LEMMA HeardStep == TypeOK /\ NumbersOK /\ NumbersOK' /\ HeardOK /\ [Next]_vars => HeardOK'
<1> SUFFICES ASSUME TypeOK, NumbersOK, NumbersOK', HeardOK, [Next]_vars PROVE HeardOK'
  OBVIOUS
<1>t. TypeOK'
  BY TypeStep
<1>1. CASE UNCHANGED <<accepted, heard>>
  <2>1. boot' >= boot
    <3>1. boot' = boot \/ boot' = boot + 1
      BY DEF Next, EdgeStep, ServerStep, ApplyDesired, Number, Observe, EnqueueReport, Change,
             Send, EdgeRestart, Disconnect, ServerRestart, Connect, Close, Receive, IgnoreStatus,
             AcceptStatus, ApplyAck, edgeVars, vars
    <3> QED
      BY <3>1 DEF TypeOK
  <2>2. boot \in Nat /\ boot' \in Nat
    BY <1>t DEF TypeOK
  <2>3. 1..boot \subseteq 1..boot'
    BY <2>1, <2>2
  <2> QED
    BY <1>1, <2>3 DEF HeardOK, Heard, InOrder
<1>2. ASSUME NEW l \in Links, rx[l] # None, rx[l].kind = "status", Adopt(rx[l]), UNCHANGED boot
      PROVE  HeardOK'
  <2> DEFINE m == rx[l]
  <2>1. m \in Report /\ m.boot \in 1..boot /\ m.boot \in Nat /\ m.boot >= 1
    BY <1>2, StatusNumbers
  <2>2. /\ accepted' = m /\ heard' # <<>> /\ heard'[Len(heard')] = m.boot
        /\ Heard' = Heard \cup {m.boot}
        /\ InOrder' => InOrder /\ (m.boot = Last.boot \/ Last.boot < m.boot)
    BY <1>2, <2>1, HeardAdopt
  <2>3. accepted' # None
    BY <2>1, <2>2, NoneAssumption DEF Msg
  <2>4. \A b \in Heard' : b \in 1..boot'
    BY <1>2, <2>1, <2>2 DEF HeardOK
  <2>5. ASSUME InOrder', NEW b \in Heard' PROVE b <= m.boot
    <3>1. CASE b = m.boot
      BY <2>1, <3>1
    <3>2. CASE b \in Heard
      <4>1. b \in Nat /\ heard # <<>>
        <5>1. heard = <<>> => Len(heard) = 0
          BY EmptySeq
        <5>2. b \in 1..boot
          BY <3>2 DEF HeardOK
        <5> QED
          BY <3>2, <5>1, <5>2 DEF Heard
      <4>2. accepted # None /\ Last = accepted
        BY <4>1 DEF HeardOK, Last
      <4>3. b <= accepted.boot
        BY <2>2, <2>5, <3>2 DEF HeardOK
      <4> QED
        BY <2>1, <2>2, <2>5, <4>1, <4>2, <4>3, LastType
    <3> QED
      BY <2>2, <2>5, <3>1, <3>2
  <2> QED
    BY <2>2, <2>3, <2>4, <2>5 DEF HeardOK
<1> QED
  BY <1>1, <1>2, AdoptSteps

-----------------------------------------------------------------------------
(* What plane and rows know of the report accepted last *)

(* A plane that is loaded from the rows knows what one kept in memory knows,*)
(* except for the retired processes, of which nothing can be on its way.    *)
LEMMA EnsuredCursor ==
    ASSUME TypeOK, CursorOK, Remembered
    PROVE  /\ Ensured.boot = Last.boot /\ Ensured.seq = Last.seq
           /\ Ensured.retired = mem.retired
           /\ rows = "complete" => row.obs = Ensured.obs
           /\ Ensured.retired # <<>> => Len(Ensured.retired) < Ensured.boot
           /\ \A k \in 1..Len(Ensured.retired) : Ensured.retired[k] < Ensured.boot
           /\ \A m \in Travelling :
                 m.boot \in Heard => m.boot = Last.boot \/ HasRetired(Ensured, m.boot)
<1>1. CASE mem.loaded
  BY <1>1 DEF Ensured, CursorOK
<1>2. CASE ~mem.loaded
  <2>1. rows = "complete" /\ mem = Unloaded
    BY <1>2 DEF CursorOK, Remembered, TypeOK
  <2>2. /\ Ensured.boot = row.boot /\ Ensured.seq = row.seq /\ Ensured.obs = row.obs
        /\ Ensured.retired = <<>> /\ mem.retired = <<>>
    BY <1>2, <2>1 DEF Ensured, Unloaded, Blank
  <2>3. row.boot = Last.boot /\ row.seq = Last.seq
    BY <2>1 DEF CursorOK
  <2>4. 1..Len(<<>>) = {}
    BY EmptySeq
  <2>5. \A m \in Travelling : m.boot \in Heard => m.boot = Last.boot \/ HasRetired(mem, m.boot)
    BY DEF CursorOK
  <2> QED
    BY <2>2, <2>3, <2>4, <2>5 DEF HasRetired
<1> QED
  BY <1>1, <1>2

(* A report newer than the one accepted last passes both gates. *)
LEMMA NewestPasses ==
    ASSUME TypeOK, NumbersOK, CursorOK, Remembered,
           NEW l \in Links, rx[l] # None, rx[l].kind = "status", Newer(rx[l], accepted)
    PROVE  /\ Accepts(Ensured, rx[l])
           /\ TakesCursor(row, rx[l].boot, rx[l].seq)
           /\ rx[l].boot >= Last.boot
           /\ rx[l].boot = Last.boot => rx[l].seq > Last.seq
<1> DEFINE m == rx[l]
<1>1. m.boot \in Nat /\ m.boot >= 1 /\ m.seq \in Nat /\ m.seq >= 1
  BY StatusNumbers
<1>2. m.boot >= Last.boot /\ (m.boot = Last.boot => m.seq > Last.seq)
  <2>1. CASE accepted = None
    BY <2>1, <1>1 DEF Last, NoBoot
  <2>2. CASE accepted # None
    <3>1. accepted.boot \in Nat /\ Last = accepted
      BY <2>2 DEF TypeOK, Report, Last
    <3> QED
      BY <2>2, <1>1, <3>1 DEF Newer
  <2> QED
    BY <2>1, <2>2
<1>3. Accepts(Ensured, m)
  <2>1. ~HasRetired(Ensured, m.boot)
    <3> SUFFICES ASSUME NEW k \in 1..Len(Ensured.retired), Ensured.retired[k] = m.boot PROVE FALSE
      BY DEF HasRetired
    <3>1. m.boot < Last.boot
      BY EnsuredCursor
    <3> QED
      BY <1>1, <1>2, <3>1, LastType
  <2> QED
    BY <1>1, <1>2, <2>1, EnsuredCursor, LastType DEF Accepts
<1>4. TakesCursor(row, m.boot, m.seq)
  <2>1. /\ row.boot \in Nat /\ row.prev \in Nat /\ row.seq \in Nat
        /\ row.boot <= Last.boot /\ (row.boot = Last.boot => row.seq <= Last.seq)
        /\ row.prev # NoBoot => row.prev < row.boot
    BY DEF TypeOK, CursorOK
  <2> QED
    BY <1>1, <1>2, <2>1, LastType DEF TakesCursor
<1> QED
  BY <1>2, <1>3, <1>4

(* A report that passes the gate is newer, or of a process not heard so     *)
(* far.                                                                     *)
LEMMA AcceptedStaysInOrder ==
    ASSUME TypeOK, NumbersOK, HeardOK, CursorOK, Remembered,
           NEW l \in Links, rx[l] # None, rx[l].kind = "status", Accepts(Ensured, rx[l])
    PROVE  /\ rx[l].boot = Last.boot \/ Last.boot < rx[l].boot => Newer(rx[l], accepted)
           /\ rx[l].boot \in Heard => Newer(rx[l], accepted)
<1> DEFINE m == rx[l]
<1>1. m \in Travelling /\ m.boot \in Nat /\ m.boot >= 1 /\ m.seq \in Nat
  BY StatusNumbers
<1>2. m.boot = Last.boot => Newer(m, accepted)
  BY EnsuredCursor DEF Accepts, Newer, Last
<1>3. Last.boot < m.boot => Newer(m, accepted)
  BY <1>1, LastType DEF Newer, Last
<1>4. m.boot \in Heard => Newer(m, accepted)
  <2> SUFFICES ASSUME m.boot \in Heard, m.boot # Last.boot PROVE FALSE
    BY <1>2
  <2>1. HasRetired(Ensured, m.boot) /\ Ensured.boot # m.boot
    BY <1>1, EnsuredCursor
  <2> QED
    BY <2>1 DEF Accepts
<1> QED
  BY <1>2, <1>3, <1>4

(* At first nobody has been heard and no row written. *)
LEMMA CursorsInit == Init => Cursors
<1> SUFFICES ASSUME Init PROVE Cursors
  OBVIOUS
<1>1. Known = {} /\ Working = {} /\ Reports(out) = {} /\ Travelling = {}
  <2>1. Reports(<<>>) = {} /\ None \notin Report
    BY NoneAssumption DEF Reports, Msg
  <2> QED
    BY <2>1 DEF Init, Known, Working, Travelling, Arriving, Free
<1>2. NumbersOK
  <2>1. boot \in 1..MaxBoot
    BY BoundsAssumption DEF Init
  <2> QED
    BY <1>1, <2>1 DEF NumbersOK
<1>3. HeardOK
  BY EmptySeq DEF Init, HeardOK, Heard
<1>4. CursorOK
  <2>1. 1..Len(<<>>) = {}
    BY EmptySeq
  <2> QED
    BY <1>1, <2>1 DEF Init, CursorOK, Last, Unloaded, Blank, NoBoot
<1> QED
  BY <1>2, <1>3, <1>4 DEF Cursors

(* A replaced process is retired, and none is forgotten for lack of room.   *)
LEMMA RetireKeeps ==
    ASSUME TypeOK, NEW p \in Plane, NEW m \in Report, m.boot \in Nat, m.boot <= MaxBoot,
           p.boot = m.boot \/ p.boot < m.boot,
           p.retired # <<>> => Len(p.retired) < p.boot,
           \A k \in 1..Len(p.retired) : p.retired[k] < p.boot
    PROVE  /\ LET t == Reported(p, m).retired
              IN  /\ t # <<>> => Len(t) < m.boot
                  /\ \A k \in 1..Len(t) : t[k] < m.boot
           /\ \A b \in Nat \ {NoBoot, m.boot} :
                 b = p.boot \/ HasRetired(p, b) => HasRetired(Reported(p, m), b)
<1> DEFINE q == p.retired
           t == Reported(p, m).retired
<1>1. /\ q \in Seq(Nat) /\ p.boot \in Nat /\ Len(q) \in Nat
      /\ \A k \in 1..Len(q) : q[k] \in Nat
  BY LenProperties, ElementOfSeq DEF Plane
<1>2. t = IF p.boot = m.boot THEN q ELSE Retire(p)
  BY DEF Reported, Plane
<1>3. CASE p.boot = m.boot
  BY <1>2, <1>3 DEF HasRetired
<1>4. CASE p.boot # m.boot /\ p.boot = NoBoot
  <2>1. t = q
    BY <1>2, <1>4 DEF Retire
  <2>2. q = <<>>
    BY <1>1, <1>4 DEF NoBoot
  <2>3. 1..Len(<<>>) = {}
    BY EmptySeq
  <2> QED
    BY <1>4, <2>1, <2>2, <2>3 DEF HasRetired
<1>5. CASE p.boot # m.boot /\ p.boot # NoBoot
  <2>1. p.boot < m.boot /\ p.boot > 0
    BY <1>1, <1>5 DEF NoBoot
  <2>2. Len(q) < p.boot
    <3>1. CASE q = <<>>
      BY <2>1, <3>1, EmptySeq
    <3>2. CASE q # <<>>
      BY <3>2
    <3> QED
      BY <3>1, <3>2
  <2>3. Len(q) < MaxRetired
    BY <1>1, <2>1, <2>2, BoundsAssumption, RetiredAssumption
  <2>4. t = Append(q, p.boot)
    BY <1>2, <1>5, <2>3 DEF Retire
  <2>5. /\ Len(t) = Len(q) + 1 /\ t[Len(q) + 1] = p.boot
        /\ \A k \in 1..Len(q) : t[k] = q[k]
    BY <1>1, <2>4, AppendProperties
  <2>6. 1..Len(t) = (1..Len(q)) \cup {Len(q) + 1}
    BY <1>1, <2>5
  <2>7. Len(t) < m.boot
    BY <1>1, <2>1, <2>2, <2>5
  <2>8. \A k \in 1..Len(t) : t[k] < m.boot
    <3>1. \A k \in 1..Len(q) : q[k] < m.boot
      BY <1>1, <2>1
    <3> HIDE DEF t, q
    <3> QED
      BY <2>1, <2>5, <2>6, <3>1
  <2>9. ASSUME NEW b \in Nat, b = p.boot \/ HasRetired(p, b) PROVE HasRetired(Reported(p, m), b)
    <3>1. \E k \in 1..Len(t) : t[k] = b
      <4>1. CASE b = p.boot
        BY <2>5, <2>6, <4>1
      <4>2. CASE HasRetired(p, b)
        BY <2>5, <2>6, <4>2 DEF HasRetired
      <4> QED
        BY <2>9, <4>1, <4>2
    <3> QED
      BY <3>1 DEF HasRetired
  <2> QED
    BY <2>7, <2>8, <2>9
<1> QED
  BY <1>3, <1>4, <1>5

(* What enters a connection is of the running process: if that was heard,   *)
(* it was heard last.                                                       *)
LEMMA EnteringIsLast ==
    ASSUME TypeOK', HeardOK', InOrder', NumbersOK, UNCHANGED boot, NEW m \in Reports(out),
           m.boot \in Heard'
    PROVE  m.boot = Last'.boot
<1>1. m.boot = boot /\ boot \in Nat
  BY DEF NumbersOK, TypeOK
<1>2. heard' # <<>>
  <2>1. heard' = <<>> => 1..Len(heard') = {}
    BY EmptySeq
  <2> QED
    BY <2>1 DEF Heard
<1>3. accepted' # None /\ Last' = accepted' /\ accepted'.boot \in Nat
  BY <1>2 DEF HeardOK, Last, TypeOK, Report
<1>4. accepted'.boot \in Heard'
  <2>1. Len(heard') \in 1..Len(heard')
    <3>1. heard' \in Seq(Nat)
      BY DEF TypeOK
    <3>2. Len(heard') \in Nat /\ Len(heard') # 0
      BY <1>2, <3>1, LenProperties, EmptySeq
    <3> QED
      BY <3>2
  <2> QED
    BY <1>2, <2>1 DEF HeardOK, Heard
<1>5. m.boot <= accepted'.boot /\ accepted'.boot <= boot
  BY <1>1, <1>4 DEF HeardOK
<1> QED
  BY <1>1, <1>3, <1>5

(* The rows after the writes of a newer report, all or some of them.        *)
LEMMA RowAdvances ==
    ASSUME TypeOK, CursorOK, Remembered, NEW m \in Report,
           TakesCursor(row, m.boot, m.seq), m.boot >= Last.boot,
           m.boot = Last.boot => m.seq > Last.seq,
           row' \in {RowWritten(m)} \cup RowPartly(m)
    PROVE  /\ row'.boot <= m.boot /\ (row'.boot = m.boot => row'.seq <= m.seq)
           /\ row'.prev # NoBoot => row'.prev < row'.boot
           /\ row' \in {RowWritten(m), RowCursor(m)} => row'.boot = m.boot /\ row'.seq = m.seq
           /\ row' = RowWritten(m) => row'.obs = m.obs
<1>1. /\ row \in Row /\ row.boot \in Nat /\ row.prev \in Nat /\ row.seq \in Nat
      /\ row.boot <= Last.boot /\ (row.boot = Last.boot => row.seq <= Last.seq)
      /\ row.prev # NoBoot => row.prev < row.boot
      /\ m.boot \in Nat /\ m.seq \in Nat /\ m.obs \in Nat
  BY DEF TypeOK, CursorOK, Row, Report
<1>2. RowCursor(m) = [row EXCEPT !.boot = m.boot, !.seq = m.seq,
                                 !.prev = IF m.boot = row.boot THEN @ ELSE row.boot]
  BY DEF RowCursor, Cursor
<1>3. /\ RowCursor(m) \in Row /\ RowCursor(m).boot = m.boot /\ RowCursor(m).seq = m.seq
      /\ RowCursor(m).prev = IF m.boot = row.boot THEN row.prev ELSE row.boot
  BY <1>1, <1>2 DEF Row
<1>4. /\ RowWritten(m).boot = m.boot /\ RowWritten(m).seq = m.seq
      /\ RowWritten(m).prev = RowCursor(m).prev /\ RowWritten(m).obs = m.obs
  BY <1>3 DEF RowWritten, Row
<1>5. LET o == [row EXCEPT !.obs = m.obs]
      IN  o.boot = row.boot /\ o.seq = row.seq /\ o.prev = row.prev
  BY <1>1 DEF Row
<1>6. RowCursor(m).prev # NoBoot => RowCursor(m).prev < m.boot
  BY <1>1, <1>3, LastType
<1>7. row.boot <= m.boot /\ (row.boot = m.boot => row.seq <= m.seq)
  BY <1>1, LastType
<1>8. CASE row' \in {row, [row EXCEPT !.obs = m.obs]} /\ row' \notin {RowWritten(m), RowCursor(m)}
  BY <1>1, <1>5, <1>7, <1>8
<1>9. CASE row' \in {RowWritten(m), RowCursor(m)}
  BY <1>1, <1>3, <1>4, <1>6, <1>9
<1> QED
  BY <1>8, <1>9 DEF RowPartly

(* A report is accepted: the plane and, if the writes succeed, the rows     *)
(* know it.                                                                 *)
LEMMA CursorAccept ==
    ASSUME TypeOK, TypeOK', Cursors, HeardOK', [Next]_vars, NEW l \in Links, AcceptStatus(l)
    PROVE  CursorOK'
<1> DEFINE m == rx[l]
           p == Ensured
<1>1. /\ m # None /\ m.kind = "status" /\ Accepts(p, m) /\ Adopt(m) /\ mem' = Reported(p, m)
      /\ UNCHANGED boot
  BY DEF AcceptStatus, edgeVars
<1>2. /\ m \in Report /\ m.boot \in Nat /\ m.boot >= 1 /\ m.boot <= MaxBoot
      /\ p \in Plane /\ p.loaded
  BY <1>1, StatusNumbers, EnsuredType DEF Cursors
<1>3. /\ mem'.loaded /\ mem'.boot = m.boot /\ mem'.seq = m.seq /\ mem'.obs = m.obs
  BY <1>1, <1>2 DEF Reported, Plane
<1>4. ASSUME Remembered'
      PROVE  /\ mem'.boot = Last'.boot /\ mem'.seq = Last'.seq
             /\ rows' = "complete" => /\ row'.boot = Last'.boot /\ row'.seq = Last'.seq
                                      /\ row'.obs = mem'.obs
             /\ row'.boot <= Last'.boot /\ (row'.boot = Last'.boot => row'.seq <= Last'.seq)
             /\ row'.prev # NoBoot => row'.prev < row'.boot
             /\ mem'.retired # <<>> => Len(mem'.retired) < mem'.boot
             /\ \A k \in 1..Len(mem'.retired) : mem'.retired[k] < mem'.boot
             /\ \A n \in Travelling' :
                   n.boot \in Heard' => n.boot = Last'.boot \/ HasRetired(mem', n.boot)
  <2>1. /\ accepted' = m /\ heard' # <<>> /\ Heard' = Heard \cup {m.boot}
        /\ InOrder /\ (m.boot = Last.boot \/ Last.boot < m.boot)
    BY <1>1, <1>2, <1>4, HeardAdopt DEF Cursors, Remembered
  <2>2. rows # "lost"
    BY <1>4 DEF AcceptStatus, Remembered
  <2>3. Remembered
    BY <2>1, <2>2 DEF Remembered
  <2>4. Last' = m
    BY <1>2, <2>1, NoneAssumption DEF Last, Msg
  <2>5. Newer(m, accepted)
    BY <1>1, <2>1, <2>3, AcceptedStaysInOrder DEF Cursors
  <2>6. /\ TakesCursor(row, m.boot, m.seq) /\ m.boot >= Last.boot
        /\ m.boot = Last.boot => m.seq > Last.seq
    BY <1>1, <2>3, <2>5, NewestPasses DEF Cursors
  <2>7. row' \in {RowWritten(m)} \cup RowPartly(m) /\ (rows' = "complete" => row' = RowWritten(m))
    BY <2>2 DEF AcceptStatus
  <2>8. /\ row'.boot <= m.boot /\ (row'.boot = m.boot => row'.seq <= m.seq)
        /\ row'.prev # NoBoot => row'.prev < row'.boot
        /\ row' = RowWritten(m) => row'.boot = m.boot /\ row'.seq = m.seq /\ row'.obs = m.obs
    BY <1>2, <2>3, <2>6, <2>7, RowAdvances DEF Cursors
  <2>9. /\ p.boot = Last.boot
        /\ p.retired # <<>> => Len(p.retired) < p.boot
        /\ \A k \in 1..Len(p.retired) : p.retired[k] < p.boot
        /\ \A n \in Travelling : n.boot \in Heard => n.boot = Last.boot \/ HasRetired(p, n.boot)
    BY <2>3, EnsuredCursor DEF Cursors
  <2>10. /\ mem'.retired # <<>> => Len(mem'.retired) < m.boot
         /\ \A k \in 1..Len(mem'.retired) : mem'.retired[k] < m.boot
         /\ \A b \in Nat \ {NoBoot, m.boot} :
               b = p.boot \/ HasRetired(p, b) => HasRetired(mem', b)
    BY <1>1, <1>2, <2>1, <2>9, RetireKeeps
  <2>11. ASSUME NEW n \in Travelling', n.boot \in Heard', n.boot # m.boot
         PROVE  HasRetired(mem', n.boot)
    <3>1. CASE n \in Travelling
      <4>1. n.boot \in Heard /\ n.boot \in Nat /\ n.boot # NoBoot
        <5>1. n \in Known /\ n \in Report
          BY <3>1, KnownType DEF Known
        <5> QED
          BY <2>1, <2>11, <5>1 DEF Cursors, NumbersOK, Report, NoBoot
      <4> QED
        BY <2>9, <2>10, <2>11, <3>1, <4>1
    <3>2. CASE n \in Reports(out)
      BY <1>1, <1>4, <2>4, <2>11, <3>2, EnteringIsLast DEF Cursors, Remembered
    <3> QED
      BY <3>1, <3>2, Flow
  <2> QED
    BY <1>3, <2>4, <2>7, <2>8, <2>10, <2>11
<1> QED
  BY <1>3, <1>4 DEF CursorOK

(* What travels keeps being of the process heard last or of a retired one.  *)
LEMMA TravellersKept ==
    ASSUME TypeOK, TypeOK', Cursors, HeardOK', [Next]_vars, Remembered,
           UNCHANGED <<boot, accepted, heard>>,
           \A b : HasRetired(mem, b) => HasRetired(mem', b)
    PROVE  \A m \in Travelling' :
              m.boot \in Heard' => m.boot = Last'.boot \/ HasRetired(mem', m.boot)
<1>1. Heard' = Heard /\ Last' = Last /\ InOrder'
  BY DEF Heard, Last, Remembered, InOrder
<1> SUFFICES ASSUME NEW m \in Travelling', m.boot \in Heard'
             PROVE  m.boot = Last'.boot \/ HasRetired(mem', m.boot)
  OBVIOUS
<1>2. CASE m \in Travelling
  BY <1>1, <1>2 DEF Cursors, CursorOK
<1>3. CASE m \in Reports(out)
  BY <1>1, <1>3, EnteringIsLast DEF Cursors
<1> QED
  BY <1>2, <1>3, Flow

(* An ack writes the cursor of the report accepted last, if the rows do not *)
(* hold it already.                                                         *)
LEMMA AckWrites ==
    ASSUME TypeOK, CursorOK, Remembered, NEW x \in Nat,
           row' = row \/ row' = RowAfterAck(row, Ensured.boot, Ensured.seq, x)
    PROVE  /\ row'.boot <= Last.boot /\ (row'.boot = Last.boot => row'.seq <= Last.seq)
           /\ row'.prev # NoBoot => row'.prev < row'.boot
           /\ rows = "complete" => row'.boot = row.boot /\ row'.seq = row.seq /\ row'.obs = row.obs
<1> DEFINE b == Last.boot
           n == Last.seq
<1>1. /\ row \in Row /\ row.boot \in Nat /\ row.prev \in Nat /\ row.seq \in Nat
      /\ row.boot <= b /\ (row.boot = b => row.seq <= n)
      /\ row.prev # NoBoot => row.prev < row.boot
      /\ b \in Nat /\ n \in Nat
  BY LastType DEF TypeOK, CursorOK, Row
<1>2. rows = "complete" => row.boot = b /\ row.seq = n
  BY DEF CursorOK
<1>3. CASE row' = row
  BY <1>1, <1>3
<1>4. CASE row' # row
  <2>1. b # NoBoot /\ TakesCursor(row, b, n) /\ row' = [Cursor(row, b, n) EXCEPT !.applied = x]
    BY <1>4, EnsuredCursor DEF RowAfterAck
  <2>2. rows # "complete"
    BY <1>1, <1>2, <2>1 DEF TakesCursor
  <2>3. Cursor(row, b, n) = [row EXCEPT !.boot = b, !.seq = n,
                                        !.prev = IF b = row.boot THEN @ ELSE row.boot]
    BY <2>1 DEF Cursor
  <2>4. row'.boot = b /\ row'.seq = n /\ row'.prev = IF b = row.boot THEN row.prev ELSE row.boot
    <3> HIDE DEF b, n
    <3> QED
      BY <1>1, <2>1, <2>3 DEF Row
  <2>5. row'.prev # NoBoot => row'.prev < row'.boot
    BY <1>1, <2>4
  <2> QED
    BY <1>1, <2>2, <2>4, <2>5
<1> QED
  BY <1>3, <1>4

(* A refused report and an ack only load the plane.                         *)
LEMMA CursorLoad ==
    ASSUME TypeOK, TypeOK', Cursors, HeardOK', [Next]_vars,
           NEW l \in Links, IgnoreStatus(l) \/ ApplyAck(l)
    PROVE  CursorOK'
<1>1. UNCHANGED <<boot, accepted, heard, rows>>
  BY DEF IgnoreStatus, ApplyAck, edgeVars, history
<1>2. Ensured \in Plane /\ Ensured.loaded
  BY EnsuredType
<1>3. /\ mem'.loaded /\ mem'.boot = Ensured.boot /\ mem'.seq = Ensured.seq /\ mem'.obs = Ensured.obs
      /\ mem'.retired = Ensured.retired
  <2>1. mem' = Ensured \/ \E x : mem' = [Ensured EXCEPT !.applied = x]
    BY DEF IgnoreStatus, ApplyAck
  <2> QED
    BY <1>2, <2>1 DEF Plane
<1>4. \E x \in Nat : row' = row \/ row' = RowAfterAck(row, Ensured.boot, Ensured.seq, x)
  <2>1. CASE IgnoreStatus(l)
    BY <2>1 DEF IgnoreStatus
  <2>2. CASE ApplyAck(l)
    <3> DEFINE x == IF rx[l].ok THEN rx[l].rev ELSE Ensured.applied
    <3>1. x \in Nat
      BY <1>2, <2>2, StatusType DEF ApplyAck, AckMsg, Plane
    <3>2. row' = row \/ row' = RowAfterAck(row, Ensured.boot, Ensured.seq, x)
      BY <2>2 DEF ApplyAck
    <3> QED
      BY <3>1, <3>2
  <2> QED
    BY <2>1, <2>2
<1>5. ASSUME Remembered'
      PROVE  /\ mem'.boot = Last'.boot /\ mem'.seq = Last'.seq
             /\ rows' = "complete" => /\ row'.boot = Last'.boot /\ row'.seq = Last'.seq
                                      /\ row'.obs = mem'.obs
             /\ row'.boot <= Last'.boot /\ (row'.boot = Last'.boot => row'.seq <= Last'.seq)
             /\ row'.prev # NoBoot => row'.prev < row'.boot
             /\ mem'.retired # <<>> => Len(mem'.retired) < mem'.boot
             /\ \A k \in 1..Len(mem'.retired) : mem'.retired[k] < mem'.boot
             /\ \A n \in Travelling' :
                   n.boot \in Heard' => n.boot = Last'.boot \/ HasRetired(mem', n.boot)
  <2>1. Remembered /\ Last' = Last
    BY <1>1, <1>5 DEF Remembered, InOrder, Last
  <2>2. /\ Ensured.boot = Last.boot /\ Ensured.seq = Last.seq
        /\ Ensured.retired = mem.retired
        /\ rows = "complete" => row.obs = Ensured.obs
        /\ Ensured.retired # <<>> => Len(Ensured.retired) < Ensured.boot
        /\ \A k \in 1..Len(Ensured.retired) : Ensured.retired[k] < Ensured.boot
    BY <2>1, EnsuredCursor DEF Cursors
  <2>3. /\ row'.boot <= Last.boot /\ (row'.boot = Last.boot => row'.seq <= Last.seq)
        /\ row'.prev # NoBoot => row'.prev < row'.boot
        /\ rows = "complete" => row'.boot = row.boot /\ row'.seq = row.seq /\ row'.obs = row.obs
    BY <1>4, <2>1, AckWrites DEF Cursors
  <2>4. rows = "complete" => row.boot = Last.boot /\ row.seq = Last.seq
    BY <2>1 DEF Cursors, CursorOK
  <2>5. \A b : HasRetired(mem, b) => HasRetired(mem', b)
    BY <1>3, <2>2 DEF HasRetired
  <2>6. \A n \in Travelling' :
           n.boot \in Heard' => n.boot = Last'.boot \/ HasRetired(mem', n.boot)
    BY <1>1, <2>1, <2>5, TravellersKept
  <2> QED
    BY <1>1, <1>3, <2>1, <2>2, <2>3, <2>4, <2>6
<1> QED
  BY <1>3, <1>5 DEF CursorOK

(* A restart leaves the rows, and with them the report accepted last unless *)
(* a write had failed; nothing is on its way any more.                      *)
LEMMA CursorRestart ==
    ASSUME TypeOK, TypeOK', Cursors, ServerRestart
    PROVE  CursorOK'
<1>1. mem' = Unloaded /\ rows' # "behind"
  BY DEF ServerRestart, TypeOK
<1>2. Travelling' = {}
  BY NoneAssumption DEF ServerRestart, Travelling, Arriving, Reports, Msg
<1>3. ASSUME Remembered'
      PROVE  /\ row'.boot = Last'.boot /\ row'.seq = Last'.seq
             /\ row'.prev # NoBoot => row'.prev < row'.boot
  <2>1. rows = "complete"
    BY <1>3 DEF ServerRestart, TypeOK, Remembered
  <2>2. CASE UNCHANGED <<row, accepted, heard>>
    <3>1. Remembered /\ Last' = Last
      BY <1>3, <2>1, <2>2 DEF Remembered, InOrder, Last
    <3> QED
      BY <2>1, <2>2, <3>1 DEF Cursors, CursorOK
  <2>3. ASSUME NEW l \in Links, rx[l] # None, rx[l].kind = "status", Accepts(Ensured, rx[l]),
               row' = RowCursor(rx[l]), Adopt(rx[l])
        PROVE  /\ row'.boot = Last'.boot /\ row'.seq = Last'.seq
               /\ row'.prev # NoBoot => row'.prev < row'.boot
    <3> DEFINE m == rx[l]
    <3>1. m \in Report /\ m.boot >= 1
      BY <2>3, StatusNumbers DEF Cursors
    <3>2. /\ accepted' = m /\ InOrder /\ (m.boot = Last.boot \/ Last.boot < m.boot)
      BY <1>3, <2>3, <3>1, HeardAdopt DEF Cursors, Remembered
    <3>3. Remembered /\ Last' = m
      BY <2>1, <3>1, <3>2, NoneAssumption DEF Remembered, Last, Msg
    <3>4. Newer(m, accepted)
      BY <2>3, <3>2, <3>3, AcceptedStaysInOrder DEF Cursors
    <3>5. /\ TakesCursor(row, m.boot, m.seq) /\ m.boot >= Last.boot
          /\ m.boot = Last.boot => m.seq > Last.seq
      BY <2>3, <3>3, <3>4, NewestPasses DEF Cursors
    <3>6. row' \in {RowWritten(m)} \cup RowPartly(m) /\ row' \in {RowWritten(m), RowCursor(m)}
      BY <2>3 DEF RowPartly
    <3> HIDE DEF m
    <3> QED
      BY <3>1, <3>3, <3>5, <3>6, RowAdvances DEF Cursors
  <2> QED
    BY <2>2, <2>3 DEF ServerRestart, history
<1>4. mem'.loaded = FALSE /\ mem'.retired = <<>>
  BY <1>1 DEF Unloaded, Blank
<1>5. 1..Len(<<>>) = {}
  BY EmptySeq
<1>6. row'.boot \in Nat /\ row'.seq \in Nat
  BY DEF TypeOK
<1> QED
  BY <1>1, <1>2, <1>3, <1>4, <1>5, <1>6 DEF CursorOK

(* The inductive step of plane and rows.                                    *)
LEMMA CursorStep ==
    TypeOK /\ Cursors /\ HeardOK' /\ [Next]_vars => CursorOK'
<1> SUFFICES ASSUME TypeOK, Cursors, HeardOK', [Next]_vars PROVE CursorOK'
  OBVIOUS
<1>t. TypeOK'
  BY TypeStep
<1>1. ASSUME NEW l \in Links, AcceptStatus(l) PROVE CursorOK'
  BY <1>1, <1>t, CursorAccept
<1>2. ASSUME NEW l \in Links, IgnoreStatus(l) \/ ApplyAck(l) PROVE CursorOK'
  BY <1>2, <1>t, CursorLoad
<1>3. CASE ServerRestart
  BY <1>3, <1>t, CursorRestart
<1>4. ASSUME UNCHANGED <<mem, row, rows, accepted, heard>>,
             UNCHANGED boot \/ EdgeRestart
      PROVE  CursorOK'
  <2>1. Last' = Last /\ (Remembered' => Remembered) /\ (Remembered' <=> Remembered)
    BY <1>4 DEF Last, Remembered, InOrder
  <2>2. ASSUME Remembered
        PROVE  \A m \in Travelling' :
                  m.boot \in Heard' => m.boot = Last'.boot \/ HasRetired(mem', m.boot)
    <3>1. CASE UNCHANGED boot
      BY <1>4, <1>t, <2>2, <3>1, TravellersKept DEF HasRetired
    <3>2. CASE EdgeRestart
      <4>1. Travelling' = Travelling /\ Heard' = Heard
        BY <1>4, <3>2, SameTravelling DEF EdgeRestart, linkVars, Heard
      <4> QED
        BY <1>4, <2>1, <2>2, <4>1 DEF Cursors, CursorOK, HasRetired
    <3> QED
      BY <1>4, <3>1, <3>2
  <2> QED
    BY <1>4, <2>1, <2>2 DEF Cursors, CursorOK
<1>5. CASE \/ EdgeStep \/ UNCHANGED vars \/ \E l \in Links : Connect(l) \/ Close(l) \/ Receive(l)
  <2>1. UNCHANGED <<mem, row, rows, accepted, heard>> /\ (UNCHANGED boot \/ EdgeRestart)
    BY <1>5 DEF EdgeStep, ApplyDesired, Number, Observe, EnqueueReport, Change, Send, EdgeRestart,
                Disconnect, Connect, Close, Receive, history, edgeVars, vars
  <2> QED
    BY <1>4, <2>1
<1> QED
  BY <1>1, <1>2, <1>3, <1>5 DEF Next, ServerStep

(* The inductive step of them all. *)
LEMMA CursorsStep == TypeOK /\ Cursors /\ [Next]_vars => Cursors'
<1> SUFFICES ASSUME TypeOK, Cursors, [Next]_vars PROVE Cursors'
  OBVIOUS
<1>1. NumbersOK'
  BY NumbersStep DEF Cursors
<1>2. HeardOK'
  BY <1>1, HeardStep DEF Cursors
<1>3. CursorOK'
  BY <1>2, CursorStep
<1> QED
  BY <1>1, <1>2, <1>3 DEF Cursors

(* Numbers follow time, and plane and rows know the report accepted last    *)
(* and no older one by mistake.                                             *)
THEOREM CursorsAgree == Spec => []Cursors
<1>1. Init => TypeOK /\ Cursors
  BY TypeInit, CursorsInit
<1>2. (TypeOK /\ Cursors) /\ [Next]_vars => (TypeOK /\ Cursors)'
  BY TypeStep, CursorsStep
<1> QED
  BY <1>1, <1>2, PTL DEF Spec

(* The gates of applyPluginStatus and of setPluginEdgeCursor let the newest *)
(* report through.                                                          *)
THEOREM NewestHeard == Spec => []NewestIsHeard
<1>1. TypeOK /\ Cursors => NewestIsHeard
  BY NewestPasses DEF NewestIsHeard, Cursors
<1> QED
  BY <1>1, TypeCorrect, CursorsAgree, PTL

(* The plane in memory and its rows in SQLite hold the same report.         *)
THEOREM RowsAgreeAlways == Spec => []RowsAgree
<1>1. TypeOK /\ Cursors => RowsAgree
  BY DEF RowsAgree, Cursors, CursorOK, Remembered
<1> QED
  BY <1>1, TypeCorrect, CursorsAgree, PTL

(* A report that is late, of this process or of a replaced one, is refused. *)
THEOREM ReplacedOut == Spec => ReplacedStaysOut
<1>1. ASSUME TypeOK, Cursors, [Next]_vars
      PROVE  [Remembered => Newer(accepted', accepted) \/ accepted'.boot \notin Heard]_accepted
  <2>1. ASSUME NEW l \in Links, rx[l] # None, rx[l].kind = "status", Accepts(Ensured, rx[l]),
               Adopt(rx[l])
        PROVE  Remembered => Newer(accepted', accepted) \/ accepted'.boot \notin Heard
    BY <1>1, <2>1, AcceptedStaysInOrder DEF Cursors, Adopt
  <2> QED
    BY <1>1, <2>1, AdoptSteps
<1> QED
  BY <1>1, TypeCorrect, CursorsAgree, PTL DEF Spec, ReplacedStaysOut

(* The projection never shows less than what held when the report before    *)
(* was numbered.                                                            *)
THEOREM NeverBehind == Spec => NeverBehindItsNumber
<1>1. ASSUME TypeOK, Cursors, [Next]_vars
      PROVE  [Remembered /\ accepted # None /\ accepted'.boot >= accepted.boot =>
                 accepted'.obs >= accepted.born]_accepted
  <2>1. ASSUME NEW l \in Links, rx[l] # None, rx[l].kind = "status", Accepts(Ensured, rx[l]),
               Adopt(rx[l]), Remembered, accepted # None, rx[l].boot >= accepted.boot
        PROVE  rx[l].obs >= accepted.born
    <3> DEFINE m == rx[l]
    <3>1. /\ m \in Known /\ m \in Report /\ accepted \in Known /\ accepted \in Report
          /\ Last = accepted
      BY <1>1, <2>1, StatusNumbers DEF Cursors, TypeOK, Known, Last
    <3>2. Last.boot = m.boot \/ Last.boot < m.boot
      BY <2>1, <3>1 DEF Report
    <3>3. Newer(m, accepted)
      BY <1>1, <2>1, <3>2, AcceptedStaysInOrder DEF Cursors
    <3>4. accepted.born <= m.born /\ m.born <= m.obs
      BY <1>1, <3>1, <3>3 DEF Cursors, NumbersOK
    <3> QED
      BY <3>1, <3>4 DEF Report
  <2>2. ASSUME NEW l \in Links, rx[l] # None, rx[l].kind = "status", Accepts(Ensured, rx[l]),
               Adopt(rx[l])
        PROVE  Remembered /\ accepted # None /\ accepted'.boot >= accepted.boot =>
                  accepted'.obs >= accepted.born
    BY <2>1, <2>2 DEF Adopt
  <2> QED
    BY <1>1, <2>2, AdoptSteps
<1> QED
  BY <1>1, TypeCorrect, CursorsAgree, PTL DEF Spec, NeverBehindItsNumber

=============================================================================
