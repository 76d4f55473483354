------------------------- MODULE DesiredSync_proofs -------------------------
(***************************************************************************)
(* Theorems about DesiredSync, for every set of instances, links and       *)
(* goroutines and every bound.                                             *)
(***************************************************************************)
EXTENDS DesiredSync, SequenceTheorems, FiniteSetTheorems, TLAPS

-----------------------------------------------------------------------------
(* Sequences *)

(* What enters and leaves the queues. *)
LEMMA Queue ==
    ASSUME NEW S, NEW q \in Seq(S)
    PROVE  /\ <<>> \in Seq(S)
           /\ \A e \in S : Append(q, e) \in Seq(S)
           /\ q # <<>> => Head(q) \in S /\ Tail(q) \in Seq(S)
BY AppendProperties, HeadTailProperties, EmptySeq

-----------------------------------------------------------------------------
(* Typing *)

(* Writing one row of the desired set gives a desired set again. *)
LEMMA ContentUpdate ==
    ASSUME NEW m \in Content, NEW i, NEW c \in Configs \cup {Absent}
    PROVE  [m EXCEPT ![i] = c] \in Content
BY DEF Content

(* The empty desired set is one. *)
LEMMA NothingIsContent == Nothing \in Content
BY DEF Nothing, Content

(* A write, an answer or a snapshot is put together from the types. *)
LEMMA EnsuredType ==
    ASSUME TypeOK, NEW p \in Ensured
    PROVE  p \in Plane /\ p.loaded = TRUE /\ SnapshotOf(p) \in Snapshot
<1>1. p \in Plane /\ p.loaded = TRUE
  <2>1. CASE plane.loaded
    BY <2>1 DEF TypeOK, Ensured, Plane
  <2>2. CASE p = [loaded |-> TRUE, rev |-> dbRev, content |-> dbContent, applied |-> dbApplied]
    BY <2>2 DEF TypeOK, Plane
  <2>3. CASE p = NoRow
    BY <2>3, NothingIsContent DEF NoRow, Plane
  <2> QED
    BY <2>1, <2>2, <2>3 DEF Ensured
<1> QED
  BY <1>1 DEF SnapshotOf, Snapshot, Plane

(* A Server and an Edge that have just been set up are well typed. *)
LEMMA TypeInit == Init => TypeOK
<1> SUFFICES ASSUME Init PROVE TypeOK
  OBVIOUS
<1>1. plane \in Plane /\ writer \in Writer /\ [rev |-> 0, content |-> Nothing] \in Snapshot
  BY NothingIsContent DEF Init, Unloaded, IdleWriter, Snapshot, Plane, Writer
<1>2. /\ down \in [Links -> Seq(Snapshot)] /\ up \in [Links -> Seq(Ack)] /\ out \in Seq(Ack)
  BY Queue DEF Init
<1> QED
  BY <1>1, <1>2, NothingIsContent DEF Init, TypeOK

(* A write commits a new row and leaves the handler waiting for the plane.  *)
LEMMA WriteType ==
    ASSUME TypeOK, NEW i \in Instances, NEW c \in Configs \cup {Absent},
           plane' \in Ensured, dbRev' = dbRev + 1, dbContent' = [dbContent EXCEPT ![i] = c],
           writer' = [pc |-> "stored", inst |-> i, config |-> c, rev |-> dbRev + 1],
           issued' = issued \cup {[rev |-> dbRev', content |-> dbContent']}
    PROVE  /\ dbRev' \in Nat /\ dbContent' \in Content /\ plane' \in Plane
           /\ writer' \in Writer /\ issued' \subseteq Snapshot
<1>1. dbRev' \in Nat /\ dbContent' \in Content
  BY DEF TypeOK, Content
<1>2. plane' \in Plane
  BY EnsuredType
<1>3. writer' \in Writer
  BY DEF Writer, TypeOK
<1>4. [rev |-> dbRev', content |-> dbContent'] \in Snapshot
  BY <1>1 DEF Snapshot
<1>5. issued' \subseteq Snapshot
  BY <1>4 DEF TypeOK
<1> QED
  BY <1>1, <1>2, <1>3, <1>5

(* Answering puts an ack where the snapshot was. *)
LEMMA AnswerType ==
    ASSUME TypeOK, NEW w \in Workers, todo[w] # None, NEW st \in Status, Answer(w, st)
    PROVE  /\ todo[w] \in Snapshot
           /\ [snap |-> todo[w], status |-> st] \in Ack
           /\ todo' \in [Workers -> Snapshot \cup {None}]
           /\ reply' \in [Workers -> Ack \cup {None}]
<1>1. todo[w] \in Snapshot
  BY DEF TypeOK
<1>2. [snap |-> todo[w], status |-> st] \in Ack
  BY <1>1 DEF Ack
<1> QED
  BY <1>1, <1>2 DEF TypeOK, Answer

(* Every handler, sender, goroutine and fault keeps the types. *)
LEMMA TypeStep == TypeOK /\ [Next]_vars => TypeOK'
<1> SUFFICES ASSUME TypeOK, [Next]_vars PROVE TypeOK'
  OBVIOUS
<1> USE DEF serverVars, linkVars, edgeVars, auxVars
<1>1. ASSUME NEW i \in Instances, NEW c \in Configs, CreateInstance(i, c) \/ UpdateInstance(i, c)
      PROVE  TypeOK'
  <2>1. /\ dbRev' \in Nat /\ dbContent' \in Content /\ plane' \in Plane
        /\ writer' \in Writer /\ issued' \subseteq Snapshot
    BY <1>1, WriteType DEF CreateInstance, UpdateInstance, Commit, Holds, InsertRow, UpdateRow
  <2> QED
    BY <1>1, <2>1 DEF TypeOK, CreateInstance, UpdateInstance, Commit, Holds, InsertRow, UpdateRow
<1>2. ASSUME NEW i \in Instances, DeleteInstance(i) PROVE TypeOK'
  <2>1. /\ dbRev' \in Nat /\ dbContent' \in Content /\ plane' \in Plane
        /\ writer' \in Writer /\ issued' \subseteq Snapshot
    BY <1>2, WriteType DEF DeleteInstance, Commit, Holds, DeleteRow
  <2> QED
    BY <1>2, <2>1 DEF TypeOK, DeleteInstance, Commit, Holds, DeleteRow
<1>3. CASE Remember
  BY <1>3, ContentUpdate DEF TypeOK, Remember, Plane, Writer
<1>4. CASE WritePush
  <2>1. IdleWriter \in Writer /\ [writer EXCEPT !.pc = "pushing"] \in Writer
    BY DEF IdleWriter, Writer, TypeOK
  <2>2. current # None => [by |-> "write", link |-> current, snap |-> None] \in Push
    BY DEF TypeOK, Push, Senders
  <2> QED
    BY <1>4, <2>1, <2>2 DEF TypeOK, WritePush
<1>5. CASE Reconcile
  <2>1. plane' \in Plane
    BY <1>5, EnsuredType DEF Reconcile
  <2>2. [by |-> "reconcile", link |-> current, snap |-> None] \in Push
    BY <1>5 DEF TypeOK, Reconcile, Push, Senders
  <2> QED
    BY <1>5, <2>1, <2>2 DEF TypeOK, Reconcile
<1>6. ASSUME NEW q \in pushes, TakeSnapshot(q) PROVE TypeOK'
  <2>1. PICK p \in Ensured : /\ plane' = p
                             /\ pushes' = (pushes \ {q}) \cup {[q EXCEPT !.snap = SnapshotOf(p)]}
    BY <1>6 DEF TakeSnapshot
  <2>2. p \in Plane /\ SnapshotOf(p) \in Snapshot
    BY EnsuredType
  <2>3. [q EXCEPT !.snap = SnapshotOf(p)] \in Push
    BY <2>2 DEF TypeOK, Push
  <2> QED
    BY <1>6, <2>1, <2>2, <2>3 DEF TypeOK, TakeSnapshot
<1>7. ASSUME NEW q \in pushes, EnqueueSnapshot(q) PROVE TypeOK'
  BY <1>7, Queue DEF TypeOK, EnqueueSnapshot, IdleWriter, Push, Writer
<1>8. ASSUME NEW l \in Links, Dial(l) PROVE TypeOK'
  BY <1>8, Queue DEF TypeOK, Dial
<1>9. ASSUME NEW l \in Links, Register(l) PROVE TypeOK'
  BY <1>9 DEF TypeOK, Register, Push, Senders
<1>10. ASSUME NEW l \in Links, DropHello(l) PROVE TypeOK'
  BY <1>10, Queue DEF TypeOK, DropHello
<1>11. ASSUME NEW l \in Links, Break(l) PROVE TypeOK'
  BY <1>11 DEF TypeOK, Break
<1>12. ASSUME NEW l \in Links, Unregister(l) PROVE TypeOK'
  BY <1>12, Queue DEF TypeOK, Unregister
<1>13. CASE SessionEnds
  BY <1>13, Queue DEF TypeOK, SessionEnds
<1>14. ASSUME NEW w \in Workers, ReceiveDesired(w) PROVE TypeOK'
  BY <1>14, Queue DEF TypeOK, ReceiveDesired
<1>15. ASSUME NEW w \in Workers, AnswerOnly(w) PROVE TypeOK'
  <2>1. todo' \in [Workers -> Snapshot \cup {None}] /\ reply' \in [Workers -> Ack \cup {None}]
    BY <1>15, AnswerType DEF AnswerOnly, Status
  <2> QED
    BY <1>15, <2>1 DEF TypeOK, AnswerOnly
<1>16. ASSUME NEW w \in Workers, Install(w) PROVE TypeOK'
  <2>1. /\ todo[w] \in Snapshot
        /\ todo' \in [Workers -> Snapshot \cup {None}] /\ reply' \in [Workers -> Ack \cup {None}]
    BY <1>16, AnswerType DEF Install, Status
  <2>2. lastInstall' \in Snapshot
    BY <1>16, <2>1 DEF Install
  <2>3. local' \in Content
    BY <1>16, <2>1 DEF Install, Snapshot
  <2> QED
    BY <1>16, <2>1, <2>2, <2>3 DEF TypeOK, Install
<1>17. ASSUME NEW w \in Workers, InstallFails(w) PROVE TypeOK'
  <2>1. todo' \in [Workers -> Snapshot \cup {None}] /\ reply' \in [Workers -> Ack \cup {None}]
    BY <1>17, AnswerType DEF InstallFails, Status
  <2>2. local' \in Content
    BY <1>17 DEF InstallFails, Partial
  <2> QED
    BY <1>17, <2>1, <2>2 DEF TypeOK, InstallFails
<1>18. ASSUME NEW w \in Workers, EnqueueAck(w) PROVE TypeOK'
  BY <1>18, Queue DEF TypeOK, EnqueueAck
<1>19. CASE SendAck
  <2>1. Head(out) \in Ack /\ out' \in Seq(Ack)
    BY <1>19, Queue DEF TypeOK, SendAck
  <2>2. session \in Links /\ Append(up[session], Head(out)) \in Seq(Ack)
    BY <1>19, <2>1, Queue DEF TypeOK, SendAck
  <2>3. up' \in [Links -> Seq(Ack)]
    BY <1>19, <2>2 DEF TypeOK, SendAck
  <2> QED
    BY <1>19, <2>1, <2>3 DEF TypeOK, SendAck
<1>20. ASSUME NEW l \in Links, ReceiveAck(l) PROVE TypeOK'
  BY <1>20, Queue DEF TypeOK, ReceiveAck
<1>21. ASSUME NEW l \in Links, ApplyAck(l) PROVE TypeOK'
  <2>1. PICK p \in Ensured : /\ plane' \in {p, [p EXCEPT !.applied = rx[l].snap.rev]}
                             /\ dbApplied' \in {dbApplied, rx[l].snap.rev, p.applied}
    BY <1>21 DEF ApplyAck
  <2>2. p \in Plane
    BY EnsuredType
  <2>3. rx[l].snap.rev \in Nat
    BY <1>21 DEF ApplyAck, TypeOK, Ack, Snapshot
  <2>4. plane' \in Plane /\ dbApplied' \in Nat
    BY <2>1, <2>2, <2>3 DEF Plane, TypeOK
  <2> QED
    BY <1>21, <2>4 DEF TypeOK, ApplyAck
<1>22. CASE ServerCrash
  <2>1. plane' \in Plane /\ writer' \in Writer
    BY <1>22, NothingIsContent DEF ServerCrash, Unloaded, IdleWriter, Plane, Writer
  <2> QED
    BY <1>22, <2>1, Queue DEF TypeOK, ServerCrash
<1>23. CASE EdgeCrash
  BY <1>23, Queue DEF TypeOK, EdgeCrash, Partial
<1>24. CASE UNCHANGED vars
  BY <1>24 DEF TypeOK, vars
<1> QED
  BY <1>1, <1>2, <1>3, <1>4, <1>5, <1>6, <1>7, <1>8, <1>9, <1>10, <1>11, <1>12, <1>13,
     <1>14, <1>15, <1>16, <1>17, <1>18, <1>19, <1>20, <1>21, <1>22, <1>23, <1>24
  DEF Next, Write, ServerStep, LinkStep, EdgeStep, AckStep, Fault

(* The state of the pair always has its type: in particular a queue holds   *)
(* nothing but snapshots (down) or acks (up), and the plane is whole after  *)
(* every entry point that may load it.                                      *)
THEOREM TypeCorrect == Spec => []TypeOK
<1>1. Init => TypeOK
  BY TypeInit
<1>2. TypeOK /\ [Next]_vars => TypeOK'
  BY TypeStep
<1> QED
  BY <1>1, <1>2, PTL DEF Spec

-----------------------------------------------------------------------------
(* Coherence *)

(* Before the first write only the empty snapshot of revision 0 exists. *)
LEMMA CoherentInit == Init => Coherent
<1> SUFFICES ASSUME Init PROVE Coherent
  OBVIOUS
<1>1. HistoryOK
  BY DEF Init, HistoryOK
<1>2. PlaneOK
  BY DEF Init, PlaneOK, Unloaded, SnapshotOf, Revisions, IdleWriter
<1>3. WriterOK
  BY DEF Init, WriterOK
<1>4. CarriedOK
  BY Queue DEF Init, CarriedOK
<1> QED
  BY <1>1, <1>2, <1>3, <1>4 DEF Coherent

(* Whatever plane an entry point finds itself with, its snapshot is one the *)
(* Server issued, and it holds what the database holds unless a committed   *)
(* row is still to be remembered.                                           *)
LEMMA EnsuredKnown ==
    ASSUME TypeOK, Coherent, NEW p \in Ensured
    PROVE  /\ SnapshotOf(p) \in issued
           /\ p.rev <= dbRev
           /\ p.applied \in Revisions(installed)
           /\ writer.pc # "stored" => p.content = dbContent
           /\ writer.pc = "stored" => p = plane
<1>1. p \in Plane
  BY EnsuredType
<1>2. /\ SnapshotOf(p) \in issued
      /\ p.applied \in Revisions(installed)
      /\ writer.pc # "stored" => p.content = dbContent
      /\ writer.pc = "stored" => p = plane
  <2>1. CASE plane.loaded
    BY <2>1 DEF Coherent, PlaneOK, Ensured
  <2>2. CASE ~plane.loaded /\ p = [loaded |-> TRUE, rev |-> dbRev, content |-> dbContent, applied |-> dbApplied]
    BY <2>2 DEF Coherent, PlaneOK, HistoryOK, SnapshotOf
  <2>3. CASE ~plane.loaded /\ p = NoRow /\ dbContent = Nothing
    BY <2>3 DEF Coherent, PlaneOK, HistoryOK, SnapshotOf, NoRow, Revisions
  <2> QED
    BY <2>1, <2>2, <2>3 DEF Ensured
<1>3. p.rev <= dbRev
  <2>1. SnapshotOf(p).rev <= dbRev
    BY <1>2 DEF Coherent, HistoryOK
  <2> QED
    BY <2>1 DEF SnapshotOf
<1> QED
  BY <1>2, <1>3

(* What is carried stays known while the histories grow. *)
LEMMA CarriedGrows ==
    ASSUME CarriedOK, issued \subseteq issued', installed \subseteq installed',
           UNCHANGED <<pushes, down, up, rx, todo, reply, out, cache, disk>>
    PROVE  CarriedOK'
<1>1. KnownAck \subseteq KnownAck'
  BY DEF KnownAck
<1>2. down' \in [Links -> Seq(issued')]
  BY SeqMonotonic DEF CarriedOK
<1>3. up' \in [Links -> Seq(KnownAck')] /\ out' \in Seq(KnownAck')
  BY <1>1, SeqMonotonic DEF CarriedOK
<1> QED
  BY <1>1, <1>2, <1>3 DEF CarriedOK

(* A write takes the next revision, so no snapshot carried anywhere has it. *)
LEMMA WriteCoherent ==
    ASSUME TypeOK, Coherent, writer.pc = "idle",
           NEW i \in Instances, NEW c \in Configs \cup {Absent},
           plane' \in Ensured, dbRev' = dbRev + 1, dbContent' = [dbContent EXCEPT ![i] = c],
           writer' = [pc |-> "stored", inst |-> i, config |-> c, rev |-> dbRev + 1],
           issued' = issued \cup {[rev |-> dbRev', content |-> dbContent']},
           UNCHANGED <<dbApplied, pushes, down, up, rx, todo, reply, out, cache, disk, installed>>
    PROVE  Coherent'
<1>1. HistoryOK'
  <2> DEFINE new == [rev |-> dbRev', content |-> dbContent']
  <2>1. \A s \in issued : s.rev \in Nat /\ s.rev <= dbRev
    BY DEF TypeOK, Snapshot, Coherent, HistoryOK
  <2>2. new.rev = dbRev + 1 /\ issued' = issued \cup {new} /\ dbRev \in Nat
    BY DEF TypeOK
  <2>3. \A s, t \in issued' : s.rev = t.rev => s = t
    <3> HIDE DEF new
    <3> QED
      BY <2>1, <2>2 DEF Coherent, HistoryOK
  <2>4. \A s \in issued' : s.rev <= dbRev'
    <3> HIDE DEF new
    <3> QED
      BY <2>1, <2>2
  <2> QED
    BY <2>2, <2>3, <2>4 DEF Coherent, HistoryOK
<1>2. PlaneOK'
  <2>1. plane'.loaded /\ plane' \in Plane
    BY EnsuredType
  <2>2. /\ SnapshotOf(plane') \in issued /\ plane'.rev <= dbRev
        /\ plane'.applied \in Revisions(installed) /\ plane'.content = dbContent
    BY EnsuredKnown
  <2>3. dbRev \in Nat /\ plane'.rev \in Nat
    BY <2>1 DEF TypeOK, Plane
  <2> QED
    BY <2>1, <2>2, <2>3 DEF PlaneOK, Coherent
<1>3. WriterOK'
  BY DEF WriterOK, Coherent
<1>4. CarriedOK'
  BY CarriedGrows DEF Coherent
<1> QED
  BY <1>1, <1>2, <1>3, <1>4 DEF Coherent

(* A step that only moves snapshots and acks leaves histories and plane be. *)
LEMMA StillCoherent ==
    ASSUME Coherent, CarriedOK',
           UNCHANGED <<dbRev, dbContent, dbApplied, plane, writer, issued, installed>>
    PROVE  HistoryOK' /\ PlaneOK' /\ (UNCHANGED pushes => Coherent')
<1>1. HistoryOK'
  BY DEF Coherent, HistoryOK
<1>2. PlaneOK'
  BY DEF Coherent, PlaneOK
<1>3. UNCHANGED pushes => WriterOK'
  BY DEF Coherent, WriterOK
<1> QED
  BY <1>1, <1>2, <1>3 DEF Coherent

(* The inductive step: one case per action of Next.                         *)
LEMMA CoherentStep == TypeOK /\ Coherent /\ [Next]_vars => Coherent'
<1> SUFFICES ASSUME TypeOK, Coherent, [Next]_vars PROVE Coherent'
  OBVIOUS
<1> USE DEF serverVars, linkVars, edgeVars, auxVars
<1>1. ASSUME NEW i \in Instances, NEW c \in Configs, CreateInstance(i, c) \/ UpdateInstance(i, c)
      PROVE  Coherent'
  BY <1>1, WriteCoherent DEF CreateInstance, UpdateInstance, Commit, Holds, InsertRow, UpdateRow
<1>2. ASSUME NEW i \in Instances, DeleteInstance(i) PROVE Coherent'
  BY <1>2, WriteCoherent DEF DeleteInstance, Commit, Holds, DeleteRow
<1>3. CASE Remember
  <2>1. plane.rev < dbRev /\ writer.rev = dbRev /\ plane \in Plane
    BY <1>3 DEF Remember, Coherent, PlaneOK, TypeOK
  <2>2. plane'.rev = dbRev /\ plane'.content = dbContent
        /\ plane'.loaded /\ plane'.applied = plane.applied
    BY <1>3, <2>1 DEF Remember, Coherent, PlaneOK, Plane, TypeOK
  <2>3. HistoryOK'
    BY <1>3 DEF Remember, Coherent, HistoryOK
  <2>4. writer'.pc = "remembered"
    BY <1>3 DEF Remember, TypeOK, Writer
  <2>5. PlaneOK'
    BY <1>3, <2>2, <2>4 DEF Remember, Coherent, PlaneOK, HistoryOK, SnapshotOf
  <2>6. WriterOK'
    BY <1>3 DEF Remember, Coherent, WriterOK
  <2>7. CarriedOK'
    BY <1>3, CarriedGrows DEF Remember, Coherent
  <2> QED
    BY <2>3, <2>5, <2>6, <2>7 DEF Coherent
<1>4. CASE WritePush
  <2>1. CarriedOK'
    BY <1>4 DEF WritePush, Coherent, CarriedOK, KnownAck
  <2>2. HistoryOK'
    BY <1>4 DEF WritePush, Coherent, HistoryOK
  <2>3. writer'.pc \in {"idle", "pushing"} /\ writer.pc = "remembered"
    BY <1>4 DEF WritePush, TypeOK, Writer, IdleWriter
  <2>4. PlaneOK'
    BY <1>4, <2>3 DEF WritePush, Coherent, PlaneOK
  <2>5. WriterOK'
    BY <1>4, <2>3 DEF WritePush, Coherent, WriterOK, TypeOK, Writer
  <2> QED
    BY <2>1, <2>2, <2>4, <2>5 DEF Coherent
<1>5. CASE Reconcile
  <2>1. PICK p \in Ensured : plane' = p
    BY <1>5 DEF Reconcile
  <2>2. HistoryOK' /\ PlaneOK'
    BY <1>5, <2>1, EnsuredKnown, EnsuredType DEF Reconcile, Coherent, HistoryOK, PlaneOK
  <2>3. WriterOK'
    BY <1>5 DEF Reconcile, Coherent, WriterOK
  <2>4. CarriedOK'
    BY <1>5 DEF Reconcile, Coherent, CarriedOK, KnownAck
  <2> QED
    BY <2>2, <2>3, <2>4 DEF Coherent
<1>6. ASSUME NEW q \in pushes, TakeSnapshot(q) PROVE Coherent'
  <2>1. PICK p \in Ensured : /\ plane' = p
                             /\ pushes' = (pushes \ {q}) \cup {[q EXCEPT !.snap = SnapshotOf(p)]}
    BY <1>6 DEF TakeSnapshot
  <2>2. HistoryOK' /\ PlaneOK'
    BY <1>6, <2>1, EnsuredKnown, EnsuredType DEF TakeSnapshot, Coherent, HistoryOK, PlaneOK
  <2>3. q \in Push
    BY DEF TypeOK
  <2>4. WriterOK'
    BY <1>6, <2>1, <2>3 DEF TakeSnapshot, Coherent, WriterOK, Push
  <2>5. CarriedOK'
    BY <1>6, <2>1, <2>3, EnsuredKnown DEF TakeSnapshot, Coherent, CarriedOK, KnownAck, Push
  <2> QED
    BY <2>2, <2>4, <2>5 DEF Coherent
<1>7. ASSUME NEW q \in pushes, EnqueueSnapshot(q) PROVE Coherent'
  <2>1. q \in Push /\ q.snap \in issued
    BY <1>7 DEF TypeOK, EnqueueSnapshot, Coherent, CarriedOK
  <2>2. down' \in [Links -> Seq(issued)]
    BY <1>7, <2>1, Queue DEF EnqueueSnapshot, Coherent, CarriedOK, Push
  <2>3. CarriedOK'
    BY <1>7, <2>2 DEF EnqueueSnapshot, Coherent, CarriedOK, KnownAck
  <2>4. writer' = writer \/ (writer' = IdleWriter /\ writer.pc = "pushing")
    BY <1>7 DEF EnqueueSnapshot, Coherent, WriterOK
  <2>5. HistoryOK' /\ PlaneOK'
    BY <1>7, <2>4 DEF EnqueueSnapshot, Coherent, HistoryOK, PlaneOK, IdleWriter
  <2>6. WriterOK'
    BY <1>7 DEF EnqueueSnapshot, Coherent, WriterOK
  <2> QED
    BY <2>3, <2>5, <2>6 DEF Coherent
<1>8. ASSUME NEW l \in Links, Dial(l) PROVE Coherent'
  <2>1. CarriedOK'
    BY <1>8, Queue DEF Dial, Coherent, CarriedOK, KnownAck
  <2> QED
    BY <1>8, <2>1, StillCoherent DEF Dial
<1>9. ASSUME NEW l \in Links, Register(l) PROVE Coherent'
  <2>1. HistoryOK' /\ PlaneOK'
    BY <1>9 DEF Register, Coherent, HistoryOK, PlaneOK
  <2>2. WriterOK'
    BY <1>9 DEF Register, Coherent, WriterOK
  <2>3. CarriedOK'
    BY <1>9 DEF Register, Coherent, CarriedOK, KnownAck
  <2> QED
    BY <2>1, <2>2, <2>3 DEF Coherent
<1>10. ASSUME NEW l \in Links, DropHello(l) \/ Unregister(l) PROVE Coherent'
  <2>1. up' = [up EXCEPT ![l] = <<>>]
    BY <1>10 DEF DropHello, Unregister
  <2>2. up' \in [Links -> Seq(KnownAck)]
    BY <2>1, Queue DEF Coherent, CarriedOK
  <2>3. CarriedOK'
    <3>1. UNCHANGED <<pushes, down, rx, todo, reply, out, cache, disk, issued, installed>>
      BY <1>10 DEF DropHello, Unregister
    <3> QED
      BY <2>2, <3>1 DEF Coherent, CarriedOK, KnownAck
  <2> QED
    BY <1>10, <2>3, StillCoherent DEF DropHello, Unregister
<1>11. ASSUME NEW l \in Links, Break(l) PROVE Coherent'
  <2>1. CarriedOK'
    BY <1>11 DEF Break, Coherent, CarriedOK, KnownAck
  <2> QED
    BY <1>11, <2>1, StillCoherent DEF Break
<1>12. CASE SessionEnds
  <2>1. CarriedOK'
    BY <1>12, Queue DEF SessionEnds, Coherent, CarriedOK, KnownAck
  <2> QED
    BY <1>12, <2>1, StillCoherent DEF SessionEnds
<1>13. ASSUME NEW w \in Workers, ReceiveDesired(w) PROVE Coherent'
  <2>1. session \in Links
    BY <1>13 DEF ReceiveDesired, TypeOK
  <2>2. Head(down[session]) \in issued /\ Tail(down[session]) \in Seq(issued)
    BY <1>13, <2>1, Queue DEF ReceiveDesired, Coherent, CarriedOK
  <2>3. CarriedOK'
    BY <1>13, <2>2 DEF ReceiveDesired, Coherent, CarriedOK, KnownAck
  <2> QED
    BY <1>13, <2>3, StillCoherent DEF ReceiveDesired
<1>14. ASSUME NEW w \in Workers, AnswerOnly(w) PROVE Coherent'
  <2>1. todo[w] \in issued
    BY <1>14 DEF AnswerOnly, Coherent, CarriedOK
  <2>2. PICK st \in {"rejected", "applied"} : Answer(w, st) /\ (st = "applied" => Replay(todo[w]))
    BY <1>14 DEF AnswerOnly
  <2>3. st = "applied" => todo[w] \in installed
    <3> SUFFICES ASSUME st = "applied" PROVE todo[w] \in installed
      OBVIOUS
    <3>1. cache \in installed /\ cache \in issued /\ todo[w].rev = cache.rev
      BY <2>2 DEF Replay, SameRev, Coherent, CarriedOK, HistoryOK
    <3> QED
      BY <2>1, <3>1 DEF Coherent, HistoryOK
  <2>4. [snap |-> todo[w], status |-> st] \in KnownAck
    BY <1>14, <2>1, <2>3, AnswerType, <2>2 DEF KnownAck, Status, AnswerOnly
  <2>5. CarriedOK'
    BY <1>14, <2>2, <2>4 DEF AnswerOnly, Answer, Coherent, CarriedOK, KnownAck
  <2> QED
    BY <1>14, <2>5, StillCoherent DEF AnswerOnly
<1>15. ASSUME NEW w \in Workers, Install(w) PROVE Coherent'
  <2>1. todo[w] \in issued /\ installed' = installed \cup {todo[w]}
    BY <1>15 DEF Install, Coherent, CarriedOK
  <2>2. KnownAck \subseteq KnownAck'
    BY <1>15, <2>1 DEF Install, KnownAck
  <2>3. [snap |-> todo[w], status |-> "applied"] \in KnownAck'
    BY <1>15, <2>1, AnswerType DEF Install, KnownAck, Status
  <2>4. reply' \in [Workers -> KnownAck' \cup {None}] /\ rx' \in [Links -> KnownAck' \cup {None}]
    BY <1>15, <2>2, <2>3 DEF Install, Answer, Coherent, CarriedOK
  <2>5. up' \in [Links -> Seq(KnownAck')] /\ out' \in Seq(KnownAck')
    BY <1>15, <2>2, SeqMonotonic DEF Install, Coherent, CarriedOK
  <2>6. /\ cache' \in installed' \cup {EmptyCache} /\ disk' \in installed' \cup {EmptyCache}
        /\ todo' \in [Workers -> issued \cup {None}]
    BY <1>15, <2>1 DEF Install, Answer, Coherent, CarriedOK
  <2>7. CarriedOK'
    BY <1>15, <2>4, <2>5, <2>6 DEF Install, Coherent, CarriedOK
  <2>8. HistoryOK' /\ PlaneOK' /\ WriterOK'
    BY <1>15, <2>1 DEF Install, Coherent, HistoryOK, PlaneOK, WriterOK, Revisions
  <2> QED
    BY <2>7, <2>8 DEF Coherent
<1>16. ASSUME NEW w \in Workers, InstallFails(w) PROVE Coherent'
  <2>1. [snap |-> todo[w], status |-> "failed"] \in KnownAck
    BY <1>16, AnswerType DEF InstallFails, Coherent, CarriedOK, KnownAck, Status
  <2>2. CarriedOK'
    BY <1>16, <2>1 DEF InstallFails, Answer, Coherent, CarriedOK, KnownAck
  <2> QED
    BY <1>16, <2>2, StillCoherent DEF InstallFails
<1>17. ASSUME NEW w \in Workers, EnqueueAck(w) PROVE Coherent'
  <2>1. CarriedOK'
    BY <1>17, Queue DEF EnqueueAck, Coherent, CarriedOK, KnownAck
  <2> QED
    BY <1>17, <2>1, StillCoherent DEF EnqueueAck
<1>18. CASE SendAck
  <2>1. Head(out) \in KnownAck /\ out' \in Seq(KnownAck) /\ session \in Links
    BY <1>18, Queue DEF SendAck, Coherent, CarriedOK, TypeOK
  <2>2. Append(up[session], Head(out)) \in Seq(KnownAck)
    BY <2>1, Queue DEF Coherent, CarriedOK
  <2>3. CarriedOK'
    BY <1>18, <2>1, <2>2 DEF SendAck, Coherent, CarriedOK, KnownAck
  <2> QED
    BY <1>18, <2>3, StillCoherent DEF SendAck
<1>19. ASSUME NEW l \in Links, ReceiveAck(l) PROVE Coherent'
  <2>1. Head(up[l]) \in KnownAck /\ Tail(up[l]) \in Seq(KnownAck)
    BY <1>19, Queue DEF ReceiveAck, Coherent, CarriedOK
  <2>2. CarriedOK'
    BY <1>19, <2>1 DEF ReceiveAck, Coherent, CarriedOK, KnownAck
  <2> QED
    BY <1>19, <2>2, StillCoherent DEF ReceiveAck
<1>20. ASSUME NEW l \in Links, ApplyAck(l) PROVE Coherent'
  <2>1. PICK p \in Ensured :
          /\ \/ plane' = p
             \/ Advances(p, rx[l]) /\ plane' = [p EXCEPT !.applied = rx[l].snap.rev]
          /\ \/ dbApplied' \in {dbApplied, p.applied}
             \/ Advances(p, rx[l]) /\ dbApplied' = rx[l].snap.rev
    BY <1>20 DEF ApplyAck
  <2>2. p \in Plane /\ p.loaded
    BY EnsuredType
  <2>3. Advances(p, rx[l]) => rx[l].snap.rev \in Revisions(installed)
    BY <1>20 DEF ApplyAck, Advances, Coherent, CarriedOK, KnownAck, Revisions
  <2>4. /\ plane' \in Plane /\ plane'.loaded /\ plane'.rev = p.rev /\ plane'.content = p.content
        /\ plane'.applied \in Revisions(installed) /\ dbApplied' \in Revisions(installed)
    <3>1. plane' = p \/ plane' = [p EXCEPT !.applied = rx[l].snap.rev]
      BY <2>1
    <3>2. p.applied \in Revisions(installed) /\ dbApplied \in Revisions(installed)
      BY EnsuredKnown DEF Coherent, PlaneOK
    <3>3. rx[l].snap.rev \in Nat
      BY <1>20 DEF ApplyAck, TypeOK, Ack, Snapshot
    <3> QED
      BY <2>1, <2>2, <2>3, <3>2, <3>3 DEF Plane
  <2>5. SnapshotOf(plane') = SnapshotOf(p)
    BY <2>4 DEF SnapshotOf
  <2>6. writer.pc = "stored" => p = plane
    BY EnsuredKnown
  <2>7. PlaneOK'
    <3>1. UNCHANGED <<dbRev, dbContent, writer, issued, installed>>
      BY <1>20 DEF ApplyAck
    <3> QED
      BY <2>4, <2>5, <2>6, <3>1, EnsuredKnown DEF Coherent, PlaneOK
  <2>8. HistoryOK' /\ WriterOK'
    BY <1>20 DEF ApplyAck, Coherent, HistoryOK, WriterOK
  <2>9. CarriedOK'
    BY <1>20 DEF ApplyAck, Coherent, CarriedOK, KnownAck
  <2> QED
    BY <2>7, <2>8, <2>9 DEF Coherent
<1>21. CASE ServerCrash
  <2>1. HistoryOK' /\ WriterOK'
    BY <1>21 DEF ServerCrash, Coherent, HistoryOK, WriterOK
  <2>2. PlaneOK'
    BY <1>21 DEF ServerCrash, Coherent, HistoryOK, PlaneOK, Unloaded, IdleWriter, SnapshotOf,
                 Revisions
  <2>3. CarriedOK'
    BY <1>21, Queue DEF ServerCrash, Coherent, CarriedOK, KnownAck
  <2> QED
    BY <2>1, <2>2, <2>3 DEF Coherent
<1>22. CASE EdgeCrash
  <2>1. CarriedOK'
    BY <1>22, Queue DEF EdgeCrash, Coherent, CarriedOK, KnownAck
  <2> QED
    BY <1>22, <2>1, StillCoherent DEF EdgeCrash
<1>23. CASE UNCHANGED vars
  <2>1. CarriedOK'
    BY <1>23, CarriedGrows DEF vars, Coherent
  <2> QED
    BY <1>23, <2>1, StillCoherent DEF vars
<1> QED
  BY <1>1, <1>2, <1>3, <1>4, <1>5, <1>6, <1>7, <1>8, <1>9, <1>10, <1>11, <1>12, <1>13,
     <1>14, <1>15, <1>16, <1>17, <1>18, <1>19, <1>20, <1>21, <1>22, <1>23
  DEF Next, Write, ServerStep, LinkStep, EdgeStep, AckStep, Fault

(* A revision names one content, and whatever the plane, a sender, a queue, *)
(* a goroutine or a cache holds was issued by the Server.                   *)
THEOREM Coherence == Spec => []Coherent
<1>1. Init => TypeOK /\ Coherent
  BY TypeInit, CoherentInit
<1>2. (TypeOK /\ Coherent) /\ [Next]_vars => (TypeOK /\ Coherent)'
  BY TypeStep, CoherentStep
<1> QED
  BY <1>1, <1>2, PTL DEF Spec

(* No sender, crash or lost cache makes one revision carry two payloads:    *)
(* the digest alarms of HandleDesired and applyPluginAck stay silent.       *)
THEOREM OnePayload == Spec => []OnePayloadPerRevision
<1>1. TypeOK /\ Coherent => OnePayloadPerRevision
  <2> SUFFICES ASSUME TypeOK, Coherent PROVE OnePayloadPerRevision
    OBVIOUS
  <2>1. ASSUME NEW w \in Workers, todo[w] # None PROVE ~Mismatch(todo[w])
    <3>1. todo[w] \in issued /\ (cache # EmptyCache => cache \in issued)
      BY <2>1 DEF Coherent, CarriedOK, HistoryOK
    <3> QED
      BY <3>1 DEF Mismatch, SameRev, Coherent, HistoryOK
  <2>2. ASSUME NEW l \in Links, rx[l] # None, NEW p \in Ensured PROVE ~DigestMismatch(p, rx[l])
    <3>1. rx[l].snap \in issued
      BY <2>2 DEF Coherent, CarriedOK, KnownAck
    <3>2. SnapshotOf(p) \in issued
      BY EnsuredKnown
    <3>3. rx[l].snap.rev = SnapshotOf(p).rev => rx[l].snap = SnapshotOf(p)
      BY <3>1, <3>2 DEF Coherent, HistoryOK
    <3> QED
      BY <3>3 DEF DigestMismatch, SnapshotOf
  <2> QED
    BY <2>1, <2>2 DEF OnePayloadPerRevision
<1> QED
  BY <1>1, TypeCorrect, Coherence, PTL

(* applied_revision never claims an installation that did not happen.       *)
THEOREM AckedInstalled == Spec => []AckedWasInstalled
<1>1. TypeOK /\ Coherent => AckedWasInstalled
  <2> SUFFICES ASSUME TypeOK, Coherent, NEW r \in {plane.applied, dbApplied}
               PROVE  r <= dbRev /\ (r > 0 => \E s \in installed : s.rev = r)
    BY DEF AckedWasInstalled
  <2>1. r \in Revisions(installed) /\ r \in Nat /\ dbRev \in Nat
    BY DEF Coherent, PlaneOK, TypeOK, Plane
  <2>2. \A s \in installed : s.rev <= dbRev
    BY DEF Coherent, HistoryOK
  <2> QED
    BY <2>1, <2>2 DEF Revisions
<1> QED
  BY <1>1, TypeCorrect, Coherence, PTL

-----------------------------------------------------------------------------
(* The order of what reaches the Edge *)

(* At first nothing is on its way. *)
LEMMA OrderInit == Init => OrderOK
<1> SUFFICES ASSUME Init PROVE OrderOK
  OBVIOUS
<1>1. InOrder(lastInstall)
  BY DEF Init, InOrder, Unloaded
<1> QED
  BY <1>1 DEF Init, OrderOK, Unloaded

(* The plane of an entry point is the loaded one, or a full one, or starts  *)
(* from revision 0 after a restart.                                         *)
LEMMA EnsuredOrder ==
    ASSUME TypeOK, Coherent, OrderOK, NEW p \in Ensured
    PROVE  (plane.loaded /\ p = plane) \/ p.rev = dbRev \/ (p.rev = 0 /\ Fallback)
<1>1. CASE plane.loaded
  BY <1>1 DEF Ensured
<1>2. CASE ~plane.loaded /\ p = NoRow /\ dbContent = Nothing
  <2>1. CASE dbRev = 0
    BY <1>2, <2>1 DEF NoRow
  <2>2. CASE dbRev > 0
    <3> DEFINE t == [rev |-> dbRev, content |-> dbContent]
    <3>1. t \in issued /\ t.rev > 0 /\ t.content = Nothing
      BY <1>2, <2>2 DEF Coherent, HistoryOK
    <3>2. crashes > 0
      BY <1>2, <2>2 DEF OrderOK
    <3> QED
      BY <1>2, <3>1, <3>2 DEF Fallback, NoRow
  <2> QED
    BY <2>1, <2>2 DEF TypeOK
<1>3. CASE ~plane.loaded /\ p = [loaded |-> TRUE, rev |-> dbRev, content |-> dbContent, applied |-> dbApplied]
  BY <1>3
<1> QED
  BY <1>1, <1>2, <1>3 DEF Ensured

(* What could be sent can be sent as long as the Edge has completed nothing *)
(* and the plane is not set back.                                           *)
LEMMA SendableGrows ==
    ASSUME TypeOK, Coherent, issued \subseteq issued', crashes' \in Nat, crashes <= crashes',
           UNCHANGED <<cache, lastInstall>>, plane'.rev \in Nat,
           plane'.loaded => \/ plane.loaded /\ plane'.rev = plane.rev
                            \/ plane'.rev >= dbRev
                            \/ plane'.rev = 0 /\ Fallback
    PROVE  Sendable \subseteq Sendable'
<1>1. Fallback => Fallback'
  BY DEF Fallback, TypeOK
<1> SUFFICES ASSUME NEW s \in issued, InOrder(s) PROVE InOrder(s)'
  BY DEF Sendable
<1>2. s.rev \in Nat /\ s.rev <= dbRev /\ dbRev \in Nat
  BY DEF TypeOK, Snapshot, Coherent, HistoryOK
<1>3. s.rev < lastInstall'.rev /\ Fresh(s)' => s.rev = 0 /\ Fallback'
  BY <1>1 DEF InOrder, Fresh, Stale, SameRev
<1>4. plane'.loaded /\ plane'.rev < s.rev => plane'.rev = 0 /\ Fallback'
  BY <1>1, <1>2 DEF InOrder
<1> QED
  BY <1>3, <1>4 DEF InOrder

(* A step that only moves snapshots and acks. *)
LEMMA SameOrder ==
    ASSUME OrderOK,
           UNCHANGED <<dbRev, plane, cache, lastInstall, issued, crashes>>
    PROVE  /\ Sendable' = Sendable
           /\ (\A n \in 0..dbRev : \E s \in issued : s.rev = n)'
           /\ (~plane.loaded /\ dbRev > 0 => crashes > 0)'
           /\ (lastInstall \in issued /\ InOrder(lastInstall))'
BY DEF OrderOK, Sendable, InOrder, Fallback, Fresh, Stale, SameRev

(* An entry point that loads the plane, or finds it loaded. *)
LEMMA PlaneInOrder ==
    ASSUME TypeOK, Coherent, OrderOK, NEW p \in Ensured,
           plane'.loaded, plane'.rev = p.rev,
           issued \subseteq issued', UNCHANGED <<cache, lastInstall, crashes>>
    PROVE  Sendable \subseteq Sendable'
<1>1. p \in Plane
  BY EnsuredType
<1>2. plane'.rev \in Nat
  BY <1>1 DEF Plane
<1>3. crashes' \in Nat /\ crashes <= crashes'
  BY DEF TypeOK
<1>4. (plane.loaded /\ p = plane) \/ p.rev = dbRev \/ (p.rev = 0 /\ Fallback)
  BY EnsuredOrder
<1>5. \/ plane.loaded /\ plane'.rev = plane.rev
      \/ plane'.rev >= dbRev
      \/ plane'.rev = 0 /\ Fallback
  BY <1>2, <1>4 DEF TypeOK
<1> QED
  BY <1>2, <1>3, <1>5, SendableGrows

(* What an entry point would send is in order. *)
LEMMA SnapshotInOrder ==
    ASSUME TypeOK, Coherent, OrderOK, NEW p \in Ensured, plane' = p,
           UNCHANGED <<cache, lastInstall, issued, crashes>>
    PROVE  SnapshotOf(p) \in Sendable'
<1>1. /\ p.rev \in Nat /\ dbRev \in Nat /\ lastInstall.rev \in Nat
      /\ lastInstall.rev <= dbRev
  BY EnsuredType DEF TypeOK, Plane, Snapshot, OrderOK, Coherent, HistoryOK
<1>2. SnapshotOf(p) \in issued' /\ SnapshotOf(p).rev = p.rev
  BY EnsuredKnown DEF SnapshotOf
<1>3. p.rev < lastInstall.rev => p.rev = 0 /\ Fallback
  BY <1>1, EnsuredOrder DEF OrderOK, InOrder
<1>4. Fallback => Fallback'
  BY DEF Fallback
<1>5. ~(plane'.rev < p.rev)
  BY <1>1
<1> QED
  BY <1>2, <1>3, <1>4, <1>5 DEF Sendable, InOrder

(* A step that hands nothing new to the Edge. *)
LEMMA OrderKept ==
    ASSUME OrderOK, Sendable \subseteq Sendable',
           (\A n \in 0..dbRev : \E s \in issued : s.rev = n)',
           (~plane.loaded /\ dbRev > 0 => crashes > 0)',
           UNCHANGED <<session, down>>,
           lastInstall' = lastInstall \/ lastInstall' \in Sendable',
           \A w \in Workers : todo'[w] \in {todo[w], None},
           \A l \in Links : alive'[l] => alive[l],
           \A q \in pushes' : q.link \in Links /\
              (alive'[q.link] => q \in pushes \/ q.snap \in Sendable' \cup {None})
    PROVE  OrderOK'
<1>1. (lastInstall \in issued /\ InOrder(lastInstall))'
  BY DEF OrderOK, Sendable
<1>2. session # None => down[session] \in Seq(Sendable')
  BY SeqMonotonic DEF OrderOK
<1>3. \A w \in Workers : todo'[w] \in Sendable' \cup {None}
  BY DEF OrderOK
<1>4. \A q \in pushes' : alive'[q.link] => q.snap \in Sendable' \cup {None}
  BY DEF OrderOK
<1>5. \A l \in Links : alive'[l] => l = session
  BY DEF OrderOK
<1> QED
  BY <1>1, <1>2, <1>3, <1>4, <1>5 DEF OrderOK

(* No write leaves a gap in the log. *)
LEMMA WriteOrder ==
    ASSUME TypeOK, Coherent, OrderOK, TypeOK', plane' \in Ensured, dbRev' = dbRev + 1,
           issued' = issued \cup {[rev |-> dbRev', content |-> dbContent']},
           UNCHANGED <<pushes, alive, session, down, todo, cache, lastInstall, crashes>>
    PROVE  OrderOK'
<1>1. plane'.loaded
  BY EnsuredType
<1>2. Sendable \subseteq Sendable'
  BY <1>1, PlaneInOrder
<1>3. \A n \in 0..dbRev' : \E s \in issued' : s.rev = n
  <2> SUFFICES ASSUME NEW n \in 0..dbRev' PROVE \E s \in issued' : s.rev = n
    OBVIOUS
  <2>1. CASE n = dbRev'
    <3> DEFINE new == [rev |-> dbRev', content |-> dbContent']
    <3>1. new \in issued' /\ new.rev = dbRev'
      OBVIOUS
    <3> QED
      BY <2>1, <3>1
  <2>2. CASE n # dbRev'
    <3>1. n \in 0..dbRev
      BY <2>2 DEF TypeOK
    <3> QED
      BY <3>1 DEF OrderOK
  <2> QED
    BY <2>1, <2>2
<1>4. \A q \in pushes : q.link \in Links
  BY DEF TypeOK, Push
<1> QED
  BY <1>1, <1>2, <1>3, <1>4, OrderKept

(* The inductive step of the order. *)
LEMMA OrderStep == TypeOK /\ Coherent /\ OrderOK /\ [Next]_vars => OrderOK'
<1> SUFFICES ASSUME TypeOK, Coherent, OrderOK, [Next]_vars PROVE OrderOK'
  OBVIOUS
<1>t. TypeOK'
  BY TypeStep
<1>p. \A q \in pushes' : q.link \in Links
  BY <1>t DEF TypeOK, Push
<1> USE DEF serverVars, linkVars, edgeVars, auxVars
<1>1. ASSUME NEW i \in Instances, NEW c \in Configs, CreateInstance(i, c) \/ UpdateInstance(i, c)
      PROVE  OrderOK'
  BY <1>1, <1>t, WriteOrder DEF CreateInstance, UpdateInstance, Commit, Holds, InsertRow, UpdateRow
<1>2. ASSUME NEW i \in Instances, DeleteInstance(i) PROVE OrderOK'
  BY <1>2, <1>t, WriteOrder DEF DeleteInstance, Commit, Holds, DeleteRow
<1>3. CASE Remember
  <2>1. /\ plane.loaded /\ plane.rev < dbRev /\ writer.rev = dbRev
        /\ plane \in Plane /\ dbRev \in Nat
    BY <1>3 DEF Remember, Coherent, PlaneOK, TypeOK
  <2>2. plane'.loaded /\ plane'.rev = dbRev
    BY <1>3, <2>1 DEF Remember, Plane
  <2>3. Sendable \subseteq Sendable'
    <3>1. UNCHANGED <<issued, cache, lastInstall, crashes>> /\ crashes \in Nat
      BY <1>3 DEF Remember, TypeOK
    <3> QED
      BY <2>1, <2>2, <3>1, SendableGrows
  <2> QED
    BY <1>3, <1>p, <2>2, <2>3, OrderKept DEF Remember, OrderOK
<1>4. CASE WritePush
  <2>1. \A q \in pushes' : q \in pushes \/ q.snap = None
    BY <1>4 DEF WritePush
  <2>2. UNCHANGED <<dbRev, plane, cache, lastInstall, issued, crashes, session, down, todo, alive>>
    BY <1>4 DEF WritePush
  <2> QED
    BY <1>p, <2>1, <2>2, SameOrder, OrderKept
<1>5. CASE Reconcile
  <2>1. PICK p \in Ensured : plane' = p
    BY <1>5 DEF Reconcile
  <2>2. UNCHANGED <<dbRev, cache, lastInstall, issued, crashes, session, down, todo, alive>>
    BY <1>5 DEF Reconcile
  <2>3. plane'.loaded
    BY <2>1, EnsuredType
  <2>4. Sendable \subseteq Sendable'
    BY <2>1, <2>2, <2>3, PlaneInOrder
  <2>5. \A q \in pushes' : q \in pushes \/ q.snap = None
    BY <1>5 DEF Reconcile
  <2>6. (\A n \in 0..dbRev : \E s \in issued : s.rev = n)'
    BY <2>2 DEF OrderOK
  <2> QED
    BY <1>p, <2>2, <2>3, <2>4, <2>5, <2>6, OrderKept
<1>6. ASSUME NEW q \in pushes, TakeSnapshot(q) PROVE OrderOK'
  <2>1. PICK p \in Ensured : /\ plane' = p
                             /\ pushes' = (pushes \ {q}) \cup {[q EXCEPT !.snap = SnapshotOf(p)]}
    BY <1>6 DEF TakeSnapshot
  <2>2. UNCHANGED <<dbRev, cache, lastInstall, issued, crashes, session, down, todo, alive>>
    BY <1>6 DEF TakeSnapshot
  <2>3. plane'.loaded
    BY <2>1, EnsuredType
  <2>4. Sendable \subseteq Sendable' /\ SnapshotOf(p) \in Sendable'
    BY <2>1, <2>2, <2>3, PlaneInOrder, SnapshotInOrder
  <2>5. [q EXCEPT !.snap = SnapshotOf(p)].snap = SnapshotOf(p)
    BY DEF TypeOK, Push
  <2>6. \A r \in pushes' : r \in pushes \/ r.snap \in Sendable'
    BY <2>1, <2>4, <2>5
  <2>7. (\A n \in 0..dbRev : \E s \in issued : s.rev = n)'
    BY <2>2 DEF OrderOK
  <2> QED
    BY <1>p, <2>2, <2>3, <2>4, <2>6, <2>7, OrderKept
<1>7. ASSUME NEW q \in pushes, EnqueueSnapshot(q) PROVE OrderOK'
  <2>1. UNCHANGED <<dbRev, plane, cache, lastInstall, issued, crashes, session, todo, alive>>
    BY <1>7 DEF EnqueueSnapshot
  <2>2. q.link \in Links /\ q.snap # None /\ pushes' = pushes \ {q}
    BY <1>7 DEF EnqueueSnapshot, TypeOK, Push
  <2>3. session # None => down'[session] \in Seq(Sendable)
    <3>1. CASE alive[q.link] /\ down' = [down EXCEPT ![q.link] = Append(@, q.snap)]
      <4>1. q.link = session /\ q.snap \in Sendable
        BY <2>2, <3>1 DEF OrderOK
      <4>2. session # None => Append(down[session], q.snap) \in Seq(Sendable)
        BY <4>1, Queue DEF OrderOK
      <4> QED
        BY <2>2, <3>1, <4>1, <4>2 DEF TypeOK
    <3>2. CASE down' = down
      BY <3>2 DEF OrderOK
    <3> QED
      BY <1>7, <3>1, <3>2 DEF EnqueueSnapshot
  <2>4. Sendable' = Sendable
    BY <2>1, SameOrder
  <2>5. \A r \in pushes' : alive'[r.link] => r.snap \in Sendable' \cup {None}
    BY <2>1, <2>2, <2>4 DEF OrderOK
  <2>6. /\ \A l \in Links : alive'[l] => l = session'
        /\ \A w \in Workers : todo'[w] \in Sendable' \cup {None}
        /\ session' # None => down'[session'] \in Seq(Sendable')
    BY <2>1, <2>3, <2>4 DEF OrderOK
  <2> QED
    BY <2>1, <2>5, <2>6, SameOrder DEF OrderOK
<1>8. ASSUME NEW l \in Links, Dial(l) PROVE OrderOK'
  <2>1. UNCHANGED <<dbRev, plane, cache, lastInstall, issued, crashes, todo, pushes>>
    BY <1>8 DEF Dial
  <2>2. /\ session' = l /\ \A k \in Links : ~alive[k] /\ (alive'[k] => k = l)
        /\ down'[l] = <<>>
    BY <1>8, ConstantsAssumption DEF Dial, OrderOK, TypeOK
  <2>3. \A q \in pushes' : ~alive'[q.link]
    BY <1>8, <2>1, <2>2, <1>p DEF Dial, Free
  <2>4. down'[session'] \in Seq(Sendable')
    BY <2>2, Queue
  <2> QED
    BY <2>1, <2>2, <2>3, <2>4, SameOrder DEF OrderOK
<1>9. ASSUME NEW l \in Links, Register(l) PROVE OrderOK'
  <2>1. UNCHANGED <<dbRev, plane, cache, lastInstall, issued, crashes, session, down, todo>>
    BY <1>9 DEF Register
  <2>2. \A k \in Links : alive'[k] => alive[k]
    BY <1>9 DEF Register
  <2>3. \A q \in pushes' : q \in pushes \/ q.snap = None
    BY <1>9 DEF Register
  <2> QED
    BY <1>p, <2>1, <2>2, <2>3, SameOrder, OrderKept
<1>10. ASSUME NEW l \in Links, DropHello(l) \/ Unregister(l) PROVE OrderOK'
  <2>1. UNCHANGED <<dbRev, plane, cache, lastInstall, issued, crashes, session, down, todo,
                    alive, pushes>>
    BY <1>10 DEF DropHello, Unregister
  <2> QED
    BY <1>p, <2>1, SameOrder, OrderKept
<1>11. ASSUME NEW l \in Links, Break(l) PROVE OrderOK'
  <2>1. UNCHANGED <<dbRev, plane, cache, lastInstall, issued, crashes, session, down, todo, pushes>>
    BY <1>11 DEF Break
  <2>2. \A k \in Links : alive'[k] => alive[k]
    BY <1>11 DEF Break, TypeOK
  <2> QED
    BY <1>p, <2>1, <2>2, SameOrder, OrderKept
<1>12. CASE SessionEnds
  <2>1. UNCHANGED <<dbRev, plane, cache, lastInstall, issued, crashes, todo, alive, pushes>>
    BY <1>12 DEF SessionEnds
  <2>2. session' = None /\ \A k \in Links : ~alive'[k]
    BY <1>12 DEF SessionEnds, OrderOK
  <2>3. \A q \in pushes' : ~alive'[q.link]
    BY <2>2, <1>p
  <2> QED
    BY <2>1, <2>2, <2>3, SameOrder DEF OrderOK
<1>13. ASSUME NEW w \in Workers, ReceiveDesired(w) PROVE OrderOK'
  <2>1. UNCHANGED <<dbRev, plane, cache, lastInstall, issued, crashes, session, alive, pushes>>
    BY <1>13 DEF ReceiveDesired
  <2>2. Head(down[session]) \in Sendable /\ Tail(down[session]) \in Seq(Sendable)
    BY <1>13, Queue DEF ReceiveDesired, OrderOK
  <2>3. session \in Links /\ session # None
    BY <1>13 DEF ReceiveDesired, TypeOK
  <2>4. down'[session] \in Seq(Sendable) /\ \A v \in Workers : todo'[v] \in Sendable \cup {None}
    BY <1>13, <2>2, <2>3 DEF ReceiveDesired, OrderOK, TypeOK
  <2> QED
    BY <2>1, <2>4, SameOrder DEF OrderOK
<1>14. ASSUME NEW w \in Workers, AnswerOnly(w) \/ InstallFails(w) PROVE OrderOK'
  <2>1. UNCHANGED <<dbRev, plane, cache, lastInstall, issued, crashes, session, down, alive, pushes>>
    BY <1>14 DEF AnswerOnly, InstallFails
  <2>2. \A v \in Workers : todo'[v] \in {todo[v], None}
    BY <1>14 DEF AnswerOnly, InstallFails, Answer, TypeOK
  <2> QED
    BY <1>p, <2>1, <2>2, SameOrder, OrderKept
<1>15. ASSUME NEW w \in Workers, Install(w) PROVE OrderOK'
  <2>1. /\ UNCHANGED <<dbRev, plane, issued, crashes, session, down, alive, pushes>>
        /\ cache' = todo[w] /\ lastInstall' = todo[w] /\ todo[w] # None
    BY <1>15 DEF Install
  <2>2. \A v \in Workers : todo'[v] \in {todo[v], None}
    BY <1>15 DEF Install, Answer, TypeOK
  <2>3. Sendable \subseteq Sendable'
    BY <2>1 DEF Sendable, InOrder, Fresh, Stale, Fallback
  <2>4. lastInstall' \in Sendable'
    BY <2>1, <2>3 DEF OrderOK
  <2>5. (\A n \in 0..dbRev : \E s \in issued : s.rev = n)' /\ (~plane.loaded /\ dbRev > 0 => crashes > 0)'
    BY <2>1 DEF OrderOK
  <2> QED
    BY <1>p, <2>1, <2>2, <2>3, <2>4, <2>5, OrderKept
<1>16. ASSUME NEW w \in Workers, EnqueueAck(w) PROVE OrderOK'
  <2>1. UNCHANGED <<dbRev, plane, cache, lastInstall, issued, crashes, session, down, todo,
                    alive, pushes>>
    BY <1>16 DEF EnqueueAck
  <2> QED
    BY <1>p, <2>1, SameOrder, OrderKept
<1>17. ASSUME SendAck \/ \E l \in Links : ReceiveAck(l) PROVE OrderOK'
  <2>1. UNCHANGED <<dbRev, plane, cache, lastInstall, issued, crashes, session, down, todo,
                    alive, pushes>>
    BY <1>17 DEF SendAck, ReceiveAck
  <2> QED
    BY <1>p, <2>1, SameOrder, OrderKept
<1>18. ASSUME NEW l \in Links, ApplyAck(l) PROVE OrderOK'
  <2>1. PICK p \in Ensured : plane' = p \/ plane' = [p EXCEPT !.applied = rx[l].snap.rev]
    BY <1>18 DEF ApplyAck
  <2>2. p \in Plane /\ p.loaded
    BY EnsuredType
  <2>3. plane'.loaded /\ plane'.rev = p.rev
    BY <2>1, <2>2 DEF Plane
  <2>4. UNCHANGED <<dbRev, cache, lastInstall, issued, crashes, session, down, todo, alive, pushes>>
    BY <1>18 DEF ApplyAck
  <2>5. Sendable \subseteq Sendable'
    BY <2>3, <2>4, PlaneInOrder
  <2>6. (\A n \in 0..dbRev : \E s \in issued : s.rev = n)'
    BY <2>4 DEF OrderOK
  <2> QED
    BY <1>p, <2>3, <2>4, <2>5, <2>6, OrderKept
<1>19. CASE ServerCrash
  <2>1. /\ UNCHANGED <<dbRev, cache, lastInstall, issued, session, down, todo>>
        /\ plane' = Unloaded /\ crashes' = crashes + 1 /\ pushes' = {}
        /\ alive' = [l \in Links |-> FALSE]
    BY <1>19 DEF ServerCrash
  <2>2. crashes' \in Nat /\ crashes <= crashes' /\ crashes' > 0
    BY <2>1 DEF TypeOK
  <2>3. Sendable \subseteq Sendable'
    BY <2>1, <2>2, SendableGrows DEF Unloaded
  <2>4. (\A n \in 0..dbRev : \E s \in issued : s.rev = n)'
    BY <2>1 DEF OrderOK
  <2>5. \A l \in Links : ~alive'[l]
    BY <2>1
  <2> QED
    BY <2>1, <2>2, <2>3, <2>4, <2>5, OrderKept
<1>20. CASE EdgeCrash
  <2>1. /\ UNCHANGED <<dbRev, plane, lastInstall, issued, pushes>>
        /\ session' = None /\ crashes' = crashes + 1
        /\ todo' = [w \in Workers |-> None]
    BY <1>20 DEF EdgeCrash
  <2>2. \A l \in Links : ~alive'[l]
    BY <1>20 DEF EdgeCrash, OrderOK
  <2>3. Fallback => Fallback'
    BY <2>1 DEF Fallback, TypeOK
  <2>4. InOrder(lastInstall)'
    <3>1. lastInstall.rev \in Nat
      BY DEF TypeOK, Snapshot
    <3>2. ~(lastInstall'.rev < lastInstall'.rev)
      BY <2>1, <3>1
    <3> QED
      BY <2>1, <2>3, <3>2 DEF OrderOK, InOrder
  <2>5. (~plane.loaded /\ dbRev > 0 => crashes > 0)'
    BY <2>1 DEF OrderOK, TypeOK
  <2>6. \A q \in pushes' : ~alive'[q.link]
    BY <1>p, <2>2
  <2> QED
    BY <2>1, <2>2, <2>4, <2>5, <2>6 DEF OrderOK
<1>21. CASE UNCHANGED vars
  <2>1. UNCHANGED <<dbRev, plane, cache, lastInstall, issued, crashes, session, down, todo,
                    alive, pushes>>
    BY <1>21 DEF vars
  <2> QED
    BY <1>p, <2>1, SameOrder, OrderKept
<1> QED
  BY <1>1, <1>2, <1>3, <1>4, <1>5, <1>6, <1>7, <1>8, <1>9, <1>10, <1>11, <1>12, <1>13,
     <1>14, <1>15, <1>16, <1>17, <1>18, <1>19, <1>20, <1>21
  DEF Next, Write, ServerStep, LinkStep, EdgeStep, AckStep, Fault

(* Snapshots reach the Edge in order, whatever the senders, the links and   *)
(* the crashes do.                                                          *)
THEOREM SnapshotsInOrder == Spec => []OrderOK
<1>1. Init => TypeOK /\ Coherent /\ OrderOK
  BY TypeInit, CoherentInit, OrderInit
<1>2. (TypeOK /\ Coherent /\ OrderOK) /\ [Next]_vars => (TypeOK /\ Coherent /\ OrderOK)'
  BY TypeStep, CoherentStep, OrderStep
<1> QED
  BY <1>1, <1>2, PTL DEF Spec

-----------------------------------------------------------------------------
(* The plane implements its contract *)

(* The revision the contract takes the Server to believe in. *)
Believed == IF plane.loaded THEN plane.applied ELSE 0

(* A revision picks one snapshot. *)
LEMMA TheSnapshot ==
    ASSUME NEW S, \A x, y \in S : x.rev = y.rev => x = y, NEW s \in S
    PROVE  (CHOOSE x \in S : x.rev = s.rev) = s
<1>1. \E x \in S : x.rev = s.rev
  OBVIOUS
<1>2. (CHOOSE x \in S : x.rev = s.rev) \in S /\ (CHOOSE x \in S : x.rev = s.rev).rev = s.rev
  BY <1>1
<1> QED
  BY <1>2

(* A revision has the content of the snapshot issued under it. *)
LEMMA ContentIssued ==
    ASSUME Coherent, NEW s \in issued
    PROVE  ContentOf(s.rev) = s.content
BY TheSnapshot DEF ContentOf, Coherent, HistoryOK

(* The initial state is the contract's. *)
LEMMA ContractInit == Init => Contract!Init
<1> SUFFICES ASSUME Init PROVE Contract!Init
  OBVIOUS
<1> DEFINE first == [rev |-> 0, content |-> Nothing]
<1>1. ContentOf(0) = Nothing
  <2>1. first \in issued /\ first.rev = 0 /\ first.content = Nothing
    BY DEF Init
  <2> HIDE DEF first
  <2> QED
    BY <2>1, CoherentInit, ContentIssued
<1>2. [n \in 0..dbRev |-> ContentOf(n)] = [n \in {0} |-> Nothing]
  <2>1. 0..dbRev = {0}
    BY DEF Init
  <2> QED
    BY <1>1, <2>1
<1>3. Revisions(installed) = {0} /\ lastInstall.rev = 0 /\ lastInstall.content = Nothing
  BY DEF Init, Revisions
<1>4. Believed = 0 /\ crashes = 0
  BY DEF Init, Believed, Unloaded
<1> QED
  BY <1>2, <1>3, <1>4 DEF Contract!Init, Believed

(* Whatever a step does that touches neither the log nor the Edge nor what  *)
(* the Server believes is a stuttering step of the contract.                *)
LEMMA ContractStutter ==
    ASSUME UNCHANGED <<dbRev, issued, installed, lastInstall, crashes>>, Believed' = Believed
    PROVE  UNCHANGED Contract!vars
<1>1. [n \in 0..dbRev |-> ContentOf(n)]' = [n \in 0..dbRev |-> ContentOf(n)]
  BY DEF ContentOf
<1>2. Revisions(installed)' = Revisions(installed)
  BY DEF Revisions
<1> QED
  BY <1>1, <1>2 DEF Contract!vars, Believed

(* Loading the plane, and an ack that advances it, only raise the belief,   *)
(* and to something the Edge completed.                                     *)
LEMMA LearnsForward ==
    ASSUME TypeOK, Coherent, NEW p \in Ensured, plane'.loaded,
           plane'.applied \in Revisions(installed), plane'.applied >= p.applied,
           plane'.applied \in Nat
    PROVE  Believed' \in {n \in Revisions(installed) : Believed <= n}
<1>1. plane.loaded => p = plane
  BY DEF Ensured
<1>2. Believed' = plane'.applied /\ Believed <= plane'.applied
  BY <1>1 DEF Believed
<1> QED
  BY <1>2

(* An entry point that only loads the plane. *)
LEMMA ContractLoad ==
    ASSUME TypeOK, Coherent, NEW p \in Ensured, plane'.loaded, plane'.applied = p.applied,
           UNCHANGED <<dbRev, issued, installed, lastInstall, crashes>>
    PROVE  Contract!Acknowledge
<1>1. p.applied \in Nat /\ p.applied \in Revisions(installed)
  BY EnsuredType, EnsuredKnown DEF Plane
<1>2. Believed' \in {n \in Revisions(installed) : Believed <= n}
  BY <1>1, LearnsForward
<1>3. [n \in 0..dbRev |-> ContentOf(n)]' = [n \in 0..dbRev |-> ContentOf(n)]
  BY DEF ContentOf
<1>4. Revisions(installed)' = Revisions(installed)
  BY DEF Revisions
<1> QED
  BY <1>2, <1>3, <1>4 DEF Contract!Acknowledge, Contract!Learn, Believed

(* A write appends to the log. *)
LEMMA ContractCommit ==
    ASSUME TypeOK, Coherent, OrderOK, TypeOK', Coherent', plane' \in Ensured, dbRev' = dbRev + 1,
           issued' = issued \cup {[rev |-> dbRev', content |-> dbContent']},
           UNCHANGED <<installed, lastInstall, crashes>>
    PROVE  Contract!Commit
<1> DEFINE new == [rev |-> dbRev', content |-> dbContent']
           log == [n \in 0..dbRev |-> ContentOf(n)]
           after(n) == (CHOOSE s \in issued' : s.rev = n).content
           log1 == [n \in 0..dbRev' |-> after(n)]
<1>1. dbRev \in Nat /\ dbRev' = dbRev + 1 /\ dbContent' \in Content
  BY DEF TypeOK
<1>2. ASSUME NEW s \in issued' PROVE after(s.rev) = s.content
  BY TheSnapshot DEF Coherent, HistoryOK
<1>3. after(dbRev + 1) = dbContent'
  <2>1. new \in issued' /\ new.rev = dbRev + 1 /\ new.content = dbContent'
    OBVIOUS
  <2> HIDE DEF new, after
  <2> QED
    BY <1>2, <2>1
<1>4. ASSUME NEW n \in 0..dbRev PROVE after(n) = ContentOf(n)
  <2>1. PICK s \in issued : s.rev = n
    BY DEF OrderOK
  <2>2. ContentOf(s.rev) = s.content
    BY ContentIssued
  <2>3. s \in issued'
    OBVIOUS
  <2>4. after(s.rev) = s.content
    BY <1>2, <2>3
  <2> HIDE DEF after
  <2> QED
    BY <2>1, <2>2, <2>4
<1>5. 0..dbRev' = (0..dbRev) \cup {dbRev + 1} /\ dbRev + 1 \notin 0..dbRev
  BY <1>1
<1>6. log1 = [n \in (0..dbRev) \cup {dbRev + 1} |-> IF n = dbRev + 1 THEN dbContent' ELSE log[n]]
  <2>1. ASSUME NEW n \in (0..dbRev) \cup {dbRev + 1}
        PROVE  after(n) = IF n = dbRev + 1 THEN dbContent' ELSE log[n]
    <3> HIDE DEF after
    <3>1. n \in 0..dbRev => log[n] = ContentOf(n) /\ n # dbRev + 1
      BY <1>5
    <3> HIDE DEF log
    <3> QED
      BY <1>3, <1>4, <3>1
  <2> HIDE DEF after, log
  <2> QED
    BY <1>5, <2>1
<1>7. DOMAIN log = 0..dbRev /\ dbRev + 1 \in {n + 1 : n \in DOMAIN log}
  BY <1>1
<1>8. Believed' \in {n \in Revisions(installed) : Believed <= n}
  <2>1. plane' \in Plane /\ plane'.loaded /\ plane'.applied \in Revisions(installed)
    BY EnsuredType, EnsuredKnown
  <2>2. plane'.applied \in Nat /\ plane'.applied >= plane'.applied
    BY <2>1 DEF Plane
  <2> QED
    BY <2>1, <2>2, LearnsForward
<1>9. Revisions(installed)' = Revisions(installed)
  BY DEF Revisions
<1>10. Contract!Learn
  BY <1>8 DEF Contract!Learn, Believed
<1>11. \E c \in Content, next \in {n + 1 : n \in DOMAIN log} :
         /\ next \notin DOMAIN log
         /\ log1 = [n \in DOMAIN log \cup {next} |-> IF n = next THEN c ELSE log[n]]
  <2> HIDE DEF log, log1
  <2> QED
    BY <1>1, <1>5, <1>6, <1>7
<1> QED
  BY <1>9, <1>10, <1>11 DEF Contract!Commit, Contract!Revision, ContentOf

(* A complete application moves the Edge along the log. *)
LEMMA ContractApply ==
    ASSUME TypeOK, Coherent, OrderOK, NEW w \in Workers, Install(w)
    PROVE  Contract!Apply
<1> DEFINE n == todo[w].rev
           log == [k \in 0..dbRev |-> ContentOf(k)]
<1>1. /\ todo[w] \in issued /\ InOrder(todo[w]) /\ Fresh(todo[w])
      /\ lastInstall' = todo[w] /\ installed' = installed \cup {todo[w]}
      /\ UNCHANGED <<dbRev, issued, plane, crashes>>
  BY DEF Install, OrderOK, Sendable, auxVars, serverVars
<1>2. n \in 0..dbRev /\ lastInstall.rev \in Nat
  BY <1>1 DEF TypeOK, Snapshot, Coherent, HistoryOK
<1>3. log[n] = todo[w].content
  BY <1>1, <1>2, ContentIssued
<1>4. Fallback => Contract!Fallback
  <2> SUFFICES ASSUME Fallback PROVE Contract!Fallback
    OBVIOUS
  <2>1. PICK s \in issued : s.rev > 0 /\ s.content = Nothing
    BY DEF Fallback
  <2>2. s.rev \in 0..dbRev /\ s.rev # 0
    BY <2>1 DEF TypeOK, Snapshot, Coherent, HistoryOK
  <2>3. ContentOf(s.rev) = Nothing
    BY <2>1, ContentIssued
  <2> QED
    BY <2>2, <2>3 DEF Fallback, Contract!Fallback, Contract!Revision
<1>5. n >= lastInstall.rev \/ (n = 0 /\ Contract!Fallback)
  BY <1>1, <1>2, <1>4 DEF InOrder
<1>6. Revisions(installed)' = Revisions(installed) \cup {n}
  BY <1>1 DEF Revisions
<1>7. log' = log
  BY <1>1 DEF ContentOf
<1>8. UNCHANGED <<IF plane.loaded THEN plane.applied ELSE 0, crashes>>
  BY <1>1
<1>9. DOMAIN log = 0..dbRev
  OBVIOUS
<1>10. \E k \in DOMAIN log :
         /\ k >= lastInstall.rev \/ (k = 0 /\ Contract!Fallback)
         /\ lastInstall'.rev = k /\ lastInstall'.content = log[k]
         /\ Revisions(installed)' = Revisions(installed) \cup {k}
  <2> HIDE DEF log
  <2> QED
    BY <1>1, <1>2, <1>3, <1>5, <1>6, <1>9
<1> QED
  BY <1>7, <1>8, <1>10 DEF Contract!Apply, Contract!Revision

(* A crash costs the Server what it believed, and the Edge nothing.         *)
LEMMA ContractRestart ==
    ASSUME TypeOK, ServerCrash \/ EdgeCrash
    PROVE  Contract!Restart
<1>1. UNCHANGED <<dbRev, issued, installed, lastInstall>> /\ crashes' = crashes + 1
  BY DEF ServerCrash, EdgeCrash, serverVars, edgeVars
<1>2. Believed' \in {Believed, 0}
  BY DEF ServerCrash, EdgeCrash, serverVars, Believed, Unloaded
<1>3. [n \in 0..dbRev |-> ContentOf(n)]' = [n \in 0..dbRev |-> ContentOf(n)]
  BY <1>1 DEF ContentOf
<1>4. Revisions(installed)' = Revisions(installed)
  BY <1>1 DEF Revisions
<1> QED
  BY <1>1, <1>2, <1>3, <1>4 DEF Contract!Restart, Believed

(* Every step of the plane is a step of the contract, or none of its        *)
(* business.                                                                *)
LEMMA ContractStep ==
    ASSUME TypeOK, Coherent, OrderOK, TypeOK', Coherent', [Next]_vars
    PROVE  [Contract!Next]_(Contract!vars)
<1> USE DEF serverVars, linkVars, edgeVars, auxVars
<1>1. ASSUME NEW i \in Instances, NEW c \in Configs, CreateInstance(i, c) \/ UpdateInstance(i, c)
      PROVE  Contract!Commit
  BY <1>1, ContractCommit DEF CreateInstance, UpdateInstance, Commit, Holds, InsertRow, UpdateRow
<1>2. ASSUME NEW i \in Instances, DeleteInstance(i) PROVE Contract!Commit
  BY <1>2, ContractCommit DEF DeleteInstance, Commit, Holds, DeleteRow
<1>3. CASE Remember
  <2>1. plane.loaded /\ plane \in Plane
    BY <1>3 DEF Remember, Coherent, PlaneOK, TypeOK
  <2>2. plane'.loaded /\ plane'.applied = plane.applied
    BY <1>3, <2>1 DEF Remember, Plane
  <2>3. Believed' = Believed
    BY <2>1, <2>2 DEF Believed
  <2> QED
    BY <1>3, <2>3, ContractStutter DEF Remember
<1>4. CASE Reconcile \/ \E q \in pushes : TakeSnapshot(q)
  <2>1. PICK p \in Ensured : plane' = p
    BY <1>4 DEF Reconcile, TakeSnapshot
  <2>2. plane'.loaded
    BY <2>1, EnsuredType
  <2>3. UNCHANGED <<dbRev, issued, installed, lastInstall, crashes>>
    BY <1>4 DEF Reconcile, TakeSnapshot
  <2>4. Contract!Acknowledge
    BY <2>1, <2>2, <2>3, ContractLoad
  <2> QED
    BY <2>4 DEF Contract!Next
<1>5. ASSUME NEW w \in Workers, Install(w) PROVE Contract!Apply
  BY <1>5, ContractApply
<1>6. ASSUME NEW l \in Links, ApplyAck(l) PROVE Contract!Acknowledge
  <2>1. UNCHANGED <<dbRev, issued, installed, lastInstall, crashes>>
    BY <1>6 DEF ApplyAck
  <2>2. PICK p \in Ensured :
          \/ plane' = p
          \/ Advances(p, rx[l]) /\ plane' = [p EXCEPT !.applied = rx[l].snap.rev]
    BY <1>6 DEF ApplyAck
  <2>3. p \in Plane /\ p.loaded
    BY EnsuredType
  <2>4. CASE plane' = p
    BY <2>1, <2>3, <2>4, ContractLoad
  <2>5. CASE Advances(p, rx[l]) /\ plane' = [p EXCEPT !.applied = rx[l].snap.rev]
    <3>1. rx[l].snap.rev \in Nat /\ rx[l].snap.rev \in Revisions(installed)
      BY <1>6, <2>5 DEF ApplyAck, TypeOK, Ack, Snapshot, Advances, Coherent, CarriedOK, KnownAck,
                        Revisions
    <3>2. plane'.loaded /\ plane'.applied = rx[l].snap.rev
      BY <2>3, <2>5 DEF Plane
    <3>3. plane'.applied >= p.applied
      BY <2>3, <2>5, <3>1, <3>2 DEF Advances, Plane
    <3>4. Believed' \in {n \in Revisions(installed) : Believed <= n}
      BY <3>1, <3>2, <3>3, LearnsForward
    <3>5. [n \in 0..dbRev |-> ContentOf(n)]' = [n \in 0..dbRev |-> ContentOf(n)]
      BY <2>1 DEF ContentOf
    <3>6. Revisions(installed)' = Revisions(installed)
      BY <2>1 DEF Revisions
    <3> QED
      BY <2>1, <3>4, <3>5, <3>6 DEF Contract!Acknowledge, Contract!Learn, Believed
  <2> QED
    BY <2>2, <2>4, <2>5
<1>7. CASE ServerCrash \/ EdgeCrash
  BY <1>7, ContractRestart DEF Contract!Next
<1>8. CASE \/ WritePush \/ SessionEnds \/ SendAck
           \/ \E q \in pushes : EnqueueSnapshot(q)
           \/ \E l \in Links : Dial(l) \/ Register(l) \/ DropHello(l) \/ Unregister(l) \/ Break(l)
           \/ \E l \in Links : ReceiveAck(l)
           \/ \E w \in Workers : \/ ReceiveDesired(w) \/ AnswerOnly(w)
                                 \/ InstallFails(w) \/ EnqueueAck(w)
           \/ UNCHANGED vars
  <2>1. UNCHANGED <<dbRev, issued, installed, lastInstall, crashes, plane>>
    BY <1>8 DEF WritePush, SessionEnds, SendAck, EnqueueSnapshot, Dial, Register, DropHello,
                Unregister, Break, ReceiveAck, ReceiveDesired, AnswerOnly, InstallFails,
                EnqueueAck, vars
  <2>2. Believed' = Believed
    BY <2>1 DEF Believed
  <2> QED
    BY <2>1, <2>2, ContractStutter
<1> QED
  BY <1>1, <1>2, <1>3, <1>4, <1>5, <1>6, <1>7, <1>8
  DEF Next, Write, ServerStep, LinkStep, EdgeStep, AckStep, Fault, Contract!Next

(* The plane of one edge keeps the promise of DesiredContract: one log, an  *)
(* Edge that moves along it, and a Server that credits it with nothing it   *)
(* did not complete.                                                        *)
THEOREM Refinement == Spec => RefinesContract
<1>1. Init => Contract!Init
  BY ContractInit
<1>2. (TypeOK /\ Coherent /\ OrderOK) /\ (TypeOK /\ Coherent /\ OrderOK)' /\ [Next]_vars
      => [Contract!Next]_(Contract!vars)
  BY ContractStep
<1> QED
  BY <1>1, <1>2, TypeCorrect, Coherence, SnapshotsInOrder, PTL DEF Spec, RefinesContract, Contract!Spec

=============================================================================
