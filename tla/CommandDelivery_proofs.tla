---------------------- MODULE CommandDelivery_proofs ----------------------
(***************************************************************************)
(* Theorems about CommandDelivery, for every set of commands and links and *)
(* every bound.                                                            *)
(***************************************************************************)
EXTENDS CommandDelivery, SequenceTheorems, TLAPS

-----------------------------------------------------------------------------
(* Sequences *)

(* What enters and leaves the queues. *)
LEMMA Queue ==
    ASSUME NEW S, NEW q \in Seq(S)
    PROVE  /\ <<>> \in Seq(S) /\ Len(<<>>) = 0
           /\ Len(q) \in Nat
           /\ \A e \in S : Append(q, e) \in Seq(S) /\ Len(Append(q, e)) = Len(q) + 1
           /\ q # <<>> => Head(q) \in S /\ Tail(q) \in Seq(S) /\ Len(Tail(q)) = Len(q) - 1
BY AppendProperties, HeadTailProperties, EmptySeq, LenProperties

(* A part of a queue is a queue, as long as the part says. *)
LEMMA Part ==
    ASSUME NEW S, NEW q \in Seq(S), NEW m \in Nat \ {0}, NEW n \in Nat, n <= Len(q)
    PROVE  /\ SubSeq(q, m, n) \in Seq(S)
           /\ Len(SubSeq(q, m, n)) = IF m <= n THEN n - m + 1 ELSE 0
<1>1. \A i \in m..n : q[i] \in S
  BY ElementOfSeq, LenProperties
<1> QED
  BY <1>1, SubSeqProperties

(* The offline buffer stays within its bound and holds what it held, and    *)
(* what was put in.                                                         *)
LEMMA Buffer ==
    ASSUME NEW S, NEW b \in Seq(S), NEW q \in Seq(S)
    PROVE  /\ Buffered(b, q) \in Seq(S) /\ Len(Buffered(b, q)) <= BufferCap
           /\ Overflow(b, q) \in Nat
<1> DEFINE all == b \o q
<1>1. all \in Seq(S) /\ Len(all) \in Nat /\ Len(all) = Len(b) + Len(q) /\ BufferCap \in Nat \ {0}
  BY ConcatProperties, LenProperties, BoundsAssumption
<1>2. ASSUME Len(all) > BufferCap
      PROVE  /\ SubSeq(all, Len(all) - BufferCap + 1, Len(all)) \in Seq(S)
             /\ Len(SubSeq(all, Len(all) - BufferCap + 1, Len(all))) = BufferCap
  <2> HIDE DEF all
  <2>1. Len(all) - BufferCap + 1 \in Nat \ {0}
    BY <1>1, <1>2
  <2> QED
    BY <1>1, <1>2, <2>1, Part
<1> QED
  BY <1>1, <1>2 DEF Buffered, Overflow

-----------------------------------------------------------------------------
(* Typing *)

(* Nothing has been asked for yet. *)
LEMMA TypeInit == Init => TypeOK
<1> SUFFICES ASSUME Init PROVE TypeOK
  OBVIOUS
<1>1. /\ queue \in [Links -> Seq(Commands)] /\ down \in [Links -> Seq(Commands)]
      /\ up \in [Links -> Seq(Ack)] /\ \A l \in Links : Len(queue[l]) = 0
  BY Queue DEF Init
<1>2. out \in Seq(Ack) /\ pending \in Seq(Ack) /\ inflight \in Seq(Ack)
  BY Queue DEF Init
<1>3. Len(out) = 0 /\ Len(pending) = 0
  BY EmptySeq DEF Init
<1>4. told \in [Commands -> Seq(Terminal)]
  BY EmptySeq DEF Init
<1>5. call \in [Commands -> Call]
  BY DEF Init, Idle, Call, Stage
<1> QED
  BY <1>1, <1>2, <1>3, <1>4, <1>5, BoundsAssumption DEF Init, TypeOK

(* Completing a request takes its reference, and appends one final status   *)
(* to what was told or records that the event was refused.                  *)
LEMMA CompletedType ==
    ASSUME TypeOK, NEW c \in Commands, NEW st \in Terminal, Completed(c, st)
    PROVE  /\ refs' \subseteq AppCommands /\ told' \in [Commands -> Seq(Terminal)]
           /\ missed' \in [Commands -> {"no", "refused", "restart"}]
<1>1. Append(told[c], st) \in Seq(Terminal)
  BY Queue DEF TypeOK
<1>2. /\ told' = told \/ told' = [told EXCEPT ![c] = Append(told[c], st)]
      /\ missed' = missed \/ missed' = [missed EXCEPT ![c] = "refused"]
      /\ refs' = refs \/ refs' = refs \ {c}
  BY DEF Completed
<1>3. refs' \subseteq AppCommands
  BY <1>2 DEF TypeOK
<1>4. missed' \in [Commands -> {"no", "refused", "restart"}]
  BY <1>2 DEF TypeOK
<1>5. told' \in [Commands -> Seq(Terminal)]
  BY <1>1, <1>2 DEF TypeOK
<1> QED
  BY <1>3, <1>4, <1>5

(* A request moves to another stage, with its link or without. *)
LEMMA CallType ==
    ASSUME TypeOK, NEW c \in Commands, NEW pc \in Stage
    PROVE  At(c, pc) \in [Commands -> Call] /\ Ended(c, pc) \in [Commands -> Call]
<1>1. call \in [Commands -> Call] /\ call[c] \in Call
  BY DEF TypeOK
<1>2. [call[c] EXCEPT !.pc = pc] \in Call /\ [pc |-> pc, link |-> None] \in Call
  BY <1>1 DEF Call
<1> QED
  BY <1>1, <1>2 DEF At, Ended

(* Every handler, pump, job, session and fault keeps the types. *)
LEMMA TypeStep == TypeOK /\ [Next]_vars => TypeOK'
<1> SUFFICES ASSUME TypeOK, [Next]_vars PROVE TypeOK'
  OBVIOUS
<1> USE BoundsAssumption DEF requestVars, linkVars, edgeVars
<1>1. ASSUME NEW c \in Commands, Create(c) PROVE TypeOK'
  <2>1. call' \in [Commands -> Call]
    BY <1>1 DEF TypeOK, Create, Call, Stage
  <2>2. status' \in [Commands -> {"none", "pending", "sent"} \cup Terminal]
    BY <1>1 DEF TypeOK, Create
  <2> QED
    BY <1>1, <2>1, <2>2 DEF TypeOK, Create
<1>2. ASSUME NEW c \in Commands, MarkSent(c) PROVE TypeOK'
  <2>1. call' \in [Commands -> Call]
    BY <1>2, CallType DEF MarkSent, Stage
  <2>2. status' \in [Commands -> {"none", "pending", "sent"} \cup Terminal]
    BY <1>2 DEF TypeOK, MarkSent
  <2>3. failures' \in Nat
    BY <1>2 DEF TypeOK, MarkSent
  <2>4. UNCHANGED <<refs, told, missed, swept, linkVars, edgeVars, settled, breaks, crashes>>
    BY <1>2 DEF MarkSent
  <2> QED
    BY <2>1, <2>2, <2>3, <2>4 DEF TypeOK
<1>3. ASSUME NEW c \in Commands, Refuse(c) PROVE TypeOK'
  <2>1. call' \in [Commands -> Call]
    BY <1>3, CallType DEF Refuse, Stage
  <2> QED
    BY <1>3, <2>1 DEF TypeOK, Refuse
<1>4. ASSUME NEW c \in Commands, Offer(c) PROVE TypeOK'
  <2>1. call[c].link \in Links
    BY <1>4, NoneAssumption DEF TypeOK, Offer
  <2>2. /\ Append(queue[call[c].link], c) \in Seq(Commands)
        /\ Len(Append(queue[call[c].link], c)) <= CommandCap
    BY <1>4, <2>1, Queue DEF TypeOK, Offer, Room
  <2>3. queue' \in [Links -> Seq(Commands)] /\ \A l \in Links : Len(queue'[l]) <= CommandCap
    BY <1>4, <2>1, <2>2 DEF TypeOK, Offer
  <2>4. call' \in [Commands -> Call]
    BY <1>4, CallType DEF Offer, Stage
  <2> QED
    BY <1>4, <2>3, <2>4 DEF TypeOK, Offer
<1>5. ASSUME NEW c \in Commands, Delivered(c) \/ GiveUp(c) PROVE TypeOK'
  <2>1. call' \in [Commands -> Call]
    BY <1>5, CallType DEF Delivered, GiveUp, Stage
  <2> QED
    BY <1>5, <2>1 DEF TypeOK, Delivered, GiveUp
<1>6. ASSUME NEW c \in Commands, MarkFailed(c) PROVE TypeOK'
  <2>1. call' \in [Commands -> Call]
    BY <1>6, CallType DEF MarkFailed, Stage
  <2>2. status' \in [Commands -> {"none", "pending", "sent"} \cup Terminal]
    BY <1>6 DEF TypeOK, MarkFailed, Terminal
  <2>3. failures' \in Nat
    BY <1>6 DEF TypeOK, MarkFailed
  <2>4. UNCHANGED <<refs, told, missed, swept, linkVars, edgeVars, settled, breaks, crashes>>
    BY <1>6 DEF MarkFailed
  <2> QED
    BY <2>1, <2>2, <2>3, <2>4 DEF TypeOK
<1>7. ASSUME NEW c \in Commands, Erred(c) PROVE TypeOK'
  <2>1. /\ refs' \subseteq AppCommands /\ told' \in [Commands -> Seq(Terminal)]
        /\ missed' \in [Commands -> {"no", "refused", "restart"}]
    BY <1>7, CompletedType DEF Terminal, Erred
  <2>2. call' \in [Commands -> Call]
    BY <1>7, CallType DEF Erred, Stage
  <2> QED
    BY <1>7, <2>1, <2>2 DEF TypeOK, Erred
<1>8. ASSUME NEW S \in SUBSET InFlight, Sweep(S) PROVE TypeOK'
  BY <1>8 DEF TypeOK, Sweep, InFlight, Notified, Terminal
<1>9. ASSUME NEW c \in Commands, NotifySwept(c) PROVE TypeOK'
  <2>1. /\ refs' \subseteq AppCommands /\ told' \in [Commands -> Seq(Terminal)]
        /\ missed' \in [Commands -> {"no", "refused", "restart"}]
    BY <1>9, CompletedType DEF Terminal, NotifySwept
  <2> QED
    BY <1>9, <2>1 DEF TypeOK, NotifySwept
<1>10. ASSUME NEW l \in Links, Connect(l) PROVE TypeOK'
  <2>1. /\ queue' \in [Links -> Seq(Commands)] /\ \A k \in Links : Len(queue'[k]) <= CommandCap
    BY <1>10, Queue DEF TypeOK, Connect
  <2>2. down' \in [Links -> Seq(Commands)] /\ up' \in [Links -> Seq(Ack)]
    BY <1>10, Queue DEF TypeOK, Connect
  <2> QED
    BY <1>10, <2>1, <2>2, NoneAssumption DEF TypeOK, Connect
<1>11. ASSUME NEW l \in Links, Break(l) PROVE TypeOK'
  <2>1. up[l] \in Seq(Ack) /\ down[l] \in Seq(Commands)
    BY DEF TypeOK
  <2>2. /\ \A n \in 0..Len(up[l]) : SubSeq(up[l], 1, n) \in Seq(Ack)
        /\ \A n \in 0..Len(down[l]) : SubSeq(down[l], 1, n) \in Seq(Commands)
    BY <2>1, Part, LenProperties
  <2>3. up' \in [Links -> Seq(Ack)] /\ down' \in [Links -> Seq(Commands)]
    <3>1. PICK n \in 0..Len(up[l]) : up' = [up EXCEPT ![l] = SubSeq(up[l], 1, n)]
      BY <1>11 DEF Break
    <3>2. PICK m \in 0..Len(down[l]) : down' = [down EXCEPT ![l] = SubSeq(down[l], 1, m)]
      BY <1>11 DEF Break
    <3> QED
      BY <2>2, <3>1, <3>2 DEF TypeOK
  <2>4. /\ cut' \subseteq Links /\ breaks' \in Nat
        /\ UNCHANGED <<requestVars, current, open, pump, queue, rx, edgeVars, settled, failures,
                       crashes>>
    BY <1>11 DEF TypeOK, Break
  <2> QED
    BY <2>3, <2>4 DEF TypeOK
<1>12. ASSUME NEW l \in Links, Close(l) PROVE TypeOK'
  BY <1>12, Queue DEF TypeOK, Close
<1>13. ASSUME NEW l \in Links, PumpCommand(l) PROVE TypeOK'
  <2>1. /\ Head(queue[l]) \in Commands /\ Tail(queue[l]) \in Seq(Commands)
        /\ Len(Tail(queue[l])) <= CommandCap
    BY <1>13, Queue DEF TypeOK, PumpCommand
  <2>2. queue' \in [Links -> Seq(Commands)] /\ \A k \in Links : Len(queue'[k]) <= CommandCap
    BY <1>13, <2>1 DEF TypeOK, PumpCommand
  <2>3. Append(down[l], Head(queue[l])) \in Seq(Commands)
    BY <2>1, Queue DEF TypeOK
  <2>4. down' \in [Links -> Seq(Commands)] /\ pump' \subseteq Links
    BY <1>13, <2>3 DEF TypeOK, PumpCommand
  <2>5. call' \in [Commands -> Call]
    <3>1. /\ call \in [Commands -> Call]
          /\ \A pc \in {"written", "undelivered"} : At(Head(queue[l]), pc) \in [Commands -> Call]
      BY <2>1, CallType DEF TypeOK, Stage
    <3> QED
      BY <1>13, <3>1 DEF PumpCommand
  <2> QED
    BY <1>13, <2>2, <2>4, <2>5 DEF TypeOK, PumpCommand
<1>14. ASSUME NEW l \in Links, PumpStops(l) PROVE TypeOK'
  BY <1>14 DEF TypeOK, PumpStops
<1>15. ASSUME NEW l \in Links, ReadAck(l) PROVE TypeOK'
  <2>1. Head(up[l]) \in Ack /\ Tail(up[l]) \in Seq(Ack)
    BY <1>15, Queue DEF TypeOK, ReadAck
  <2>2. Head(up[l]).id \in Commands
    BY <2>1 DEF Ack
  <2>3. up' \in [Links -> Seq(Ack)] /\ rx' \in [Links -> Ack \cup {None}]
    BY <1>15, <2>1 DEF TypeOK, ReadAck
  <2>4. status' \in [Commands -> {"none", "pending", "sent"} \cup Terminal]
    BY <1>15, <2>2 DEF TypeOK, ReadAck, Terminal
  <2>5. settled' \subseteq Commands /\ failures' \in Nat
    <3>1. settled' = settled \cup {Head(up[l]).id} /\ failures' \in {failures, failures + 1}
      BY <1>15 DEF ReadAck
    <3>2. settled' \subseteq Commands
      BY <2>2, <3>1 DEF TypeOK
    <3>3. failures' \in Nat
      BY <3>1 DEF TypeOK
    <3> QED
      BY <3>2, <3>3
  <2>6. UNCHANGED <<call, refs, told, missed, swept, current, open, pump, queue, cut, down, edgeVars,
                    breaks, crashes>>
    BY <1>15 DEF ReadAck
  <2> QED
    BY <2>3, <2>4, <2>5, <2>6 DEF TypeOK
<1>16. ASSUME NEW l \in Links, NotifyAck(l) PROVE TypeOK'
  <2>1. rx[l] \in Ack
    BY <1>16 DEF TypeOK, NotifyAck
  <2>2. /\ refs' \subseteq AppCommands /\ told' \in [Commands -> Seq(Terminal)]
        /\ missed' \in [Commands -> {"no", "refused", "restart"}]
    BY <1>16, <2>1, CompletedType DEF NotifyAck, Terminal, Ack
  <2> QED
    BY <1>16, <2>2 DEF TypeOK, NotifyAck
<1>17. CASE Receive
  <2>1. session \in Links
    BY <1>17 DEF TypeOK, Receive
  <2>2. Head(down[session]) \in Commands /\ Tail(down[session]) \in Seq(Commands)
    BY <1>17, <2>1, Queue DEF TypeOK, Receive
  <2> QED
    BY <1>17, <2>1, <2>2 DEF TypeOK, Receive
<1>18. ASSUME NEW c \in Commands, Execute(c) \/ ReadOnline(c) PROVE TypeOK'
  <2>1. UNCHANGED <<requestVars, linkVars, session, phase, out, pending, inflight, dropped,
                    settled, breaks, failures, crashes>>
    BY <1>18 DEF Execute, ReadOnline
  <2>2. job' \in [Commands -> {"none", "running", "executed", "send", "buffer", "done"}]
    <3>1. PICK to \in {"executed", "send", "buffer"} : job' = [job EXCEPT ![c] = to]
      BY <1>18 DEF Execute, ReadOnline
    <3> QED
      BY <3>1 DEF TypeOK
  <2>3. outcome' \in [Commands -> {"none", "ok", "failed"}]
    <3>1. outcome' = outcome \/ \E to \in {"ok", "failed"} : outcome' = [outcome EXCEPT ![c] = to]
      BY <1>18 DEF Execute, ReadOnline
    <3> QED
      BY <3>1 DEF TypeOK
  <2> QED
    BY <2>1, <2>2, <2>3 DEF TypeOK
<1>19. ASSUME NEW c \in Commands, EnqueueAck(c) PROVE TypeOK'
  <2>1. AckOf(c) \in Ack /\ <<AckOf(c)>> \in Seq(Ack)
    BY DEF AckOf, Ack
  <2>2. /\ Buffered(pending, <<AckOf(c)>>) \in Seq(Ack)
        /\ Len(Buffered(pending, <<AckOf(c)>>)) <= BufferCap
        /\ Overflow(pending, <<AckOf(c)>>) \in Nat
    BY <2>1, Buffer DEF TypeOK
  <2>3. Append(out, AckOf(c)) \in Seq(Ack) /\ Len(Append(out, AckOf(c))) = Len(out) + 1
    BY <2>1, Queue DEF TypeOK
  <2>4. /\ out' \in Seq(Ack) /\ Len(out') <= SendCap
        /\ pending' \in Seq(Ack) /\ Len(pending') <= BufferCap /\ dropped' \in Nat
    <3>1. Len(out) \in Nat
      BY LenProperties DEF TypeOK
    <3>2. CASE job[c] = "send" /\ Len(out) < SendCap
      <4>1. out' = Append(out, AckOf(c)) /\ UNCHANGED <<pending, dropped>>
        BY <1>19, <3>2 DEF EnqueueAck
      <4> QED
        BY <2>3, <3>1, <3>2, <4>1 DEF TypeOK
    <3>3. CASE ~(job[c] = "send" /\ Len(out) < SendCap)
      BY <1>19, <2>2, <3>3 DEF TypeOK, EnqueueAck
    <3> QED
      BY <3>2, <3>3
  <2>5. job' \in [Commands -> {"none", "running", "executed", "send", "buffer", "done"}]
    BY <1>19 DEF TypeOK, EnqueueAck
  <2> QED
    BY <1>19, <2>4, <2>5 DEF TypeOK, EnqueueAck
<1>20. CASE GoOnline \/ GoOffline
  BY <1>20 DEF TypeOK, GoOnline, GoOffline
<1>21. CASE Flush
  <2>1. Fits \in Nat /\ Fits <= Len(pending) /\ Len(out) + Fits <= SendCap
    BY LenProperties DEF TypeOK, Fits
  <2>2. /\ SubSeq(pending, 1, Fits) \in Seq(Ack) /\ Len(SubSeq(pending, 1, Fits)) = Fits
        /\ Rest \in Seq(Ack) /\ Len(Rest) <= BufferCap
    BY <2>1, Part, LenProperties DEF TypeOK, Rest
  <2>3. out \o SubSeq(pending, 1, Fits) \in Seq(Ack)
        /\ Len(out \o SubSeq(pending, 1, Fits)) = Len(out) + Fits
    BY <2>2, ConcatProperties DEF TypeOK
  <2> QED
    BY <1>21, <2>1, <2>2, <2>3 DEF TypeOK, Flush
<1>22. CASE PumpAck
  <2>1. session \in Links
    BY <1>22 DEF TypeOK, PumpAck
  <2>2. /\ Head(out) \in Ack /\ Tail(out) \in Seq(Ack) /\ Len(Tail(out)) <= SendCap
    BY <1>22, Queue DEF TypeOK, PumpAck
  <2>3. Append(inflight, Head(out)) \in Seq(Ack) /\ Append(up[session], Head(out)) \in Seq(Ack)
    BY <2>1, <2>2, Queue DEF TypeOK
  <2> QED
    BY <1>22, <2>1, <2>2, <2>3 DEF TypeOK, PumpAck
<1>23. CASE Confirm
  BY <1>23, Queue DEF TypeOK, Confirm
<1>24. CASE EndSession
  <2>1. PICK n \in 0..(IF out = <<>> THEN 0 ELSE 1) :
           /\ out' = SubSeq(out, n + 1, Len(out))
           /\ pending' = Buffered(pending, SubSeq(out, 1, n) \o Doubtful)
           /\ dropped' = dropped + Overflow(pending, SubSeq(out, 1, n) \o Doubtful)
    BY <1>24 DEF EndSession
  <2>2. n \in Nat /\ n <= Len(out) /\ Len(out) \in Nat
    BY EmptySeq, LenProperties DEF TypeOK
  <2>3. out' \in Seq(Ack) /\ Len(out') <= SendCap
    BY <2>1, <2>2, Part DEF TypeOK
  <2>4. SubSeq(out, 1, n) \o Doubtful \in Seq(Ack)
    BY <2>2, Part, ConcatProperties DEF TypeOK, Doubtful
  <2>5. pending' \in Seq(Ack) /\ Len(pending') <= BufferCap /\ dropped' \in Nat
    <3> DEFINE back == SubSeq(out, 1, n) \o Doubtful
    <3>1. pending \in Seq(Ack) /\ dropped \in Nat /\ back \in Seq(Ack)
      BY <2>4 DEF TypeOK
    <3>2. pending' = Buffered(pending, back) /\ dropped' = dropped + Overflow(pending, back)
      BY <2>1
    <3> HIDE DEF back
    <3>3. /\ Buffered(pending, back) \in Seq(Ack) /\ Len(Buffered(pending, back)) <= BufferCap
          /\ Overflow(pending, back) \in Nat
      BY <3>1, Buffer
    <3> QED
      BY <3>1, <3>2, <3>3
  <2> QED
    BY <1>24, <2>3, <2>5, Queue DEF TypeOK, EndSession
<1>25. CASE ServerRestart
  <2>1. call' \in [Commands -> Call]
    BY <1>25 DEF TypeOK, ServerRestart, Idle, Call, Stage
  <2>2. /\ queue' \in [Links -> Seq(Commands)] /\ \A l \in Links : Len(queue'[l]) <= CommandCap
        /\ up' \in [Links -> Seq(Ack)]
    BY <1>25, Queue DEF ServerRestart
  <2> QED
    BY <1>25, <2>1, <2>2 DEF TypeOK, ServerRestart
<1>26. CASE EdgeRestart
  BY <1>26, Queue DEF TypeOK, EdgeRestart
<1>27. CASE UNCHANGED vars
  BY <1>27 DEF TypeOK, vars
<1> QED
  BY <1>1, <1>2, <1>3, <1>4, <1>5, <1>6, <1>7, <1>8, <1>9, <1>10, <1>11, <1>12, <1>13,
     <1>14, <1>15, <1>16, <1>17, <1>18, <1>19, <1>20, <1>21, <1>22, <1>23, <1>24, <1>25,
     <1>26, <1>27
  DEF Next, HandlerStep, Job, ReadLoop, Writer, EdgeSession

(* All variables keep their types, the queues and the buffer their bounds.  *)
THEOREM CommandTypes == Spec => []TypeOK
BY TypeInit, TypeStep, PTL DEF Spec

-----------------------------------------------------------------------------
(* Frames and acknowledgements under way *)

(* g holds parts of the queues of f, in their order. *)
Within(g, f) ==
    \A m \in Links : \E k \in Nat : \A i \in DOMAIN g[m] :
        i + k \in DOMAIN f[m] /\ g[m][i] = f[m][i + k]

Lacks(f, c) == \A m \in Links : \A i \in DOMAIN f[m] : f[m][i] # c

(* A family of queues that loses messages keeps its messages distinct, and  *)
(* apart from those of another.                                             *)
LEMMA WithinDistinct ==
    ASSUME NEW S, NEW f \in [Links -> Seq(S)], NEW g \in [Links -> Seq(S)],
           Within(g, f), Distinct(f)
    PROVE  Distinct(g)
<1> SUFFICES ASSUME NEW l \in Links, NEW m \in Links, NEW i \in DOMAIN g[l], NEW j \in DOMAIN g[m],
                    g[l][i] = g[m][j]
             PROVE  l = m /\ i = j
  BY DEF Distinct
<1>1. i \in Nat /\ j \in Nat
  BY LenProperties
<1>2. PICK a \in Nat : \A n \in DOMAIN g[l] : n + a \in DOMAIN f[l] /\ g[l][n] = f[l][n + a]
  BY DEF Within
<1>3. PICK b \in Nat : j + b \in DOMAIN f[m] /\ g[m][j] = f[m][j + b]
  BY DEF Within
<1>4. l = m
  BY <1>2, <1>3 DEF Distinct
<1>5. i + a = j + a
  <2>1. /\ i + a \in DOMAIN f[l] /\ j + a \in DOMAIN f[l]
        /\ f[l][i + a] = f[l][j + a]
    BY <1>2, <1>4
  <2> QED
    BY <2>1 DEF Distinct
<1> QED
  BY <1>1, <1>4, <1>5

(* What is apart from the larger family is apart from its parts.            *)
LEMMA WithinApart ==
    ASSUME NEW f, NEW g, NEW h, Within(g, f)
    PROVE  /\ Apart(f, h) => Apart(g, h)
           /\ Apart(h, f) => Apart(h, g)
           /\ \A c : Lacks(f, c) => Lacks(g, c)
BY DEF Within, Apart, Lacks

(* All queues, or none of their messages. *)
LEMMA WithinSelf ==
    ASSUME NEW S, NEW f \in [Links -> Seq(S)]
    PROVE  Within(f, f) /\ Within([m \in Links |-> <<>>], f)
<1>1. \A m \in Links : \A i \in DOMAIN f[m] : i + 0 \in DOMAIN f[m] /\ f[m][i] = f[m][i + 0]
  BY LenProperties
<1>2. \A m \in Links : \A i \in DOMAIN <<>> : FALSE
  OBVIOUS
<1>3. Within(f, f)
  BY <1>1 DEF Within
<1>4. Within([m \in Links |-> <<>>], f)
  BY <1>2 DEF Within
<1> QED
  BY <1>3, <1>4

(* What takes messages out of one queue: reading the first, cutting the     *)
(* connection, forgetting all.                                              *)
LEMMA TakesOut ==
    ASSUME NEW S, NEW f \in [Links -> Seq(S)], NEW l \in Links
    PROVE  /\ \A n \in 0..Len(f[l]) : Within([f EXCEPT ![l] = SubSeq(@, 1, n)], f)
           /\ Within([f EXCEPT ![l] = <<>>], f)
           /\ f[l] # <<>> => Within([f EXCEPT ![l] = Tail(@)], f)
<1>1. ASSUME NEW n \in 0..Len(f[l]) PROVE Within([f EXCEPT ![l] = SubSeq(@, 1, n)], f)
  <2>1. /\ SubSeq(f[l], 1, n) \in Seq(S) /\ Len(SubSeq(f[l], 1, n)) = n
        /\ \A i \in 1..n : SubSeq(f[l], 1, n)[i] = f[l][i]
        /\ DOMAIN SubSeq(f[l], 1, n) = 1..n
    <3>1. \A i \in 1..n : f[l][i] \in S
      BY ElementOfSeq, LenProperties
    <3> QED
      BY <3>1, SubSeqProperties, LenProperties
  <2>2. \A i \in 1..n : i + 0 \in DOMAIN f[l] /\ SubSeq(f[l], 1, n)[i] = f[l][i + 0]
    BY <2>1, LenProperties
  <2>3. \A m \in Links : m # l => \A i \in DOMAIN f[m] : i + 0 \in DOMAIN f[m] /\ f[m][i] = f[m][i + 0]
    BY LenProperties
  <2> QED
    BY <2>1, <2>2, <2>3 DEF Within
<1>2. Within([f EXCEPT ![l] = <<>>], f)
  <2>1. \A m \in Links : \A i \in DOMAIN f[m] : i + 0 \in DOMAIN f[m] /\ f[m][i] = f[m][i + 0]
    BY LenProperties
  <2>2. DOMAIN <<>> = {}
    OBVIOUS
  <2>3. \A m \in Links : DOMAIN [f EXCEPT ![l] = <<>>][m] = {} \/ [f EXCEPT ![l] = <<>>][m] = f[m]
    BY <2>2
  <2> QED
    BY <2>1, <2>2, <2>3 DEF Within
<1>3. ASSUME f[l] # <<>> PROVE Within([f EXCEPT ![l] = Tail(@)], f)
  <2>1. \A i \in DOMAIN Tail(f[l]) : i + 1 \in DOMAIN f[l] /\ Tail(f[l])[i] = f[l][i + 1]
    BY <1>3, HeadTailProperties, LenProperties
  <2>2. \A m \in Links : \A i \in DOMAIN f[m] : i + 0 \in DOMAIN f[m] /\ f[m][i] = f[m][i + 0]
    BY LenProperties
  <2> QED
    BY <2>1, <2>2 DEF Within
<1> QED
  BY <1>1, <1>2, <1>3

(* The message read first is nowhere else. *)
LEMMA ReadFirst ==
    ASSUME NEW S, NEW f \in [Links -> Seq(S)], NEW l \in Links, f[l] # <<>>, Distinct(f)
    PROVE  Lacks([f EXCEPT ![l] = Tail(@)], Head(f[l]))
<1>1. 1 \in DOMAIN f[l] /\ Head(f[l]) = f[l][1]
  BY EmptySeq, LenProperties
<1>2. \A i \in DOMAIN Tail(f[l]) : /\ i \in Nat \ {0} /\ i + 1 \in DOMAIN f[l]
                                   /\ Tail(f[l])[i] = f[l][i + 1]
  BY HeadTailProperties, LenProperties
<1> QED
  BY <1>1, <1>2 DEF Lacks, Distinct

(* A new message enters one queue. *)
LEMMA PutsIn ==
    ASSUME NEW S, NEW f \in [Links -> Seq(S)], NEW h, NEW l \in Links, NEW c \in S,
           Distinct(f), Lacks(f, c)
    PROVE  /\ Distinct([f EXCEPT ![l] = Append(@, c)])
           /\ Lacks(h, c) /\ Apart(f, h) => Apart([f EXCEPT ![l] = Append(@, c)], h)
           /\ Lacks(h, c) /\ Apart(h, f) => Apart(h, [f EXCEPT ![l] = Append(@, c)])
<1> DEFINE g == [f EXCEPT ![l] = Append(@, c)]
<1>1. \A m \in Links : \A i \in DOMAIN g[m] :
        \/ i \in DOMAIN f[m] /\ g[m][i] = f[m][i]
        \/ m = l /\ i = Len(f[l]) + 1 /\ g[m][i] = c
  BY AppendProperties, LenProperties
<1> HIDE DEF g
<1>2. Distinct(g)
  <2> SUFFICES ASSUME NEW k \in Links, NEW m \in Links, NEW i \in DOMAIN g[k], NEW j \in DOMAIN g[m],
                      g[k][i] = g[m][j]
               PROVE  k = m /\ i = j
    BY DEF Distinct
  <2>1. CASE i \in DOMAIN f[k] /\ g[k][i] = f[k][i]
    <3>1. CASE j \in DOMAIN f[m] /\ g[m][j] = f[m][j]
      <4>1. f[k][i] = f[m][j]
        BY <2>1, <3>1
      <4> QED
        BY <2>1, <3>1, <4>1 DEF Distinct
    <3>2. CASE g[m][j] = c
      BY <2>1, <3>2 DEF Lacks
    <3> QED
      BY <1>1, <3>1, <3>2
  <2>2. CASE k = l /\ i = Len(f[l]) + 1 /\ g[k][i] = c
    BY <1>1, <2>2 DEF Lacks
  <2> QED
    BY <1>1, <2>1, <2>2
<1>3. /\ Lacks(h, c) /\ Apart(f, h) => Apart(g, h)
      /\ Lacks(h, c) /\ Apart(h, f) => Apart(h, g)
  BY <1>1 DEF Apart, Lacks
<1> QED
  BY <1>2, <1>3 DEF g

(* Queues of commands that are not yet started stay such queues while there *)
(* are only more of those; and so do acknowledgements.                      *)
LEMMA FramesStay ==
    ASSUME FramesOK, Unstarted \subseteq Unstarted',
           queue' \in [Links -> Seq(Unstarted)], down' \in [Links -> Seq(Unstarted)],
           Within(queue', queue), Within(down', down)
    PROVE  FramesOK'
<1>1. queue' \in [Links -> Seq(Unstarted')] /\ down' \in [Links -> Seq(Unstarted')]
  OBVIOUS
<1>2. Distinct(queue') /\ Distinct(down')
  BY WithinDistinct DEF FramesOK
<1>3. Apart(queue', down')
  BY WithinApart DEF FramesOK
<1> QED
  BY <1>1, <1>2, <1>3 DEF FramesOK, Distinct, Apart

(* The same for steps that move no frame ...                                *)
LEMMA FramesSame ==
    ASSUME FramesOK, Unstarted \subseteq Unstarted', UNCHANGED <<queue, down>>
    PROVE  FramesOK'
<1>1. Within(queue', queue) /\ Within(down', down)
  BY WithinSelf DEF FramesOK
<1> QED
  BY <1>1, FramesStay DEF FramesOK

(* ... and for steps that move no acknowledgement.                          *)
LEMMA AcksStay ==
    ASSUME AcksOK, UNCHANGED <<out, pending, inflight, up, rx, outcome>>
    PROVE  AcksOK'
BY DEF AcksOK, Faithful

-----------------------------------------------------------------------------
(* Consistency *)

(* Nothing is under way yet. *)
LEMMA ConsistentInit == Init => Consistent
<1> SUFFICES ASSUME Init PROVE Consistent
  OBVIOUS
<1>1. StagesOK /\ OwedOK
  BY DEF Init, StagesOK, OwedOK, Idle
<1>2. FramesOK
  <2>1. queue \in [Links -> Seq(Unstarted)] /\ down \in [Links -> Seq(Unstarted)]
    BY EmptySeq DEF Init
  <2>2. \A l \in Links : \A i \in DOMAIN queue[l] : FALSE
    BY DEF Init
  <2>3. \A l \in Links : \A i \in DOMAIN down[l] : FALSE
    BY DEF Init
  <2> QED
    BY <2>1, <2>2, <2>3 DEF FramesOK, Distinct, Apart
<1>3. AcksOK
  BY EmptySeq DEF Init, AcksOK
<1> QED
  BY <1>1, <1>2, <1>3 DEF Consistent

(* What the sets of the invariant mean for one command.                     *)
LEMMA Meaning ==
    ASSUME TypeOK, Consistent
    PROVE  /\ \A a \in Faithful : /\ a.id \in Commands /\ outcome[a.id] # "none"
                                  /\ a.id \in Offered /\ status[a.id] # "none"
           /\ \A c \in Unstarted : /\ c \in Commands /\ job[c] = "none" /\ outcome[c] = "none"
                                   /\ c \in Offered
<1>1. ASSUME NEW a \in Faithful
      PROVE  /\ a.id \in Commands /\ outcome[a.id] # "none"
             /\ a.id \in Offered /\ status[a.id] # "none"
  <2>1. a.id \in Commands /\ outcome[a.id] # "none"
    BY DEF Faithful, Ack
  <2>2. job[a.id] # "none"
    BY <2>1 DEF Consistent, StagesOK
  <2> QED
    BY <2>1, <2>2 DEF Consistent, StagesOK, Offered
<1>2. ASSUME NEW c \in Unstarted
      PROVE  c \in Commands /\ job[c] = "none" /\ outcome[c] = "none" /\ c \in Offered
  BY DEF Unstarted, Offered, Consistent, StagesOK
<1> QED
  BY <1>1, <1>2

(* Completing a request: nothing is owed to the Application any more.       *)
LEMMA CompletedOwed ==
    ASSUME TypeOK, Consistent, NEW c \in Commands, NEW st \in Terminal, Completed(c, st)
    PROVE  /\ OwedOK' /\ refs' = refs \ {c}
           /\ \A d \in Commands : d # c \/ c \notin refs => told'[d] = told[d]
           /\ c \in refs => status[c] # "none"
<1>1. told \in [Commands -> Seq(Terminal)] /\ refs \subseteq Commands
  BY BoundsAssumption DEF TypeOK
<1>2. \A d \in Commands : d # c \/ c \notin refs => told'[d] = told[d]
  BY <1>1 DEF Completed
<1>3. refs' = refs \ {c}
  BY DEF Completed
<1>4. OwedOK'
  BY <1>1, <1>2, <1>3 DEF Consistent, OwedOK
<1>5. c \in refs => status[c] # "none"
  BY <1>1 DEF Consistent, StagesOK
<1> QED
  BY <1>2, <1>3, <1>4, <1>5

(* Steps of requests and of the sweeper leave frames, jobs and              *)
(* acknowledgements alone.                                                  *)
LEMMA RequestStep ==
    ASSUME Consistent, OwedOK', Offered \subseteq Offered',
           UNCHANGED <<job, outcome, queue, down, out, pending, inflight, up, rx>>,
           \A c \in Commands : status'[c] = "none" =>
                call'[c].pc = "idle" /\ c \notin refs' /\ told'[c] = <<>>
    PROVE  Consistent'
<1>1. StagesOK'
  BY DEF Consistent, StagesOK
<1>2. Unstarted \subseteq Unstarted'
  BY DEF Unstarted
<1>3. FramesOK' /\ AcksOK'
  BY <1>2, FramesSame, AcksStay DEF Consistent
<1> QED
  BY <1>1, <1>3 DEF Consistent

(* ... which the stages a request goes through respect.                     *)
LEMMA CallStep ==
    ASSUME TypeOK, Consistent, NEW c \in Commands, NEW pc \in Stage \ {"created", "marked"},
           call[c].pc # "idle", call' = At(c, pc) \/ call' = Ended(c, pc),
           \A d \in Commands : status'[d] = "none" <=> status[d] = "none"
    PROVE  /\ Offered \subseteq Offered'
           /\ \A d \in Commands : status'[d] = "none" => call'[d].pc = "idle"
<1>1. /\ call \in [Commands -> Call] /\ status[c] # "none" /\ call'[c].pc = pc
      /\ \A d \in Commands : d # c => call'[d] = call[d]
  BY DEF TypeOK, Call, At, Ended, Consistent, StagesOK
<1> QED
  BY <1>1 DEF Offered, Consistent, StagesOK

(* The handler and the notification of the sweeper.                         *)
LEMMA RequestsConsistent ==
    ASSUME TypeOK, Consistent, NEW c \in Commands,
           \/ Create(c) \/ MarkSent(c) \/ Refuse(c) \/ Delivered(c) \/ GiveUp(c)
           \/ MarkFailed(c) \/ Erred(c) \/ NotifySwept(c)
    PROVE  Consistent'
<1> USE DEF requestVars, linkVars, edgeVars
<1>1. status \in [Commands -> {"none", "pending", "sent"} \cup Terminal]
      /\ call \in [Commands -> Call]
  BY DEF TypeOK
<1>2. CASE Create(c)
  <2>1. call'[c].pc = "created" /\ \A d \in Commands : d # c => call'[d] = call[d]
    BY <1>1, <1>2 DEF Create
  <2>2. status'[c] = "pending" /\ \A d \in Commands : d # c => status'[d] = status[d]
    BY <1>1, <1>2 DEF Create
  <2>3. Offered \subseteq Offered'
    BY <1>2, <2>1, <2>2 DEF Create, Offered
  <2>4. OwedOK'
    BY <1>2 DEF Create, Consistent, OwedOK, StagesOK
  <2>5. \A d \in Commands : status'[d] = "none" =>
           call'[d].pc = "idle" /\ d \notin refs' /\ told'[d] = <<>>
    BY <1>2, <2>1, <2>2 DEF Create, Consistent, StagesOK
  <2> QED
    BY <1>2, <2>3, <2>4, <2>5, RequestStep DEF Create
<1>3. CASE MarkSent(c)
  <2>1. status[c] # "none" /\ \A d \in Commands : status'[d] = "none" <=> status[d] = "none"
    BY <1>1, <1>3 DEF MarkSent, Consistent, StagesOK
  <2>2. \A d \in Commands : d # c => call'[d] = call[d]
    BY <1>1, <1>3 DEF MarkSent, At
  <2>3. c \notin Offered /\ Offered \subseteq Offered'
    BY <1>3, <2>1, <2>2 DEF MarkSent, Offered
  <2>4. \A d \in Commands : status'[d] = "none" =>
           call'[d].pc = "idle" /\ d \notin refs' /\ told'[d] = <<>>
    BY <1>3, <2>1, <2>2 DEF MarkSent, Consistent, StagesOK
  <2> QED
    BY <1>3, <2>3, <2>4, RequestStep DEF MarkSent, Consistent, OwedOK
<1>4. CASE Refuse(c) \/ Delivered(c) \/ GiveUp(c) \/ MarkFailed(c)
  <2>1. PICK pc \in {"undelivered", "accepted", "erred"} : call' = At(c, pc) \/ call' = Ended(c, pc)
    BY <1>4 DEF Refuse, Delivered, GiveUp, MarkFailed
  <2>2. call[c].pc # "idle"
    BY <1>4 DEF Refuse, Delivered, GiveUp, MarkFailed
  <2>3. \A d \in Commands : status'[d] = "none" <=> status[d] = "none"
    BY <1>1, <1>4, <2>2 DEF Refuse, Delivered, GiveUp, MarkFailed, Consistent, StagesOK
  <2>4. /\ Offered \subseteq Offered'
        /\ \A d \in Commands : status'[d] = "none" => call'[d].pc = "idle"
    BY <2>1, <2>2, <2>3, CallStep DEF Stage
  <2>5. UNCHANGED <<refs, told, job, outcome, queue, down, out, pending, inflight, up, rx>>
    BY <1>4 DEF Refuse, Delivered, GiveUp, MarkFailed
  <2> QED
    BY <2>3, <2>4, <2>5, RequestStep DEF Consistent, OwedOK, StagesOK
<1>5. CASE Erred(c)
  <2>1. call[c].pc # "idle" /\ call' = Ended(c, "rejected") /\ status' = status
    BY <1>5 DEF Erred
  <2>2. /\ Offered \subseteq Offered'
        /\ \A d \in Commands : status'[d] = "none" => call'[d].pc = "idle"
    BY <2>1, CallStep DEF Stage
  <2>3. Completed(c, "failed") /\ "failed" \in Terminal
    BY <1>5 DEF Erred, Terminal
  <2>4. /\ OwedOK' /\ refs' = refs \ {c}
        /\ \A d \in Commands : d # c \/ c \notin refs => told'[d] = told[d]
        /\ c \in refs => status[c] # "none"
    BY <2>3, CompletedOwed
  <2>5. \A d \in Commands : status'[d] = "none" =>
           call'[d].pc = "idle" /\ d \notin refs' /\ told'[d] = <<>>
    BY <2>1, <2>2, <2>4 DEF Consistent, StagesOK
  <2> QED
    BY <1>5, <2>2, <2>4, <2>5, RequestStep DEF Erred
<1>6. CASE NotifySwept(c)
  <2>1. Completed(c, "timeout") /\ "timeout" \in Terminal
    BY <1>6 DEF NotifySwept, Terminal
  <2>2. /\ OwedOK' /\ refs' = refs \ {c}
        /\ \A d \in Commands : d # c \/ c \notin refs => told'[d] = told[d]
        /\ c \in refs => status[c] # "none"
    BY <2>1, CompletedOwed
  <2>3. \A d \in Commands : status'[d] = "none" =>
           call'[d].pc = "idle" /\ d \notin refs' /\ told'[d] = <<>>
    BY <1>6, <2>2 DEF NotifySwept, Consistent, StagesOK
  <2> QED
    BY <1>6, <2>2, <2>3, RequestStep DEF NotifySwept, Offered
<1> QED
  BY <1>2, <1>3, <1>4, <1>5, <1>6

(* The sweeper changes rows that exist, and nothing else.                   *)
LEMMA SweepConsistent ==
    ASSUME TypeOK, Consistent, NEW S \in SUBSET InFlight, Sweep(S)
    PROVE  Consistent'
<1>1. \A d \in Commands : status'[d] = "none" <=> status[d] = "none"
  BY DEF Sweep, InFlight
<1>2. /\ UNCHANGED <<call, refs, told, job, outcome, queue, down, out, pending, inflight, up, rx>>
      /\ Offered \subseteq Offered'
  BY <1>1 DEF Sweep, Offered, linkVars, edgeVars
<1> QED
  BY <1>1, <1>2, RequestStep DEF Consistent, StagesOK, OwedOK

(* The frame of a command that was never offered enters the queue.          *)
LEMMA OfferConsistent ==
    ASSUME TypeOK, Consistent, NEW c \in Commands, Offer(c)
    PROVE  Consistent'
<1> DEFINE l == call[c].link
<1> DEFINE S == Unstarted \cup {c}
<1> USE DEF linkVars, edgeVars
<1>1. /\ call \in [Commands -> Call] /\ call[c].pc = "marked" /\ l \in Links
      /\ queue \in [Links -> Seq(S)] /\ down \in [Links -> Seq(S)]
  <2>1. call \in [Commands -> Call] /\ call[c].pc = "marked" /\ l \in Links
    BY NoneAssumption DEF TypeOK, Offer
  <2>2. Unstarted \subseteq S
    OBVIOUS
  <2> HIDE DEF S, l
  <2> QED
    BY <2>1, <2>2 DEF Consistent, FramesOK
<1>2. c \notin Offered /\ job[c] = "none" /\ status[c] # "none"
  BY <1>1 DEF Offered, Consistent, StagesOK
<1>3. call'[c].pc = "waiting" /\ \A d \in Commands : d # c => call'[d] = call[d]
  BY <1>1 DEF Offer, At
<1>4. Offered \subseteq Offered' /\ S \subseteq Unstarted'
  BY <1>2, <1>3 DEF Offer, Offered, Unstarted
<1>5. queue' = [queue EXCEPT ![l] = Append(@, c)]
  BY DEF Offer
<1>6. FramesOK'
  <2>1. Lacks(queue, c) /\ Lacks(down, c)
    <3>1. \A d \in Unstarted : d # c
      BY <1>2 DEF Unstarted
    <3> QED
      BY <3>1, ElementOfSeq, LenProperties DEF Consistent, FramesOK, Lacks
  <2>2. c \in S /\ Distinct(queue) /\ Apart(queue, down)
    BY DEF Consistent, FramesOK
  <2> HIDE DEF S, l
  <2>3. Distinct(queue') /\ Apart(queue', down)
    BY <1>1, <1>5, <2>1, <2>2, PutsIn
  <2>4. queue' \in [Links -> Seq(S)] /\ down' = down
    BY <1>1, <1>5, <2>2, AppendProperties DEF Offer
  <2>5. queue' \in [Links -> Seq(Unstarted')] /\ down' \in [Links -> Seq(Unstarted')]
    BY <1>1, <1>4, <2>4
  <2> QED
    BY <2>3, <2>4, <2>5 DEF Consistent, FramesOK, Distinct, Apart
<1>7. StagesOK'
  BY <1>2, <1>3, <1>4 DEF Offer, Consistent, StagesOK
<1>8. AcksOK' /\ OwedOK'
  BY AcksStay DEF Offer, Consistent, OwedOK
<1> QED
  BY <1>6, <1>7, <1>8 DEF Consistent

(* The writer takes a frame out of the queue, for the Edge or for nobody.   *)
LEMMA PumpConsistent ==
    ASSUME TypeOK, Consistent, NEW l \in Links, PumpCommand(l)
    PROVE  Consistent'
<1> DEFINE c == Head(queue[l])
<1> USE DEF linkVars, edgeVars
<1>1. /\ queue[l] # <<>> /\ queue \in [Links -> Seq(Unstarted)] /\ down \in [Links -> Seq(Unstarted)]
      /\ c \in Unstarted /\ c \in Commands
  BY Queue, Meaning DEF PumpCommand, Consistent, FramesOK
<1>2. /\ queue' = [queue EXCEPT ![l] = Tail(@)]
      /\ down' \in {down, [down EXCEPT ![l] = Append(@, c)]}
      /\ UNCHANGED <<status, refs, told, job, outcome, out, pending, inflight, up, rx>>
  BY DEF PumpCommand
<1>3. \A d \in Commands : \/ call'[d] = call[d]
                          \/ call[d].pc = "waiting" /\ call'[d].pc \in {"written", "undelivered"}
  BY <1>1 DEF PumpCommand, At, TypeOK, Call
<1>4. Offered' = Offered /\ Unstarted' = Unstarted
  BY <1>2, <1>3 DEF Offered, Unstarted
<1>5. StagesOK' /\ OwedOK' /\ AcksOK'
  <2>1. \A d \in Commands : call[d].pc = "idle" => call'[d].pc = "idle"
    BY <1>3
  <2> QED
    BY <1>2, <1>4, <2>1, AcksStay DEF Consistent, StagesOK, OwedOK
<1>6. FramesOK'
  <2>1. Distinct(queue) /\ Distinct(down) /\ Apart(queue, down)
    BY DEF Consistent, FramesOK
  <2>2. queue' \in [Links -> Seq(Unstarted)] /\ Within(queue', queue) /\ Lacks(queue', c)
    BY <1>1, <1>2, <2>1, Queue, TakesOut, ReadFirst
  <2>3. Lacks(down, c)
    <3>1. 1 \in DOMAIN queue[l] /\ c = queue[l][1]
      BY <1>1, EmptySeq, LenProperties
    <3> QED
      BY <2>1, <3>1 DEF Apart, Lacks
  <2>4. Distinct(queue') /\ Apart(queue', down)
    BY <1>1, <2>1, <2>2, WithinDistinct, WithinApart
  <2> HIDE DEF c
  <2>5. down' \in [Links -> Seq(Unstarted)]
    <3>1. Append(down[l], c) \in Seq(Unstarted)
      BY <1>1, Queue
    <3> QED
      BY <1>1, <1>2, <3>1
  <2>6. Distinct(down') /\ Apart(queue', down')
    <3>1. CASE down' = down
      BY <2>1, <2>4, <3>1
    <3>2. CASE down' = [down EXCEPT ![l] = Append(@, c)]
      BY <1>1, <2>1, <2>2, <2>3, <2>4, <3>2, PutsIn
    <3> QED
      BY <1>2, <3>1, <3>2
  <2> QED
    BY <1>4, <2>2, <2>4, <2>5, <2>6 DEF FramesOK, Distinct, Apart
<1> QED
  BY <1>5, <1>6 DEF Consistent

(* Connections begin, break and end: frames and acknowledgements under way  *)
(* are lost, nothing else.                                                  *)
LEMMA LinksConsistent ==
    ASSUME TypeOK, Consistent, NEW l \in Links, Connect(l) \/ Break(l) \/ Close(l) \/ PumpStops(l)
    PROVE  Consistent'
<1> USE DEF requestVars, linkVars, edgeVars
<1>1. /\ queue \in [Links -> Seq(Unstarted)] /\ down \in [Links -> Seq(Unstarted)]
      /\ up \in [Links -> Seq(Faithful)]
  BY DEF Consistent, FramesOK, AcksOK
<1>2. /\ UNCHANGED <<status, call, refs, told, job, outcome, out, pending, inflight, rx>>
      /\ Offered' = Offered /\ Unstarted' = Unstarted /\ Faithful' = Faithful
  BY DEF Connect, Break, Close, PumpStops, Offered, Unstarted, Faithful
<1>3. /\ queue' \in [Links -> Seq(Unstarted)] /\ Within(queue', queue)
      /\ down' \in [Links -> Seq(Unstarted)] /\ Within(down', down)
      /\ up' \in [Links -> Seq(Faithful)]
  <2>1. /\ Within(queue, queue) /\ Within([queue EXCEPT ![l] = <<>>], queue)
        /\ Within(down, down) /\ Within([down EXCEPT ![l] = <<>>], down)
    BY <1>1, TakesOut, WithinSelf
  <2>2. CASE Connect(l) \/ Close(l) \/ PumpStops(l)
    <3>1. /\ queue' \in {queue, [queue EXCEPT ![l] = <<>>]}
          /\ down' \in {down, [down EXCEPT ![l] = <<>>]}
          /\ up' \in {up, [up EXCEPT ![l] = <<>>]}
      BY <2>2 DEF Connect, Close, PumpStops
    <3>2. <<>> \in Seq(Unstarted) /\ <<>> \in Seq(Faithful)
      BY EmptySeq
    <3> QED
      BY <1>1, <2>1, <3>1, <3>2
  <2>3. CASE Break(l)
    <3>1. PICK m \in 0..Len(up[l]) : up' = [up EXCEPT ![l] = SubSeq(@, 1, m)]
      BY <2>3 DEF Break
    <3>2. PICK n \in 0..Len(down[l]) : down' = [down EXCEPT ![l] = SubSeq(@, 1, n)]
      BY <2>3 DEF Break
    <3>3. up[l] \in Seq(Faithful) /\ down[l] \in Seq(Unstarted)
      BY <1>1
    <3>4. SubSeq(up[l], 1, m) \in Seq(Faithful) /\ SubSeq(down[l], 1, n) \in Seq(Unstarted)
      BY <3>3, Part, LenProperties
    <3>5. Within(down', down)
      BY <1>1, <3>2, TakesOut
    <3>6. queue' = queue
      BY <2>3 DEF Break
    <3> QED
      BY <1>1, <2>1, <3>1, <3>2, <3>4, <3>5, <3>6
  <2> QED
    BY <2>2, <2>3
<1>4. FramesOK'
  BY <1>2, <1>3, FramesStay DEF Consistent
<1>5. StagesOK' /\ OwedOK' /\ AcksOK'
  BY <1>2, <1>3 DEF Consistent, StagesOK, OwedOK, AcksOK
<1> QED
  BY <1>4, <1>5 DEF Consistent

(* The Server reads an acknowledgement, and notifies AppHost.               *)
LEMMA ReadsConsistent ==
    ASSUME TypeOK, Consistent, NEW l \in Links, ReadAck(l) \/ NotifyAck(l)
    PROVE  Consistent'
<1> USE DEF edgeVars
<1>1. CASE ReadAck(l)
  <2> DEFINE a == Head(up[l])
  <2>1. a \in Faithful /\ Tail(up[l]) \in Seq(Faithful)
    BY <1>1, Queue DEF ReadAck, Consistent, AcksOK
  <2>2. a.id \in Commands /\ a.id \in Offered /\ status[a.id] # "none"
    BY <2>1, Meaning
  <2>3. /\ UNCHANGED <<call, refs, told, queue, down, job, outcome, out, pending, inflight>>
        /\ up' = [up EXCEPT ![l] = Tail(@)] /\ rx' = [rx EXCEPT ![l] = a]
        /\ status' \in {status, [status EXCEPT ![a.id] = IF a.ok THEN "ok" ELSE "failed"]}
    BY <1>1 DEF ReadAck
  <2> HIDE DEF a
  <2>4. \A d \in Commands : status'[d] = "none" <=> status[d] = "none"
    BY <2>2, <2>3 DEF TypeOK
  <2>5. Offered' = Offered /\ Unstarted' = Unstarted /\ Faithful' = Faithful
    BY <2>3, <2>4 DEF Offered, Unstarted, Faithful
  <2>6. StagesOK' /\ OwedOK' /\ FramesOK'
    BY <2>3, <2>4, <2>5, FramesSame DEF Consistent, StagesOK, OwedOK
  <2>7. AcksOK'
    BY <2>1, <2>3, <2>5 DEF Consistent, AcksOK
  <2> QED
    BY <2>6, <2>7 DEF Consistent
<1>2. CASE NotifyAck(l)
  <2>1. rx[l] \in Faithful
    BY <1>2 DEF NotifyAck, Consistent, AcksOK
  <2>2. rx[l].id \in Commands
    BY <2>1, Meaning
  <2>3. PICK st \in Terminal : Completed(rx[l].id, st)
    BY <1>2 DEF NotifyAck, Terminal
  <2>4. /\ OwedOK' /\ refs' = refs \ {rx[l].id}
        /\ \A d \in Commands : d # rx[l].id \/ rx[l].id \notin refs => told'[d] = told[d]
        /\ rx[l].id \in refs => status[rx[l].id] # "none"
    BY <2>2, <2>3, CompletedOwed
  <2>5. /\ UNCHANGED <<status, call, queue, down, up, job, outcome, out, pending, inflight>>
        /\ rx' = [rx EXCEPT ![l] = None]
        /\ Offered' = Offered /\ Unstarted' = Unstarted /\ Faithful' = Faithful
    BY <1>2 DEF NotifyAck, Offered, Unstarted, Faithful
  <2>6. StagesOK' /\ FramesOK'
    BY <2>2, <2>4, <2>5, FramesSame DEF Consistent, StagesOK
  <2>7. AcksOK'
    BY <2>5 DEF Consistent, AcksOK
  <2> QED
    BY <2>4, <2>6, <2>7 DEF Consistent
<1> QED
  BY <1>1, <1>2

(* The Edge's sessions move faithful acknowledgements between their queues, *)
(* and to the Server.                                                       *)
LEMMA SessionConsistent ==
    ASSUME TypeOK, Consistent,
           GoOnline \/ GoOffline \/ Flush \/ PumpAck \/ Confirm \/ EndSession
    PROVE  Consistent'
<1> USE DEF requestVars, linkVars
<1>1. /\ out \in Seq(Faithful) /\ pending \in Seq(Faithful) /\ inflight \in Seq(Faithful)
      /\ up \in [Links -> Seq(Faithful)]
  BY DEF Consistent, AcksOK
<1>2. UNCHANGED <<status, call, refs, told, queue, down, rx, job, outcome>>
  BY DEF GoOnline, GoOffline, Flush, PumpAck, Confirm, EndSession
<1>3. Offered' = Offered /\ Unstarted' = Unstarted /\ Faithful' = Faithful
  BY <1>2 DEF Offered, Unstarted, Faithful
<1>4. /\ out' \in Seq(Faithful) /\ pending' \in Seq(Faithful) /\ inflight' \in Seq(Faithful)
      /\ up' \in [Links -> Seq(Faithful)]
  <2>1. CASE GoOnline \/ GoOffline
    BY <1>1, <2>1 DEF GoOnline, GoOffline
  <2>2. CASE Flush
    <3>1. Fits \in Nat /\ Fits <= Len(pending) /\ Len(pending) \in Nat
      BY LenProperties, BoundsAssumption DEF TypeOK, Fits
    <3>2. SubSeq(pending, 1, Fits) \in Seq(Faithful) /\ Rest \in Seq(Faithful)
      BY <1>1, <3>1, Part DEF Rest
    <3>3. out \o SubSeq(pending, 1, Fits) \in Seq(Faithful)
      BY <1>1, <3>2, ConcatProperties
    <3> QED
      BY <1>1, <2>2, <3>2, <3>3 DEF Flush
  <2>3. CASE PumpAck
    <3>1. Head(out) \in Faithful /\ Tail(out) \in Seq(Faithful)
      BY <1>1, <2>3, Queue DEF PumpAck
    <3>2. session \in Links
      BY <2>3 DEF TypeOK, PumpAck
    <3>3. Append(inflight, Head(out)) \in Seq(Faithful) /\ Append(up[session], Head(out)) \in Seq(Faithful)
      BY <1>1, <3>1, <3>2, Queue
    <3> QED
      BY <1>1, <2>3, <3>1, <3>2, <3>3 DEF PumpAck
  <2>4. CASE Confirm
    BY <1>1, <2>4, Queue DEF Confirm
  <2>5. CASE EndSession
    <3>1. PICK n \in 0..(IF out = <<>> THEN 0 ELSE 1) :
             /\ out' = SubSeq(out, n + 1, Len(out))
             /\ pending' = Buffered(pending, SubSeq(out, 1, n) \o Doubtful)
      BY <2>5 DEF EndSession
    <3>2. n \in Nat /\ n <= Len(out) /\ Len(out) \in Nat
      BY <1>1, EmptySeq, LenProperties
    <3>3. out' \in Seq(Faithful) /\ SubSeq(out, 1, n) \in Seq(Faithful)
      BY <1>1, <3>1, <3>2, Part
    <3>4. SubSeq(out, 1, n) \o Doubtful \in Seq(Faithful)
      BY <1>1, <3>3, ConcatProperties DEF Doubtful
    <3>5. pending' \in Seq(Faithful)
      BY <1>1, <3>1, <3>4, Buffer
    <3>6. inflight' = <<>> /\ up' = up
      BY <2>5 DEF EndSession
    <3> QED
      BY <1>1, <3>3, <3>5, <3>6, EmptySeq
  <2> QED
    BY <2>1, <2>2, <2>3, <2>4, <2>5
<1>5. StagesOK' /\ OwedOK' /\ FramesOK'
  BY <1>2, <1>3, FramesSame DEF Consistent, StagesOK, OwedOK
<1>6. AcksOK'
  BY <1>2, <1>3, <1>4 DEF Consistent, AcksOK
<1> QED
  BY <1>5, <1>6 DEF Consistent

(* The Edge starts a command whose frame is nowhere else then, executes it, *)
(* and hands over an acknowledgement that says what the device did.         *)
LEMMA JobsConsistent ==
    ASSUME TypeOK, Consistent, Receive \/ \E c \in Commands : Job(c)
    PROVE  Consistent'
<1> USE DEF requestVars, linkVars
<1>1. CASE Receive
  <2> DEFINE c == Head(down[session])
  <2>1. /\ session \in Links /\ down[session] # <<>>
        /\ queue \in [Links -> Seq(Unstarted)] /\ down \in [Links -> Seq(Unstarted)]
        /\ Distinct(queue) /\ Distinct(down) /\ Apart(queue, down)
    BY <1>1 DEF Receive, TypeOK, Consistent, FramesOK
  <2>2. c \in Unstarted /\ c \in Commands /\ c \in Offered /\ outcome[c] = "none"
    BY <2>1, Queue, Meaning
  <2>3. /\ down' = [down EXCEPT ![session] = Tail(@)] /\ job' = [job EXCEPT ![c] = "running"]
        /\ UNCHANGED <<status, call, refs, told, queue, up, rx, out, pending, inflight, outcome>>
    BY <1>1 DEF Receive
  <2>4. Lacks(down', c) /\ Lacks(queue, c)
    <3>1. 1 \in DOMAIN down[session] /\ c = down[session][1]
      BY <2>1, EmptySeq, LenProperties
    <3> QED
      <4>1. Lacks(down', c)
        BY <2>1, <2>3, ReadFirst
      <4>2. Lacks(queue, c)
        BY <2>1, <3>1 DEF Apart, Lacks
      <4> QED
        BY <4>1, <4>2
  <2>5. down' \in [Links -> Seq(Unstarted)] /\ Within(down', down) /\ Within(queue, queue)
    BY <2>1, <2>3, Queue, TakesOut, WithinSelf
  <2> HIDE DEF c
  <2>6. Offered' = Offered /\ Unstarted' = Unstarted \ {c}
    BY <2>2, <2>3 DEF TypeOK, Offered, Unstarted
  <2>7. /\ queue' \in [Links -> Seq(Unstarted')] /\ down' \in [Links -> Seq(Unstarted')]
    <3>1. ASSUME NEW q \in Seq(Unstarted), \A i \in DOMAIN q : q[i] # c
          PROVE  q \in Seq(Unstarted \ {c})
      <4>1. Len(q) \in Nat /\ q \in [1..Len(q) -> Unstarted]
        BY LenProperties
      <4>2. q \in [1..Len(q) -> Unstarted \ {c}]
        BY <3>1, <4>1
      <4> QED
        BY <4>1, <4>2, SeqDef
    <3>2. \A m \in Links : /\ queue[m] \in Seq(Unstarted \ {c})
                           /\ down'[m] \in Seq(Unstarted \ {c})
      BY <2>1, <2>4, <2>5, <3>1 DEF Lacks
    <3> QED
      BY <2>1, <2>3, <2>5, <2>6, <3>2
  <2>8. FramesOK'
    <3>1. Distinct(down') /\ Apart(queue, down')
      BY <2>1, <2>5, WithinDistinct, WithinApart
    <3> QED
      BY <2>1, <2>3, <2>7, <3>1 DEF FramesOK, Distinct, Apart
  <2>9. StagesOK' /\ OwedOK' /\ AcksOK'
    BY <2>2, <2>3, <2>6, AcksStay DEF TypeOK, Consistent, StagesOK, OwedOK
  <2> QED
    BY <2>8, <2>9 DEF Consistent
<1>2. ASSUME NEW c \in Commands, Execute(c) PROVE Consistent'
  <2>1. /\ job[c] = "running" /\ outcome[c] = "none" /\ c \in Offered
        /\ outcome'[c] # "none" /\ \A d \in Commands : d # c => outcome'[d] = outcome[d]
        /\ job' = [job EXCEPT ![c] = "executed"]
        /\ UNCHANGED <<status, call, refs, told, queue, down, up, rx, out, pending, inflight>>
    BY <1>2 DEF Execute, TypeOK, Consistent, StagesOK
  <2>2. Offered' = Offered /\ Unstarted' = Unstarted
    BY <2>1 DEF TypeOK, Offered, Unstarted
  <2>3. Faithful \subseteq Faithful'
    BY <2>1 DEF Faithful, Ack
  <2>4. StagesOK' /\ OwedOK' /\ FramesOK'
    BY <2>1, <2>2, FramesSame DEF TypeOK, Consistent, StagesOK, OwedOK
  <2>5. AcksOK'
    BY <2>1, <2>3 DEF Consistent, AcksOK
  <2> QED
    BY <2>4, <2>5 DEF Consistent
<1>3. ASSUME NEW c \in Commands, ReadOnline(c) \/ EnqueueAck(c) PROVE Consistent'
  <2>1. /\ job[c] \in {"executed", "send", "buffer"} /\ outcome[c] # "none" /\ c \in Offered
        /\ job'[c] \in {"send", "buffer", "done"}
        /\ \A d \in Commands : d # c => job'[d] = job[d]
        /\ UNCHANGED <<status, call, refs, told, queue, down, up, rx, inflight, outcome>>
    BY <1>3 DEF ReadOnline, EnqueueAck, TypeOK, Consistent, StagesOK
  <2>2. Offered' = Offered /\ Unstarted' = Unstarted /\ Faithful' = Faithful
    BY <2>1 DEF Offered, Unstarted, Faithful
  <2>3. StagesOK' /\ OwedOK' /\ FramesOK'
    BY <2>1, <2>2, FramesSame DEF Consistent, StagesOK, OwedOK
  <2>4. out' \in Seq(Faithful) /\ pending' \in Seq(Faithful)
    <3>1. out \in Seq(Faithful) /\ pending \in Seq(Faithful)
      BY DEF Consistent, AcksOK
    <3>2. AckOf(c) \in Faithful
      BY <2>1 DEF AckOf, Faithful, Ack, TypeOK
    <3>3. Append(out, AckOf(c)) \in Seq(Faithful)
      BY <3>1, <3>2, Queue
    <3>4. <<AckOf(c)>> \in Seq(Faithful)
      BY <3>2
    <3>5. Buffered(pending, <<AckOf(c)>>) \in Seq(Faithful)
      BY <3>1, <3>4, Buffer
    <3> QED
      BY <1>3, <3>1, <3>3, <3>5 DEF ReadOnline, EnqueueAck
  <2>5. AcksOK'
    BY <2>1, <2>2, <2>4 DEF Consistent, AcksOK
  <2> QED
    BY <2>3, <2>5 DEF Consistent
<1> QED
  BY <1>1, <1>2, <1>3 DEF Job

(* A restart forgets queues, references and jobs, never a row or an outcome.*)
LEMMA RestartsConsistent ==
    ASSUME TypeOK, Consistent, ServerRestart \/ EdgeRestart
    PROVE  Consistent'
<1> USE DEF requestVars, linkVars, edgeVars
<1>1. CASE ServerRestart
  <2>1. /\ UNCHANGED <<status, told, down, job, out, pending, inflight, outcome>>
        /\ queue' = [l \in Links |-> <<>>] /\ up' = [l \in Links |-> <<>>]
        /\ rx' = [l \in Links |-> None] /\ refs' = {}
        /\ \A c \in Commands : call'[c] = call[c] \/ call'[c].pc = "idle"
    BY <1>1 DEF ServerRestart, Idle
  <2>2. Offered \subseteq Offered' /\ Unstarted \subseteq Unstarted' /\ Faithful' = Faithful
    BY <2>1 DEF Offered, Unstarted, Faithful
  <2>3. FramesOK'
    <3>1. /\ queue \in [Links -> Seq(Unstarted)] /\ down \in [Links -> Seq(Unstarted)]
          /\ queue' \in [Links -> Seq(Unstarted)]
      BY <2>1, EmptySeq DEF Consistent, FramesOK
    <3>2. Within(queue', queue) /\ Within(down', down)
      BY <2>1, <3>1, WithinSelf
    <3> QED
      BY <2>1, <2>2, <3>1, <3>2, FramesStay DEF Consistent
  <2>4. StagesOK' /\ OwedOK'
    BY <2>1, <2>2 DEF Consistent, StagesOK, OwedOK
  <2>5. AcksOK'
    BY <2>1, <2>2, EmptySeq DEF Consistent, AcksOK
  <2> QED
    BY <2>3, <2>4, <2>5 DEF Consistent
<1>2. CASE EdgeRestart
  <2>1. /\ UNCHANGED <<status, call, refs, told, queue, down, up, rx, outcome>>
        /\ out' = <<>> /\ pending' = <<>> /\ inflight' = <<>>
        /\ \A c \in Commands : /\ job[c] = "none" => job'[c] = "none"
                               /\ job[c] # "none" => job'[c] = "done"
    BY <1>2 DEF EdgeRestart
  <2>2. Offered' = Offered /\ Unstarted' = Unstarted /\ Faithful' = Faithful
    BY <2>1 DEF Offered, Unstarted, Faithful
  <2>3. StagesOK' /\ OwedOK' /\ FramesOK'
    BY <2>1, <2>2, FramesSame DEF Consistent, StagesOK, OwedOK
  <2>4. AcksOK'
    BY <2>1, <2>2, EmptySeq DEF Consistent, AcksOK
  <2> QED
    BY <2>3, <2>4 DEF Consistent
<1> QED
  BY <1>1, <1>2

(* Every step keeps commands, frames and acknowledgements consistent.       *)
LEMMA ConsistentStep == TypeOK /\ Consistent /\ [Next]_vars => Consistent'
<1> SUFFICES ASSUME TypeOK, Consistent, [Next]_vars PROVE Consistent'
  OBVIOUS
<1>1. CASE UNCHANGED vars
  <2>1. UNCHANGED <<status, call, refs, told, queue, down, up, rx, job, out, pending, inflight,
                    outcome>>
    BY <1>1 DEF vars, requestVars, linkVars, edgeVars
  <2>2. Offered' = Offered /\ Unstarted' = Unstarted
    BY <2>1 DEF Offered, Unstarted
  <2> QED
    BY <2>1, <2>2, FramesSame, AcksStay DEF Consistent, StagesOK, OwedOK
<1>2. CASE \E c \in Commands : \/ Create(c) \/ HandlerStep(c) \/ GiveUp(c)
                               \/ NotifySwept(c) \/ Job(c)
  BY <1>2, RequestsConsistent, OfferConsistent, JobsConsistent DEF HandlerStep
<1>3. CASE \E l \in Links : \/ Connect(l) \/ Break(l) \/ Close(l) \/ Writer(l) \/ ReadLoop(l)
  BY <1>3, LinksConsistent, PumpConsistent, ReadsConsistent DEF Writer, ReadLoop
<1>4. CASE \E S \in SUBSET InFlight : Sweep(S)
  BY <1>4, SweepConsistent
<1>5. CASE EdgeSession
  BY <1>5, SessionConsistent, JobsConsistent DEF EdgeSession
<1>6. CASE ServerRestart \/ EdgeRestart
  BY <1>6, RestartsConsistent
<1> QED
  BY <1>1, <1>2, <1>3, <1>4, <1>5, <1>6 DEF Next

(* Commands, frames, acknowledgements and references stay consistent.       *)
THEOREM CommandsConsistent == Spec => []Consistent
BY TypeInit, TypeStep, ConsistentInit, ConsistentStep, PTL DEF Spec

(* A device does not execute a command twice: a frame still under way is    *)
(* one of a command that was not started.                                   *)
THEOREM ExecutesOnce == Spec => ExecutedOnce
<1>1. ASSUME TypeOK, Consistent, [Next]_vars, NEW c \in Commands, job'[c] = "running"
      PROVE  job[c] \in {"none", "running"}
  <2> USE DEF requestVars, linkVars, edgeVars
  <2>1. CASE Receive
    <3>1. session \in Links /\ down[session] # <<>> /\ down \in [Links -> Seq(Unstarted)]
      BY <1>1, <2>1 DEF Receive, TypeOK, Consistent, FramesOK
    <3>2. Head(down[session]) \in Unstarted
      BY <3>1, Queue
    <3>3. job[Head(down[session])] = "none"
      BY <1>1, <3>2, Meaning
    <3> QED
      BY <1>1, <2>1, <3>3 DEF Receive, TypeOK
  <2>2. CASE EdgeRestart
    BY <1>1, <2>2 DEF EdgeRestart
  <2>8. CASE \E d \in Commands : Job(d)
    <3>1. PICK d \in Commands : Execute(d) \/ ReadOnline(d) \/ EnqueueAck(d)
      BY <2>8 DEF Job
    <3> QED
      BY <1>1, <3>1 DEF Execute, ReadOnline, EnqueueAck, TypeOK
  <2>3. CASE job' = job
    BY <1>1, <2>3
  <2>4. CASE \E d \in Commands : Create(d) \/ HandlerStep(d) \/ GiveUp(d) \/ NotifySwept(d)
    BY <2>3, <2>4 DEF Create, HandlerStep, MarkSent, Refuse, Offer, Delivered, MarkFailed, Erred,
                      GiveUp, NotifySwept
  <2>5. CASE \E l \in Links : Connect(l) \/ Break(l) \/ Close(l) \/ Writer(l) \/ ReadLoop(l)
    BY <2>3, <2>5 DEF Connect, Break, Close, Writer, PumpCommand, PumpStops, ReadLoop, ReadAck,
                      NotifyAck
  <2>6. CASE (\E S \in SUBSET InFlight : Sweep(S)) \/ ServerRestart \/ UNCHANGED vars
    BY <2>3, <2>6 DEF Sweep, ServerRestart, vars
  <2>7. CASE GoOnline \/ Flush \/ PumpAck \/ Confirm \/ EndSession \/ GoOffline
    BY <2>3, <2>7 DEF GoOnline, Flush, PumpAck, Confirm, EndSession, GoOffline
  <2> QED
    BY <1>1, <2>1, <2>2, <2>4, <2>5, <2>6, <2>7, <2>8 DEF Next, EdgeSession
<1>2. TypeOK /\ Consistent /\ [Next]_vars =>
        [\A c \in Commands : job'[c] = "running" => job[c] \in {"none", "running"}]_job
  BY <1>1
<1> QED
  BY <1>2, CommandTypes, CommandsConsistent, PTL DEF Spec, ExecutedOnce

-----------------------------------------------------------------------------
(* The acknowledgement decides *)

(* With failures = 0 in the hypothesis: a step that fails a write leaves    *)
(* nothing to show, and no step takes failures back.                        *)
LEMMA FailuresGrow == TypeOK /\ [Next]_vars /\ failures' = 0 => failures = 0
<1> SUFFICES ASSUME TypeOK, [Next]_vars, failures' = 0 PROVE failures = 0
  OBVIOUS
<1> USE DEF TypeOK
<1>1. failures \in Nat
  OBVIOUS
<1>2. failures' = failures \/ failures' = failures + 1
  BY DEF vars, Next, HandlerStep, Job, ReadLoop, Writer, EdgeSession, Create, MarkSent, Refuse,
         Offer, Delivered, GiveUp, MarkFailed, Erred, NotifySwept, Sweep, Connect, Break, Close,
         PumpCommand, PumpStops, ReadAck, NotifyAck, Receive, Execute, ReadOnline, EnqueueAck,
         GoOnline, GoOffline, Flush, PumpAck, Confirm, EndSession, ServerRestart, EdgeRestart
<1> QED
  BY <1>1, <1>2

(* No step but the failed delivery changes a row whose acknowledgement was  *)
(* read: the mark "sent" came before, and the sweeper and a duplicate find  *)
(* it decided.                                                              *)
LEMMA AckDecidesStep ==
    ASSUME TypeOK, Consistent, AckDecides, [Next]_vars
    PROVE  AckDecides'
<1> SUFFICES ASSUME failures' = 0, NEW d \in settled'
             PROVE  outcome'[d] # "none" /\ status'[d] \in {outcome'[d], "failed"}
  BY DEF AckDecides
<1> USE DEF requestVars, linkVars, edgeVars
<1>1. /\ failures = 0
      /\ \A c \in settled : outcome[c] # "none" /\ status[c] \in {outcome[c], "failed"}
  BY FailuresGrow DEF AckDecides
<1>2. ASSUME d \in settled
      PROVE  /\ d \in Commands /\ d \in Offered /\ outcome[d] \in {"ok", "failed"}
             /\ status[d] \in {"ok", "failed"}
  BY <1>1, <1>2 DEF TypeOK, Consistent, StagesOK
<1>3. CASE UNCHANGED <<status, settled, outcome>>
  BY <1>1, <1>3
<1>4. ASSUME NEW c \in Commands, Create(c) \/ MarkSent(c)
      PROVE  outcome'[d] # "none" /\ status'[d] \in {outcome'[d], "failed"}
  <2>1. settled' = settled /\ outcome' = outcome
    BY <1>4 DEF Create, MarkSent
  <2>2. d # c
    BY <1>2, <1>4, <2>1 DEF Create, MarkSent, Offered
  <2>3. status'[d] = status[d]
    BY <1>2, <1>4, <2>1, <2>2 DEF Create, MarkSent, TypeOK
  <2> QED
    BY <1>1, <2>1, <2>3
<1>5. ASSUME NEW c \in Commands, MarkFailed(c)
      PROVE  outcome'[d] # "none" /\ status'[d] \in {outcome'[d], "failed"}
  <2>1. settled' = settled /\ outcome' = outcome
    BY <1>5 DEF MarkFailed
  <2>2. status'[d] \in {status[d], "failed"}
    BY <1>2, <1>5, <2>1 DEF MarkFailed, TypeOK
  <2> QED
    BY <1>1, <2>1, <2>2
<1>6. ASSUME NEW S \in SUBSET InFlight, Sweep(S)
      PROVE  outcome'[d] # "none" /\ status'[d] \in {outcome'[d], "failed"}
  <2>1. settled' = settled /\ outcome' = outcome /\ d \in Commands
    BY <1>2, <1>6 DEF Sweep
  <2>2. d \notin S
    BY <1>2, <2>1 DEF InFlight
  <2>3. status'[d] = status[d]
    BY <1>6, <2>1, <2>2 DEF Sweep
  <2> QED
    BY <1>1, <2>1, <2>3
<1>7. ASSUME NEW l \in Links, ReadAck(l)
      PROVE  outcome'[d] # "none" /\ status'[d] \in {outcome'[d], "failed"}
  <2> DEFINE a == Head(up[l])
  <2>1. a \in Faithful
    BY <1>7, Queue DEF ReadAck, Consistent, AcksOK
  <2>2. /\ outcome' = outcome /\ settled' = settled \cup {a.id}
        /\ status' = [status EXCEPT ![a.id] = IF a.ok THEN "ok" ELSE "failed"]
    BY <1>1, <1>7 DEF ReadAck
  <2> HIDE DEF a
  <2>3. a.id \in Commands /\ outcome[a.id] = IF a.ok THEN "ok" ELSE "failed"
    BY <2>1 DEF Faithful, Ack
  <2>4. CASE d = a.id
    BY <2>2, <2>3, <2>4 DEF TypeOK
  <2>5. CASE d # a.id
    <3>1. d \in settled /\ status'[d] = status[d]
      BY <2>2, <2>5
    <3> QED
      BY <1>1, <2>2, <3>1
  <2> QED
    BY <2>4, <2>5
<1>8. ASSUME NEW c \in Commands, Execute(c)
      PROVE  outcome'[d] # "none" /\ status'[d] \in {outcome'[d], "failed"}
  <2>1. settled' = settled /\ status' = status /\ outcome[c] = "none"
    BY <1>8 DEF Execute, TypeOK, Consistent, StagesOK
  <2>2. d # c
    BY <1>1, <2>1
  <2>3. outcome'[d] = outcome[d]
    BY <1>8, <2>2 DEF Execute
  <2> QED
    BY <1>1, <2>1, <2>3
<1>9. CASE \E c \in Commands : \/ Create(c) \/ HandlerStep(c) \/ GiveUp(c)
                               \/ NotifySwept(c) \/ Job(c)
  <2>1. PICK c \in Commands : Create(c) \/ HandlerStep(c) \/ GiveUp(c) \/ NotifySwept(c) \/ Job(c)
    BY <1>9
  <2>2. CASE Refuse(c) \/ Offer(c) \/ Delivered(c) \/ Erred(c) \/ GiveUp(c) \/ NotifySwept(c)
    BY <1>3, <2>2 DEF Refuse, Offer, Delivered, Erred, GiveUp, NotifySwept
  <2>3. CASE ReadOnline(c) \/ EnqueueAck(c)
    BY <1>3, <2>3 DEF ReadOnline, EnqueueAck
  <2> QED
    BY <1>4, <1>5, <1>8, <2>1, <2>2, <2>3 DEF HandlerStep, Job
<1>10. CASE \E l \in Links : \/ Connect(l) \/ Break(l) \/ Close(l) \/ Writer(l) \/ ReadLoop(l)
  <2>1. PICK l \in Links : Connect(l) \/ Break(l) \/ Close(l) \/ Writer(l) \/ ReadLoop(l)
    BY <1>10
  <2>2. CASE Connect(l) \/ Break(l) \/ Close(l) \/ Writer(l) \/ NotifyAck(l)
    BY <1>3, <2>2 DEF Connect, Break, Close, Writer, PumpCommand, PumpStops, NotifyAck
  <2> QED
    BY <1>7, <2>1, <2>2 DEF ReadLoop
<1>11. CASE EdgeSession \/ ServerRestart \/ EdgeRestart \/ UNCHANGED vars
  BY <1>3, <1>11 DEF EdgeSession, Receive, GoOnline, Flush, PumpAck, Confirm, EndSession,
                     GoOffline, ServerRestart, EdgeRestart, vars
<1> QED
  BY <1>6, <1>9, <1>10, <1>11 DEF Next

(* Whatever the connections, the sweeper and restarts do, the row of a      *)
(* command says what the device did once the Server has read it, or that    *)
(* the delivery failed.                                                     *)
THEOREM AcknowledgementDecides == Spec => []AckDecides
<1>1. Init => AckDecides
  BY DEF Init, AckDecides
<1>2. TypeOK /\ Consistent /\ AckDecides /\ [Next]_vars => AckDecides'
  BY AckDecidesStep
<1> QED
  BY <1>1, <1>2, CommandTypes, CommandsConsistent, PTL DEF Spec

-----------------------------------------------------------------------------
(* Completed once *)

(* A step that touches neither the references nor what became of them, and  *)
(* asks for nothing new, keeps the account.                                 *)
LEMMA AccountStays ==
    ASSUME CompletedOnce, UNCHANGED <<refs, told, missed>>,
           \A c \in Commands : status'[c] = "none" <=> status[c] = "none"
    PROVE  CompletedOnce'
BY BoundsAssumption DEF CompletedOnce

(* Whoever completes a command takes its reference, and finds none if it is *)
(* taken already; the event is told or refused, never both.                 *)
LEMMA CompletesOne ==
    ASSUME TypeOK, Consistent, CompletedOnce, NEW c \in Commands, NEW st \in Terminal,
           Completed(c, st), UNCHANGED status
    PROVE  CompletedOnce'
<1>1. CASE c \notin refs
  BY <1>1, AccountStays DEF Completed
<1>2. CASE c \in refs
  <2> SUFFICES ASSUME NEW d \in AppCommands
               PROVE  /\ Len(told'[d]) <= 1
                      /\ d \in refs' => told'[d] = <<>> /\ missed'[d] = "no"
                      /\ told'[d] # <<>> => missed'[d] = "no"
                      /\ status'[d] # "none" <=>
                            d \in refs' \/ told'[d] # <<>> \/ missed'[d] # "no"
    BY DEF CompletedOnce
  <2>1. /\ c \in AppCommands /\ d \in Commands /\ told \in [Commands -> Seq(Terminal)]
        /\ missed \in [Commands -> {"no", "refused", "restart"}]
        /\ refs' = refs \ {c}
    BY <1>2, BoundsAssumption DEF TypeOK, Completed
  <2>2. told[c] = <<>> /\ missed[c] = "no" /\ status[c] # "none"
    BY <1>2, <2>1 DEF CompletedOnce
  <2>3. CASE told' = [told EXCEPT ![c] = Append(@, st)] /\ missed' = missed
    <3>1. CASE d = c
      <4>1. told'[d] = Append(<<>>, st)
        BY <2>1, <2>2, <2>3, <3>1
      <4>2. Len(told'[d]) = 1 /\ told'[d] # <<>>
        BY <4>1, EmptySeq, AppendProperties
      <4> QED
        BY <2>1, <2>2, <2>3, <3>1, <4>2
    <3>2. CASE d # c
      BY <2>1, <2>3, <3>2 DEF CompletedOnce
    <3> QED
      BY <3>1, <3>2
  <2>4. CASE missed' = [missed EXCEPT ![c] = "refused"] /\ told' = told
    BY <2>1, <2>2, <2>4 DEF CompletedOnce
  <2> QED
    BY <1>2, <2>3, <2>4 DEF Completed
<1> QED
  BY <1>1, <1>2

(* The handler, the sweeper and the acknowledgement each complete at most   *)
(* what nobody has completed; a request that begins begins the account.     *)
LEMMA CompletedOnceStep ==
    ASSUME TypeOK, Consistent, CompletedOnce, [Next]_vars
    PROVE  CompletedOnce'
<1> USE DEF requestVars, linkVars, edgeVars
<1>2. ASSUME UNCHANGED <<refs, told, missed, status>> PROVE CompletedOnce'
  BY <1>2, AccountStays
<1>3. ASSUME NEW c \in Commands, Create(c) PROVE CompletedOnce'
  <2>1. /\ status[c] = "none" /\ told' = told /\ missed' = missed /\ status'[c] = "pending"
        /\ refs' = refs \cup ({c} \cap AppCommands)
        /\ \A d \in Commands : d # c => status'[d] = status[d]
    BY <1>3 DEF Create, TypeOK
  <2> QED
    BY <2>1, BoundsAssumption DEF CompletedOnce
<1>4. ASSUME NEW c \in Commands, MarkSent(c) \/ MarkFailed(c) PROVE CompletedOnce'
  <2>1. status[c] # "none" /\ UNCHANGED <<refs, told, missed>>
    BY <1>4 DEF MarkSent, MarkFailed, Consistent, StagesOK
  <2>2. \A d \in Commands : status'[d] = "none" <=> status[d] = "none"
    BY <1>4, <2>1 DEF MarkSent, MarkFailed, TypeOK
  <2> QED
    BY <2>1, <2>2, AccountStays
<1>5. ASSUME NEW c \in Commands, Erred(c) \/ NotifySwept(c) PROVE CompletedOnce'
  <2>1. PICK st \in {"failed", "timeout"} : Completed(c, st)
    BY <1>5 DEF Erred, NotifySwept
  <2>2. UNCHANGED status
    BY <1>5 DEF Erred, NotifySwept
  <2> QED
    BY <2>1, <2>2, CompletesOne DEF Terminal
<1>6. ASSUME NEW l \in Links, NotifyAck(l) PROVE CompletedOnce'
  <2>1. rx[l] \in Ack
    BY <1>6 DEF NotifyAck, TypeOK
  <2>2. rx[l].id \in Commands
    BY <2>1 DEF Ack
  <2>3. PICK st \in {"ok", "failed"} : Completed(rx[l].id, st)
    BY <1>6 DEF NotifyAck
  <2>4. UNCHANGED status
    BY <1>6 DEF NotifyAck
  <2> QED
    BY <2>2, <2>3, <2>4, CompletesOne DEF Terminal
<1>7. ASSUME NEW S \in SUBSET InFlight, Sweep(S) PROVE CompletedOnce'
  <2>1. UNCHANGED <<refs, told, missed>>
    BY <1>7 DEF Sweep
  <2>2. \A d \in Commands : status'[d] = "none" <=> status[d] = "none"
    BY <1>7 DEF Sweep, InFlight
  <2> QED
    BY <2>1, <2>2, AccountStays
<1>8. ASSUME NEW l \in Links, ReadAck(l) PROVE CompletedOnce'
  <2>1. Head(up[l]) \in Faithful
    BY <1>8, Queue DEF ReadAck, Consistent, AcksOK
  <2>2. Head(up[l]).id \in Commands /\ status[Head(up[l]).id] # "none"
    BY <2>1, Meaning
  <2>3. UNCHANGED <<refs, told, missed>>
    BY <1>8 DEF ReadAck
  <2>4. \A d \in Commands : status'[d] = "none" <=> status[d] = "none"
    BY <1>8, <2>2 DEF ReadAck, TypeOK
  <2> QED
    BY <2>3, <2>4, AccountStays
<1>9. CASE ServerRestart
  <2>1. /\ UNCHANGED <<told, status>> /\ refs' = {}
        /\ \A c \in Commands : missed'[c] = IF c \in refs THEN "restart" ELSE missed[c]
    BY <1>9 DEF ServerRestart
  <2> QED
    BY <2>1, BoundsAssumption DEF CompletedOnce
<1>10. CASE \E c \in Commands : \/ Create(c) \/ HandlerStep(c) \/ GiveUp(c)
                                \/ NotifySwept(c) \/ Job(c)
  <2>1. PICK c \in Commands : Create(c) \/ HandlerStep(c) \/ GiveUp(c) \/ NotifySwept(c) \/ Job(c)
    BY <1>10
  <2>2. CASE Refuse(c) \/ Offer(c) \/ Delivered(c) \/ GiveUp(c) \/ Job(c)
    BY <1>2, <2>2 DEF Refuse, Offer, Delivered, GiveUp, Job, Execute, ReadOnline, EnqueueAck
  <2> QED
    BY <1>3, <1>4, <1>5, <2>1, <2>2 DEF HandlerStep
<1>11. CASE \E l \in Links : \/ Connect(l) \/ Break(l) \/ Close(l) \/ Writer(l) \/ ReadLoop(l)
  <2>1. PICK l \in Links : Connect(l) \/ Break(l) \/ Close(l) \/ Writer(l) \/ ReadLoop(l)
    BY <1>11
  <2>2. CASE Connect(l) \/ Break(l) \/ Close(l) \/ Writer(l)
    BY <1>2, <2>2 DEF Connect, Break, Close, Writer, PumpCommand, PumpStops
  <2> QED
    BY <1>6, <1>8, <2>1, <2>2 DEF ReadLoop
<1>12. CASE EdgeSession \/ EdgeRestart \/ UNCHANGED vars
  BY <1>2, <1>12 DEF EdgeSession, Receive, GoOnline, Flush, PumpAck, Confirm, EndSession,
                     GoOffline, EdgeRestart, vars
<1> QED
  BY <1>7, <1>9, <1>10, <1>11, <1>12 DEF Next

(* The end of each command of an Application is told once, or never, since  *)
(* its runtime refused the event or the reference was lost with the Server; *)
(* until then somebody holds the reference, whoever races for it.           *)
THEOREM CompletesOnce == Spec => []CompletedOnce
<1>1. Init => CompletedOnce
  BY EmptySeq, BoundsAssumption DEF Init, CompletedOnce
<1>2. TypeOK /\ Consistent /\ CompletedOnce /\ [Next]_vars => CompletedOnce'
  BY CompletedOnceStep
<1> QED
  BY <1>1, <1>2, CommandTypes, CommandsConsistent, PTL DEF Spec

-----------------------------------------------------------------------------
(* No outcome is lost *)

Members(q) == {q[k] : k \in DOMAIN q}

(* Taking from a queue, adding to it, and joining and dividing queues       *)
(* neither loses nor invents an entry.                                      *)
LEMMA MembersAppend ==
    ASSUME NEW S, NEW q \in Seq(S), NEW e \in S
    PROVE  Members(Append(q, e)) = Members(q) \cup {e}
<1> DEFINE r == Append(q, e)
<1>1. /\ Len(q) \in Nat /\ DOMAIN q = 1..Len(q) /\ DOMAIN r = 1..(Len(q) + 1)
      /\ \A i \in 1..Len(q) : r[i] = q[i]
      /\ r[Len(q) + 1] = e
  BY AppendProperties, LenProperties
<1> HIDE DEF r
<1>2. ASSUME NEW x \in Members(r) PROVE x \in Members(q) \cup {e}
  BY <1>1 DEF Members
<1>3. ASSUME NEW x \in Members(q) \cup {e} PROVE x \in Members(r)
  <2>1. CASE x = e
    BY <1>1, <2>1 DEF Members
  <2>2. CASE x \in Members(q)
    BY <1>1, <2>2 DEF Members
  <2> QED
    BY <2>1, <2>2
<1>4. Members(r) = Members(q) \cup {e}
  BY <1>2, <1>3
<1> QED
  BY <1>4 DEF r

LEMMA MembersConcat ==
    ASSUME NEW S, NEW p \in Seq(S), NEW q \in Seq(S)
    PROVE  Members(p \o q) = Members(p) \cup Members(q)
<1> DEFINE r == p \o q
<1>1. /\ Len(p) \in Nat /\ Len(q) \in Nat
      /\ DOMAIN p = 1..Len(p) /\ DOMAIN q = 1..Len(q) /\ DOMAIN r = 1..(Len(p) + Len(q))
      /\ \A i \in 1..(Len(p) + Len(q)) : r[i] = IF i <= Len(p) THEN p[i] ELSE q[i - Len(p)]
  BY ConcatProperties, LenProperties
<1> HIDE DEF r
<1>2. ASSUME NEW x \in Members(r) PROVE x \in Members(p) \cup Members(q)
  <2>1. PICK i \in 1..(Len(p) + Len(q)) : r[i] = x
    BY <1>1 DEF Members
  <2>2. CASE i <= Len(p)
    BY <1>1, <2>1, <2>2 DEF Members
  <2>3. CASE ~(i <= Len(p))
    <3>1. i - Len(p) \in 1..Len(q) /\ q[i - Len(p)] = x
      BY <1>1, <2>1, <2>3
    <3> QED
      BY <1>1, <3>1 DEF Members
  <2> QED
    BY <2>2, <2>3
<1>3. ASSUME NEW x \in Members(p) PROVE x \in Members(r)
  <2>1. PICK i \in 1..Len(p) : p[i] = x
    BY <1>1, <1>3 DEF Members
  <2>2. i \in DOMAIN r /\ r[i] = x
    BY <1>1, <2>1
  <2> QED
    BY <2>2 DEF Members
<1>4. ASSUME NEW x \in Members(q) PROVE x \in Members(r)
  <2>1. PICK i \in 1..Len(q) : q[i] = x
    BY <1>1, <1>4 DEF Members
  <2> DEFINE j == i + Len(p)
  <2>2. j \in 1..(Len(p) + Len(q)) /\ ~(j <= Len(p)) /\ j - Len(p) = i
    BY <1>1
  <2>3. r[j] = q[j - Len(p)]
    BY <1>1, <2>2
  <2>4. j \in DOMAIN r /\ r[j] = x
    BY <1>1, <2>1, <2>2, <2>3
  <2> QED
    BY <2>4 DEF Members
<1>5. Members(r) = Members(p) \cup Members(q)
  BY <1>2, <1>3, <1>4
<1> QED
  BY <1>5 DEF r

LEMMA MembersTail ==
    ASSUME NEW S, NEW q \in Seq(S), q # <<>>
    PROVE  Members(q) = {Head(q)} \cup Members(Tail(q))
<1> DEFINE r == Tail(q)
<1>1. /\ Len(q) \in Nat \ {0} /\ DOMAIN q = 1..Len(q) /\ DOMAIN r = 1..(Len(q) - 1)
      /\ \A i \in 1..(Len(q) - 1) : r[i] = q[i + 1]
      /\ Head(q) = q[1]
  BY HeadTailProperties, LenProperties, EmptySeq
<1> HIDE DEF r
<1>2. ASSUME NEW x \in Members(q) PROVE x \in {q[1]} \cup Members(r)
  <2>1. PICK i \in 1..Len(q) : q[i] = x
    BY <1>1 DEF Members
  <2>2. CASE i = 1
    BY <2>1, <2>2
  <2>3. CASE i # 1
    <3>1. i - 1 \in DOMAIN r /\ r[i - 1] = x
      BY <1>1, <2>1, <2>3
    <3> QED
      BY <3>1 DEF Members
  <2> QED
    BY <2>2, <2>3
<1>3. ASSUME NEW x \in Members(r) PROVE x \in Members(q)
  <2>1. PICK i \in 1..(Len(q) - 1) : r[i] = x
    BY <1>1 DEF Members
  <2>2. i + 1 \in DOMAIN q /\ q[i + 1] = x
    BY <1>1, <2>1
  <2> QED
    BY <2>2 DEF Members
<1>4. q[1] \in Members(q)
  BY <1>1 DEF Members
<1>5. Members(q) = {q[1]} \cup Members(r)
  BY <1>2, <1>3, <1>4
<1> QED
  BY <1>1, <1>5 DEF r

LEMMA MembersSplit ==
    ASSUME NEW S, NEW q \in Seq(S), NEW n \in 0..Len(q)
    PROVE  /\ Members(q) = Members(SubSeq(q, 1, n)) \cup Members(SubSeq(q, n + 1, Len(q)))
           /\ SubSeq(q, 1, n) \in Seq(S) /\ SubSeq(q, n + 1, Len(q)) \in Seq(S)
<1>1. /\ Len(q) \in Nat /\ n \in Nat /\ n <= Len(q)
      /\ DOMAIN q = 1..Len(q)
  BY LenProperties
<1>2. SubSeq(q, 1, n) \in Seq(S) /\ SubSeq(q, n + 1, Len(q)) \in Seq(S)
  BY <1>1, Part
<1> DEFINE f == SubSeq(q, 1, n)
           g == SubSeq(q, n + 1, Len(q))
<1>3. \A i \in 1..Len(q) : q[i] \in S
  BY ElementOfSeq
<1>4. DOMAIN f = 1..n /\ \A i \in 1..n : f[i] = q[i]
  <2>1. Len(f) = n /\ \A i \in 1..n : f[i] = q[i]
    BY <1>1, <1>3, SubSeqProperties
  <2> QED
    BY <1>2, <2>1, LenProperties
<1>5. DOMAIN g = 1..(Len(q) - n) /\ \A i \in 1..(Len(q) - n) : g[i] = q[n + i]
  <2>1. /\ Len(g) = IF n + 1 <= Len(q) THEN Len(q) - (n + 1) + 1 ELSE 0
        /\ \A i \in 1..(Len(q) - (n + 1) + 1) : g[i] = q[(n + 1) + i - 1]
    BY <1>1, <1>3, SubSeqProperties
  <2>2. Len(g) = Len(q) - n
    <3>1. CASE n + 1 <= Len(q)
      BY <1>1, <2>1, <3>1
    <3>2. CASE ~(n + 1 <= Len(q))
      <4> DEFINE m == Len(q)
      <4>1. m \in Nat /\ n \in Nat /\ n <= m /\ ~(n + 1 <= m)
        BY <1>1, <3>2
      <4> HIDE DEF m
      <4>2. m - n = 0
        BY <4>1
      <4>3. Len(q) - n = 0
        BY <4>2 DEF m
      <4> QED
        BY <2>1, <3>2, <4>3
    <3> QED
      BY <3>1, <3>2
  <2>3. ASSUME NEW i \in 1..(Len(q) - n) PROVE g[i] = q[n + i]
    <3>1. i \in 1..(Len(q) - (n + 1) + 1) /\ (n + 1) + i - 1 = n + i
      BY <1>1
    <3> QED
      BY <2>1, <3>1
  <2> QED
    BY <1>2, <2>2, <2>3, LenProperties
<1> HIDE DEF f, g
<1>6. ASSUME NEW x \in Members(q) PROVE x \in Members(f) \cup Members(g)
  <2>1. PICK i \in 1..Len(q) : q[i] = x
    BY <1>1, <1>6 DEF Members
  <2>2. CASE i <= n
    BY <1>1, <1>4, <2>1, <2>2 DEF Members
  <2>3. CASE ~(i <= n)
    <3>1. i - n \in 1..(Len(q) - n) /\ n + (i - n) = i
      BY <1>1, <2>3
    <3>2. i - n \in DOMAIN g /\ g[i - n] = x
      BY <1>5, <2>1, <3>1
    <3> QED
      BY <3>2 DEF Members
  <2> QED
    BY <2>2, <2>3
<1>7. ASSUME NEW x \in Members(f) PROVE x \in Members(q)
  <2>1. PICK i \in 1..n : f[i] = x
    BY <1>4, <1>7 DEF Members
  <2>2. i \in DOMAIN q /\ q[i] = x
    BY <1>1, <1>4, <2>1
  <2> QED
    BY <2>2 DEF Members
<1>8. ASSUME NEW x \in Members(g) PROVE x \in Members(q)
  <2>1. PICK i \in 1..(Len(q) - n) : g[i] = x
    BY <1>5, <1>8 DEF Members
  <2>2. n + i \in DOMAIN q /\ q[n + i] = x
    BY <1>1, <1>5, <2>1
  <2> QED
    BY <2>2 DEF Members
<1>9. Members(q) = Members(f) \cup Members(g)
  BY <1>6, <1>7, <1>8
<1> QED
  BY <1>2, <1>9 DEF f, g

(* What the Edge holds; nothing else matters to the promise.                *)
HeldAcks == Members(out) \cup Members(pending) \cup Members(inflight)

LEMMA HeldMeans == \A c \in Commands : Held(c) <=> \E a \in HeldAcks : a.id = c
BY DEF Held, HeldAcks, Members

(* As long as the buffer never overflowed, what is put in it stays in it.   *)
LEMMA BufferKeeps ==
    ASSUME TypeOK, NEW b \in Seq(Ack), NEW q \in Seq(Ack),
           dropped' = dropped + Overflow(b, q), dropped' = 0
    PROVE  dropped = 0 /\ Members(Buffered(b, q)) = Members(b) \cup Members(q)
<1>1. /\ dropped \in Nat /\ BufferCap \in Nat
      /\ Len(b) \in Nat /\ Len(q) \in Nat /\ Len(b \o q) = Len(b) + Len(q)
  BY ConcatProperties, LenProperties, BoundsAssumption DEF TypeOK
<1>2. Len(b) + Len(q) <= BufferCap /\ dropped = 0
  BY <1>1 DEF Overflow
<1>3. Buffered(b, q) = b \o q
  BY <1>1, <1>2 DEF Buffered
<1> QED
  BY <1>2, <1>3, MembersConcat

(* Whoever reads an acknowledgement notes it, and nobody forgets.           *)
LEMMA SettledGrows == TypeOK /\ [Next]_vars => settled \subseteq settled'
<1> USE DEF requestVars, linkVars, edgeVars
<1> QED
  BY DEF vars, Next, HandlerStep, Job, ReadLoop, Writer, EdgeSession, Create, MarkSent, Refuse,
         Offer, Delivered, GiveUp, MarkFailed, Erred, NotifySwept, Sweep, Connect, Break, Close,
         PumpCommand, PumpStops, ReadAck, NotifyAck, Receive, Execute, ReadOnline, EnqueueAck,
         GoOnline, GoOffline, Flush, PumpAck, Confirm, EndSession, ServerRestart, EdgeRestart

(* An acknowledgement in doubt stays on its way until it is read or the     *)
(* connection is gone; a new session begins with nothing in doubt.          *)
LEMMA DoubtStep ==
    ASSUME TypeOK, DoubtOK, [Next]_vars
    PROVE  DoubtOK'
<1> USE DEF requestVars, linkVars, edgeVars
<1> DEFINE Accounted(a) == a.id \in settled \/ ~Alive(session) \/ OnItsWay(a)
<1>1. /\ phase = "up" => session \in Links
      /\ up \in [Links -> Seq(Ack)] /\ inflight \in Seq(Ack) /\ out \in Seq(Ack)
      /\ inflight # <<>> => phase = "up"
      /\ \A a \in Members(inflight) : Accounted(a)
  BY DEF TypeOK, DoubtOK, Members
<1>2. SUFFICES /\ inflight' # <<>> => phase' = "up"
               /\ \A a \in Members(inflight') : Accounted(a)'
  <2>1. \A k \in DOMAIN inflight' : inflight'[k] \in Members(inflight')
    BY DEF Members
  <2> QED
    BY <1>2, <2>1 DEF DoubtOK
<1>3. settled \subseteq settled'
  BY SettledGrows
<1>4. CASE UNCHANGED <<session, phase, inflight, open, cut, up>>
  BY <1>1, <1>3, <1>4 DEF Alive, OnItsWay
<1>5. ASSUME inflight' = <<>>
      PROVE  /\ inflight' # <<>> => phase' = "up"
             /\ \A a \in Members(inflight') : Accounted(a)'
  BY <1>5, EmptySeq DEF Members
<1>6. CASE phase = "off" \/ phase = "dialed" \/ phase = "online" \/ phase = "ended"
  <2>1. inflight = <<>>
    BY <1>1, <1>6
  <2>2. inflight' = <<>>
    BY <1>6, <2>1 DEF vars, Next, HandlerStep, Job, ReadLoop, Writer, EdgeSession, Create, MarkSent, Refuse,
         Offer, Delivered, GiveUp, MarkFailed, Erred, NotifySwept, Sweep, Connect, Break, Close,
         PumpCommand, PumpStops, ReadAck, NotifyAck, Receive, Execute, ReadOnline, EnqueueAck,
         GoOnline, GoOffline, Flush, PumpAck, Confirm, EndSession, ServerRestart, EdgeRestart
  <2> QED
    BY <1>5, <2>2
<1>7. ASSUME NEW l \in Links, Break(l) \/ Close(l)
      PROVE  /\ inflight' # <<>> => phase' = "up"
             /\ \A a \in Members(inflight') : Accounted(a)'
  <2>1. UNCHANGED <<session, phase, inflight, settled>>
    BY <1>7 DEF Break, Close
  <2>2. CASE session = l
    <3>1. ~Alive(session)'
      BY <1>7, <2>1, <2>2 DEF Break, Close, Alive
    <3> QED
      BY <1>1, <2>1, <3>1
  <2>3. CASE session # l /\ session \in Links
    <3>1. up'[session] = up[session] /\ (Alive(session)' => Alive(session))
      BY <1>1, <1>7, <2>1, <2>3 DEF Break, Close, Alive
    <3> QED
      BY <1>1, <2>1, <3>1 DEF OnItsWay
  <2>4. CASE session \notin Links
    BY <1>1, <1>5, <2>1, <2>4
  <2> QED
    BY <2>2, <2>3, <2>4
<1>8. ASSUME NEW l \in Links, ReadAck(l)
      PROVE  /\ inflight' # <<>> => phase' = "up"
             /\ \A a \in Members(inflight') : Accounted(a)'
  <2>1. UNCHANGED <<session, phase, inflight, open, cut>>
    BY <1>8 DEF ReadAck
  <2>2. CASE session # l
    <3>1. up'[session] = up[session] \/ inflight = <<>>
      BY <1>1, <1>8, <2>2 DEF ReadAck
    <3> QED
      BY <1>1, <1>3, <1>5, <2>1, <3>1 DEF OnItsWay, Alive
  <2>3. CASE session = l
    <3>1. /\ settled' = settled \cup {Head(up[l]).id}
          /\ up'[l] = Tail(up[l]) /\ up[l] # <<>> /\ up[l] \in Seq(Ack)
      BY <1>1, <1>8 DEF ReadAck
    <3>2. Members(up[l]) = {Head(up[l])} \cup Members(up'[l])
      BY <3>1, MembersTail
    <3>3. ASSUME NEW a \in Members(inflight) PROVE Accounted(a)'
      <4>1. CASE a.id \in settled \/ ~Alive(session)
        BY <1>3, <2>1, <4>1 DEF Alive
      <4>2. CASE OnItsWay(a)
        <5>1. a \in Members(up[l])
          BY <2>3, <4>2 DEF OnItsWay, Members
        <5>2. CASE a = Head(up[l])
          BY <3>1, <5>2
        <5>3. CASE a \in Members(up'[l])
          BY <2>1, <2>3, <5>3 DEF OnItsWay, Members
        <5> QED
          BY <3>2, <5>1, <5>2, <5>3
      <4> QED
        BY <1>1, <4>1, <4>2
    <3> QED
      BY <1>1, <2>1, <3>3
  <2> QED
    BY <2>2, <2>3
<1>9. ASSUME PumpAck
      PROVE  /\ inflight' # <<>> => phase' = "up"
             /\ \A a \in Members(inflight') : Accounted(a)'
  <2>1. /\ phase' = "up" /\ session \in Links /\ Head(out) \in Ack
        /\ UNCHANGED <<session, settled, open, cut>>
        /\ inflight' = Append(inflight, Head(out))
        /\ up' = IF Alive(session) THEN [up EXCEPT ![session] = Append(@, Head(out))] ELSE up
    BY <1>1, <1>9, Queue DEF PumpAck
  <2>2. Members(inflight') = Members(inflight) \cup {Head(out)}
    BY <1>1, <2>1, MembersAppend
  <2>3. CASE ~Alive(session)
    BY <2>1, <2>3 DEF Alive
  <2>4. CASE Alive(session)
    <3>1. up'[session] = Append(up[session], Head(out)) /\ up[session] \in Seq(Ack)
      BY <1>1, <2>1, <2>4
    <3>2. Members(up'[session]) = Members(up[session]) \cup {Head(out)}
      BY <2>1, <3>1, MembersAppend
    <3>3. \A a \in Members(inflight') : a.id \in settled \/ a \in Members(up'[session])
      BY <1>1, <2>2, <2>4, <3>2 DEF OnItsWay, Members
    <3> QED
      BY <2>1, <3>3 DEF OnItsWay, Members
  <2> QED
    BY <2>3, <2>4
<1>10. ASSUME Confirm
       PROVE  /\ inflight' # <<>> => phase' = "up"
              /\ \A a \in Members(inflight') : Accounted(a)'
  <2>1. phase' = "up" /\ UNCHANGED <<session, settled, open, cut, up>> /\ inflight # <<>>
        /\ inflight' = Tail(inflight)
    BY <1>10 DEF Confirm
  <2>2. Members(inflight') \subseteq Members(inflight)
    BY <1>1, <2>1, MembersTail
  <2> QED
    BY <1>1, <2>1, <2>2 DEF OnItsWay, Alive
<1>11. CASE EndSession \/ EdgeRestart
  BY <1>5, <1>11 DEF EndSession, EdgeRestart
<1>12. CASE ServerRestart
  BY <1>1, <1>12 DEF ServerRestart, Alive
<1>13. CASE \E c \in Commands : \/ Create(c) \/ HandlerStep(c) \/ GiveUp(c)
                                \/ NotifySwept(c) \/ Job(c)
  BY <1>4, <1>13 DEF HandlerStep, Job, Create, MarkSent, Refuse, Offer, Delivered, GiveUp,
                     MarkFailed, Erred, NotifySwept, Execute, ReadOnline, EnqueueAck
<1>14. CASE \E l \in Links : \/ Connect(l) \/ Break(l) \/ Close(l) \/ Writer(l) \/ ReadLoop(l)
  <2>1. PICK l \in Links : Connect(l) \/ Break(l) \/ Close(l) \/ Writer(l) \/ ReadLoop(l)
    BY <1>14
  <2>2. CASE Connect(l)
    BY <1>6, <2>2 DEF Connect
  <2>3. CASE Writer(l) \/ NotifyAck(l)
    BY <1>4, <2>3 DEF Writer, PumpCommand, PumpStops, NotifyAck
  <2> QED
    BY <1>7, <1>8, <2>1, <2>2, <2>3 DEF ReadLoop
<1>15. CASE (\E S \in SUBSET InFlight : Sweep(S)) \/ UNCHANGED vars \/ Receive
  BY <1>4, <1>15 DEF Sweep, vars, Receive
<1>16. CASE GoOnline \/ Flush \/ GoOffline
  BY <1>6, <1>16 DEF GoOnline, Flush, GoOffline
<1> QED
  BY <1>9, <1>10, <1>11, <1>12, <1>13, <1>14, <1>15, <1>16 DEF Next, EdgeSession

(* A result enters the queue or the buffer, moves from one to the other and *)
(* to the doubt window, and leaves it only after the Server read it.        *)
LEMMA OutcomeStep ==
    ASSUME TypeOK, DoubtOK, OutcomeNotLost, [Next]_vars
    PROVE  OutcomeNotLost'
<1> USE DEF requestVars, linkVars, edgeVars
<1> SUFFICES ASSUME Prompt, dropped' = 0, crashes' = 0, NEW c \in Commands, job'[c] = "done"
             PROVE  c \in settled' \/ Held(c)'
  BY DEF OutcomeNotLost
<1>1. /\ out \in Seq(Ack) /\ pending \in Seq(Ack) /\ inflight \in Seq(Ack)
      /\ dropped \in Nat /\ crashes \in Nat /\ DOMAIN job = Commands
      /\ \A d \in Commands : AckOf(d) \in Ack /\ AckOf(d).id = d
  BY DEF TypeOK, AckOf, Ack
<1>2. settled \subseteq settled'
  BY SettledGrows
<1>3. ASSUME NEW a \in HeldAcks', a.id = c PROVE c \in settled' \/ Held(c)'
  BY <1>3 DEF Held, HeldAcks, Members
<1>4. ASSUME dropped = 0, crashes = 0, job[c] = "done", c \notin settled
      PROVE  \E a \in HeldAcks : a.id = c
  BY <1>4, HeldMeans DEF OutcomeNotLost
<1>5. ASSUME dropped = 0, crashes = 0, job[c] = "done", HeldAcks \subseteq HeldAcks'
      PROVE  c \in settled' \/ Held(c)'
  BY <1>2, <1>3, <1>4, <1>5
<1>6. CASE UNCHANGED <<job, out, pending, inflight, dropped, crashes>>
  BY <1>5, <1>6 DEF HeldAcks
<1>7. ASSUME NEW d \in Commands, Job(d) PROVE c \in settled' \/ Held(c)'
  <2>1. CASE Execute(d) \/ ReadOnline(d)
    <3>1. job[c] = "done"
      BY <1>1, <2>1 DEF Execute, ReadOnline
    <3> QED
      BY <1>5, <2>1, <3>1 DEF Execute, ReadOnline, HeldAcks
  <2>2. CASE EnqueueAck(d)
    <3>1. /\ crashes = 0 /\ (c # d => job[c] = "done")
          /\ inflight' = inflight
      BY <1>1, <2>2 DEF EnqueueAck
    <3>2. dropped = 0 /\ HeldAcks' = HeldAcks \cup {AckOf(d)}
      <4>1. CASE job[d] = "send" /\ Len(out) < SendCap
        <5>1. out' = Append(out, AckOf(d)) /\ UNCHANGED <<pending, dropped>>
          BY <2>2, <4>1 DEF EnqueueAck
        <5>2. Members(out') = Members(out) \cup {AckOf(d)}
          BY <1>1, <5>1, MembersAppend
        <5> QED
          BY <3>1, <5>1, <5>2 DEF HeldAcks
      <4>2. CASE ~(job[d] = "send" /\ Len(out) < SendCap)
        <5> DEFINE q == <<AckOf(d)>>
        <5>1. /\ pending' = Buffered(pending, q) /\ out' = out
              /\ dropped' = dropped + Overflow(pending, q)
          BY <2>2, <4>2 DEF EnqueueAck
        <5>2. q \in Seq(Ack) /\ Members(q) = {AckOf(d)}
          BY <1>1 DEF Members
        <5> HIDE DEF q
        <5>3. dropped = 0 /\ Members(pending') = Members(pending) \cup Members(q)
          BY <1>1, <5>1, <5>2, BufferKeeps
        <5> QED
          BY <3>1, <5>1, <5>2, <5>3 DEF HeldAcks
      <4> QED
        BY <4>1, <4>2
    <3>3. CASE c = d
      BY <1>1, <1>3, <3>2, <3>3
    <3>4. CASE c # d
      <4>1. HeldAcks \subseteq HeldAcks' /\ dropped = 0 /\ crashes = 0 /\ job[c] = "done"
        BY <3>1, <3>2, <3>4
      <4> QED
        BY <1>5, <4>1
    <3> QED
      BY <3>3, <3>4
  <2> QED
    BY <1>7, <2>1, <2>2 DEF Job
<1>8. CASE Receive
  <2>1. job[c] = "done"
    BY <1>1, <1>8 DEF Receive
  <2> QED
    BY <1>5, <1>8, <2>1 DEF Receive, HeldAcks
<1>9. CASE Flush
  <2>1. /\ UNCHANGED <<job, inflight, dropped, crashes>>
        /\ out' = out \o SubSeq(pending, 1, Fits)
        /\ pending' = SubSeq(pending, Fits + 1, Len(pending))
    BY <1>9 DEF Flush, Rest
  <2>2. Fits \in 0..Len(pending)
    <3>1. Len(out) \in Nat /\ Len(pending) \in Nat /\ SendCap \in Nat /\ Len(out) <= SendCap
      BY LenProperties, BoundsAssumption DEF TypeOK
    <3> QED
      BY <3>1 DEF Fits
  <2>3. /\ Members(pending) = Members(SubSeq(pending, 1, Fits)) \cup Members(pending')
        /\ SubSeq(pending, 1, Fits) \in Seq(Ack)
    BY <1>1, <2>1, <2>2, MembersSplit
  <2>4. Members(out') = Members(out) \cup Members(SubSeq(pending, 1, Fits))
    <3> DEFINE f == SubSeq(pending, 1, Fits)
    <3>1. f \in Seq(Ack) /\ out' = out \o f
      BY <2>1, <2>3
    <3> HIDE DEF f
    <3>2. Members(out') = Members(out) \cup Members(f)
      BY <1>1, <3>1, MembersConcat
    <3> QED
      BY <3>2 DEF f
  <2>5. HeldAcks \subseteq HeldAcks'
    BY <2>1, <2>3, <2>4 DEF HeldAcks
  <2> QED
    BY <1>5, <2>1, <2>5
<1>10. CASE PumpAck
  <2>1. /\ UNCHANGED <<job, pending, dropped, crashes>>
        /\ out # <<>> /\ out' = Tail(out) /\ inflight' = Append(inflight, Head(out))
        /\ Head(out) \in Ack
    BY <1>1, <1>10, Queue DEF PumpAck
  <2>2. /\ Members(out) = {Head(out)} \cup Members(out')
        /\ Members(inflight') = Members(inflight) \cup {Head(out)}
    BY <1>1, <2>1, MembersTail, MembersAppend
  <2>3. HeldAcks \subseteq HeldAcks'
    BY <2>1, <2>2 DEF HeldAcks
  <2> QED
    BY <1>5, <2>1, <2>3
<1>11. CASE Confirm
  <2>1. /\ UNCHANGED <<job, out, pending, dropped, crashes, settled, up, session>>
        /\ inflight # <<>> /\ inflight' = Tail(inflight) /\ Alive(session)
        /\ ~OnItsWay(Head(inflight))
    BY <1>11 DEF Confirm, OnItsWay
  <2>2. Members(inflight) = {Head(inflight)} \cup Members(inflight')
    BY <1>1, <2>1, MembersTail
  <2>3. Head(inflight).id \in settled
    <3>1. \A a \in Members(inflight) : a.id \in settled \/ ~Alive(session) \/ OnItsWay(a)
      BY DEF DoubtOK, Members
    <3> QED
      BY <2>1, <2>2, <3>1
  <2>4. CASE c \notin settled
    <3>1. PICK a \in HeldAcks : a.id = c
      BY <1>4, <2>1, <2>4
    <3>2. a \in HeldAcks'
      BY <2>1, <2>2, <2>3, <2>4, <3>1 DEF HeldAcks
    <3> QED
      BY <1>3, <3>1, <3>2
  <2> QED
    BY <1>2, <2>4
<1>12. CASE EndSession
  <2>1. PICK n \in 0..(IF out = <<>> THEN 0 ELSE 1) :
          /\ out' = SubSeq(out, n + 1, Len(out))
          /\ pending' = Buffered(pending, SubSeq(out, 1, n) \o inflight)
          /\ dropped' = dropped + Overflow(pending, SubSeq(out, 1, n) \o inflight)
    BY <1>12 DEF EndSession, Doubtful
  <2>2. n \in 0..Len(out)
    <3>1. Len(out) \in Nat /\ (out # <<>> => Len(out) # 0)
      BY <1>1, LenProperties, EmptySeq
    <3> QED
      BY <3>1
  <2>3. /\ SubSeq(out, 1, n) \in Seq(Ack)
        /\ Members(out) = Members(SubSeq(out, 1, n)) \cup Members(out')
    BY <1>1, <2>1, <2>2, MembersSplit
  <2>4. /\ SubSeq(out, 1, n) \o inflight \in Seq(Ack)
        /\ Members(SubSeq(out, 1, n) \o inflight)
              = Members(SubSeq(out, 1, n)) \cup Members(inflight)
    <3> DEFINE f == SubSeq(out, 1, n)
    <3>1. f \in Seq(Ack)
      BY <2>3
    <3> HIDE DEF f
    <3>2. f \o inflight \in Seq(Ack) /\ Members(f \o inflight) = Members(f) \cup Members(inflight)
      BY <1>1, <3>1, MembersConcat, ConcatProperties
    <3> QED
      BY <3>2 DEF f
  <2>5. /\ dropped = 0
        /\ Members(pending')
              = Members(pending) \cup Members(SubSeq(out, 1, n) \o inflight)
    BY <1>1, <2>1, <2>4, BufferKeeps
  <2>6. HeldAcks \subseteq HeldAcks'
    BY <2>3, <2>4, <2>5 DEF HeldAcks
  <2>7. UNCHANGED <<job, crashes>>
    BY <1>12 DEF EndSession
  <2> QED
    BY <1>5, <2>5, <2>6, <2>7
<1>13. CASE ServerRestart \/ EdgeRestart
  BY <1>1, <1>13 DEF ServerRestart, EdgeRestart
<1>14. CASE \E d \in Commands : \/ Create(d) \/ HandlerStep(d) \/ GiveUp(d) \/ NotifySwept(d)
  BY <1>6, <1>14 DEF HandlerStep, Create, MarkSent, Refuse, Offer, Delivered, GiveUp,
                     MarkFailed, Erred, NotifySwept
<1>15. CASE \E l \in Links : \/ Connect(l) \/ Break(l) \/ Close(l) \/ Writer(l) \/ ReadLoop(l)
  BY <1>6, <1>15 DEF Connect, Break, Close, Writer, PumpCommand, PumpStops, ReadLoop, ReadAck,
                     NotifyAck
<1>16. CASE (\E S \in SUBSET InFlight : Sweep(S)) \/ UNCHANGED vars \/ GoOnline \/ GoOffline
  BY <1>6, <1>16 DEF Sweep, vars, GoOnline, GoOffline
<1> QED
  BY <1>7, <1>8, <1>9, <1>10, <1>11, <1>12, <1>13, <1>14, <1>15, <1>16 DEF Next, EdgeSession

(* The promise of ackDoubtWindow: a result that entered wsClient was read   *)
(* by the Server or is held by the Edge, whatever the connections do.       *)
THEOREM OutcomesKept == Spec => []OutcomeNotLost
<1>1. Init => DoubtOK /\ OutcomeNotLost
  BY DEF Init, DoubtOK, OutcomeNotLost
<1>2. TypeOK /\ DoubtOK /\ OutcomeNotLost /\ [Next]_vars => (DoubtOK /\ OutcomeNotLost)'
  BY DoubtStep, OutcomeStep
<1>3. Spec => [](DoubtOK /\ OutcomeNotLost)
  BY <1>1, <1>2, CommandTypes, PTL DEF Spec
<1> QED
  BY <1>3, PTL
===========================================================================
