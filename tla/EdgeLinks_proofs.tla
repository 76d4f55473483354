------------------------- MODULE EdgeLinks_proofs -------------------------
(***************************************************************************)
(* Theorems about EdgeLinks, for every finite set of edges and devices,    *)
(* every set of links, tenants and browsers, and every bound.              *)
(***************************************************************************)
EXTENDS EdgeLinks, FiniteSetTheorems, SequenceTheorems, TLAPS

-----------------------------------------------------------------------------
(* Finite sets and sequences *)

(* The image of a finite set under a function is finite.                    *)
LEMMA ImageFinite ==
    ASSUME NEW S, IsFiniteSet(S), NEW f, DOMAIN f = S
    PROVE  IsFiniteSet({f[x] : x \in S})
<1> DEFINE T == {f[x] : x \in S}
<1> DEFINE g == [x \in S |-> f[x]]
<1>1. g \in Surjection(S, T)
  BY DEF Surjection
<1> QED
  BY <1>1, FS_Surjection

(* A finite set, as a sequence, is a sequence of its elements.              *)
LEMMA SetToSeqElements ==
    ASSUME NEW S, IsFiniteSet(S)
    PROVE  SetToSeq(S) \in Seq(S)
<1> DEFINE n == Cardinality(S)
<1>1. n \in Nat /\ ExistsBijection(1..n, S)
  BY FS_CardinalityType
<1>2. PICK f \in [1..n -> S] : IsInjective(f)
  BY <1>1 DEF ExistsBijection, Bijection, Injection, IsInjective
<1>3. SetToSeq(S) \in [1..n -> S]
  BY <1>2 DEF SetToSeq
<1> QED
  BY <1>1, <1>3

(* What a full queue keeps are frames of the old queue or new ones.         *)
LEMMA PutElements ==
    ASSUME NEW S, NEW q \in Seq(S), NEW frames \in Seq(S)
    PROVE  Put(q, frames) \in Seq(S)
<1>1. q \o frames \in Seq(S)
  BY ConcatProperties
<1>2. CASE Len(q \o frames) <= QueueSize
  BY <1>1, <1>2 DEF Put
<1>3. CASE ~(Len(q \o frames) <= QueueSize)
  <2>1. QueueSize \in Nat /\ QueueSize \in Int /\ 1 \in Int /\ Len(q \o frames) \in Nat
    BY <1>1, LinkAssumption
  <2>2. \A i \in 1..QueueSize : (q \o frames)[i] \in S
    BY <1>1, <1>3, <2>1, ElementOfSeq
  <2>3. SubSeq(q \o frames, 1, QueueSize) \in Seq(S)
    BY <2>1, <2>2, SubSeqProperties, Zenon
  <2> QED
    BY <1>3, <2>3 DEF Put
<1> QED
  BY <1>2, <1>3

-----------------------------------------------------------------------------
(* The shape of the state *)

Linked == {"registered", "reading", "message", "applied", "tell up", "tell state", "leaving"}
Active == Linked \cup {"removed", "marked", "tell down"}

Row == [tenant : Tenants, online : BOOLEAN]

TypeOK ==
    /\ DOMAIN edges = Edges /\ DOMAIN view = Keys /\ DOMAIN row = Keys
    /\ DOMAIN devTenant = Keys /\ DOMAIN edgeTenant = Edges
    /\ DOMAIN slug = Conns /\ DOMAIN pc = Conns /\ DOMAIN message = Conns /\ DOMAIN pend = Conns
    /\ DOMAIN conn = Browsers /\ DOMAIN queue = Browsers /\ DOMAIN snap = Browsers
    /\ \A k \in Keys : row[k] # None => row[k] \in Row
    /\ \A k \in Keys : devTenant[k] \in Tenants \cup {None}
    /\ \A c \in Conns : slug[c] \in Tenants /\ (pc[c] = "new" => slug[c] = TenantOf(c))
    /\ \A c \in Conns : \A p \in pend[c] : p.key \in KeysOf(c) \cup {Blank} /\ p.online \in BOOLEAN
    /\ \A c \in Conns : message[c] # None /\ message[c].type = "state" =>
          message[c].device \in DevicesOf[c] \cup {None} /\ message[c].online \in BOOLEAN

(* The keys of a link are pairs of its edge and a device of its hello.      *)
LEMMA KeysOfLink ==
    ASSUME NEW c \in Conns
    PROVE  /\ KeysOf(c) \subseteq Keys
           /\ EdgeOf[c] \in Edges
           /\ \A k \in KeysOf(c) : k[1] = EdgeOf[c]
           /\ \A d \in DevicesOf[c] : <<EdgeOf[c], d>> \in KeysOf(c)
           /\ IsFiniteSet(KeysOf(c))
<1>1. EdgeOf[c] \in Edges /\ DevicesOf[c] \subseteq Devices
  BY LinkAssumption
<1> DEFINE f == [d \in DevicesOf[c] |-> <<EdgeOf[c], d>>]
<1>2. IsFiniteSet(DevicesOf[c])
  BY <1>1, LinkAssumption, FS_Subset
<1>3. IsFiniteSet({f[d] : d \in DevicesOf[c]})
  BY <1>2, ImageFinite
<1>4. KeysOf(c) = {f[d] : d \in DevicesOf[c]}
  BY DEF KeysOf
<1>5. IsFiniteSet(KeysOf(c))
  BY <1>3, <1>4
<1> HIDE DEF f
<1> QED
  BY <1>1, <1>5 DEF KeysOf, Keys

(* The changes of one link are about keys of this link.                     *)
LEMMA ChangesTyped ==
    ASSUME NEW c \in Conns, NEW T \in SUBSET KeysOf(c), NEW o \in BOOLEAN,
           NEW p \in {[key |-> k, online |-> o] : k \in T}
    PROVE  p.key \in T /\ p.key \in Keys /\ p.online \in BOOLEAN
<1>1. PICK k \in T : p = [key |-> k, online |-> o]
  OBVIOUS
<1> QED
  BY <1>1, KeysOfLink

(* The tenant of a link is one of the tenants.                              *)
LEMMA TenantOfLink ==
    ASSUME NEW c \in Conns
    PROVE  TenantOf(c) \in Tenants /\ TenantOf(c) # None /\ TenantOf(c) # All
BY LinkAssumption DEF TenantOf

(* Whatever a hello is called by is the name of a tenant.                   *)
LEMMA CalledOfLink ==
    ASSUME NEW c \in Conns
    PROVE  CalledSlugs(c) \subseteq Tenants
BY LinkAssumption, TenantOfLink DEF CalledSlugs

LEMMA TypeInit == Init => TypeOK
BY TenantOfLink DEF Init, TypeOK

(* Every step keeps the shape. *)
LEMMA TypeStep ==
    ASSUME TypeOK, [Next]_vars
    PROVE  TypeOK'
<1> USE DEF TypeOK, linkVars, browserVars, boundVars, Row
<1>1. CASE Restart
  BY <1>1, LinkAssumption, TenantOfLink DEF Restart
<1>2. ASSUME NEW c \in Conns, Link(c)
      PROVE  TypeOK'
  <2>1. CASE Hello(c)
    <3>1. PICK called \in CalledSlugs(c) :
            \/ Goes(c, "new", "checked") /\ slug' = [slug EXCEPT ![c] = called]
            \/ Goes(c, "new", "closed") /\ slug' = slug
      BY <2>1 DEF Hello
    <3>2. called \in Tenants
      BY CalledOfLink
    <3>3. \A x \in Conns : slug'[x] \in Tenants /\ (pc'[x] = "new" => slug'[x] = TenantOf(x))
      BY <3>1, <3>2 DEF Goes
    <3>4. DOMAIN slug' = Conns /\ DOMAIN pc' = Conns
      BY <3>1 DEF Goes
    <3> QED
      BY <2>1, <3>3, <3>4 DEF Hello
  <2>2. CASE Persist(c)
    BY <2>2, KeysOfLink, TenantOfLink DEF Persist, Goes, BoundElsewhere
  <2>3. CASE RegisterRefused(c)
    BY <2>3, KeysOfLink, TenantOfLink DEF RegisterRefused, Goes
  <2>4. CASE Register(c)
    <3>1. pend'[c] = {[key |-> k, online |-> TRUE] : k \in {j \in KeysOf(c) : view[j] # TRUE}}
      BY <2>4 DEF Register
    <3>2. \A p \in pend'[c] : p.key \in KeysOf(c) /\ p.online \in BOOLEAN
      BY <3>1, ChangesTyped
    <3> QED
      BY <2>4, <3>2 DEF Register, Goes
  <2>5. CASE Read(c)
    BY <2>5, KeysOfLink, TenantOfLink DEF Read, Goes
  <2>6. CASE ApplyState(c)
    BY <2>6, KeysOfLink, TenantOfLink DEF ApplyState, Goes
  <2>7. CASE ApplyCapabilities(c)
    BY <2>7, KeysOfLink, TenantOfLink DEF ApplyCapabilities, Goes
  <2>8. CASE Flush(c)
    <3>1. ASSUME NEW k \in Keys, row'[k] # None
          PROVE  row'[k] \in Row
      <4>1. row[k] # None /\ row[k] \in Row
        BY <2>8, <3>1 DEF Flush
      <4>2. CASE \E p \in pend[c] : p.key = k
        <5> DEFINE q == CHOOSE p \in pend[c] : p.key = k
        <5>1. q.online \in BOOLEAN
          BY <4>2
        <5>2. row'[k] = [row[k] EXCEPT !.online = q.online]
          BY <2>8, <4>1, <4>2 DEF Flush
        <5> HIDE DEF q
        <5> QED
          BY <4>1, <5>1, <5>2
      <4>3. CASE ~\E p \in pend[c] : p.key = k
        BY <2>8, <4>1, <4>3 DEF Flush
      <4> QED
        BY <4>2, <4>3
    <3> QED
      BY <2>8, <3>1 DEF Flush
  <2>9. CASE Tell(c)
    BY <2>9 DEF Tell, Goes, Broadcast
  <2>10. CASE Leave(c)
    BY <2>10, KeysOfLink, TenantOfLink DEF Leave, Goes
  <2>11. CASE Unregister(c)
    BY <2>11, KeysOfLink, TenantOfLink DEF Unregister, Goes, IsCurrent, Registered
  <2>12. CASE MarkOffline(c)
    <3>1. pend'[c] = {[key |-> k, online |-> FALSE] : k \in KeysOf(c)}
      BY <2>12 DEF MarkOffline
    <3>2. \A p \in pend'[c] : p.key \in KeysOf(c) /\ p.online \in BOOLEAN
      BY <3>1, ChangesTyped
    <3> QED
      BY <2>12, <3>2 DEF MarkOffline, Goes
  <2>13. CASE ApplyBlankState(c)
    BY <2>13, KeysOfLink, TenantOfLink DEF ApplyBlankState, Goes
  <2> QED
    BY <1>2, <2>1, <2>2, <2>3, <2>4, <2>5, <2>6, <2>7, <2>8, <2>9, <2>10, <2>11, <2>12,
       <2>13 DEF Link
<1>3. ASSUME NEW b \in Browsers, Browser(b)
      PROVE  TypeOK'
  <2>1. CASE BrowserConnects(b)
    BY <2>1 DEF BrowserConnects
  <2>2. CASE SnapshotWritten(b)
    BY <2>2 DEF SnapshotWritten
  <2>3. CASE BrowserWrites(b)
    BY <2>3 DEF BrowserWrites
  <2>4. CASE BrowserLeaves(b)
    BY <2>4 DEF BrowserLeaves
  <2> QED
    BY <1>3, <2>1, <2>2, <2>3, <2>4 DEF Browser
<1>4. CASE UNCHANGED vars
  BY <1>4 DEF vars
<1> QED
  BY <1>1, <1>2, <1>3, <1>4 DEF Next

-----------------------------------------------------------------------------
(* Bindings *)

(* All rows of an edge are of one tenant.                                   *)
OneTenantPerEdge ==
    \A j, k \in Keys : j[1] = k[1] /\ row[j] # None /\ row[k] # None =>
        row[j].tenant = row[k].tenant

(* The memory is bound to what the rows say, unless the edge goes by a      *)
(* wrong name.                                                              *)
MemoryBound ==
    \A k \in Keys : devTenant[k] # None =>
        row[k] # None /\ (~Misnamed(k[1]) => row[k].tenant = devTenant[k])

(* A link that has persisted its hello finds its own tenant in the rows it  *)
(* declared: the transaction of the store decides, whatever the two checks  *)
(* under the lock have seen.                                                *)
RowsOf(c) == \A k \in KeysOf(c) : row[k] # None /\ row[k].tenant = TenantOf(c)

Persisted == \A c \in Conns : pc[c] \in Active \cup {"stored"} => RowsOf(c)

BoundBy(c) ==
    \A k \in KeysOf(c) :
        devTenant[k] # None /\ (~Misnamed(EdgeOf[c]) => devTenant[k] = TenantOf(c))

Claimed == \A c \in Conns : pc[c] \in Active => BoundBy(c)

Registry ==
    \A e \in Edges : edges[e] # None =>
        edges[e] \in Conns /\ EdgeOf[edges[e]] = e /\ pc[edges[e]] \in Linked

BindInv == OneTenantPerEdge /\ MemoryBound /\ Persisted /\ Claimed /\ Registry

(* A link that goes by a wrong name keeps it.                               *)
NamesKept == \A c \in Conns : slug[c] # TenantOf(c) => slug'[c] # TenantOf(c)

(* Rows keep their tenants.                                                 *)
RowsKept == \A k \in Keys : row[k] # None => row'[k] # None /\ row'[k].tenant = row[k].tenant

LEMMA KeptRows ==
    ASSUME RowsKept, NEW c \in Conns, RowsOf(c)
    PROVE  RowsOf(c)'
BY KeysOfLink DEF RowsKept, RowsOf

(* A step of a link that leaves the tenants and the registered links alone. *)
LEMMA QuietStep ==
    ASSUME TypeOK, BindInv, devTenant' = devTenant, edges' = edges, RowsKept, NamesKept,
           \A k \in Keys : row'[k] # None => row[k] # None,
           NEW c \in Conns, \A x \in Conns \ {c} : pc'[x] = pc[x],
           pc'[c] \in Active => pc[c] \in Active,
           pc'[c] # "stored",
           pc[c] \in Linked => pc'[c] \in Linked
    PROVE  BindInv'
<1>1. OneTenantPerEdge'
  BY DEF BindInv, OneTenantPerEdge, RowsKept
<1>2. MemoryBound'
  BY DEF BindInv, MemoryBound, RowsKept, NamesKept, Misnamed
<1>3. Persisted'
  BY KeptRows DEF BindInv, Persisted
<1>4. Claimed'
  BY DEF BindInv, Claimed, BoundBy, NamesKept, Misnamed
<1>5. Registry'
  BY DEF BindInv, Registry
<1> QED
  BY <1>1, <1>2, <1>3, <1>4, <1>5 DEF BindInv

(* What a link has declared and persisted becomes the binding in memory.    *)
LEMMA BindStepPersist ==
    ASSUME TypeOK, BindInv, NEW c \in Conns, Persist(c)
    PROVE  BindInv'
<1>1. CASE BoundElsewhere(c)
  <2>1. /\ RowsKept /\ NamesKept /\ row' = row /\ devTenant' = devTenant /\ edges' = edges
        /\ \A x \in Conns \ {c} : pc'[x] = pc[x]
        /\ pc[c] = "checked" /\ pc'[c] = "closed"
    BY <1>1 DEF Persist, Goes, TypeOK, RowsKept, NamesKept
  <2> QED
    BY <2>1, QuietStep DEF Active, Linked
<1>2. CASE ~BoundElsewhere(c)
  <2>1. /\ devTenant' = devTenant /\ edges' = edges /\ slug' = slug
        /\ \A x \in Conns \ {c} : pc'[x] = pc[x]
        /\ pc[c] = "checked" /\ pc'[c] = "stored"
    BY <1>2 DEF Persist, Goes, TypeOK
  <2>2. row' = [k \in Keys |-> IF k \in KeysOf(c) /\ row[k] = None
                               THEN [tenant |-> TenantOf(c), online |-> FALSE] ELSE row[k]]
    BY <1>2 DEF Persist
  <2>3. \A k \in Keys : row[k] # None /\ k[1] = EdgeOf[c] => row[k].tenant = TenantOf(c)
    BY <1>2 DEF BoundElsewhere
  <2>4. RowsKept
    BY <2>2 DEF RowsKept
  <2>5. \A k \in Keys : row'[k] # None /\ row[k] = None =>
            k[1] = EdgeOf[c] /\ row'[k].tenant = TenantOf(c)
    BY <2>2, KeysOfLink
  <2>6. OneTenantPerEdge'
    <3> SUFFICES ASSUME NEW j \in Keys, NEW k \in Keys, j[1] = k[1],
                        row'[j] # None, row'[k] # None
                 PROVE  row'[j].tenant = row'[k].tenant
      BY DEF OneTenantPerEdge
    <3>1. CASE row[j] # None /\ row[k] # None
      BY <2>4, <3>1 DEF BindInv, OneTenantPerEdge, RowsKept
    <3>2. CASE row[j] = None \/ row[k] = None
      <4>1. k[1] = EdgeOf[c]
        BY <2>5, <3>2
      <4>2. row'[j].tenant = TenantOf(c)
        BY <2>3, <2>4, <2>5, <4>1 DEF RowsKept
      <4>3. row'[k].tenant = TenantOf(c)
        BY <2>3, <2>4, <2>5, <4>1 DEF RowsKept
      <4> QED
        BY <4>2, <4>3
    <3> QED
      BY <3>1, <3>2
  <2>7. MemoryBound'
    BY <2>1, <2>4 DEF BindInv, MemoryBound, RowsKept, Misnamed
  <2>8. Persisted'
    <3>1. \A k \in KeysOf(c) : row'[k] # None
      <4>0. [tenant |-> TenantOf(c), online |-> FALSE] \in [tenant : Tenants, online : BOOLEAN]
        BY TenantOfLink
      <4>1. [tenant |-> TenantOf(c), online |-> FALSE] # None
        BY <4>0, LinkAssumption
      <4> QED
        BY <2>2, <2>4, <4>1, KeysOfLink DEF RowsKept
    <3>2. RowsOf(c)'
      BY <2>3, <2>4, <2>5, <3>1, KeysOfLink DEF RowsOf, RowsKept
    <3> QED
      BY <2>1, <2>4, <3>2, KeptRows DEF BindInv, Persisted
  <2>9. Claimed'
    BY <2>1 DEF BindInv, Claimed, BoundBy, Active, Linked, Misnamed
  <2>10. Registry'
    BY <2>1 DEF BindInv, Registry, Linked
  <2> QED
    BY <2>6, <2>7, <2>8, <2>9, <2>10 DEF BindInv
<1> QED
  BY <1>1, <1>2

LEMMA BindStepRegister ==
    ASSUME TypeOK, BindInv, NEW c \in Conns, Register(c)
    PROVE  BindInv'
<1>1. /\ row' = row /\ pc[c] = "stored" /\ pc'[c] = "registered"
      /\ \A x \in Conns \ {c} : pc'[x] = pc[x]
      /\ \A e \in Edges : edges'[e] = IF e = EdgeOf[c] THEN c ELSE edges[e]
      /\ \A k \in Keys : devTenant'[k] = IF k \in KeysOf(c) THEN slug[c] ELSE devTenant[k]
      /\ slug' = slug /\ slug[c] \in Tenants /\ slug[c] # None
  BY LinkAssumption DEF Register, Goes, TypeOK
<1>2. RowsOf(c)
  BY <1>1 DEF BindInv, Persisted
<1>3. \A k \in KeysOf(c) : k \in Keys /\ k[1] = EdgeOf[c]
  BY KeysOfLink
<1>4. ~Misnamed(EdgeOf[c]) => slug[c] = TenantOf(c)
  BY DEF Misnamed
<1>5. OneTenantPerEdge'
  BY <1>1 DEF BindInv, OneTenantPerEdge
<1>6. MemoryBound'
  <2> SUFFICES ASSUME NEW k \in Keys, devTenant'[k] # None
               PROVE  row[k] # None /\ (~Misnamed(k[1]) => row[k].tenant = devTenant'[k])
    BY <1>1 DEF MemoryBound, Misnamed
  <2>1. CASE k \in KeysOf(c)
    BY <1>1, <1>2, <1>3, <1>4, <2>1 DEF RowsOf
  <2>2. CASE k \notin KeysOf(c)
    BY <1>1, <2>2 DEF BindInv, MemoryBound
  <2> QED
    BY <2>1, <2>2
<1>7. Persisted'
  BY <1>1, <1>2 DEF BindInv, Persisted, RowsOf
<1>8. Claimed'
  <2> SUFFICES ASSUME NEW x \in Conns, pc'[x] \in Active, NEW k \in KeysOf(x)
               PROVE  devTenant'[k] # None /\ (~Misnamed(EdgeOf[x]) => devTenant'[k] = TenantOf(x))
    BY <1>1 DEF Claimed, BoundBy, Misnamed
  <2>1. k \in Keys /\ k[1] = EdgeOf[x]
    BY KeysOfLink
  <2>2. CASE k \in KeysOf(c)
    <3>1. devTenant'[k] = slug[c] /\ EdgeOf[x] = EdgeOf[c]
      BY <1>1, <1>3, <2>1, <2>2
    <3>2. RowsOf(x)
      BY <1>1, <1>2 DEF BindInv, Persisted
    <3>3. TenantOf(x) = TenantOf(c)
      BY <1>2, <2>2, <3>2 DEF RowsOf
    <3> QED
      BY <1>1, <1>4, <3>1, <3>3
  <2>3. CASE k \notin KeysOf(c)
    <3>1. x # c /\ pc[x] \in Active /\ devTenant'[k] = devTenant[k]
      BY <1>1, <2>1, <2>3
    <3> QED
      BY <3>1 DEF BindInv, Claimed, BoundBy
  <2> QED
    BY <2>2, <2>3
<1>9. Registry'
  <2> SUFFICES ASSUME NEW e \in Edges, edges'[e] # None
               PROVE  edges'[e] \in Conns /\ EdgeOf[edges'[e]] = e /\ pc'[edges'[e]] \in Linked
    BY DEF Registry
  <2>1. CASE e = EdgeOf[c]
    BY <1>1, <2>1 DEF Linked
  <2>2. CASE e # EdgeOf[c]
    BY <1>1, <2>2 DEF BindInv, Registry
  <2> QED
    BY <2>1, <2>2
<1> QED
  BY <1>5, <1>6, <1>7, <1>8, <1>9 DEF BindInv

LEMMA BindStepUnregister ==
    ASSUME TypeOK, BindInv, NEW c \in Conns, Unregister(c)
    PROVE  BindInv'
<1>1. /\ row' = row /\ devTenant' = devTenant
      /\ pc[c] = "leaving" /\ pc'[c] \in {"removed", "closed"}
      /\ \A x \in Conns \ {c} : pc'[x] = pc[x]
      /\ \A e \in Edges : edges'[e] = IF edges[e] = c /\ EdgeOf[c] = e THEN None ELSE edges[e]
      /\ slug' = slug
  BY KeysOfLink DEF Unregister, Goes, TypeOK, IsCurrent, Registered
<1>2. OneTenantPerEdge' /\ MemoryBound'
  BY <1>1 DEF BindInv, OneTenantPerEdge, MemoryBound, Misnamed
<1>3. Persisted' /\ Claimed'
  BY <1>1 DEF BindInv, Persisted, Claimed, RowsOf, BoundBy, Active, Linked, Misnamed
<1>4. Registry'
  BY <1>1 DEF BindInv, Registry
<1> QED
  BY <1>2, <1>3, <1>4 DEF BindInv

LEMMA BindStepRestart ==
    ASSUME TypeOK, BindInv, Restart
    PROVE  BindInv'
<1>1. /\ row' = row
      /\ \A c \in Conns : pc'[c] \in {"new", "closed"}
      /\ \A e \in Edges : edges'[e] = None
      /\ \A k \in Keys : devTenant'[k] = IF row[k] = None THEN None ELSE row[k].tenant
  BY DEF Restart
<1>2. OneTenantPerEdge' /\ MemoryBound'
  BY <1>1 DEF BindInv, OneTenantPerEdge, MemoryBound
<1>3. Persisted' /\ Claimed' /\ Registry'
  BY <1>1 DEF Persisted, Claimed, Registry, Active, Linked
<1> QED
  BY <1>2, <1>3 DEF BindInv

LEMMA FlushKeeps ==
    ASSUME TypeOK, NEW c \in Conns, Flush(c)
    PROVE  /\ RowsKept
           /\ \A k \in Keys : row'[k] # None => row[k] # None
<1> SUFFICES ASSUME NEW k \in Keys, row[k] # None, \E p \in pend[c] : p.key = k
             PROVE  row'[k] # None /\ row'[k].tenant = row[k].tenant
  BY DEF Flush, RowsKept
<1> DEFINE q == CHOOSE p \in pend[c] : p.key = k
<1>1. q \in pend[c]
  OBVIOUS
<1>2. row'[k] = [row[k] EXCEPT !.online = q.online]
  BY DEF Flush
<1>3. row[k] \in Row /\ q.online \in BOOLEAN
  BY <1>1 DEF TypeOK
<1> HIDE DEF q
<1> QED
  BY <1>2, <1>3, LinkAssumption DEF Row

(* It speaks of the bindings, the registered links, their progress and      *)
(* their names only.                                                        *)
LEMMA BindFrame ==
    ASSUME BindInv, devTenant' = devTenant, edges' = edges, row' = row, pc' = pc, slug' = slug
    PROVE  BindInv'
BY DEF BindInv, OneTenantPerEdge, MemoryBound, Persisted, Claimed, Registry, RowsOf, BoundBy,
       Misnamed

(* Every step keeps it. *)
LEMMA BindStep ==
    ASSUME TypeOK, BindInv, [Next]_vars
    PROVE  BindInv'
<1> USE DEF TypeOK, linkVars, browserVars, boundVars, Active, Linked
<1>1. CASE Restart
  BY <1>1, BindStepRestart
<1>2. ASSUME NEW c \in Conns, Link(c)
      PROVE  BindInv'
  <2>1. CASE Hello(c)
    <3>1. /\ devTenant' = devTenant /\ edges' = edges /\ row' = row /\ pc[c] = "new"
          /\ pc' \in {[pc EXCEPT ![c] = "checked"], [pc EXCEPT ![c] = "closed"]}
          /\ \A x \in Conns \ {c} : slug'[x] = slug[x]
      BY <2>1 DEF Hello, Goes
    <3>2. NamesKept
      BY <3>1 DEF NamesKept
    <3> QED
      BY <3>1, <3>2, QuietStep DEF RowsKept
  <2>2. CASE Persist(c)
    BY <2>2, BindStepPersist
  <2>3. CASE RegisterRefused(c)
    BY <2>3, QuietStep DEF RegisterRefused, Goes, RowsKept, NamesKept
  <2>4. CASE Register(c)
    BY <2>4, BindStepRegister
  <2>5. CASE Read(c)
    BY <2>5, QuietStep DEF Read, Goes, RowsKept, NamesKept
  <2>6. CASE ApplyState(c)
    BY <2>6, QuietStep DEF ApplyState, Goes, RowsKept, NamesKept
  <2>7. CASE ApplyCapabilities(c)
    BY <2>7, QuietStep DEF ApplyCapabilities, Goes, RowsKept, NamesKept
  <2>8. CASE Flush(c)
    BY <2>8, FlushKeeps, QuietStep DEF Flush, NamesKept
  <2>9. CASE Tell(c)
    BY <2>9, QuietStep DEF Tell, Goes, RowsKept, NamesKept
  <2>10. CASE Leave(c)
    BY <2>10, QuietStep DEF Leave, Goes, RowsKept, NamesKept
  <2>11. CASE Unregister(c)
    BY <2>11, BindStepUnregister
  <2>12. CASE MarkOffline(c)
    BY <2>12, QuietStep DEF MarkOffline, Goes, RowsKept, NamesKept
  <2>13. CASE ApplyBlankState(c)
    BY <2>13, QuietStep DEF ApplyBlankState, Goes, RowsKept, NamesKept
  <2> QED
    BY <1>2, <2>1, <2>2, <2>3, <2>4, <2>5, <2>6, <2>7, <2>8, <2>9, <2>10, <2>11, <2>12,
       <2>13 DEF Link
<1>3. ASSUME NEW b \in Browsers, Browser(b)
      PROVE  BindInv'
  <2>1. CASE BrowserConnects(b)
    BY <2>1, BindFrame DEF BrowserConnects
  <2>2. CASE SnapshotWritten(b)
    BY <2>2, BindFrame DEF SnapshotWritten
  <2>3. CASE BrowserWrites(b)
    BY <2>3, BindFrame DEF BrowserWrites
  <2>4. CASE BrowserLeaves(b)
    BY <2>4, BindFrame DEF BrowserLeaves
  <2> QED
    BY <1>3, <2>1, <2>2, <2>3, <2>4 DEF Browser
<1>4. CASE UNCHANGED vars
  BY <1>4, BindFrame DEF vars
<1> QED
  BY <1>1, <1>2, <1>3, <1>4 DEF Next

-----------------------------------------------------------------------------
(* Frames *)

Frame == [about : SUBSET (Keys \cup {Blank}), online : BOOLEAN, to : Tenants \cup {All},
          owner : Tenants, edge : Edges]

(* What names no device, and what is of an edge that goes by a wrong name.  *)
Excepted(f) == f.about = {Blank} \/ Misnamed(f.edge)

(* The frames a browser may get.                                            *)
OwnFrames(b) ==
    {f \in Frame : BrowserTenant[b] # All /\ ~Excepted(f) => f.owner = BrowserTenant[b]}

(* A device that is shown is bound, what a link has changed is bound to its *)
(* tenant, and what a browser gets or has been given is its tenant's; with  *)
(* the exceptions above.                                                    *)
ShownBound == \A k \in Keys : view[k] # None => devTenant[k] # None

PendBound ==
    \A c \in Conns : \A p \in pend[c] :
        p.key = Blank \/ Misnamed(EdgeOf[c]) \/ devTenant[p.key] = TenantOf(c)

PendFinite == \A c \in Conns : IsFiniteSet(pend[c])

QueuesOwn == \A b \in Browsers : queue[b] \in Seq(OwnFrames(b))

SnapsOwn ==
    \A b \in Browsers : BrowserTenant[b] # All /\ snap[b] # None =>
        \A k \in snap[b] \ {Blank} :
            k \in Keys /\ (~Misnamed(k[1]) => row[k] # None /\ row[k].tenant = BrowserTenant[b])

FrameInv == ShownBound /\ PendBound /\ PendFinite /\ QueuesOwn /\ SnapsOwn

(* The exceptions stay while the names do.                                  *)
LEMMA MisnamedStays ==
    ASSUME NamesKept
    PROVE  \A e : Misnamed(e) => Misnamed(e)'
BY DEF NamesKept, Misnamed

LEMMA OwnFramesStay ==
    ASSUME NamesKept, NEW b \in Browsers
    PROVE  OwnFrames(b) \subseteq OwnFrames(b)'
BY DEF NamesKept, Misnamed, Excepted, OwnFrames, Frame, Keys, Blank

(* A frame is told to its owner, which is the tenant of the link.           *)
LEMMA FramesOfLink ==
    ASSUME TypeOK, FrameInv, NEW c \in Conns, NEW up \in BOOLEAN
    PROVE  /\ IsFiniteSet(StateFrames(c) \cup {EdgeFrame(c, up)})
           /\ IsFiniteSet(StateFrames(c))
           /\ \A f \in StateFrames(c) \cup {EdgeFrame(c, up)} :
                 f \in Frame /\ (Excepted(f) \/ f.to = f.owner)
<1> DEFINE g == [p \in pend[c] |-> [about |-> {p.key}, online |-> p.online,
                                     to |-> FrameTenant(p.key), owner |-> TenantOf(c),
                                     edge |-> EdgeOf[c]]]
<1>0. IsFiniteSet(pend[c]) /\ DOMAIN g = pend[c]
  BY DEF FrameInv, PendFinite
<1>1. IsFiniteSet({g[p] : p \in pend[c]})
  <2> HIDE DEF g
  <2> QED
    BY <1>0, ImageFinite
<1>2. StateFrames(c) = {g[p] : p \in pend[c]}
  BY DEF StateFrames
<1>3. IsFiniteSet(StateFrames(c) \cup {EdgeFrame(c, up)})
  BY <1>1, <1>2, FS_Singleton, FS_Union
<1>4. ASSUME NEW p \in pend[c]
      PROVE  g[p] \in Frame /\ (Excepted(g[p]) \/ g[p].to = g[p].owner)
  <2>1. p.key \in Keys \cup {Blank} /\ p.online \in BOOLEAN /\ EdgeOf[c] \in Edges
    BY KeysOfLink DEF TypeOK
  <2>2. FrameTenant(p.key) \in Tenants \cup {All}
    BY <2>1, LinkAssumption DEF TypeOK, FrameTenant, DeviceTenant
  <2>3. g[p] \in Frame
    BY <2>1, <2>2, TenantOfLink DEF Frame
  <2>4. /\ g[p].about = {p.key} /\ g[p].edge = EdgeOf[c]
        /\ g[p].to = FrameTenant(p.key) /\ g[p].owner = TenantOf(c)
    OBVIOUS
  <2> HIDE DEF g
  <2>5. CASE p.key = Blank \/ Misnamed(EdgeOf[c])
    BY <2>3, <2>4, <2>5 DEF Excepted
  <2>6. CASE p.key # Blank /\ ~Misnamed(EdgeOf[c])
    <3>1. devTenant[p.key] = TenantOf(c)
      BY <2>6 DEF FrameInv, PendBound
    <3>2. FrameTenant(p.key) = TenantOf(c)
      BY <2>6, <3>1, TenantOfLink DEF FrameTenant, DeviceTenant
    <3> QED
      BY <2>3, <2>4, <3>2
  <2> QED
    BY <2>5, <2>6
<1>5. LET f == EdgeFrame(c, up)
      IN  f \in Frame /\ (Excepted(f) \/ f.to = f.owner)
  BY TenantOfLink, KeysOfLink DEF TypeOK, EdgeFrame, LinkTenant, Frame, Excepted, Misnamed
<1> HIDE DEF g
<1> QED
  BY <1>1, <1>2, <1>3, <1>4, <1>5

(* Told to everybody, it reaches the queues of its tenant only.             *)
LEMMA BroadcastStays ==
    ASSUME FrameInv, NEW frames, IsFiniteSet(frames), Broadcast(frames),
           \A f \in frames : f \in Frame /\ (Excepted(f) \/ f.to = f.owner)
    PROVE  /\ DOMAIN queue' = Browsers
           /\ \A b \in Browsers : queue'[b] \in Seq(OwnFrames(b))
<1> SUFFICES ASSUME NEW b \in Browsers
             PROVE  queue'[b] \in Seq(OwnFrames(b))
  BY DEF Broadcast
<1> DEFINE S == {f \in frames : Accepts(b, f.to)}
<1>1. S \subseteq OwnFrames(b)
  BY LinkAssumption DEF OwnFrames, Accepts, Frame
<1>2. IsFiniteSet(S)
  BY FS_Subset
<1>3. SetToSeq(S) \in Seq(OwnFrames(b))
  <2>1. SetToSeq(S) \in Seq(S)
    BY <1>2, SetToSeqElements
  <2> HIDE DEF S
  <2> QED
    BY <1>1, <2>1, SeqMonotonic
<1>4. queue[b] \in Seq(OwnFrames(b))
  BY DEF FrameInv, QueuesOwn
<1>5. queue'[b] = Put(queue[b], SetToSeq(S))
  BY DEF Broadcast
<1> QED
  BY <1>3, <1>4, <1>5, PutElements

(* A snapshot holds devices of the tenant of the browser.                   *)
LEMMA SnapshotStays ==
    ASSUME TypeOK, BindInv, FrameInv, NEW b \in Browsers, BrowserTenant[b] # All,
           NEW k \in Snapshot(b) \ {Blank}
    PROVE  k \in Keys /\ (~Misnamed(k[1]) => row[k] # None /\ row[k].tenant = BrowserTenant[b])
<1> DEFINE known == {j \in Keys : view[j] # None}
<1>1. ASSUME NEW j \in known, ~Misnamed(j[1])
      PROVE  row[j] # None /\ row[j].tenant = DeviceTenant(j)
  BY <1>1 DEF FrameInv, ShownBound, BindInv, MemoryBound, DeviceTenant
<1>2. CASE k \in known /\ Visible(b, DeviceTenant(k))
  BY <1>1, <1>2 DEF Visible
<1>3. CASE \E e \in Edges : /\ \E t \in EdgeTenants(e) : Visible(b, t)
                            /\ k \in IF edges[e] # None THEN KeysOf(edges[e])
                                     ELSE {j \in known : j[1] = e}
  <2> DEFINE ShownFor(e) == IF edges[e] # None THEN KeysOf(edges[e])
                            ELSE {j \in known : j[1] = e}
  <2>0. PICK e \in Edges : (\E t \in EdgeTenants(e) : Visible(b, t)) /\ k \in ShownFor(e)
    BY <1>3
  <2>1. PICK t \in EdgeTenants(e) : Visible(b, t)
    BY <2>0
  <2>2. t = BrowserTenant[b]
    BY <2>1 DEF Visible
  <2>3. CASE edges[e] # None
    <3>1. edges[e] \in Conns /\ EdgeOf[edges[e]] = e /\ pc[edges[e]] \in Linked /\ k \in KeysOf(edges[e])
      BY <2>0, <2>3 DEF BindInv, Registry
    <3>2. t = slug[edges[e]]
      BY <2>3, <2>1 DEF EdgeTenants
    <3>3. row[k] # None /\ row[k].tenant = TenantOf(edges[e])
      BY <3>1 DEF BindInv, Persisted, RowsOf, Active
    <3>4. k \in Keys /\ k[1] = e
      BY <3>1, KeysOfLink
    <3>5. ~Misnamed(e) => t = TenantOf(edges[e])
      BY <3>1, <3>2 DEF Misnamed
    <3> QED
      BY <2>2, <3>3, <3>4, <3>5
  <2>4. CASE edges[e] = None
    <3>1. PICK j \in known : j[1] = e /\ t = DeviceTenant(j)
      BY <2>1, <2>4 DEF EdgeTenants
    <3>2. k \in known /\ k[1] = e
      BY <2>0, <2>4
    <3>3. row[j] # None /\ row[k] # None => row[k].tenant = row[j].tenant
      BY <3>1, <3>2 DEF BindInv, OneTenantPerEdge
    <3> QED
      BY <1>1, <2>2, <3>1, <3>2, <3>3
  <2> QED
    BY <2>3, <2>4
<1> DEFINE Own == {j \in known : Visible(b, DeviceTenant(j))}
           ShownEdges == {e \in Edges : \E t \in EdgeTenants(e) : Visible(b, t)}
           WithEdges == UNION {IF edges[e] # None THEN KeysOf(edges[e])
                               ELSE {j \in known : j[1] = e} : e \in ShownEdges}
           Nameless == IF blank # None /\ Visible(b, Default) THEN {Blank} ELSE {}
<1>4. Snapshot(b) = Own \cup WithEdges \cup Nameless
  BY DEF Snapshot
<1>5. k \in Own \/ k \in WithEdges
  <2>1. k \notin Nameless
    OBVIOUS
  <2> HIDE DEF Own, WithEdges, Nameless
  <2> QED
    BY <1>4, <2>1
<1> QED
  BY <1>2, <1>3, <1>5

(* Snapshots and queues stay right while rows and links keep their tenants  *)
(* and names.                                                               *)
LEMMA SnapsKept ==
    ASSUME RowsKept, NamesKept, SnapsOwn, snap' = snap
    PROVE  SnapsOwn'
BY DEF RowsKept, NamesKept, Misnamed, SnapsOwn

LEMMA QueuesKept ==
    ASSUME NamesKept, NEW q, NEW b \in Browsers, q \in Seq(OwnFrames(b))
    PROVE  q \in Seq(OwnFrames(b)')
BY OwnFramesStay, SeqMonotonic

(* A step that leaves what is shown, bound, changed and told alone.         *)
LEMMA QuietFrame ==
    ASSUME FrameInv, RowsKept, NamesKept,
           view' = view, devTenant' = devTenant, pend' = pend, queue' = queue, snap' = snap
    PROVE  FrameInv'
<1>1. ShownBound' /\ PendFinite'
  BY DEF FrameInv, ShownBound, PendFinite
<1>2. PendBound'
  BY DEF FrameInv, PendBound, NamesKept, Misnamed
<1>3. QueuesOwn'
  BY QueuesKept DEF FrameInv, QueuesOwn
<1>4. SnapsOwn'
  BY SnapsKept DEF FrameInv
<1> QED
  BY <1>1, <1>2, <1>3, <1>4 DEF FrameInv

(* The changes of one link, for a set of its keys.                          *)
LEMMA ChangesFinite ==
    ASSUME NEW c \in Conns, NEW T \in SUBSET KeysOf(c), NEW o \in BOOLEAN
    PROVE  IsFiniteSet({[key |-> k, online |-> o] : k \in T})
<1> DEFINE g == [k \in T |-> [key |-> k, online |-> o]]
<1>1. IsFiniteSet(T) /\ DOMAIN g = T
  BY KeysOfLink, FS_Subset
<1>2. IsFiniteSet({g[k] : k \in T})
  <2> HIDE DEF g
  <2> QED
    BY <1>1, ImageFinite
<1> QED
  BY <1>2

(* A step that only takes from the browsers.                                *)
LEMMA ToldFrame ==
    ASSUME FrameInv, slug' = slug, row' = row,
           view' = view, devTenant' = devTenant, pend' = pend,
           \A b \in Browsers : queue'[b] \in Seq(OwnFrames(b)),
           \A b \in Browsers : snap'[b] \in {snap[b], None}
    PROVE  FrameInv'
<1>1. NamesKept
  BY DEF NamesKept
<1>2. ShownBound' /\ PendFinite' /\ PendBound'
  BY DEF FrameInv, ShownBound, PendFinite, PendBound, Misnamed
<1>3. QueuesOwn'
  BY <1>1, QueuesKept DEF QueuesOwn
<1>4. SnapsOwn'
  BY DEF FrameInv, SnapsOwn, Misnamed
<1> QED
  BY <1>2, <1>3, <1>4 DEF FrameInv

LEMMA FrameStepRegister ==
    ASSUME TypeOK, BindInv, FrameInv, NEW c \in Conns, Register(c)
    PROVE  FrameInv'
<1> DEFINE T == {j \in KeysOf(c) : view[j] # TRUE}
<1>1. /\ row' = row /\ queue' = queue /\ snap' = snap /\ pc[c] = "stored" /\ slug' = slug
      /\ \A k \in Keys : devTenant'[k] = IF k \in KeysOf(c) THEN slug[c] ELSE devTenant[k]
      /\ \A k \in Keys : k \notin KeysOf(c) => view'[k] = view[k]
      /\ \A x \in Conns \ {c} : pend'[x] = pend[x]
      /\ pend'[c] = {[key |-> k, online |-> TRUE] : k \in T}
      /\ slug[c] # None
  BY LinkAssumption DEF Register, Goes, TypeOK, browserVars
<1>2. ShownBound'
  BY <1>1 DEF FrameInv, ShownBound
<1>3. \A k \in KeysOf(c) : /\ k \in Keys /\ k[1] = EdgeOf[c]
                            /\ row[k] # None /\ row[k].tenant = TenantOf(c)
  BY <1>1, KeysOfLink DEF BindInv, Persisted, RowsOf
<1>4. Misnamed(EdgeOf[c]) \/ slug[c] = TenantOf(c)
  BY DEF Misnamed
<1>5. PendBound'
  <2> SUFFICES ASSUME NEW x \in Conns, NEW p \in pend'[x],
                      p.key # Blank, ~Misnamed(EdgeOf[x])
               PROVE  devTenant'[p.key] = TenantOf(x)
    BY <1>1 DEF PendBound, Misnamed
  <2>1. CASE x = c
    <3>1. p.key \in KeysOf(c) /\ p.key \in Keys
      BY <1>1, <2>1, ChangesTyped
    <3> QED
      BY <1>1, <1>4, <2>1, <3>1
  <2>2. CASE x # c
    <3>1. p.key \in KeysOf(x) /\ p.key \in Keys /\ devTenant[p.key] = TenantOf(x)
      BY <1>1, <2>2, KeysOfLink DEF TypeOK, FrameInv, PendBound
    <3>2. CASE p.key \in KeysOf(c)
      <4>1. p.key[1] = EdgeOf[c] /\ EdgeOf[x] = EdgeOf[c]
        BY <1>3, <3>1, <3>2, KeysOfLink
      <4>2. ~Misnamed(EdgeOf[c]) => row[p.key].tenant = TenantOf(x)
        BY <3>1, <4>1, TenantOfLink DEF BindInv, MemoryBound
      <4> QED
        BY <1>1, <1>3, <1>4, <3>1, <3>2, <4>1, <4>2
    <3>3. CASE p.key \notin KeysOf(c)
      BY <1>1, <3>1, <3>3
    <3> QED
      BY <3>2, <3>3
  <2> QED
    BY <2>1, <2>2
<1>6. PendFinite'
  BY <1>1, ChangesFinite DEF FrameInv, PendFinite
<1>7. NamesKept /\ RowsKept
  BY <1>1 DEF NamesKept, RowsKept
<1>8. QueuesOwn' /\ SnapsOwn'
  BY <1>1, <1>7, QueuesKept, SnapsKept DEF FrameInv, QueuesOwn
<1> QED
  BY <1>2, <1>5, <1>6, <1>8 DEF FrameInv

LEMMA FrameStepApplyState ==
    ASSUME TypeOK, BindInv, FrameInv, NEW c \in Conns, ApplyState(c)
    PROVE  FrameInv'
<1> DEFINE d == message[c].device
<1> DEFINE key == <<EdgeOf[c], d>>
<1>1. /\ row' = row /\ queue' = queue /\ snap' = snap /\ devTenant' = devTenant
      /\ pc[c] = "message" /\ slug' = slug
      /\ \A k \in Keys : k # key => view'[k] = view[k]
      /\ \A x \in Conns \ {c} : pend'[x] = pend[x]
      /\ pend'[c] = {[key |-> key, online |-> message[c].online]}
      /\ d \in DevicesOf[c]
  BY DEF ApplyState, Goes, TypeOK, browserVars
<1>2. key \in KeysOf(c)
  BY <1>1, KeysOfLink
<1>3. devTenant[key] # None /\ (Misnamed(EdgeOf[c]) \/ devTenant[key] = TenantOf(c))
  BY <1>1, <1>2 DEF BindInv, Claimed, BoundBy, Active, Linked
<1>4. ShownBound'
  BY <1>1, <1>3 DEF FrameInv, ShownBound
<1>5. PendBound'
  BY <1>1, <1>3 DEF FrameInv, PendBound, Misnamed
<1>6. PendFinite'
  <2>1. IsFiniteSet(pend'[c])
    <3> HIDE DEF key
    <3> QED
      BY <1>1, FS_Singleton
  <2> QED
    BY <1>1, <2>1 DEF FrameInv, PendFinite
<1>7. QueuesOwn' /\ SnapsOwn'
  BY <1>1, QueuesKept, SnapsKept DEF FrameInv, QueuesOwn, NamesKept, RowsKept
<1> QED
  BY <1>4, <1>5, <1>6, <1>7 DEF FrameInv

LEMMA FrameStepApplyBlankState ==
    ASSUME TypeOK, BindInv, FrameInv, NEW c \in Conns, ApplyBlankState(c)
    PROVE  FrameInv'
<1>1. /\ row' = row /\ queue' = queue /\ snap' = snap /\ devTenant' = devTenant
      /\ view' = view /\ slug' = slug
      /\ \A x \in Conns \ {c} : pend'[x] = pend[x]
      /\ pend'[c] = {[key |-> Blank, online |-> message[c].online]}
  BY DEF ApplyBlankState, Goes, TypeOK, browserVars
<1>2. ShownBound'
  BY <1>1 DEF FrameInv, ShownBound
<1>3. PendBound'
  BY <1>1 DEF FrameInv, PendBound, Misnamed
<1>4. PendFinite'
  <2> DEFINE change == [key |-> Blank, online |-> message[c].online]
  <2>1. pend'[c] = {change}
    BY <1>1
  <2> HIDE DEF change
  <2>2. IsFiniteSet(pend'[c])
    BY <2>1, FS_Singleton
  <2> QED
    BY <1>1, <2>2 DEF FrameInv, PendFinite
<1>5. QueuesOwn' /\ SnapsOwn'
  BY <1>1, QueuesKept, SnapsKept DEF FrameInv, QueuesOwn, NamesKept, RowsKept
<1> QED
  BY <1>2, <1>3, <1>4, <1>5 DEF FrameInv

LEMMA FrameStepMarkOffline ==
    ASSUME TypeOK, BindInv, FrameInv, NEW c \in Conns, MarkOffline(c)
    PROVE  FrameInv'
<1>1. /\ row' = row /\ queue' = queue /\ snap' = snap /\ devTenant' = devTenant
      /\ pc[c] = "removed" /\ slug' = slug
      /\ \A k \in Keys : k \notin KeysOf(c) => view'[k] = view[k]
      /\ \A x \in Conns \ {c} : pend'[x] = pend[x]
      /\ pend'[c] = {[key |-> k, online |-> FALSE] : k \in KeysOf(c)}
  BY DEF MarkOffline, Goes, TypeOK, browserVars
<1>2. \A k \in KeysOf(c) :
         devTenant[k] # None /\ (Misnamed(EdgeOf[c]) \/ devTenant[k] = TenantOf(c))
  BY <1>1 DEF BindInv, Claimed, BoundBy, Active, Linked
<1>3. ShownBound'
  BY <1>1, <1>2 DEF FrameInv, ShownBound
<1>4. PendBound'
  BY <1>1, <1>2 DEF FrameInv, PendBound, Misnamed
<1>5. PendFinite'
  BY <1>1, ChangesFinite DEF FrameInv, PendFinite
<1>6. QueuesOwn' /\ SnapsOwn'
  BY <1>1, QueuesKept, SnapsKept DEF FrameInv, QueuesOwn, NamesKept, RowsKept
<1> QED
  BY <1>3, <1>4, <1>5, <1>6 DEF FrameInv

LEMMA FrameStepTell ==
    ASSUME TypeOK, BindInv, FrameInv, NEW c \in Conns, Tell(c)
    PROVE  FrameInv'
<1>1. /\ row' = row /\ snap' = snap /\ devTenant' = devTenant /\ view' = view /\ slug' = slug
      /\ \A x \in Conns : pend'[x] = IF x = c THEN {} ELSE pend[x]
  BY DEF Tell, TypeOK
<1>2. \/ Broadcast(StateFrames(c) \cup {EdgeFrame(c, TRUE)})
      \/ Broadcast(StateFrames(c))
      \/ Broadcast(StateFrames(c) \cup {EdgeFrame(c, FALSE)})
  BY DEF Tell
<1>3. NamesKept /\ RowsKept
  BY <1>1 DEF NamesKept, RowsKept
<1>4. QueuesOwn'
  <2>1. \A b \in Browsers : queue'[b] \in Seq(OwnFrames(b))
    BY <1>2, FramesOfLink, BroadcastStays
  <2> QED
    BY <1>3, <2>1, QueuesKept DEF QueuesOwn
<1>5. ShownBound' /\ PendBound' /\ SnapsOwn'
  BY <1>1, <1>3, SnapsKept DEF FrameInv, ShownBound, PendBound, Misnamed
<1>6. PendFinite'
  BY <1>1, FS_EmptySet DEF FrameInv, PendFinite
<1> QED
  BY <1>4, <1>5, <1>6 DEF FrameInv

LEMMA FrameStepConnect ==
    ASSUME TypeOK, BindInv, FrameInv, NEW b \in Browsers, BrowserConnects(b)
    PROVE  FrameInv'
<1>1. /\ row' = row /\ pend' = pend /\ devTenant' = devTenant /\ view' = view /\ slug' = slug
      /\ \A x \in Browsers : queue'[x] = IF x = b THEN <<>> ELSE queue[x]
      /\ \A x \in Browsers : snap'[x] = IF x = b THEN Snapshot(b) ELSE snap[x]
  BY DEF BrowserConnects, TypeOK, linkVars
<1>2. ShownBound' /\ PendBound' /\ PendFinite'
  BY <1>1 DEF FrameInv, ShownBound, PendBound, PendFinite, Misnamed
<1>3. NamesKept /\ RowsKept
  BY <1>1 DEF NamesKept, RowsKept
<1>4. QueuesOwn'
  <2> SUFFICES ASSUME NEW x \in Browsers
               PROVE  queue'[x] \in Seq(OwnFrames(x)')
    BY DEF QueuesOwn
  <2>1. queue'[x] \in Seq(OwnFrames(x))
    BY <1>1, EmptySeq DEF FrameInv, QueuesOwn
  <2> QED
    BY <1>3, <2>1, QueuesKept
<1>5. SnapsOwn'
  <2> SUFFICES ASSUME NEW x \in Browsers, BrowserTenant[x] # All, snap'[x] # None,
                      NEW k \in snap'[x] \ {Blank}
               PROVE  k \in Keys /\ (~Misnamed(k[1]) => /\ row[k] # None
                                                       /\ row[k].tenant = BrowserTenant[x])
    BY <1>1 DEF SnapsOwn, Misnamed
  <2> QED
    BY <1>1, SnapshotStays DEF FrameInv, SnapsOwn
<1> QED
  BY <1>2, <1>4, <1>5 DEF FrameInv

LEMMA FrameStepRestart ==
    ASSUME TypeOK, BindInv, FrameInv, Restart
    PROVE  FrameInv'
<1>1. /\ row' = row
      /\ \A k \in Keys : view'[k] = IF row[k] = None THEN None ELSE FALSE
      /\ \A k \in Keys : devTenant'[k] = IF row[k] = None THEN None ELSE row[k].tenant
      /\ \A c \in Conns : pend'[c] = {}
      /\ \A b \in Browsers : queue'[b] = <<>> /\ snap'[b] = None
  BY DEF Restart
<1>2. ShownBound'
  <2> SUFFICES ASSUME NEW k \in Keys, row[k] # None
               PROVE  row[k].tenant # None
    BY <1>1 DEF ShownBound
  <2>1. row[k].tenant \in Tenants
    BY DEF TypeOK, Row
  <2> QED
    BY <2>1, LinkAssumption
<1>3. PendBound' /\ PendFinite' /\ SnapsOwn'
  BY <1>1, FS_EmptySet DEF PendBound, PendFinite, SnapsOwn
<1>4. QueuesOwn'
  BY <1>1, EmptySeq DEF QueuesOwn, OwnFrames
<1> QED
  BY <1>2, <1>3, <1>4 DEF FrameInv

(* Every step keeps it. *)
LEMMA FrameStep ==
    ASSUME TypeOK, BindInv, FrameInv, [Next]_vars
    PROVE  FrameInv'
<1> USE DEF TypeOK, linkVars, browserVars, boundVars, NamesKept, RowsKept
<1>1. CASE Restart
  BY <1>1, FrameStepRestart
<1>2. ASSUME NEW c \in Conns, Link(c)
      PROVE  FrameInv'
  <2>1. CASE Hello(c)
    <3>1. pc[c] = "new" /\ \A x \in Conns \ {c} : slug'[x] = slug[x]
      BY <2>1 DEF Hello, Goes
    <3>2. NamesKept
      BY <3>1
    <3> QED
      BY <2>1, <3>2, QuietFrame DEF Hello
  <2>2. CASE Persist(c)
    BY <2>2, QuietFrame DEF Persist
  <2>3. CASE RegisterRefused(c)
    BY <2>3, QuietFrame DEF RegisterRefused
  <2>4. CASE Register(c)
    BY <2>4, FrameStepRegister
  <2>5. CASE Read(c)
    BY <2>5, QuietFrame DEF Read
  <2>6. CASE ApplyState(c)
    BY <2>6, FrameStepApplyState
  <2>7. CASE ApplyBlankState(c)
    BY <2>7, FrameStepApplyBlankState
  <2>8. CASE ApplyCapabilities(c)
    BY <2>8, QuietFrame DEF ApplyCapabilities
  <2>9. CASE Flush(c)
    BY <2>9, FlushKeeps, QuietFrame DEF Flush
  <2>10. CASE Tell(c)
    BY <2>10, FrameStepTell
  <2>11. CASE Leave(c)
    BY <2>11, QuietFrame DEF Leave
  <2>12. CASE Unregister(c)
    BY <2>12, QuietFrame DEF Unregister
  <2>13. CASE MarkOffline(c)
    BY <2>13, FrameStepMarkOffline
  <2> QED
    BY <1>2, <2>1, <2>2, <2>3, <2>4, <2>5, <2>6, <2>7, <2>8, <2>9, <2>10, <2>11, <2>12,
       <2>13 DEF Link
<1>3. ASSUME NEW b \in Browsers, Browser(b)
      PROVE  FrameInv'
  <2>1. CASE BrowserConnects(b)
    BY <2>1, FrameStepConnect
  <2>2. CASE SnapshotWritten(b)
    <3>1. /\ queue' = queue /\ slug' = slug /\ row' = row
          /\ view' = view /\ devTenant' = devTenant /\ pend' = pend
          /\ \A x \in Browsers : snap'[x] \in {snap[x], None}
      BY <2>2 DEF SnapshotWritten
    <3> QED
      BY <3>1, ToldFrame DEF FrameInv, QueuesOwn
  <2>3. CASE BrowserWrites(b)
    <3>1. /\ slug' = slug /\ row' = row /\ snap' = snap
          /\ view' = view /\ devTenant' = devTenant /\ pend' = pend
          /\ queue' = [queue EXCEPT ![b] = Tail(@)] /\ queue[b] # <<>>
      BY <2>3 DEF BrowserWrites
    <3>2. \A x \in Browsers : queue'[x] \in Seq(OwnFrames(x))
      BY <3>1, HeadTailProperties DEF FrameInv, QueuesOwn
    <3> QED
      BY <3>1, <3>2, ToldFrame
  <2>4. CASE BrowserLeaves(b)
    <3>1. /\ slug' = slug /\ row' = row
          /\ view' = view /\ devTenant' = devTenant /\ pend' = pend
          /\ \A x \in Browsers : snap'[x] \in {snap[x], None}
          /\ queue' = [queue EXCEPT ![b] = <<>>]
      BY <2>4 DEF BrowserLeaves
    <3>2. \A x \in Browsers : queue'[x] \in Seq(OwnFrames(x))
      BY <3>1, EmptySeq DEF FrameInv, QueuesOwn
    <3> QED
      BY <3>1, <3>2, ToldFrame
  <2> QED
    BY <1>3, <2>1, <2>2, <2>3, <2>4 DEF Browser
<1>4. CASE UNCHANGED vars
  BY <1>4, QuietFrame DEF vars
<1> QED
  BY <1>1, <1>2, <1>3, <1>4 DEF Next

-----------------------------------------------------------------------------
(* Presence *)

Fresh == {"new", "checked", "stored"}

(* A link that runs and is not the registered one has been cancelled; one   *)
(* that has not registered yet has been neither cancelled nor heard.        *)
ReplacedOut ==
    \A c \in Conns :
        /\ pc[c] \in Linked => Registered(c) \/ c \in cancelled
        /\ Registered(c) => c \notin cancelled
        /\ pc[c] \in Fresh => c \notin cancelled /\ \A d \in Devices : report[c][d] = None

(* A device of the registered link is what this link said of it last.       *)
AsReported ==
    \A c \in Conns : Registered(c) =>
        \A k \in KeysOf(c) \ unowned : view[k] = TRUE <=> report[c][k[2]] # FALSE

(* A device is online because of the registered link, or of one that was    *)
(* removed and has still to mark it offline.                                *)
Explained ==
    \A k \in Keys \ unowned : view[k] = TRUE =>
        \E c \in Conns : k \in KeysOf(c) /\ (Registered(c) \/ pc[c] = "removed")

CapsHeld == \A e \in Edges : caps[e] # None /\ Whole(e) \notin unowned => edges[e] # None

PresenceTyped ==
    /\ DOMAIN caps = Edges /\ DOMAIN report = Conns
    /\ \A c \in Conns : DOMAIN report[c] = Devices
    /\ \A k \in Keys : view[k] # None => view[k] \in BOOLEAN

PresenceInv == ReplacedOut /\ AsReported /\ Explained /\ CapsHeld /\ PresenceTyped

(* A step of a link that leaves what is shown and who is registered alone,  *)
(* and does not make the link one that runs.                                *)
LEMMA QuietPresence ==
    ASSUME PresenceInv, UNCHANGED <<edges, view, caps, cancelled, report, unowned>>,
           \A c \in Conns :
               /\ pc'[c] \in Linked => pc[c] \in Linked
               /\ pc'[c] \in Fresh => pc[c] \in Fresh
               /\ pc[c] = "removed" => pc'[c] = "removed"
    PROVE  PresenceInv'
<1> USE DEF PresenceInv, Registered
<1>1. ReplacedOut' /\ PresenceTyped'
  BY DEF ReplacedOut, PresenceTyped
<1>2. AsReported'
  BY DEF AsReported, KeysOf
<1>3. Explained' /\ CapsHeld'
  BY DEF Explained, CapsHeld, Whole, KeysOf
<1> QED
  BY <1>1, <1>2, <1>3

(* Only one link is registered for an edge.                                 *)
LEMMA OneRegistered ==
    ASSUME NEW c \in Conns, NEW d \in Conns, NEW k, k \in KeysOf(c), k \in KeysOf(d),
           Registered(c), Registered(d)
    PROVE  c = d
BY KeysOfLink DEF Registered

LEMMA PresenceRegister ==
    ASSUME TypeOK, BindInv, PresenceInv, NEW c \in Conns, Register(c)
    PROVE  PresenceInv'
<1> USE DEF TypeOK, PresenceInv
<1> DEFINE old == edges[EdgeOf[c]]
<1>1. /\ pc[c] = "stored" /\ pc' = [pc EXCEPT ![c] = "registered"]
      /\ cancelled' = IF old = None THEN cancelled ELSE cancelled \cup {old}
      /\ edges' = [edges EXCEPT ![EdgeOf[c]] = c]
      /\ view' = [k \in Keys |-> IF k \in KeysOf(c) THEN TRUE ELSE view[k]]
      /\ unowned' = (unowned \ (KeysOf(c) \cup {Whole(EdgeOf[c])}))
                       \cup IF old = None THEN {} ELSE KeysOf(old) \ KeysOf(c)
      /\ caps' = caps /\ report' = report
  BY DEF Register, Goes
<1>2. /\ EdgeOf[c] \in Edges /\ c # None /\ KeysOf(c) \subseteq Keys
      /\ \A d \in Conns : EdgeOf[d] \in Edges
  BY LinkAssumption, KeysOfLink
<1>3. /\ old # c /\ c \notin cancelled /\ \A d \in Devices : report[c][d] = None
      /\ old # None => old \in Conns /\ Registered(old)
  BY <1>1, <1>2 DEF BindInv, Registry, Registered, Linked, ReplacedOut, Fresh
<1>4. \A d \in Conns : Registered(d)' <=> d = c \/ (Registered(d) /\ EdgeOf[d] # EdgeOf[c])
  BY <1>1, <1>2 DEF Registered
<1>5. ReplacedOut'
  <2> SUFFICES ASSUME NEW d \in Conns
               PROVE  /\ pc'[d] \in Linked => Registered(d)' \/ d \in cancelled'
                      /\ Registered(d)' => d \notin cancelled'
                      /\ pc'[d] \in Fresh => /\ d \notin cancelled'
                                            /\ \A v \in Devices : report'[d][v] = None
    BY DEF ReplacedOut
  <2>1. CASE d = c
    BY <1>1, <1>3, <1>4, <2>1 DEF Fresh
  <2>2. CASE d # c
    <3>1. pc'[d] = pc[d] /\ (d \in cancelled' <=> d \in cancelled \/ (old # None /\ d = old))
      BY <1>1, <2>2
    <3> d # None
      BY LinkAssumption
    <3>2. d = old <=> Registered(d) /\ EdgeOf[d] = EdgeOf[c]
      BY <1>2, <2>2 DEF Registered, BindInv, Registry
    <3>3. d = old => pc[d] \notin Fresh
      BY <1>2, <3>2 DEF BindInv, Registry, Registered, Linked, Fresh
    <3> QED
      BY <1>1, <1>2, <1>3, <1>4, <2>2, <3>1, <3>2, <3>3 DEF ReplacedOut
  <2> QED
    BY <2>1, <2>2
<1>6. AsReported'
  <2> SUFFICES ASSUME NEW d \in Conns, Registered(d)', NEW k \in KeysOf(d) \ unowned'
               PROVE  view'[k] = TRUE <=> report'[d][k[2]] # FALSE
    BY DEF AsReported, KeysOf
  <2>1. CASE d = c
    <3>1. k \in KeysOf(c) /\ k \in Keys /\ k[2] \in Devices
      BY <2>1, KeysOfLink DEF Keys
    <3>2. view'[k] = TRUE /\ report'[c][k[2]] = None /\ report[c][k[2]] = None
      BY <1>1, <1>3, <3>1
    <3>3. None # FALSE
      BY LinkAssumption
    <3> QED
      BY <2>1, <3>2, <3>3
  <2>2. CASE d # c
    <3>1. k[1] # EdgeOf[c] /\ k \in Keys /\ Registered(d)
      BY <1>4, <2>2, KeysOfLink
    <3>2. k \notin KeysOf(c) /\ k # Whole(EdgeOf[c])
      BY <3>1, KeysOfLink DEF Whole
    <3>3. view'[k] = view[k] /\ k \notin unowned /\ report' = report
      BY <1>1, <3>1, <3>2
    <3> QED
      BY <3>1, <3>3 DEF AsReported
  <2> QED
    BY <2>1, <2>2
<1>7. Explained'
  <2> SUFFICES ASSUME NEW k \in Keys \ unowned', view'[k] = TRUE
               PROVE  \E d \in Conns : k \in KeysOf(d) /\ (Registered(d)' \/ pc'[d] = "removed")
    BY DEF Explained, KeysOf
  <2>1. CASE k \in KeysOf(c)
    BY <1>4, <2>1
  <2>2. CASE k \notin KeysOf(c)
    <3>1. view[k] = TRUE
      BY <1>1, <2>2
    <3>2. k # Whole(EdgeOf[c])
      BY LinkAssumption DEF Keys, Whole
    <3>3. k \notin unowned /\ (old # None => k \notin KeysOf(old))
      BY <1>1, <2>2, <3>2
    <3>4. PICK d \in Conns : k \in KeysOf(d) /\ (Registered(d) \/ pc[d] = "removed")
      BY <3>1, <3>3 DEF Explained
    <3>5. CASE pc[d] = "removed"
      <4>1. pc'[d] = "removed"
        BY <1>1, <3>5
      <4> QED
        BY <3>4, <4>1
    <3>6. CASE Registered(d)
      <4>1. EdgeOf[d] # EdgeOf[c]
        BY <1>2, <3>3, <3>4, <3>6, LinkAssumption DEF Registered
      <4> QED
        BY <1>4, <3>4, <3>6, <4>1
    <3> QED
      BY <3>4, <3>5, <3>6
  <2> QED
    BY <2>1, <2>2
<1>8. CapsHeld'
  <2> SUFFICES ASSUME NEW e \in Edges, caps'[e] # None, Whole(e) \notin unowned'
               PROVE  edges'[e] # None
    BY DEF CapsHeld, Whole
  <2>1. CASE e = EdgeOf[c]
    BY <1>1, <1>2, <2>1
  <2>2. CASE e # EdgeOf[c]
    <3>1. Whole(e) \notin KeysOf(c) /\ Whole(e) # Whole(EdgeOf[c])
      BY <2>2, KeysOfLink, LinkAssumption DEF Whole
    <3>2. Whole(e) \notin unowned /\ edges'[e] = edges[e] /\ caps'[e] = caps[e]
      BY <1>1, <2>2, <3>1
    <3> QED
      BY <3>2 DEF CapsHeld
  <2> QED
    BY <2>1, <2>2
<1>9. PresenceTyped'
  BY <1>1 DEF PresenceTyped
<1> QED
  BY <1>5, <1>6, <1>7, <1>8, <1>9

(* A report of the registered link is what it shows; that of another link   *)
(* is noted as not its own.                                                 *)
LEMMA PresenceApplyState ==
    ASSUME TypeOK, BindInv, PresenceInv, NEW c \in Conns, ApplyState(c)
    PROVE  PresenceInv'
<1> USE DEF TypeOK, PresenceInv
<1> DEFINE v == message[c].device
           k0 == <<EdgeOf[c], v>>
           o == message[c].online
<1>1. /\ pc[c] = "message" /\ pc' = [pc EXCEPT ![c] = "applied"]
      /\ view' = [view EXCEPT ![k0] = o] /\ unowned' = Wrote(c, k0)
      /\ report' = [report EXCEPT ![c][v] = o]
      /\ edges' = edges /\ caps' = caps /\ cancelled' = cancelled
      /\ v \in DevicesOf[c] /\ o \in BOOLEAN
  BY DEF ApplyState, Goes
<1>2. /\ KeysOf(c) \subseteq Keys /\ k0 \in KeysOf(c) /\ v \in Devices
  BY <1>1, KeysOfLink, LinkAssumption
<1> HIDE DEF v, o
<1>3. k0 = <<EdgeOf[c], v>> /\ k0[1] = EdgeOf[c] /\ k0[2] = v
  OBVIOUS
<1> HIDE DEF k0
<1>4. /\ view'[k0] = o /\ \A k \in Keys : k # k0 => view'[k] = view[k]
      /\ \A d \in Conns : d # c => report'[d] = report[d]
      /\ report'[c][v] = o /\ \A w \in Devices : w # v => report'[c][w] = report[c][w]
  BY <1>1, <1>2 DEF PresenceTyped
<1>5. \A k : k # k0 => (k \in unowned' <=> k \in unowned)
  BY <1>1 DEF Wrote
<1>6. k0 \notin unowned' => Registered(c)
  BY <1>1 DEF Wrote
<1>7. \A d \in Conns : Registered(d)' <=> Registered(d)
  BY <1>1 DEF Registered
<1>8. ReplacedOut'
  <2> SUFFICES ASSUME NEW d \in Conns
               PROVE  /\ pc'[d] \in Linked => Registered(d)' \/ d \in cancelled'
                      /\ Registered(d)' => d \notin cancelled'
                      /\ pc'[d] \in Fresh => /\ d \notin cancelled'
                                            /\ \A w \in Devices : report'[d][w] = None
    BY DEF ReplacedOut
  <2>1. (pc'[d] \in Linked => pc[d] \in Linked) /\ (pc'[d] \in Fresh => pc[d] \in Fresh /\ d # c)
    BY <1>1 DEF Linked, Fresh
  <2> QED
    BY <1>1, <1>4, <1>7, <2>1 DEF ReplacedOut
<1>9. AsReported'
  <2> SUFFICES ASSUME NEW d \in Conns, Registered(d)', NEW k \in KeysOf(d) \ unowned'
               PROVE  view'[k] = TRUE <=> report'[d][k[2]] # FALSE
    BY DEF AsReported, KeysOf
  <2>1. Registered(d) /\ k \in Keys /\ k[2] \in Devices
    BY <1>7, KeysOfLink DEF Keys
  <2>2. CASE k = k0
    <3>1. d = c
      BY <1>2, <1>6, <2>1, <2>2, OneRegistered
    <3>2. view'[k] = o /\ report'[d][k[2]] = o
      BY <1>3, <1>4, <2>2, <3>1
    <3> QED
      BY <1>1, <3>2
  <2>3. CASE k # k0
    <3>1. view'[k] = view[k] /\ k \notin unowned
      BY <1>4, <1>5, <2>1, <2>3
    <3>2. d = c => k = <<EdgeOf[c], k[2]>>
      BY DEF KeysOf
    <3>3. report'[d][k[2]] = report[d][k[2]]
      BY <1>3, <1>4, <2>1, <2>3, <3>2
    <3>4. view[k] = TRUE <=> report[d][k[2]] # FALSE
      <4>1. k \in KeysOf(d) \ unowned
        BY <3>1
      <4> QED
        BY <2>1, <4>1 DEF AsReported
    <3> QED
      BY <3>1, <3>3, <3>4
  <2> QED
    BY <2>2, <2>3
<1>10. Explained'
  <2> SUFFICES ASSUME NEW k \in Keys \ unowned', view'[k] = TRUE
               PROVE  \E d \in Conns : k \in KeysOf(d) /\ (Registered(d)' \/ pc'[d] = "removed")
    BY DEF Explained, KeysOf
  <2>1. CASE k = k0
    BY <1>2, <1>6, <1>7, <2>1
  <2>2. CASE k # k0
    <3>1. PICK d \in Conns : k \in KeysOf(d) /\ (Registered(d) \/ pc[d] = "removed")
      BY <1>4, <1>5, <2>2 DEF Explained
    <3> QED
      BY <1>1, <1>7, <3>1
  <2> QED
    BY <2>1, <2>2
<1>11. CapsHeld'
  <2>1. \A e \in Edges : Whole(e) # k0
    BY <1>2, LinkAssumption DEF Whole, Keys
  <2> QED
    BY <1>1, <1>5, <2>1 DEF CapsHeld, Whole
<1>12. PresenceTyped'
  <2>1. \A d \in Conns : DOMAIN report'[d] = Devices
    BY <1>1, <1>4 DEF PresenceTyped
  <2> QED
    BY <1>1, <1>4, <2>1 DEF PresenceTyped
<1> QED
  BY <1>8, <1>9, <1>10, <1>11, <1>12

LEMMA PresenceApplyCapabilities ==
    ASSUME TypeOK, BindInv, PresenceInv, NEW c \in Conns, ApplyCapabilities(c)
    PROVE  PresenceInv'
<1> USE DEF TypeOK, PresenceInv
<1> DEFINE w == Whole(EdgeOf[c])
<1>1. /\ pc[c] = "message" /\ pc' = [pc EXCEPT ![c] = "reading"]
      /\ \A e \in Edges : e # EdgeOf[c] => caps'[e] = caps[e]
      /\ DOMAIN caps' = Edges
      /\ UNCHANGED <<edges, view, cancelled, report>>
      /\ unowned' = Wrote(c, w)
  BY DEF ApplyCapabilities, Goes, PresenceTyped
<1>2. \A k \in Keys : k \in unowned' <=> k \in unowned
  BY <1>1, LinkAssumption DEF Wrote, Whole, Keys
<1>3. \A d \in Conns : Registered(d)' <=> Registered(d)
  BY <1>1 DEF Registered
<1>4. ReplacedOut' /\ PresenceTyped'
  BY <1>1, <1>3 DEF ReplacedOut, PresenceTyped, Linked, Fresh
<1>5. AsReported'
  <2> SUFFICES ASSUME NEW d \in Conns, Registered(d), NEW k \in KeysOf(d) \ unowned'
               PROVE  view'[k] = TRUE <=> report'[d][k[2]] # FALSE
    BY <1>3 DEF AsReported, KeysOf
  <2>1. k \in KeysOf(d) \ unowned
    BY <1>2, KeysOfLink
  <2> QED
    BY <1>1, <2>1 DEF AsReported
<1>6. Explained'
  BY <1>1, <1>2, <1>3 DEF Explained, KeysOf
<1>7. CapsHeld'
  <2> SUFFICES ASSUME NEW e \in Edges, caps'[e] # None, Whole(e) \notin unowned'
               PROVE  edges[e] # None
    BY <1>1 DEF CapsHeld, Whole
  <2>1. CASE e = EdgeOf[c]
    <3>1. Registered(c)
      BY <1>1, <2>1 DEF Wrote
    <3> QED
      BY <2>1, <3>1, LinkAssumption DEF Registered
  <2>2. CASE e # EdgeOf[c]
    <3>1. Whole(e) # w
      BY <2>2 DEF Whole
    <3> QED
      BY <1>1, <2>2, <3>1 DEF Wrote, CapsHeld
  <2> QED
    BY <2>1, <2>2
<1> QED
  BY <1>4, <1>5, <1>6, <1>7

(* What the registered link leaves online it has still to mark offline.     *)
LEMMA PresenceUnregister ==
    ASSUME TypeOK, BindInv, PresenceInv, NEW c \in Conns, Unregister(c)
    PROVE  PresenceInv'
<1> USE DEF TypeOK, PresenceInv
<1>1. /\ pc[c] = "leaving" /\ UNCHANGED <<view, cancelled, report, unowned>>
      /\ pc' = [pc EXCEPT ![c] = IF Registered(c) THEN "removed" ELSE "closed"]
      /\ edges' = IF Registered(c) THEN [edges EXCEPT ![EdgeOf[c]] = None] ELSE edges
      /\ caps' = IF Registered(c) THEN [caps EXCEPT ![EdgeOf[c]] = None] ELSE caps
  BY DEF Unregister, Goes, IsCurrent
<1>2. EdgeOf[c] \in Edges /\ \A d \in Conns : EdgeOf[d] \in Edges /\ d # None
  BY LinkAssumption
<1>3. \A d \in Conns : Registered(d)' <=> Registered(d) /\ d # c
  BY <1>1, <1>2 DEF Registered
<1>4. ReplacedOut' /\ PresenceTyped'
  <2>1. \A d \in Conns : /\ pc'[d] \in Linked => d # c /\ pc[d] \in Linked
                         /\ pc'[d] \in Fresh => pc[d] \in Fresh
    BY <1>1 DEF Linked, Fresh
  <2> QED
    BY <1>1, <1>3, <2>1 DEF ReplacedOut, PresenceTyped
<1>5. AsReported'
  BY <1>1, <1>3 DEF AsReported, KeysOf
<1>6. Explained'
  <2> SUFFICES ASSUME NEW k \in Keys \ unowned, view[k] = TRUE
               PROVE  \E d \in Conns : k \in KeysOf(d) /\ (Registered(d)' \/ pc'[d] = "removed")
    BY <1>1 DEF Explained, KeysOf
  <2>1. PICK d \in Conns : k \in KeysOf(d) /\ (Registered(d) \/ pc[d] = "removed")
    BY DEF Explained
  <2> QED
    BY <1>1, <1>3, <2>1
<1>7. CapsHeld'
  BY <1>1, <1>2 DEF CapsHeld, Whole, PresenceTyped
<1> QED
  BY <1>4, <1>5, <1>6, <1>7

(* What the removed link marks offline is its own, or noted as not its own  *)
(* when another link is registered by now.                                  *)
LEMMA PresenceMarkOffline ==
    ASSUME TypeOK, BindInv, PresenceInv, NEW c \in Conns, MarkOffline(c)
    PROVE  PresenceInv'
<1> USE DEF TypeOK, PresenceInv
<1>1. /\ pc[c] = "removed" /\ UNCHANGED <<edges, caps, cancelled, report>>
      /\ pc' = [pc EXCEPT ![c] = "marked"]
      /\ view' = [k \in Keys |-> IF k \in KeysOf(c) THEN FALSE ELSE view[k]]
      /\ unowned' = IF edges[EdgeOf[c]] = None THEN unowned \ KeysOf(c)
                    ELSE unowned \cup KeysOf(c)
  BY DEF MarkOffline, Goes
<1>2. \A d \in Conns : EdgeOf[d] \in Edges /\ d # None /\ (Registered(d)' <=> Registered(d))
  BY <1>1, LinkAssumption DEF Registered
<1>3. ReplacedOut' /\ PresenceTyped'
  BY <1>1, <1>2 DEF ReplacedOut, PresenceTyped, Linked, Fresh
<1>4. AsReported'
  <2> SUFFICES ASSUME NEW d \in Conns, Registered(d), NEW k \in KeysOf(d) \ unowned'
               PROVE  view'[k] = TRUE <=> report'[d][k[2]] # FALSE
    BY <1>2 DEF AsReported, KeysOf
  <2>1. k \notin KeysOf(c)
    BY <1>1, <1>2, KeysOfLink DEF Registered
  <2>2. k \in Keys /\ k \notin unowned /\ view'[k] = view[k]
    BY <1>1, <2>1, KeysOfLink
  <2> QED
    BY <1>1, <2>2 DEF AsReported
<1>5. Explained'
  <2> SUFFICES ASSUME NEW k \in Keys \ unowned', view'[k] = TRUE
               PROVE  \E d \in Conns : k \in KeysOf(d) /\ (Registered(d)' \/ pc'[d] = "removed")
    BY DEF Explained, KeysOf
  <2>1. k \notin KeysOf(c) /\ view[k] = TRUE /\ k \notin unowned
    BY <1>1
  <2>2. PICK d \in Conns : k \in KeysOf(d) /\ (Registered(d) \/ pc[d] = "removed")
    BY <2>1 DEF Explained
  <2> QED
    BY <1>1, <1>2, <2>1, <2>2
<1>6. CapsHeld'
  <2>1. \A e \in Edges : Whole(e) \notin KeysOf(c)
    BY KeysOfLink, LinkAssumption DEF Whole, Keys
  <2> QED
    BY <1>1, <2>1 DEF CapsHeld, Whole
<1> QED
  BY <1>3, <1>4, <1>5, <1>6

LEMMA PresenceRestart ==
    ASSUME TypeOK, BindInv, PresenceInv, Restart
    PROVE  PresenceInv'
<1> USE DEF TypeOK, PresenceInv
<1>1. /\ edges' = [e \in Edges |-> None] /\ caps' = [e \in Edges |-> None]
      /\ view' = [k \in Keys |-> IF row[k] = None THEN None ELSE FALSE]
      /\ pc' = [c \in Conns |-> IF pc[c] = "new" THEN "new" ELSE "closed"]
      /\ cancelled' = {} /\ report' = report
  BY DEF Restart
<1>2. \A c \in Conns : ~Registered(c)' /\ pc'[c] \notin Linked
                       /\ (pc'[c] \in Fresh => pc[c] \in Fresh)
  BY <1>1, LinkAssumption DEF Registered, Linked, Fresh
<1>3. ReplacedOut' /\ PresenceTyped'
  BY <1>1, <1>2 DEF ReplacedOut, PresenceTyped
<1>4. \A k \in Keys : view'[k] # TRUE
  BY <1>1, LinkAssumption
<1>5. AsReported' /\ Explained' /\ CapsHeld'
  BY <1>1, <1>2, <1>4 DEF AsReported, Explained, CapsHeld
<1> QED
  BY <1>3, <1>5

LEMMA PresenceStep ==
    ASSUME TypeOK, BindInv, PresenceInv, [Next]_vars
    PROVE  PresenceInv'
<1> USE DEF TypeOK, linkVars, browserVars, boundVars
<1>1. ASSUME NEW c \in Conns, UNCHANGED <<edges, view, caps, cancelled, report, unowned>>,
             NEW to, pc' = [pc EXCEPT ![c] = to],
             to \in Linked => pc[c] \in Linked, to \notin Fresh \/ pc[c] \in Fresh,
             pc[c] # "removed"
      PROVE  PresenceInv'
  BY <1>1, QuietPresence
<1>2. ASSUME NEW c \in Conns, Link(c) PROVE PresenceInv'
  <2>1. CASE Hello(c)
    BY <1>1, <2>1 DEF Hello, Goes, Linked, Fresh
  <2>2. CASE Persist(c)
    BY <1>1, <2>2 DEF Persist, Goes, Linked, Fresh
  <2>3. CASE RegisterRefused(c)
    BY <1>1, <2>3 DEF RegisterRefused, Goes, Linked, Fresh
  <2>4. CASE Read(c)
    BY <1>1, <2>4 DEF Read, Goes, Linked, Fresh
  <2>5. CASE Flush(c)
    <3>1. PICK to \in {"tell up", "tell state", "tell down"} :
            /\ pc' = [pc EXCEPT ![c] = to]
            /\ to \in Linked => pc[c] \in {"registered", "applied"}
            /\ pc[c] \in {"registered", "applied", "marked"}
      BY <2>5 DEF Flush, Linked
    <3> QED
      BY <1>1, <2>5, <3>1 DEF Flush, Linked, Fresh
  <2>6. CASE Tell(c)
    <3>1. UNCHANGED <<edges, view, caps, cancelled, report, unowned>>
      BY <2>6 DEF Tell
    <3>2. Goes(c, "tell up", "reading") \/ Goes(c, "tell state", "reading")
             \/ Goes(c, "tell down", "closed")
      BY <2>6 DEF Tell
    <3> QED
      BY <1>1, <3>1, <3>2 DEF Goes, Linked, Fresh
  <2>7. CASE Leave(c)
    BY <1>1, <2>7 DEF Leave, Goes, Linked, Fresh
  <2>8. CASE ApplyBlankState(c)
    BY <1>1, <2>8 DEF ApplyBlankState, Goes, Linked, Fresh
  <2> QED
    BY <1>2, <2>1, <2>2, <2>3, <2>4, <2>5, <2>6, <2>7, <2>8, PresenceRegister, PresenceApplyState,
       PresenceApplyCapabilities, PresenceUnregister, PresenceMarkOffline DEF Link
<1>3. CASE \E b \in Browsers : Browser(b)
  <2>1. UNCHANGED <<edges, view, caps, cancelled, report, unowned, pc>>
    BY <1>3 DEF Browser, BrowserConnects, SnapshotWritten, BrowserWrites, BrowserLeaves
  <2> QED
    BY <2>1, QuietPresence
<1>4. CASE UNCHANGED vars
  BY <1>4, QuietPresence DEF vars
<1> QED
  BY <1>2, <1>3, <1>4, PresenceRestart DEF Next

-----------------------------------------------------------------------------
(* Theorems *)

LEMMA NewLinks == Init => BindInv
BY DEF Init, BindInv, OneTenantPerEdge, MemoryBound, Persisted, Claimed, Registry, Active, Linked

LEMMA Inductive == Spec => [](TypeOK /\ BindInv /\ FrameInv)
<1>1. Init => TypeOK /\ BindInv /\ FrameInv
  <2>1. ASSUME Init
        PROVE  FrameInv
    BY <2>1, FS_EmptySet, EmptySeq DEF Init, FrameInv, ShownBound, PendBound, PendFinite,
                                      QueuesOwn, SnapsOwn, OwnFrames
  <2> QED
    BY <2>1, TypeInit, NewLinks
<1>2. TypeOK /\ BindInv /\ FrameInv /\ [Next]_vars => (TypeOK /\ BindInv /\ FrameInv)'
  BY TypeStep, BindStep, FrameStep
<1> QED
  BY <1>1, <1>2, PTL DEF Spec

(* The bindings in memory are those of the store, but on an edge whose      *)
(* tenant could not be looked up, and a registered link declares only       *)
(* devices of its own tenant, for any number of hellos that overtake one    *)
(* another (ws.go:268-283).                                                 *)
THEOREM BindingsAgree == Spec => []BindingAgrees
<1>1. BindInv => BindingAgrees
  <2> SUFFICES ASSUME BindInv, NEW c \in Conns, Registered(c), NEW k \in KeysOf(c)
               PROVE  row[k] # None /\ row[k].tenant = TenantOf(c)
    BY DEF BindInv, MemoryBound, BindingAgrees
  <2>1. EdgeOf[c] \in Edges /\ c # None
    BY LinkAssumption
  <2> QED
    BY <2>1 DEF BindInv, Registry, Persisted, RowsOf, Registered, Active
<1> QED
  BY <1>1, Inductive, PTL

(* Of what names a device or an edge, a browser gets frames and a snapshot  *)
(* of its own tenant only, whatever links have come and gone since, but of  *)
(* an edge whose tenant could not be looked up (server.go:656, 682-694,     *)
(* ws.go:193-195).                                                          *)
THEOREM FramesStay == Spec => []FramesStayInTenant
<1>1. TypeOK /\ FrameInv => FramesStayInTenant
  <2> SUFFICES ASSUME TypeOK, FrameInv, NEW b \in Browsers, BrowserTenant[b] # All
               PROVE  /\ \A i \in 1..Len(queue[b]) :
                            LET f == queue[b][i]
                            IN  f.about # {Blank} /\ ~Misnamed(f.edge) =>
                                   f.owner = BrowserTenant[b]
                      /\ snap[b] # None =>
                            \A k \in snap[b] \ {Blank} :
                               ~Misnamed(k[1]) => row[k] # None /\ row[k].tenant = BrowserTenant[b]
    BY DEF FramesStayInTenant
  <2>1. ASSUME NEW i \in 1..Len(queue[b])
        PROVE  queue[b][i] \in OwnFrames(b)
    BY ElementOfSeq DEF FrameInv, QueuesOwn
  <2> QED
    BY <2>1 DEF OwnFrames, Excepted, FrameInv, SnapsOwn
<1> QED
  BY <1>1, Inductive, PTL

(* At rest the registered link is the only one that is connected, and only  *)
(* what it declares and reports is online.                                  *)
LEMMA PresenceImplied == TypeOK /\ BindInv /\ PresenceInv => PresenceIsTrue
<1> SUFFICES ASSUME TypeOK, BindInv, PresenceInv PROVE PresenceIsTrue
  OBVIOUS
<1> USE DEF TypeOK, PresenceInv
<1>1. ASSUME NEW e \in Edges, AtRest(e), edges[e] # None
      PROVE  edges[e] \in Conns /\ EdgeOf[edges[e]] = e /\ Connected(edges[e])
  <2>1. /\ edges[e] \in Conns /\ EdgeOf[edges[e]] = e /\ pc[edges[e]] \in Linked
    BY <1>1 DEF BindInv, Registry
  <2> QED
    BY <1>1, <2>1 DEF AtRest, Linked
<1>2. ASSUME NEW c \in Conns, Connected(c) PROVE Registered(c)
  BY <1>2 DEF Connected, ReplacedOut, Linked
<1>3. ASSUME NEW k \in Keys \ unowned, view[k] # None, AtRest(k[1])
      PROVE  view[k] = TRUE <=> Reachable(k)
  <2>1. ASSUME view[k] = TRUE PROVE Reachable(k)
    <3>1. PICK c \in Conns : k \in KeysOf(c) /\ (Registered(c) \/ pc[c] = "removed")
      BY <2>1 DEF Explained
    <3>2. EdgeOf[c] = k[1] /\ k[1] \in Edges /\ c # None
      BY <3>1, KeysOfLink, LinkAssumption
    <3>3. Registered(c)
      BY <1>3, <3>1, <3>2 DEF AtRest, Connected
    <3>4. Connected(c)
      BY <1>1, <1>3, <3>2, <3>3 DEF Registered
    <3>5. report[c][k[2]] # FALSE
      BY <2>1, <3>1, <3>3 DEF AsReported
    <3> QED
      BY <3>1, <3>4, <3>5 DEF Reachable
  <2>2. ASSUME Reachable(k) PROVE view[k] = TRUE
    BY <1>2, <2>2 DEF Reachable, AsReported
  <2> QED
    BY <2>1, <2>2
<1>4. ASSUME NEW k \in Keys \ unowned, view[k] # None, AtRest(k[1])
      PROVE  view[k] <=> Reachable(k)
  <2>1. view[k] \in BOOLEAN
    BY <1>4 DEF PresenceTyped
  <2>2. view[k] <=> view[k] = TRUE
    BY <2>1
  <2> QED
    BY <1>3, <1>4, <2>2
<1>5. ASSUME NEW e \in Edges, caps[e] # None, AtRest(e), Whole(e) \notin unowned
      PROVE  \E c \in Conns : EdgeOf[c] = e /\ Connected(c)
  BY <1>1, <1>5 DEF CapsHeld
<1> QED
  BY <1>4, <1>5 DEF PresenceIsTrue

(* The connection decides, whatever links of one edge overtake one another: *)
(* at rest a device is online exactly if a connected link declares it and   *)
(* has not said otherwise, but for what a link wrote that was not the       *)
(* registered one (ws.go:303-305, 325).                                     *)
THEOREM PresenceHolds == Spec => []PresenceIsTrue
<1>1. ASSUME Init PROVE PresenceInv
  <2>1. \A c \in Conns : ~Registered(c) /\ pc[c] \notin Linked
    BY <1>1, LinkAssumption DEF Init, Registered, Linked
  <2>2. ReplacedOut
    BY <1>1, <2>1 DEF Init, ReplacedOut
  <2>3. \A k \in Keys : view[k] = None /\ None # TRUE
    BY <1>1, LinkAssumption DEF Init
  <2>4. AsReported /\ Explained
    BY <2>1, <2>3 DEF AsReported, Explained
  <2>5. CapsHeld /\ PresenceTyped
    BY <1>1, <2>3 DEF Init, CapsHeld, PresenceTyped
  <2> QED
    BY <2>2, <2>4, <2>5 DEF PresenceInv
<1>2. TypeOK /\ BindInv /\ PresenceInv /\ [Next]_vars => PresenceInv'
  BY PresenceStep
<1>3. Spec => []PresenceInv
  BY <1>1, <1>2, Inductive, PTL DEF Spec
<1> QED
  BY <1>3, PresenceImplied, Inductive, PTL
=============================================================================
