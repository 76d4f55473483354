------------------------------ MODULE Binding ------------------------------
(***************************************************************************)
(* How an Application is tied to entities of devices: application.Binder,  *)
(* which matches or validates bindings when an instance starts, and the    *)
(* code that reads the accepted bindings later, in a world that may have   *)
(* changed: effects that request a command, events of a device, and the    *)
(* check that two Applications do not drive the same actuator.             *)
(*                                                                         *)
(* Pure operators. Device keys are numbered in their order from 1, 0 is    *)
(* the empty key of a binding that names no device; the id of a requirement*)
(* is its place in the list. Requirement.AllowReuse is left out: the Server*)
(* never sets it.                                                          *)
(***************************************************************************)
EXTENDS Naturals, SequencesExt

CONSTANTS
    NDevices, NEntities,
    Exclusive,      \* exclusiveBindingCapabilities
    \* the inputs looked at
    Owner,          \* the tenant of the instances
    Owners,         \* the tenants of the devices
    CapSets,        \* what a device may declare of an entity
    Requirements    \* the requirements an Application may declare

ASSUME BindingAssumption == {NDevices, NEntities} \subseteq Nat /\ Owner \in Owners

Devices  == 1..NDevices
Entities == 1..NEntities

\* a world: what each device declares ({}: not this entity), who owns it,
\* which devices are online
Declares(w, d, e) == w.caps[d][e] # {}

-----------------------------------------------------------------------------
(* Capabilities *)

\* version 0: the requirement names no version; a newer one will do
Satisfies(offered, required) ==
    /\ offered.base = required.base
    /\ required.version = 0 \/ offered.version >= required.version

Provides(c, required) == \E cap \in c.caps : Satisfies(cap, required)

RequirementValid(r) == r.card \in {"one", "zero-or-one"} => r.min <= 1

-----------------------------------------------------------------------------
(* Candidates *)

\* the n-th entity in the order of devices and entities
CandidateAt(w, n) ==
    LET d == (n - 1) \div NEntities + 1
        e == ((n - 1) % NEntities) + 1
    IN  [dev |-> d, ent |-> e, caps |-> w.caps[d][e]]

Offered(w, tenant, c) == Declares(w, c.dev, c.ent) /\ w.owner[c.dev] = tenant

\* the entities of the tenant's devices, by device and entity
Candidates(w, tenant) ==
    LET upto[n \in 0..(NDevices * NEntities)] ==
            IF n = 0 THEN <<>>
            ELSE IF Offered(w, tenant, CandidateAt(w, n))
                 THEN Append(upto[n - 1], CandidateAt(w, n)) ELSE upto[n - 1]
    IN  upto[NDevices * NEntities]

\* the candidates a binding may mean
Meant(b, cands) == {c \in ToSet(cands) : c.ent = b.ent /\ b.dev \in {0, c.dev}}

-----------------------------------------------------------------------------
(* Match *)

Needed(r) == IF r.card = "one-or-more" /\ r.min > 1 THEN r.min ELSE 1

\* what no requirement before took
Unused(avail, used) == SelectSeq(avail, LAMBDA c : <<c.dev, c.ent>> \notin used)

\* the first of them with the capability
Pick(r, cands, used) ==
    LET avail == SelectSeq(cands, LAMBDA c : Provides(c, r.cap))
        unused == Unused(avail, used)
    IN  IF avail = <<>> /\ r.card = "zero-or-one" THEN [ok |-> TRUE, picked |-> <<>>]
        ELSE IF Len(unused) < Needed(r) THEN [ok |-> FALSE, picked |-> <<>>]
        ELSE [ok |-> TRUE, picked |-> SubSeq(unused, 1, Needed(r))]

\* requirement after requirement, never taking a choice back
Greedy(reqs, cands) ==
    LET Take(acc, n) ==
            LET p == Pick(reqs[n], cands, {<<b.dev, b.ent>> : b \in ToSet(acc.bindings)})
            IN  IF ~acc.ok \/ ~p.ok THEN [acc EXCEPT !.ok = FALSE]
                ELSE [acc EXCEPT !.bindings = @ \o [m \in DOMAIN p.picked |->
                        [req |-> n, ent |-> p.picked[m].ent, dev |-> p.picked[m].dev]]]
    IN  FoldLeftDomain(Take, [ok |-> TRUE, bindings |-> <<>>], reqs)

-----------------------------------------------------------------------------
(* Validate *)

BindingKnown(b, reqs, cands) ==
    /\ b.req \in DOMAIN reqs
    /\ \E c \in ToSet(cands) : Meant(b, cands) = {c} /\ Provides(c, reqs[b.req].cap)

CountOK(n, r) ==
    CASE r.card = "one"         -> n = 1
      [] r.card = "zero-or-one" -> n <= 1
      [] r.card = "one-or-more" -> n >= Needed(r)

\* Mutant: the same entity of several devices may be bound.
DistinctOnly(bs, cands) ==
    \A m, n \in DOMAIN bs : m # n => Meant(bs[m], cands) # Meant(bs[n], cands)

\* no target twice, and no entity on two devices
Distinct(bs, cands) == \A m, n \in DOMAIN bs : m # n => bs[m].ent # bs[n].ent

Valid(reqs, cands, bs) ==
    /\ \A r \in ToSet(reqs) : RequirementValid(r)
    /\ Distinct(bs, cands)
    /\ \A n \in DOMAIN reqs : CountOK(Len(SelectSeq(bs, LAMBDA b : b.req = n)), reqs[n])
    /\ \A b \in ToSet(bs) : BindingKnown(b, reqs, cands)

\* the bindings an instance may start with: those Match chooses, or the
\* app_bindings of its configuration
Selected(reqs, cands, explicit) ==
    LET g == Greedy(reqs, cands)
    IN  {bs \in explicit : Valid(reqs, cands, bs)}
        \cup (IF g.ok /\ Valid(reqs, cands, g.bindings) THEN {g.bindings} ELSE {})

-----------------------------------------------------------------------------
(* The bindings of a running instance *)

\* an effect names an entity: all its bindings must name one device, and a
\* candidate of the start must be what it means
CommandBinding(bs, cands, e) ==
    LET of == {b \in ToSet(bs) : b.ent = e}
    IN  IF \A b, c \in of : b.dev = c.dev
        THEN {b \in of : Meant(b, cands) # {}} ELSE {}

\* the device of the binding, or the only online one with the entity,
\* whoever owns it
DeviceFor(b, w) ==
    LET having == {d \in Devices : Declares(w, d, b.ent) /\ d \in w.online}
    IN  IF b.dev # 0 THEN having \cap {b.dev}
        ELSE IF \E d \in having : having = {d} THEN having ELSE {}

\* and the link of its edge must be the tenant's
Commanded(b, w, tenant) == {d \in DeviceFor(b, w) : w.owner[d] = tenant}

\* the requirements an event of an entity is delivered for
EventRoutes(bs, w, d, e, tenant) ==
    {b.req : b \in {c \in ToSet(bs) : c.ent = e /\ c.dev \in {0, d} /\ w.owner[d] = tenant}}

\* Mutant: a binding that names no device is compared like the others.
ClashesExactly(mine, b, theirs, c) ==
    /\ mine \in Exclusive /\ mine = theirs
    /\ b.ent = c.ent /\ b.dev = c.dev

\* another instance drives the actuator; no device means any
Clashes(mine, b, theirs, c) ==
    /\ mine \in Exclusive /\ mine = theirs
    /\ b.ent = c.ent
    /\ b.dev = c.dev \/ 0 \in {b.dev, c.dev}

-----------------------------------------------------------------------------
(* Every list of up to two requirements in every world *)

Worlds == [caps : [Devices -> [Entities -> CapSets]], owner : [Devices -> Owners],
           online : SUBSET Devices]

OneBinding == [req : 1..2, ent : Entities, dev : {0} \cup Devices]

Explicit == UNION {[1..n -> OneBinding] : n \in 1..2}

Lists == UNION {[1..n -> Requirements] : n \in 1..2}

\* what may be running, with the world it was started in
Accepted ==
    UNION {{[world |-> w, reqs |-> reqs, bs |-> bs] :
              bs \in Selected(reqs, Candidates(w, Owner), Explicit)} :
           w \in {v \in Worlds : v.online = Devices}, reqs \in Lists}

\* what AppHost keeps of it in h.running
Held == {{[ent |-> b.ent, dev |-> b.dev, cap |-> s.reqs[b.req].cap] : b \in ToSet(s.bs)} :
         s \in Accepted}

RightDevice(s, b, cands, w) ==
    /\ b.dev \in w.online => Commanded(b, w, Owner) = {b.dev}
    /\ \A d \in Commanded(b, w, Owner) :
          /\ \E c \in Meant(b, cands) : c.dev = d /\ Provides(c, s.reqs[b.req].cap)
          /\ EventRoutes(s.bs, w, d, b.ent, Owner) = {b.req}

(* internal/appruntime/effect.go, commandBinding: the plugin protocol names  *)
(* an entity and no device. For what Binder accepts that is enough: as long  *)
(* as the descriptors stay, a command reaches the device and the capability  *)
(* that were bound, and events of that device come back for the requirement  *)
(* it was bound for, in no other tenant and with any device offline.         *)
Addressed ==
    \A s \in Accepted :
        LET cands == Candidates(s.world, Owner)
        IN  \A b \in ToSet(s.bs) :
                /\ CommandBinding(s.bs, cands, b.ent) = {b}
                /\ \A on \in SUBSET Devices :
                      RightDevice(s, b, cands, [s.world EXCEPT !.online = on])

(* internal/server/app_binding_conflicts.go: two Applications that both      *)
(* started, one after the other and in different worlds, never command the   *)
(* same entity of the same device for the same exclusive capability, however *)
(* the devices come, go and change afterwards.                               *)
DrivenByOne ==
    \A mine, theirs \in Held :
        (\A b \in mine, c \in theirs : ~Clashes(b.cap, b, c.cap, c)) =>
            \A b \in mine, c \in theirs :
                b.ent = c.ent /\ b.cap = c.cap /\ b.cap \in Exclusive =>
                    \A w \in Worlds : Commanded(b, w, Owner) \cap Commanded(c, w, Owner) = {}
=============================================================================
