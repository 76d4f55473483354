----------------------------- MODULE MCAppHost -----------------------------
(***************************************************************************)
(* Instances of AppHost for TLC, and of Binding: two devices of one or two *)
(* tenants, two entities, capabilities in two versions, one of which is    *)
(* exclusive.                                                              *)
(***************************************************************************)
EXTENDS AppHost, Binding

Buzzer(v) == [base |-> "buzzer", version |-> v]
Key(v)    == [base |-> "key", version |-> v]

MCExclusive == {Buzzer(1)}
MCCapSets   == {{}, {Buzzer(1)}, {Buzzer(2), Key(1)}}

MCRequirements ==
    [cap : {Buzzer(1), Buzzer(2), Key(0)}, card : {"one"}, min : {0}]
    \cup [cap : {Buzzer(1)}, card : {"one-or-more"}, min : {2}]
    \cup [cap : {Key(1)}, card : {"zero-or-one"}, min : {0}]

(* internal/appruntime/effect.go: a command or an event of an Application    *)
(* that runs finds what was bound when it was accepted, however long ago.    *)
AddressedAsBound == (\E i \in Insts : running[i] # None) => Addressed

(* internal/server/app_binding_conflicts.go: of two Applications that run at *)
(* the same time no two bindings drive one exclusive actuator.               *)
OneDriver ==
    (\A i \in Insts : running[i] # None) => DrivenByOne
=============================================================================
