--------------------------- MODULE MCInstanceHost ---------------------------
(* TLC instances of InstanceHost: a shared definition with and without a     *)
(* configuration, a process of its own at either version.                    *)
EXTENDS InstanceHost, TLC

CONSTANTS v1, v2, a

Define(v, c, own) == [version |-> v, config |-> c, own |-> own]
MCDefinitions == {Define(v1, Empty, FALSE), Define(v1, a, FALSE),
                  Define(v2, a, TRUE)}
MCExisting == {Define(v1, a, FALSE), Define(v1, a, TRUE)}
MCVersions == {v1, v2}
MCConfigs  == {Empty, a}

\* bound: a second snapshot after one fault, while only one instance is in use
Spare(i) == rec[i] = None /\ file[i] = None /\ op.i # i
Budget == applies <= 1 \/ (faults <= 1 /\ \E i \in Instances : Spare(i))

Symmetry == Permutations(Groups) \cup Permutations(Instances)
=============================================================================
