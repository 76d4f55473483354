----------------------------- MODULE MCAppJobs -----------------------------
(***************************************************************************)
(* Expressions for TLC: every minute; every second minute; a day that is   *)
(* both numbered and of the week, which the small calendar has further     *)
(* apart than the scan looks; and one that does not parse.                 *)
(***************************************************************************)
EXTENDS AppJobs

Always == [n \in FieldNames |-> Star]

Rare == [Always EXCEPT !.minute = At(0),
                       !.hour = Parts({[lo |-> 0, hi |-> Hours - 1, step |-> 2]}),
                       !.dom = At(2), !.dow = At(3)]

MCCrons == {Always, [Always EXCEPT !.minute = At(1)], Rare,
            [Always EXCEPT !.month = At(Months + 1)]}
=============================================================================
