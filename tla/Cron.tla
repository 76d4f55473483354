-------------------------------- MODULE Cron --------------------------------
(***************************************************************************)
(* server/cron.go: five fields, the sets they parse to, and the scan for   *)
(* the next minute an expression matches. The calendar is a small one: its *)
(* units are constants, a time is a number of minutes, and the location is *)
(* a constant offset.                                                      *)
(***************************************************************************)
EXTENDS Integers, FiniteSets

CONSTANTS
    Minutes, Hours, Days, Months, Weekdays,     \* how many there are
    Offset,         \* minutes the location is ahead
    ScanLimit,      \* cronScanLimit
    Nothing            \* "no time", "no row"

ASSUME CronAssumption ==
    /\ {Minutes, Hours, Days, Months, Weekdays, ScanLimit} \subseteq Nat \ {0}
    /\ Offset \in Nat

(***************************************************************************)
(* Parsing                                                                 *)
(***************************************************************************)

\* the bare star, and a list of ranges lo-hi/step
Star == [star |-> TRUE, parts |-> {}]

Parts(parts) == [star |-> FALSE, parts |-> parts]

At(v) == Parts({[lo |-> v, hi |-> v, step |-> 1]})

FieldNames == {"minute", "hour", "dom", "month", "dow"}

FieldRange == [minute |-> 0..(Minutes - 1), hour |-> 0..(Hours - 1), dom |-> 1..Days,
               month |-> 1..Months, dow |-> 0..(Weekdays - 1)]

PartParses(p, range) == p.step > 0 /\ p.lo \in range /\ p.hi \in range /\ p.lo <= p.hi

FieldParses(f, range) == f.star \/ (f.parts # {} /\ \A p \in f.parts : PartParses(p, range))

FieldSet(f, range) ==
    IF f.star THEN range
    ELSE UNION {{v \in p.lo..p.hi : (v - p.lo) % p.step = 0} : p \in f.parts}

Parses(spec) == \A n \in FieldNames : FieldParses(spec[n], FieldRange[n])

(***************************************************************************)
(* Matching                                                                *)
(***************************************************************************)

\* the fields of the minute t where the schedule lives
Calendar(t) ==
    LET hours == (t + Offset) \div Minutes
        days  == hours \div Hours
    IN  [minute |-> (t + Offset) % Minutes,
         hour   |-> hours % Hours,
         dom    |-> (days % Days) + 1,
         month  |-> ((days \div Days) % Months) + 1,
         dow    |-> days % Weekdays]

\* day of month and day of week: OR once both are restricted
DayMatches(spec, c) ==
    LET dom == c.dom \in FieldSet(spec.dom, FieldRange.dom)
        dow == c.dow \in FieldSet(spec.dow, FieldRange.dow)
    IN  CASE spec.dom.star /\ spec.dow.star -> TRUE
          [] spec.dom.star /\ ~spec.dow.star -> dow
          [] ~spec.dom.star /\ spec.dow.star -> dom
          [] OTHER -> dom \/ dow

Matches(spec, t) ==
    LET c == Calendar(t)
    IN  /\ \A n \in {"minute", "hour", "month"} : c[n] \in FieldSet(spec[n], FieldRange[n])
        /\ DayMatches(spec, c)

\* strictly after t, within the scan
NextAfter(spec, t) ==
    LET hits == {u \in (t + 1)..(t + ScanLimit) : Matches(spec, u)}
    IN  IF hits = {} THEN Nothing ELSE CHOOSE u \in hits : \A v \in hits : u <= v
=============================================================================
