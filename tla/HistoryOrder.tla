----------------------------- MODULE HistoryOrder -----------------------------
(***************************************************************************)
(* The place of a producer timestamp in a history                          *)
(* (read-model/src/history-order.ts).  A timestamp is what its text reads  *)
(* to: the local day, minute of the day, second and millisecond, and the   *)
(* offset from UTC in minutes.  A second of 60 is a leap second.           *)
(***************************************************************************)
EXTENDS Integers

\* Date.parse of an ordinary timestamp, in milliseconds.
DateParse(t) == ((t.day * 1440 + t.minute - t.offset) * 60 + t.second) * 1000 + t.ms

\* What the pattern and the ranges let through: 60 only at the end of a UTC day.
Acceptable(t) ==
  /\ t.minute \in 0..1439
  /\ t.second \in 0..60 /\ t.ms \in 0..999
  /\ t.second = 60 => (t.minute - t.offset) % 1440 = 1439

Stamps == {t \in [day : Int, minute : Int, second : Int, ms : Int, offset : Int] : Acceptable(t)}

\* A leap second is placed after the last millisecond before it.
HistoryInstant(t) ==
  IF t.second < 60
  THEN [epochMs |-> DateParse(t), leap |-> 0]
  ELSE [epochMs |-> DateParse([t EXCEPT !.second = 59, !.ms = 999]), leap |-> 1 + t.ms]

\* compareHistoryOccurrences, and the row comparison PostgreSQL makes of its columns.
Before(a, b) ==
  \/ a.at.epochMs < b.at.epochMs
  \/ /\ a.at.epochMs = b.at.epochMs
     /\ \/ a.at.leap < b.at.leap
        \/ /\ a.at.leap = b.at.leap
           /\ \/ a.run < b.run
              \/ a.run = b.run /\ a.execution < b.execution

\* The reference: the clock on the wall at Greenwich, on which 60 follows 59.
InTimeOrder(s, t) ==
  LET utc(x) == x.day * 1440 + x.minute - x.offset
  IN  \/ utc(s) < utc(t)
      \/ utc(s) = utc(t) /\ s.second < t.second
      \/ utc(s) = utc(t) /\ s.second = t.second /\ s.ms <= t.ms
===============================================================================
