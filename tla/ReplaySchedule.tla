--------------------------- MODULE ReplaySchedule ----------------------------
(***************************************************************************)
(* How tools/itch_replay.cpp turns the time stamps of two messages into    *)
(* the cycles between their arrivals.                                      *)
(***************************************************************************)
EXTENDS Integers

CONSTANT GapCap          \* gap_cap; 256 unless --gap-cap-cycles says otherwise

ASSUME ScheduleAssumption == GapCap \in Nat

NsNumerator == 512       \* a cycle is 512/165 ns
NsDenominator == 165

\* Nanoseconds from one time stamp to the next; none when time goes back.
Elapsed(from, to) == IF to > from THEN to - from ELSE 0

\* The cycles in a number of nanoseconds, rounded down.
Cycles(ns) == (ns * NsDenominator) \div NsNumerator

\* An idle gap as the schedule has it.  Mutants: the cap is compared with the
\* nanoseconds; what the cap cuts off is added instead.
CappedBeforeConversion(cycles) ==
  IF (cycles * NsNumerator) \div NsDenominator < GapCap THEN cycles ELSE GapCap

CappedTwice(cycles) == IF cycles < GapCap THEN cycles ELSE 2 * cycles - GapCap

Capped(cycles) == IF cycles < GapCap THEN cycles ELSE GapCap
==============================================================================
