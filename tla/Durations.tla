----------------------------- MODULE Durations -----------------------------
(***************************************************************************)
(* Go's time.Duration at its width: signed nanoseconds that wrap around.   *)
(* The width and the units are parameters: in Go a Duration is below 2^63, *)
(* and there are 10^6 nanoseconds to the millisecond and 1000 of these to  *)
(* the second.                                                             *)
(***************************************************************************)
EXTENDS Integers

CONSTANTS
  DurationLimit,    \* 2^63: a Duration is in -DurationLimit..(DurationLimit - 1)
  Millisecond,
  MillisPerSecond

ASSUME DurationAssumption ==
  DurationLimit \in Nat \ {0} /\ Millisecond \in Nat \ {0} /\ MillisPerSecond \in Nat \ {0}

Second == Millisecond * MillisPerSecond

\* The value of an int64 computation.
Wrap(n) == ((n + DurationLimit) % (2 * DurationLimit)) - DurationLimit

\* Go's division truncates.
Quotient(d, unit) == IF d >= 0 THEN d \div unit ELSE -((-d) \div unit)

\* Duration.Milliseconds, and time.Duration(n) * time.Millisecond or Second.
Milliseconds(d) == Quotient(d, Millisecond)
OfMillis(n) == Wrap(n * Millisecond)
OfSeconds(n) == Wrap(n * Second)
=============================================================================
