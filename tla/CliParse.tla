------------------------------- MODULE CliParse -------------------------------
(***************************************************************************)
(* internal/cli/cli.go: the sizes and lifetimes an operator types.  A text *)
(* is a number and a unit; integers are two's complement words up to       *)
(* MaxInt, which the multiplication by the unit may leave.  A duration is  *)
(* counted in ticks, the shortest unit; the code's values are              *)
(* MaxInt = 2^63 - 1, Kilo = 1024, HoursPerDay = 24.                       *)
(***************************************************************************)
EXTENDS Integers

CONSTANTS
  MaxInt,          \* the largest int64 and time.Duration
  Kilo,            \* bytes in a KB
  TicksPerSecond, TicksPerHour, HoursPerDay

ASSUME ParseAssumption ==
  /\ MaxInt \in Nat
  /\ {Kilo, TicksPerSecond, TicksPerHour, HoursPerDay} \subseteq Nat \ {0}

\* Of the words, as many are negative as are not.
Wrap(n) == ((n + MaxInt + 1) % (2 * (MaxInt + 1))) - (MaxInt + 1)

Multiplier == [B |-> 1, KB |-> Kilo, MB |-> Kilo * Kilo, GB |-> Kilo * Kilo * Kilo]

\* strconv.ParseInt takes the number, and it is not negative.
SizeParses(text) == text.num \in 0..MaxInt

ParseSize(text) == Wrap(text.num * Multiplier[text.unit])

Unlimited == [num |-> 0, unit |-> "unlimited"]

\* Mutant: the unit that fits, rounded down.
FormatSizeRounded(n) ==
  IF n = 0 THEN Unlimited
  ELSE LET unit == CHOOSE u \in DOMAIN Multiplier :
             /\ Multiplier[u] <= n
             /\ \A v \in DOMAIN Multiplier : Multiplier[v] <= n => Multiplier[v] <= Multiplier[u]
       IN [num |-> n \div Multiplier[unit], unit |-> unit]

\* The largest unit that divides n.
FormatSize(n) ==
  IF n = 0 THEN Unlimited
  ELSE LET unit == CHOOSE u \in DOMAIN Multiplier :
             /\ n % Multiplier[u] = 0
             /\ \A v \in DOMAIN Multiplier : n % Multiplier[v] = 0 => Multiplier[v] <= Multiplier[u]
       IN [num |-> n \div Multiplier[unit], unit |-> unit]

Ticks == [ms |-> 1, s |-> TicksPerSecond, h |-> TicksPerHour, d |-> HoursPerDay * TicksPerHour]

\* The number of days must fit in a word, time.ParseDuration refuses any other
\* duration that does not; a bare 0 needs no unit.
TTLParses(text) ==
  IF text.unit = "d" THEN text.num \in 0..MaxInt
  ELSE text.num * Ticks[text.unit] \in 0..MaxInt

ParseTTL(text) == Wrap(text.num * Ticks[text.unit])
=============================================================================
