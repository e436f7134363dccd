---------------------------- MODULE AppendOnlyLog ----------------------------
(***************************************************************************)
(* What internal/audit promises to the daemon and to the commands that use *)
(* it: a log that only grows, in which a successful Append has a position  *)
(* of its own that holds its body for ever.  Whatever happens to a writer, *)
(* its entry is either in the log or not; it may be there without having   *)
(* been acknowledged (the writer died), never the other way round.         *)
(***************************************************************************)
EXTENDS Integers, Sequences

CONSTANT Body

VARIABLES
  log,    \* the bodies recorded, in order
  acked   \* <<position, body>> of the appends that returned without error

vars == <<log, acked>>

Init == log = <<>> /\ acked = {}

Record(b) ==
  /\ log' = Append(log, b)
  /\ UNCHANGED acked

Acknowledge(n) ==
  /\ <<n, log[n]>> \notin acked
  /\ acked' = acked \cup {<<n, log[n]>>}
  /\ UNCHANGED log

Next == \/ \E b \in Body : Record(b)
        \/ \E n \in 1..Len(log) : Acknowledge(n)

Spec == Init /\ [][Next]_vars
=============================================================================
