----------------------------- MODULE Registration -----------------------------
(***************************************************************************)
(* From the flags of caller add to the verdict on a request: an operator   *)
(* types keys, globs, a size and a lifetime (cmdCallerAdd), the record is  *)
(* stored, and later a request is evaluated against it (policy.Evaluate).  *)
(* Is what was typed what is enforced?                                     *)
(***************************************************************************)
EXTENDS CliParse, Glob, Policy

CONSTANTS
  Trials,    \* families of trials: flags, when they are typed, and a request later on
  NoCaller

\* A text is a sequence of bytes, a caller's record as CmdCallerAdd stores it.
Text == Seq(STRING)

Trial ==
  [flags : [keys : Seq(Text), artifacts : Seq(Text), rate : Int,
            maxSize : [num : Int, unit : DOMAIN Multiplier],
            ttl : [num : Int, unit : DOMAIN Ticks]],
   want : [key : Text, artifact : Text, size : Nat],
   at : Nat, wait : Nat]

Record == [keys : SUBSET Text, artifacts : SUBSET Text, maxSize : Int, expires : Int]

ASSUME TrialsAssumption ==
  /\ \A family \in Trials : family \subseteq Trial
  /\ NoCaller \notin Record

VARIABLES
  trial,     \* the flags, the request and their moments
  phase,     \* "typed", "refused", "registered", "answered"
  caller,    \* the stored record
  verdict    \* of policy.Evaluate

vars == <<trial, phase, caller, verdict>>

flags == trial.flags

Init ==
  /\ \E family \in Trials : trial \in family
  /\ phase = "typed" /\ caller = NoCaller /\ verdict = "none"

\* stringList.Set of the parts between commas: blank ones are dropped.
StringList(parts) == {parts[i] : i \in 1..Len(parts)} \ {<<>>}

\* Mutant: a list that names nothing will do.
FlagsParseEmpty ==
  SizeParses(flags.maxSize) /\ TTLParses(flags.ttl) /\ flags.rate >= 0

FlagsParse ==
  /\ StringList(flags.keys) # {} /\ StringList(flags.artifacts) # {}
  /\ SizeParses(flags.maxSize) /\ TTLParses(flags.ttl) /\ flags.rate >= 0

\* A time in RFC 3339 has whole seconds.
RFC3339(t) == t - (t % TicksPerSecond)

\* The record that is stored.  Of the artifacts its globs match, the one asked for
\* later is all that matters.
CmdCallerAdd ==
  LET life == ParseTTL(flags.ttl) IN
  /\ phase = "typed" /\ FlagsParse
  /\ caller' = [keys |-> StringList(flags.keys),
                artifacts |-> {a \in {trial.want.artifact} :
                                 \E p \in StringList(flags.artifacts) : Match(p, a)},
                maxSize |-> ParseSize(flags.maxSize),
                expires |-> IF life > 0 THEN RFC3339(trial.at + life) ELSE Never]
  /\ phase' = "registered"
  /\ UNCHANGED <<trial, verdict>>

\* A usage error: nothing is stored.
CmdCallerAddRefused ==
  /\ phase = "typed" /\ ~FlagsParse
  /\ phase' = "refused"
  /\ UNCHANGED <<trial, caller, verdict>>

Request ==
  /\ phase = "registered"
  /\ verdict' = Evaluate(caller, trial.want, trial.at + trial.wait)
  /\ phase' = "answered"
  /\ UNCHANGED <<trial, caller>>

Next == CmdCallerAdd \/ CmdCallerAddRefused \/ Request

Spec == Init /\ [][Next]_vars

-----------------------------------------------------------------------------

\* What the operator meant: numbers without a width, globs by what they denote.
Size == flags.maxSize.num * Multiplier[flags.maxSize.unit]
Lifetime == flags.ttl.num * Ticks[flags.ttl.unit]
NumbersFit == Size \in 0..MaxInt /\ Lifetime \in 0..MaxInt

Granted ==
  /\ {AnyKey, trial.want.key} \cap StringList(flags.keys) # {}
  /\ \E p \in StringList(flags.artifacts) : Denotes(p, trial.want.artifact)
  /\ Size = 0 \/ trial.want.size <= Size

\* "the largest artifact this caller may sign", "token lifetime" (callers.go:53-55), the
\* globs of pattern.go:5-12: for numbers whose product with their unit fits in a word, a
\* request passes exactly if the flags meant to grant it, until its lifetime is over;
\* rounding to seconds may end that less than a second early, never late.  A size or a
\* number of days that does not fit wraps around, to "no limit" among others
\* (cli.go:226, 256).
EnforcedAsTyped ==
  phase = "answered" /\ NumbersFit =>
    /\ verdict = "allow" => Granted /\ (Lifetime = 0 \/ trial.wait < Lifetime)
    /\ Granted /\ (Lifetime = 0 \/ trial.wait + TicksPerSecond <= Lifetime) => verdict = "allow"

\* The size that caller add and whoami print (callers.go:29-45) is the one in
\* force: "unlimited" where there is no limit, and otherwise a text that, typed again,
\* makes the same limit.
ShownIsEnforced ==
  phase = "registered" /\ NumbersFit =>
    LET shown == FormatSize(caller.maxSize) IN
    /\ shown = Unlimited <=> caller.maxSize <= 0
    /\ shown # Unlimited => SizeParses(shown) /\ ParseSize(shown) = caller.maxSize

\* Every variable has its type, flags that do not parse store nothing, and no record is
\* without a key ("a caller with no policy can sign nothing", callers.go:61).
TypeOK ==
  /\ phase \in {"typed", "refused", "registered", "answered"}
  /\ phase \in {"typed", "refused"} <=> caller = NoCaller
  /\ verdict \in {"none", "allow", "expired", "key", "artifact", "size"}
  /\ caller # NoCaller => /\ caller.keys # {} /\ caller.expires >= Never
                          /\ Wrap(caller.maxSize) = caller.maxSize
=============================================================================
