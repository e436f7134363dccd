---------------------------- MODULE MCRegistration ----------------------------
(***************************************************************************)
(* Every short glob against every short name; every size with every limit; *)
(* every lifetime at every moment; the lists.  Words have six bits.        *)
(***************************************************************************)
EXTENDS Registration, SequencesExt

CONSTANTS MaxPattern, MaxName   \* bounds: bytes in a pattern and in a name

MCAnyKey == <<"*">>
release == <<"r">>
nightly == <<"n">>

Typed == [keys |-> <<MCAnyKey>>, artifacts |-> << <<"*">> >>, rate |-> 0,
          maxSize |-> [num |-> 0, unit |-> "B"], ttl |-> [num |-> 0, unit |-> "h"]]
Plain == [flags |-> Typed, want |-> [key |-> release, artifact |-> <<"a">>, size |-> 1],
          at |-> 0, wait |-> 1]

Patterns == BoundedSeq({"a", "b", "*", "?", "/"}, MaxPattern) \cup
            {<<"a", "/", "*", "*", "/", "a">>, <<"*", "a", "*", "b", "*">>}
Names == BoundedSeq({"a", "b", "/"}, MaxName) \ {<<>>}

GlobTrials ==
  {[Plain EXCEPT !.flags.artifacts = <<p>>, !.want.artifact = n] : p \in Patterns, n \in Names}

Numbers == -1..(MaxInt + 2)

SizeTrials ==
  {[Plain EXCEPT !.flags.maxSize = [num |-> k, unit |-> u], !.want.size = z] :
     k \in Numbers, u \in {"B", "KB", "MB", "GB"}, z \in 0..MaxInt}

TTLTrials ==
  {[Plain EXCEPT !.flags.ttl = [num |-> k, unit |-> u], !.at = t, !.wait = w] :
     k \in Numbers, u \in {"d", "h", "s", "ms"}, t \in 0..(TicksPerSecond - 1), w \in 0..(MaxInt + 1)}

ListTrials ==
  {[Plain EXCEPT !.flags.keys = ks, !.flags.artifacts = ps, !.flags.rate = r] :
     ks \in BoundedSeq({<<>>, MCAnyKey, release, nightly}, 2),
     ps \in BoundedSeq({<<>>, <<"a">>, <<"b">>}, 2), r \in -1..1}

MCTrials == {GlobTrials, SizeTrials, TTLTrials, ListTrials}
=============================================================================
