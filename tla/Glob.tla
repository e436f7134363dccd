--------------------------------- MODULE Glob ---------------------------------
(***************************************************************************)
(* internal/policy/pattern.go: does an artifact name match a pattern?      *)
(* Names and patterns are sequences of bytes.                              *)
(***************************************************************************)
EXTENDS Integers, FiniteSets, Sequences

\* strings.Split(s, "/"): always at least one segment, which may be empty.
Split(s) ==
  LET Slashes(i) == Cardinality({j \in 1..i : s[j] = "/"})
      \* where the k-th slash is, the ends of s taken for slashes
      At(k) == Cardinality({i \in 0..Len(s) : Slashes(i) < k})
  IN [k \in 1..(Slashes(Len(s)) + 1) |-> SubSeq(s, At(k - 1) + 1, At(k) - 1)]

\* From which element of the pattern on, and which of what it is to match.
Places(pat, s) == (1..(Len(pat) + 1)) \X (1..(Len(s) + 1))

\* Mutant: a star does not match the empty run.
MatchSegmentStarOne(pat, s) ==
  LET rest[x \in Places(pat, s)] ==
        LET i == x[1]
            j == x[2]
        IN IF i > Len(pat) THEN j > Len(s)
           ELSE IF pat[i] = "*" THEN \E k \in (j + 1)..(Len(s) + 1) : rest[<<i + 1, k>>]
           ELSE j <= Len(s) /\ pat[i] \in {"?", s[j]} /\ rest[<<i + 1, j + 1>>]
  IN rest[<<1, 1>>]

\* The loop, by its first byte: rest[<<i, j>>] is its result for pat[i-1:] and s[j-1:].
\* A star tries every rest of the segment.
MatchSegment(pat, s) ==
  LET rest[x \in Places(pat, s)] ==
        LET i == x[1]
            j == x[2]
        IN IF i > Len(pat) THEN j > Len(s)
           ELSE IF pat[i] = "*" THEN \E k \in j..(Len(s) + 1) : rest[<<i + 1, k>>]
           ELSE j <= Len(s) /\ pat[i] \in {"?", s[j]} /\ rest[<<i + 1, j + 1>>]
  IN rest[<<1, 1>>]

\* ** swallows no segment, or one and tries again.
MatchSegments(pat, name) ==
  LET rest[x \in Places(pat, name)] ==
        LET i == x[1]
            j == x[2]
        IN IF i > Len(pat) THEN j > Len(name)
           ELSE IF pat[i] = <<"*", "*">> THEN
             rest[<<i + 1, j>>] \/ (j <= Len(name) /\ rest[<<i, j + 1>>])
           ELSE j <= Len(name) /\ MatchSegment(pat[i], name[j]) /\ rest[<<i + 1, j + 1>>]
  IN rest[<<1, 1>>]

Match(pattern, name) == pattern # <<>> /\ MatchSegments(Split(pattern), Split(name))

-----------------------------------------------------------------------------
(* What the comment above Match says, without an algorithm: the name can be *)
(* cut into as many pieces as the pattern has, piece by piece a match.      *)

Aligned(pat, s, Fits(_, _)) ==
  \E cut \in [1..Len(pat) -> 0..Len(s)] :
    LET from(i) == IF i = 1 THEN 0 ELSE cut[i - 1] IN
    /\ Len(s) = IF pat = <<>> THEN 0 ELSE cut[Len(pat)]
    /\ \A i \in 1..Len(pat) :
         from(i) <= cut[i] /\ Fits(pat[i], SubSeq(s, from(i) + 1, cut[i]))

\* `*` matches any run of bytes, `?` one byte, any other byte itself.
ByteFits(b, piece) ==
  \/ b = "*"
  \/ Len(piece) = 1 /\ b \in {"?", piece[1]}

\* `**` matches any run of segments, any other segment one segment.
SegmentFits(p, piece) ==
  \/ p = <<"*", "*">>
  \/ Len(piece) = 1 /\ Aligned(p, piece[1], ByteFits)

Denotes(pattern, name) == pattern # <<>> /\ Aligned(Split(pattern), Split(name), SegmentFits)
=============================================================================
