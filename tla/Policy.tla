-------------------------------- MODULE Policy --------------------------------
(***************************************************************************)
(* internal/policy: the check of one sign request against the record of    *)
(* its caller.  A caller's artifact patterns are given by the artifacts    *)
(* they match (AllowsArtifact is their union), a time is a natural number. *)
(***************************************************************************)
EXTENDS Integers

CONSTANT AnyKey   \* the entry "*" of a key list

Never == -1       \* ExpiresAt is empty
Malformed == -2   \* ExpiresAt is not an RFC 3339 time

\* Expired from the instant ExpiresAt names on; a malformed one fails closed.
Expired(c, now) == c.expires # Never /\ now >= c.expires

AllowsKey(c, key) == {AnyKey, key} \cap c.keys # {}

\* The reason Evaluate denies for, or "allow"; the first check that fails wins.
\* A MaxSize of 0 is no limit.
Evaluate(c, want, now) ==
  IF Expired(c, now) THEN "expired"
  ELSE IF ~AllowsKey(c, want.key) THEN "key"
  ELSE IF want.artifact \notin c.artifacts THEN "artifact"
  ELSE IF c.maxSize > 0 /\ want.size > c.maxSize THEN "size"
  ELSE "allow"
=============================================================================
