------------------------------ MODULE MCServer ------------------------------
(***************************************************************************)
(* Concurrent requests against one or two names that share a token, and    *)
(* one key.  Between them the registrations and the requests meet every    *)
(* answer of Evaluate; one request is malformed and one has no token.      *)
(***************************************************************************)
EXTENDS Server, TLC

CONSTANTS r1, r2, ci, dev, tok1, release, app, doc

Registration(keySet, artifactSet, maxSize, rate, expires) ==
  [keys |-> keySet, artifacts |-> artifactSet, maxSize |-> maxSize, rate |-> rate,
   expires |-> expires]

\* One signature an hour, of size one, valid for one hour; and an unlimited caller
\* for one artifact only.
MCTightTerms == Registration({AnyKey}, {app, doc}, 1, 1, 1)
MCOpenTerms == Registration({release}, {app}, 0, 0, Never)

MCSignTerms == {MCTightTerms, MCOpenTerms}

\* ... one without a key, and one whose expiry does not parse.
MCLiveTerms == {MCTightTerms, Registration({}, {app}, 0, 0, Never),
                Registration({AnyKey}, {app}, 0, 0, Malformed)}

MCGapTerms == {MCOpenTerms}

Want(token, artifact, size, ok) ==
  [token |-> token, key |-> release, artifact |-> artifact, size |-> size, wellFormed |-> ok]

MCWants == {Want(tok1, app, 1, TRUE), Want(tok1, doc, 2, TRUE), Want(tok1, app, 1, FALSE),
            Want(NoToken, app, 1, TRUE)}
MCGoodWant == {Want(tok1, app, 1, TRUE)}

MCBody == [actor : {ci, dev, NoCaller}, action : {"auth-reject", "sign", "deny"},
           digest : Request \cup {NoCaller},
           reason : {"token", "-", "expired", "key", "artifact", "size", "rate", "unavailable"}]

MCSymmetry == Permutations(Request)
=============================================================================
