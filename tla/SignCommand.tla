----------------------------- MODULE SignCommand -----------------------------
(***************************************************************************)
(* signbooth sign and signbooth verify on one artifact and its .sbsig.     *)
(* sign hashes the artifact, asks the daemon, checks the envelope that     *)
(* comes back and writes it over the .sbsig; verify reads the .sbsig, and  *)
(* hashes the artifact again.  Meanwhile the artifact is edited, other     *)
(* sign commands run, the key is replaced, requests are lost or take too   *)
(* long, and what answers at the address need not be the booth.            *)
(*                                                                         *)
(* SHA-256 and Ed25519 are perfect: a digest is the content it is of, and  *)
(* an envelope is what was signed, with the pair that signed it.           *)
(***************************************************************************)
EXTENDS Integers, FiniteSets

CONSTANTS
  Command,    \* runs of signbooth sign on the artifact, one each
  Verify,     \* runs of signbooth verify on it, one each
  Version,    \* contents of the artifact
  Pair,       \* key pairs the key name has had in the booth, in any order
  Stranger,   \* a key pair of somebody else
  None,
  Mixed,      \* bytes of several contents
  MaxEdits    \* bound: changes of the artifact

ASSUME SignAssumption ==
  /\ Command \cap Verify = {} /\ Mixed \notin Version /\ None \notin Version \cup {Mixed}
  /\ Stranger \notin Pair /\ MaxEdits \in Nat

Run == Command \cup Verify

\* A run that reads the artifact while it changes may hash a mixture; two runs may
\* have met the same one.
Digest == Version \cup {Mixed}

\* "this" request's artifact and key names, or others.
Envelope == [digest : Digest, names : {"this", "other"}, signer : Pair \cup {Stranger}]

ASSUME NoneAssumption == None \notin Envelope

\* The .sbsig, and the body of a reply: an envelope, or what no envelope parses and
\* opens from (None for a file that is not there).
Spoilt == [digest |-> None, names |-> "other", signer |-> Stranger]
Text == Envelope \cup {Spoilt, None}

VARIABLES
  artifact,  \* its content
  sig,       \* the .sbsig
  pair,      \* the pair the key name has in the booth
  signed,    \* envelopes the booth has signed
  pc,        \* per run: its next step, "done" or "failed"
  held,      \* per run: contents the artifact had while it was hashed
  digest,    \* per run: the digest it computed
  env,       \* per run: the reply of sign, the envelope verify has read
  pin,       \* per verify: the pair it asks for
  edits,     \* history: changes of the artifact
  calm       \* history, per run: see Calm

vars == <<artifact, sig, pair, signed, pc, held, digest, env, pin, edits, calm>>
booth == <<pair, signed>>
own == <<held, digest, env, pin>>

Idle == {"new", "done", "failed"}

\* The booth may have signed these bytes before, under other names.
Init ==
  /\ artifact \in Version
  /\ sig = None
  /\ pair \in Pair
  /\ signed \in SUBSET {[digest |-> artifact, names |-> "other", signer |-> pair]}
  /\ pc = [r \in Run |-> "new"]
  /\ held = [r \in Run |-> {}]
  /\ digest = [r \in Run |-> None] /\ env = [r \in Run |-> None]
  /\ pin \in [Verify -> Pair]
  /\ edits = 0 /\ calm = [r \in Run |-> FALSE]

-----------------------------------------------------------------------------

Goto(r, step) == pc' = [pc EXCEPT ![r] = step]

\* A sign or verify run starts while no sign runs and, for verify, the last sign
\* succeeded; the artifact is not edited and no sign starts until it is over.
Settled == /\ \A c \in Command : pc[c] \in Idle
           /\ \E c \in Command : pc[c] = "done" /\ calm[c]

Begin(c) ==
  /\ pc[c] = "new"
  /\ Goto(c, "hash")
  /\ held' = [held EXCEPT ![c] = {artifact}]
  /\ calm' = [r \in Run |-> r = c /\ \A d \in Command : pc[d] \in Idle]
  /\ UNCHANGED <<artifact, sig, booth, digest, env, pin, edits>>

\* The artifact is replaced, or written to.
Edit ==
  /\ edits < MaxEdits /\ edits' = edits + 1
  /\ artifact' \in Version \ {artifact}
  /\ held' = [r \in Run |-> IF pc[r] = "hash" THEN held[r] \cup {artifact'} ELSE held[r]]
  /\ calm' = [r \in Run |-> FALSE]
  /\ UNCHANGED <<sig, booth, pc, digest, env, pin>>

\* The key is deleted and made again under the same name.
Rotate ==
  /\ pair' \in Pair \ {pair}
  /\ \A e \in signed : e.signer # pair'
  /\ UNCHANGED <<artifact, sig, signed, pc, own, edits, calm>>

\* envelope.HashFile reads the file to its end.
HashFile(r) ==
  /\ pc[r] = "hash"
  /\ \E d \in held[r] \cup (IF Cardinality(held[r]) > 1 THEN {Mixed} ELSE {}) :
       digest' = [digest EXCEPT ![r] = d]
  /\ Goto(r, IF r \in Command THEN "ask" ELSE "compare")
  /\ UNCHANGED <<artifact, sig, booth, held, env, pin, edits, calm>>

\* handleSign and envelope.Sign: what the booth signs for the request.
Signs(c) == [digest |-> digest[c], names |-> "this", signer |-> pair]

Reply(c, e) == env' = [env EXCEPT ![c] = e] /\ Goto(c, "check")

Answer(c) ==
  /\ pc[c] = "ask"
  /\ signed' = signed \cup {Signs(c)}
  /\ Reply(c, Signs(c))
  /\ UNCHANGED <<artifact, sig, pair, held, digest, pin, edits, calm>>

\* Something else answers: an older envelope of the booth, one of its own, or no
\* envelope at all.
Misreply(c) ==
  /\ pc[c] = "ask"
  /\ \E e \in signed \cup {Spoilt} \cup
              [digest : Version, names : {"this", "other"}, signer : {Stranger}] : Reply(c, e)
  /\ calm' = [calm EXCEPT ![c] = FALSE]
  /\ UNCHANGED <<artifact, sig, booth, held, digest, pin, edits>>

\* client.do fails: the daemon cannot be reached, denies the request, or does not
\* answer within ten seconds.
NoReply(c) ==
  /\ pc[c] = "ask"
  /\ Goto(c, "failed")
  /\ UNCHANGED <<artifact, sig, booth, own, edits, calm>>

\* ... or its answer comes too late: the signature was made all the same.
LateReply(c) ==
  /\ pc[c] = "ask"
  /\ signed' = signed \cup {Signs(c)}
  /\ Goto(c, "failed")
  /\ UNCHANGED <<artifact, sig, pair, own, edits, calm>>

\* Mutant: the envelope is opened but not compared with the request.
CheckEnvelopeOpens(c) ==
  /\ pc[c] = "check"
  /\ Goto(c, IF env[c] = Spoilt THEN "failed" ELSE "create")
  /\ UNCHANGED <<artifact, sig, booth, own, edits, calm>>

\* Mutant: the reply is written as it is.
CheckEnvelopeBlind(c) ==
  /\ pc[c] = "check"
  /\ Goto(c, "create")
  /\ UNCHANGED <<artifact, sig, booth, own, edits, calm>>

\* Envelope.Open, and the comparison with the request; the signer is not compared.
CheckEnvelope(c) ==
  /\ pc[c] = "check"
  /\ Goto(c, IF env[c] = Spoilt \/ env[c].digest # digest[c] \/ env[c].names # "this"
             THEN "failed" ELSE "create")
  /\ UNCHANGED <<artifact, sig, booth, own, edits, calm>>

\* os.WriteFile truncates the .sbsig ...
CreateSig(c) ==
  /\ pc[c] = "create"
  /\ sig' = Spoilt
  /\ Goto(c, "write")
  /\ UNCHANGED <<artifact, booth, own, edits, calm>>

\* ... and writes the envelope from its start.  envelope.Parse takes the first JSON
\* value, whatever an envelope written before leaves behind it.
WriteSig(c) ==
  /\ pc[c] = "write"
  /\ sig' = env[c]
  /\ Goto(c, "done")
  /\ UNCHANGED <<artifact, booth, own, edits, calm>>

\* Mutant: the error of os.WriteFile is dropped.
WriteFailsUnnoticed(c) ==
  /\ pc[c] = "write"
  /\ sig' = Spoilt
  /\ Goto(c, "done")
  /\ UNCHANGED <<artifact, booth, own, edits, calm>>

WriteFails(c) ==
  /\ pc[c] = "write"
  /\ sig' = Spoilt
  /\ Goto(c, "failed")
  /\ UNCHANGED <<artifact, booth, own, edits, calm>>

\* The command is killed.
Crash(c) ==
  /\ pc[c] \notin Idle
  /\ Goto(c, "failed")
  /\ UNCHANGED <<artifact, sig, booth, own, edits, calm>>

\* Mutant: the key is not pinned.
ReadSigUnpinned(v) ==
  /\ pc[v] = "new"
  /\ Goto(v, IF sig \in {None, Spoilt} THEN "failed" ELSE "hash")
  /\ env' = [env EXCEPT ![v] = sig]
  /\ held' = [held EXCEPT ![v] = {artifact}]
  /\ calm' = [calm EXCEPT ![v] = Settled]
  /\ UNCHANGED <<artifact, sig, booth, digest, pin, edits>>

\* verify up to the hash: read, Parse, Open, Pin.
ReadSig(v) ==
  /\ pc[v] = "new"
  /\ Goto(v, IF sig \in {None, Spoilt} \/ sig.signer # pin[v] THEN "failed" ELSE "hash")
  /\ env' = [env EXCEPT ![v] = sig]
  /\ held' = [held EXCEPT ![v] = {artifact}]
  /\ calm' = [calm EXCEPT ![v] = Settled]
  /\ UNCHANGED <<artifact, sig, booth, digest, pin, edits>>

\* Payload.CheckFile.
CheckFile(v) ==
  /\ pc[v] = "compare"
  /\ Goto(v, IF digest[v] = env[v].digest THEN "done" ELSE "failed")
  /\ UNCHANGED <<artifact, sig, booth, own, edits, calm>>

\* What a run does of itself.
Proceed(r) ==
  \/ HashFile(r)
  \/ r \in Command /\ (Begin(r) \/ NoReply(r) \/ CheckEnvelope(r) \/ CreateSig(r)
                         \/ WriteSig(r) \/ WriteFails(r))
  \/ r \in Verify /\ (ReadSig(r) \/ CheckFile(r))

Next ==
  \/ Edit \/ Rotate
  \/ \E r \in Run : Proceed(r)
  \/ \E c \in Command : Answer(c) \/ Misreply(c) \/ LateReply(c) \/ Crash(c)

Spec == Init /\ [][Next]_vars

-----------------------------------------------------------------------------

\* Every variable has its type; no command is about to write what is no envelope.
TypeOK ==
  /\ artifact \in Version /\ sig \in Text /\ pair \in Pair /\ signed \subseteq Envelope
  /\ pc \in [Run -> Idle \cup {"hash", "ask", "check", "create", "write", "compare"}]
  /\ held \in [Run -> SUBSET Version] /\ digest \in [Run -> Digest \cup {None}]
  /\ env \in [Run -> Text] /\ pin \in [Verify -> Pair]
  /\ edits \in 0..MaxEdits /\ calm \in [Run -> BOOLEAN]
  /\ \A c \in Command : pc[c] \in {"create", "write"} => env[c] \in Envelope

\* "confirm it covers exactly what we asked to have signed" (remote.go:76-77): an envelope
\* in the .sbsig was asked for under its names, by a sign command that had hashed what it
\* covers, whatever answered and however the commands overlap.
SigIsOwn ==
  sig \notin {None, Spoilt} =>
    sig.names = "this" /\ \E c \in Command : digest[c] = sig.digest

\* "A mismatch means the artifact changed after signing" (envelope.go:202-203), and a match
\* that it is what was signed: verify succeeds only if the booth signed, with the pinned
\* pair and under these names, bytes that a sign command and verify both hashed; and
\* unless both read the artifact while it changed, it really had them both times.
VerifiedIsSigned ==
  \A v \in Verify : pc[v] = "done" =>
    \E e \in signed, c \in Command :
      /\ e.signer = pin[v] /\ e.names = "this"
      /\ e.digest = digest[c] /\ e.digest = digest[v]
      /\ e.digest = Mixed \/ e.digest \in held[c] \cap held[v]

\* What sign reported holds: after a sign command that was answered by the booth, ran
\* beside no other and met no edit, verify with the pair that signed succeeds until the
\* artifact is edited or sign is run again, whatever was in the .sbsig before
\* (remote.go:85-97, verify.go:52-69).
SignedVerifies ==
  \A v \in Verify : pc[v] = "failed" /\ calm[v] =>
    env[v] \in signed /\ env[v].signer # pin[v]
=============================================================================
