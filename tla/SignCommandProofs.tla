-------------------------- MODULE SignCommandProofs --------------------------
(***************************************************************************)
(* SigIsOwn, VerifiedIsSigned and SignedVerifies for any runs, contents    *)
(* and key pairs.  A digest once computed stays, so an envelope that was   *)
(* asked for stays asked for; and an envelope under a pair of the booth,   *)
(* wherever it is, is one the booth signed.  IInv follows both from the    *)
(* reply through the .sbsig into the hands of verify.  CalmInv follows the *)
(* envelope of a sign command that nothing disturbed.                      *)
(***************************************************************************)
EXTENDS SignCommand, FiniteSetTheorems, TLAPS

\* Only the booth signs with its pairs.
Genuine(e) == e \in Envelope /\ (e.signer \in Pair => e \in signed)

\* Some sign command had this digest, and the names are its own.
Asked(e) == e.names = "this" /\ \E c \in Command : digest[c] = e.digest

\* A digest is computed once, of contents the run met, or of a mixture.
DigestInv ==
  \A r \in Run :
    /\ pc[r] \in {"new", "hash"} => digest[r] = None
    /\ pc[r] \in {"ask", "compare"} => digest[r] # None
    /\ digest[r] \in held[r] \cup {Mixed, None}

SigInv == sig \in {None, Spoilt} \/ (Genuine(sig) /\ Asked(sig))

ReplyInv ==
  \A c \in Command :
    /\ pc[c] = "check" => env[c] = Spoilt \/ Genuine(env[c])
    /\ pc[c] \in {"create", "write"} =>
         Genuine(env[c]) /\ env[c].names = "this" /\ env[c].digest = digest[c]

VerifyInv ==
  \A v \in Verify :
    /\ pc[v] \in {"hash", "compare", "done"} =>
         Genuine(env[v]) /\ Asked(env[v]) /\ env[v].signer = pin[v]
    /\ pc[v] = "done" => env[v].digest = digest[v]

IInv == TypeOK /\ DigestInv /\ SigInv /\ ReplyInv /\ VerifyInv

Steps == Idle \cup {"hash", "ask", "check", "create", "write", "compare"}

-----------------------------------------------------------------------------

\* Digests are no None, and what is spoilt is no envelope.
LEMMA Values ==
  /\ None \notin Digest
  /\ \A e \in Envelope : e.digest # None /\ e # Spoilt
  /\ Spoilt.signer \notin Pair
BY SignAssumption DEF Digest, Envelope, Spoilt

LEMMA TypeInit == Init => TypeOK
<1> SUFFICES ASSUME Init PROVE TypeOK
  OBVIOUS
<1>1. signed \subseteq Envelope
  BY DEF Init, Envelope, Digest
<1>2. /\ held \in [Run -> SUBSET Version] /\ digest \in [Run -> Digest \cup {None}]
      /\ env \in [Run -> Text] /\ pin \in [Verify -> Pair]
  BY DEF Init, Text
<1>3. pc \in [Run -> Steps] /\ \A r \in Run : pc[r] = "new"
  BY DEF Init, Steps, Idle
<1>4. edits \in 0..MaxEdits /\ calm \in [Run -> BOOLEAN]
  BY SignAssumption DEF Init
<1>5. artifact \in Version /\ sig \in Text /\ pair \in Pair
  BY DEF Init, Text
<1>6. QED
  BY <1>1, <1>2, <1>3, <1>4, <1>5 DEF TypeOK, Steps, Run

LEMMA Start == Init => IInv
<1> SUFFICES ASSUME Init PROVE IInv
  OBVIOUS
<1>1. TypeOK
  BY TypeInit
<1>2. \A r \in Run : pc[r] = "new" /\ digest[r] = None
  BY DEF Init
<1>3. sig = None
  BY DEF Init
<1>4. QED
  BY <1>1, <1>2, <1>3 DEF IInv, DigestInv, SigInv, ReplyInv, VerifyInv, Run

\* Type correctness, one step per action.
LEMMA TypeStep == IInv /\ [Next]_vars => TypeOK'
<1> SUFFICES ASSUME IInv, [Next]_vars PROVE TypeOK'
  OBVIOUS
<1>0. Command \subseteq Run /\ Verify \subseteq Run /\ TypeOK
  BY DEF Run, IInv
<1>1. CASE Edit
  <2>1. edits' \in 0..MaxEdits
    BY <1>0, <1>1, SignAssumption DEF Edit, TypeOK
  <2>2. held' \in [Run -> SUBSET Version] /\ calm' \in [Run -> BOOLEAN] /\ artifact' \in Version
    BY <1>0, <1>1 DEF Edit, TypeOK
  <2>3. QED
    BY <1>0, <1>1, <2>1, <2>2 DEF Edit, TypeOK, booth
<1>2. CASE Rotate
  BY <1>0, <1>2 DEF Rotate, TypeOK, own
<1>3. ASSUME NEW r \in Run, HashFile(r) PROVE TypeOK'
  <2>1. digest' \in [Run -> Digest \cup {None}]
    BY <1>0, <1>3 DEF HashFile, TypeOK, Digest
  <2>2. pc' \in [Run -> Steps] /\ \A c \in Command : pc'[c] \in {"create", "write"} => pc[c] = pc'[c]
    BY <1>0, <1>3 DEF HashFile, TypeOK, Goto, Steps
  <2>3. QED
    BY <1>0, <1>3, <2>1, <2>2 DEF HashFile, TypeOK, booth, Steps
<1>4. ASSUME NEW c \in Command, Begin(c) PROVE TypeOK'
  <2>1. calm' \in [Run -> BOOLEAN]
    BY <1>4, Zenon DEF Begin
  <2>2. held' \in [Run -> SUBSET Version]
    BY <1>0, <1>4 DEF Begin, TypeOK
  <2>3. pc' \in [Run -> Steps] /\ \A d \in Command : pc'[d] \in {"create", "write"} => pc[d] = pc'[d]
    BY <1>0, <1>4 DEF Begin, TypeOK, Goto, Steps
  <2>4. QED
    BY <1>0, <1>4, <2>1, <2>2, <2>3 DEF Begin, TypeOK, booth, Steps
<1>5. ASSUME NEW c \in Command, NEW e \in Text, pc[c] = "ask", Reply(c, e)
      PROVE  /\ env' \in [Run -> Text] /\ pc' \in [Run -> Steps]
             /\ \A d \in Command : pc'[d] \in {"create", "write"} => pc[d] = pc'[d] /\ env'[d] = env[d]
  BY <1>0, <1>5 DEF Reply, Goto, TypeOK, Steps
<1>6. ASSUME NEW c \in Command, pc[c] = "ask" PROVE Signs(c) \in Envelope
  <2>1. digest[c] \in Digest /\ pair \in Pair
    BY <1>0, <1>6 DEF IInv, DigestInv, TypeOK
  <2>2. QED
    BY <2>1 DEF Signs, Envelope
<1>7. ASSUME NEW c \in Command, Answer(c) PROVE TypeOK'
  <2>1. Signs(c) \in Envelope /\ Signs(c) \in Text
    BY <1>6, <1>7 DEF Answer, Text
  <2>2. signed' \subseteq Envelope
    BY <1>0, <1>7, <2>1 DEF Answer, TypeOK
  <2>3. QED
    BY <1>0, <1>5, <1>7, <2>1, <2>2 DEF Answer, TypeOK, Steps
<1>8. ASSUME NEW c \in Command, Misreply(c) PROVE TypeOK'
  <2>1. PICK e : e \in signed \cup {Spoilt} \cup
                       [digest : Version, names : {"this", "other"}, signer : {Stranger}]
                 /\ Reply(c, e)
    BY <1>8 DEF Misreply
  <2>2. e \in Text
    BY <1>0, <2>1 DEF TypeOK, Text, Envelope, Digest
  <2>3. calm' \in [Run -> BOOLEAN]
    BY <1>0, <1>8 DEF Misreply, TypeOK
  <2>4. QED
    BY <1>0, <1>5, <1>8, <2>1, <2>2, <2>3 DEF Misreply, TypeOK, booth, Steps
<1>9. ASSUME NEW c \in Command, NoReply(c) \/ LateReply(c) \/ Crash(c) PROVE TypeOK'
  <2>1. pc' \in [Run -> Steps] /\ \A d \in Command : pc'[d] \in {"create", "write"} => pc[d] = pc'[d]
    BY <1>0, <1>9 DEF NoReply, LateReply, Crash, TypeOK, Goto, Steps, Idle
  <2>2. signed' \subseteq Envelope
    BY <1>0, <1>6, <1>9 DEF NoReply, LateReply, Crash, TypeOK, booth
  <2>3. UNCHANGED <<artifact, sig, pair, own, edits, calm>>
    BY <1>9 DEF NoReply, LateReply, Crash, booth
  <2>4. QED
    BY <1>0, <2>1, <2>2, <2>3 DEF TypeOK, own, Steps
<1>10. ASSUME NEW c \in Command, CheckEnvelope(c) PROVE TypeOK'
  <2>1. env[c] = Spoilt \/ env[c] \in Envelope
    BY <1>10 DEF CheckEnvelope, IInv, ReplyInv, Genuine
  <2>2. pc' \in [Run -> Steps]
    BY <1>0, <1>10 DEF CheckEnvelope, TypeOK, Goto, Steps, Idle
  <2>3. \A d \in Command : pc'[d] \in {"create", "write"} => env[d] \in Envelope
    BY <1>0, <1>10, <2>1 DEF CheckEnvelope, TypeOK, Goto
  <2>4. QED
    BY <1>0, <1>10, <2>2, <2>3 DEF CheckEnvelope, TypeOK, booth, own, Steps
<1>11. ASSUME NEW c \in Command, CreateSig(c) \/ WriteSig(c) \/ WriteFails(c) PROVE TypeOK'
  <2>1. sig' \in Text
    BY <1>0, <1>11 DEF CreateSig, WriteSig, WriteFails, TypeOK, Text
  <2>2. pc' \in [Run -> Steps]
    BY <1>0, <1>11 DEF CreateSig, WriteSig, WriteFails, TypeOK, Goto, Steps, Idle
  <2>3. \A d \in Command : pc'[d] \in {"create", "write"} => env[d] \in Envelope
    BY <1>0, <1>11 DEF CreateSig, WriteSig, WriteFails, TypeOK, Goto
  <2>4. QED
    BY <1>0, <1>11, <2>1, <2>2, <2>3 DEF CreateSig, WriteSig, WriteFails, TypeOK, booth, own, Steps
<1>12. ASSUME NEW v \in Verify, ReadSig(v) PROVE TypeOK'
  <2>1. calm' \in [Run -> BOOLEAN]
    <3>1. Settled \in BOOLEAN
      BY Zenon DEF Settled
    <3>2. QED
      BY <1>0, <1>12, <3>1 DEF ReadSig, TypeOK
  <2>2. env' \in [Run -> Text] /\ held' \in [Run -> SUBSET Version] /\ pc' \in [Run -> Steps]
    BY <1>0, <1>12 DEF ReadSig, TypeOK, Goto, Steps, Idle
  <2>3. \A d \in Command : pc'[d] = pc[d] /\ env'[d] = env[d]
    BY <1>0, <1>12, SignAssumption DEF ReadSig, TypeOK, Goto
  <2>4. QED
    BY <1>0, <1>12, <2>1, <2>2, <2>3 DEF ReadSig, TypeOK, booth, Steps
<1>13. ASSUME NEW v \in Verify, CheckFile(v) PROVE TypeOK'
  <2>1. pc' \in [Run -> Steps] /\ \A d \in Command : pc'[d] = pc[d]
    BY <1>0, <1>13, SignAssumption DEF CheckFile, TypeOK, Goto, Steps, Idle
  <2>2. QED
    BY <1>0, <1>13, <2>1 DEF CheckFile, TypeOK, booth, own, Steps
<1>14. CASE UNCHANGED vars
  BY <1>0, <1>14 DEF vars, TypeOK, booth, own
<1>15. QED
  BY <1>1, <1>2, <1>3, <1>4, <1>7, <1>8, <1>9, <1>10, <1>11, <1>12, <1>13, <1>14 DEF Next, Proceed

LEMMA DigestStep == IInv /\ [Next]_vars => DigestInv'
<1> SUFFICES ASSUME IInv, [Next]_vars PROVE DigestInv'
  OBVIOUS
<1>0. Command \subseteq Run /\ Verify \subseteq Run /\ TypeOK /\ DigestInv
  BY DEF Run, IInv
<1> USE DEF DigestInv
<1>1. CASE Edit
  BY <1>0, <1>1 DEF Edit, TypeOK
<1>2. CASE Rotate
  BY <1>0, <1>2 DEF Rotate, own
<1>3. ASSUME NEW r \in Run, HashFile(r) PROVE DigestInv'
  <2>1. PICK d \in held[r] \cup {Mixed} : digest' = [digest EXCEPT ![r] = d]
    BY <1>3 DEF HashFile
  <2>2. d # None
    BY <1>0, SignAssumption DEF TypeOK
  <2>3. pc'[r] \notin {"new", "hash"} /\ \A q \in Run : q # r => pc'[q] = pc[q]
    BY <1>0, <1>3 DEF HashFile, Goto, TypeOK
  <2>4. QED
    BY <1>0, <1>3, <2>1, <2>2, <2>3 DEF HashFile, TypeOK
<1>4. ASSUME NEW c \in Command, Begin(c) PROVE DigestInv'
  BY <1>0, <1>4 DEF Begin, Goto, TypeOK
<1>5. ASSUME NEW c \in Command, Answer(c) \/ Misreply(c) PROVE DigestInv'
  BY <1>0, <1>5 DEF Answer, Misreply, Reply, Goto, TypeOK
<1>6. ASSUME NEW c \in Command, NoReply(c) \/ LateReply(c) \/ Crash(c) PROVE DigestInv'
  BY <1>0, <1>6 DEF NoReply, LateReply, Crash, Goto, TypeOK, own
<1>7. ASSUME NEW c \in Command, CheckEnvelope(c) PROVE DigestInv'
  BY <1>0, <1>7 DEF CheckEnvelope, Goto, TypeOK, own
<1>8. ASSUME NEW c \in Command, CreateSig(c) \/ WriteSig(c) \/ WriteFails(c) PROVE DigestInv'
  BY <1>0, <1>8 DEF CreateSig, WriteSig, WriteFails, Goto, TypeOK, own
<1>9. ASSUME NEW v \in Verify, ReadSig(v) PROVE DigestInv'
  BY <1>0, <1>9 DEF ReadSig, Goto, TypeOK
<1>10. ASSUME NEW v \in Verify, CheckFile(v) PROVE DigestInv'
  BY <1>0, <1>10 DEF CheckFile, Goto, TypeOK, own
<1>11. CASE UNCHANGED vars
  BY <1>0, <1>11 DEF vars, own
<1>12. QED
  BY <1>1, <1>2, <1>3, <1>4, <1>5, <1>6, <1>7, <1>8, <1>9, <1>10, <1>11 DEF Next, Proceed

\* What has been asked for, and what is genuine, stays so.
LEMMA Lasting ==
  ASSUME IInv, [Next]_vars
  PROVE  /\ \A r \in Run : digest[r] # None => digest'[r] = digest[r]
         /\ signed \subseteq signed'
         /\ \A e \in Envelope : Asked(e) => e.names = "this" /\ \E c \in Command : digest'[c] = e.digest
         /\ \A e \in Envelope : Genuine(e) /\ e.signer \in Pair => e \in signed'
<1>1. ASSUME NEW r \in Run, digest[r] # None PROVE digest'[r] = digest[r]
  <2>1. pc[r] # "hash"
    BY <1>1 DEF IInv, DigestInv
  <2>2. digest' = digest \/ \E q \in Run : pc[q] = "hash" /\ \E d : digest' = [digest EXCEPT ![q] = d]
    BY DEF Next, Proceed, HashFile, Begin, NoReply, CheckEnvelope, CreateSig, WriteSig, WriteFails,
      ReadSig, CheckFile, Edit, Rotate, Answer, Misreply, LateReply, Crash, vars, own
  <2>3. QED
    BY <2>1, <2>2 DEF IInv, TypeOK
<1>2. signed \subseteq signed'
  BY DEF Next, Proceed, HashFile, Begin, NoReply, CheckEnvelope, CreateSig, WriteSig, WriteFails,
    ReadSig, CheckFile, Edit, Rotate, Answer, Misreply, LateReply, Crash, vars, booth
<1>3. ASSUME NEW e \in Envelope, Asked(e)
      PROVE  e.names = "this" /\ \E c \in Command : digest'[c] = e.digest
  <2>1. PICK c \in Command : digest[c] = e.digest
    BY <1>3 DEF Asked
  <2>2. digest'[c] = e.digest
    BY <1>1, <2>1, Values DEF Run
  <2>3. QED
    BY <1>3, <2>2 DEF Asked
<1>4. QED
  BY <1>1, <1>2, <1>3 DEF Genuine

\* An envelope somebody holds, or that is in the file, after a step that leaves it alone.
LEMMA Carried ==
  ASSUME IInv, [Next]_vars
  PROVE  /\ sig' \in {sig, Spoilt} => SigInv'
         /\ \A c \in Command :
              env'[c] = env[c] /\ (pc'[c] \in {"check", "create", "write"} => pc'[c] = pc[c]) =>
                /\ pc'[c] = "check" => env'[c] = Spoilt \/ Genuine(env[c])'
                /\ pc'[c] \in {"create", "write"} =>
                     Genuine(env[c])' /\ env'[c].names = "this" /\ env'[c].digest = digest'[c]
         /\ \A v \in Verify :
              /\ env'[v] = env[v]
              /\ pc'[v] \in {"hash", "compare", "done"} => pc[v] \in {"hash", "compare", "done"}
              /\ pc'[v] = "done" => pc[v] = "done" \/ env[v].digest = digest[v]
              => /\ pc'[v] \in {"hash", "compare", "done"} =>
                      Genuine(env[v])' /\ Asked(env[v])' /\ env'[v].signer = pin'[v]
                 /\ pc'[v] = "done" => env'[v].digest = digest'[v]
<1>1. ASSUME sig' \in {sig, Spoilt} PROVE SigInv'
  <2>1. CASE sig \in {None, Spoilt}
    BY <1>1, <2>1 DEF SigInv
  <2>2. CASE sig \notin {None, Spoilt} /\ sig' = sig
    <3>1. sig \in Envelope /\ Genuine(sig) /\ Asked(sig)
      BY <2>2 DEF IInv, SigInv, Genuine
    <3>2. QED
      BY <2>2, <3>1, Lasting DEF SigInv, Genuine, Asked
  <2>3. QED
    BY <1>1, <2>1, <2>2 DEF SigInv
<1>2. pin' = pin
  BY DEF Next, Proceed, HashFile, Begin, NoReply, CheckEnvelope, CreateSig, WriteSig, WriteFails,
    ReadSig, CheckFile, Edit, Rotate, Answer, Misreply, LateReply, Crash, vars, own
<1>3. ASSUME NEW c \in Command, env'[c] = env[c],
             pc'[c] \in {"check", "create", "write"} => pc'[c] = pc[c]
      PROVE  /\ pc'[c] = "check" => env'[c] = Spoilt \/ Genuine(env[c])'
             /\ pc'[c] \in {"create", "write"} =>
                  Genuine(env[c])' /\ env'[c].names = "this" /\ env'[c].digest = digest'[c]
  <2>1. Genuine(env[c]) => Genuine(env[c])'
    BY <1>3, Lasting DEF Genuine
  <2>2. ASSUME pc'[c] \in {"create", "write"} PROVE digest'[c] = digest[c] /\ env[c].digest = digest[c]
    <3>1. env[c] \in Envelope /\ env[c].digest = digest[c]
      BY <1>3, <2>2 DEF IInv, ReplyInv, Genuine
    <3>2. QED
      BY <3>1, Lasting, Values DEF Run
  <2>3. QED
    BY <1>3, <2>1, <2>2 DEF IInv, ReplyInv
<1>4. ASSUME NEW v \in Verify, env'[v] = env[v],
             pc'[v] \in {"hash", "compare", "done"} => pc[v] \in {"hash", "compare", "done"},
             pc'[v] = "done" => pc[v] = "done" \/ env[v].digest = digest[v]
      PROVE  /\ pc'[v] \in {"hash", "compare", "done"} =>
                  Genuine(env[v])' /\ Asked(env[v])' /\ env'[v].signer = pin'[v]
             /\ pc'[v] = "done" => env'[v].digest = digest'[v]
  <2> SUFFICES ASSUME pc'[v] \in {"hash", "compare", "done"}
               PROVE  /\ Genuine(env[v])' /\ Asked(env[v])' /\ env'[v].signer = pin'[v]
                      /\ pc'[v] = "done" => env'[v].digest = digest'[v]
    OBVIOUS
  <2>1. env[v] \in Envelope /\ Genuine(env[v]) /\ Asked(env[v]) /\ env[v].signer = pin[v]
    BY <1>4 DEF IInv, VerifyInv, Genuine
  <2>2. Genuine(env[v])' /\ Asked(env[v])'
    BY <1>4, <2>1, Lasting DEF Genuine, Asked
  <2>3. ASSUME pc'[v] = "done" PROVE env'[v].digest = digest'[v]
    <3>1. env[v].digest = digest[v]
      BY <1>4, <2>3 DEF IInv, VerifyInv
    <3>2. digest[v] # None
      BY <2>1, <3>1, Values
    <3>3. QED
      BY <1>4, <3>1, <3>2, Lasting DEF Run
  <2>4. QED
    BY <1>2, <1>4, <2>1, <2>2, <2>3
<1>5. QED
  BY <1>1, <1>3, <1>4

LEMMA FlowStep == IInv /\ [Next]_vars => SigInv' /\ ReplyInv' /\ VerifyInv'
<1> SUFFICES ASSUME IInv, [Next]_vars PROVE SigInv' /\ ReplyInv' /\ VerifyInv'
  OBVIOUS
<1>0. Command \subseteq Run /\ Verify \subseteq Run /\ TypeOK
  BY DEF Run, IInv
<1>1. ASSUME sig' \in {sig, Spoilt}, env' = env,
             \A c \in Command : pc'[c] \in {"check", "create", "write"} => pc'[c] = pc[c],
             \A v \in Verify :
               /\ pc'[v] \in {"hash", "compare", "done"} => pc[v] \in {"hash", "compare", "done"}
               /\ pc'[v] = "done" => pc[v] = "done" \/ env[v].digest = digest[v]
      PROVE  SigInv' /\ ReplyInv' /\ VerifyInv'
  BY <1>1, Carried DEF ReplyInv, VerifyInv
<1>2. CASE Edit \/ Rotate \/ UNCHANGED vars
  BY <1>1, <1>2 DEF Edit, Rotate, vars, own
<1>3. ASSUME NEW r \in Run, HashFile(r) PROVE SigInv' /\ ReplyInv' /\ VerifyInv'
  BY <1>0, <1>1, <1>3 DEF HashFile, Goto, TypeOK
<1>4. ASSUME NEW c \in Command,
             Begin(c) \/ NoReply(c) \/ LateReply(c) \/ WriteFails(c) \/ Crash(c)
      PROVE  SigInv' /\ ReplyInv' /\ VerifyInv'
  <2>1. sig' \in {sig, Spoilt} /\ env' = env /\ pc' \in {[pc EXCEPT ![c] = "hash"], [pc EXCEPT ![c] = "failed"]}
    BY <1>4 DEF Begin, NoReply, LateReply, WriteFails, Crash, Goto, own
  <2>2. \A v \in Verify : pc'[v] = pc[v]
    BY <1>0, <2>1, SignAssumption DEF TypeOK
  <2>3. \A d \in Command : pc'[d] \in {"check", "create", "write"} => pc'[d] = pc[d]
    BY <1>0, <2>1 DEF TypeOK
  <2>4. QED
    BY <1>1, <2>1, <2>2, <2>3
<1>5. ASSUME NEW c \in Command, NEW step, Goto(c, step)
      PROVE  /\ pc'[c] = step
             /\ \A d \in Command : d # c => pc'[d] = pc[d]
             /\ \A v \in Verify : pc'[v] = pc[v]
  BY <1>0, <1>5, SignAssumption DEF Goto, TypeOK
<1>6. ASSUME NEW c \in Command, NEW e, Reply(c, e), e = Spoilt \/ Genuine(e)',  sig' = sig
      PROVE  SigInv' /\ ReplyInv' /\ VerifyInv'
  <2>1. Goto(c, "check") /\ env'[c] = e /\ \A r \in Run : r # c => env'[r] = env[r]
    BY <1>0, <1>6 DEF Reply, TypeOK
  <2>2. SigInv'
    BY <1>6, Carried
  <2>3. VerifyInv'
    <3>1. \A v \in Verify : pc'[v] = pc[v] /\ env'[v] = env[v]
      BY <1>0, <1>5, <2>1, SignAssumption
    <3>2. QED
      BY <3>1, Carried DEF VerifyInv
  <2>4. ReplyInv'
    <3>1. pc'[c] = "check" /\ \A d \in Command : d # c => pc'[d] = pc[d] /\ env'[d] = env[d]
      BY <1>0, <1>5, <2>1
    <3>2. env'[c] = Spoilt \/ Genuine(env[c])'
      BY <1>6, <2>1 DEF Genuine
    <3>3. QED
      BY <3>1, <3>2, Carried DEF ReplyInv
  <2>5. QED
    BY <2>2, <2>3, <2>4
<1>7. ASSUME NEW c \in Command, Answer(c) PROVE SigInv' /\ ReplyInv' /\ VerifyInv'
  <2>1. TypeOK'
    BY TypeStep
  <2>2. Signs(c) \in signed' /\ Signs(c) \in Envelope
    BY <1>7, <2>1 DEF Answer, TypeOK
  <2>3. Reply(c, Signs(c)) /\ sig' = sig
    BY <1>7 DEF Answer
  <2>4. PICK e : e = Signs(c)
    OBVIOUS
  <2>5. QED
    BY <1>6, <2>2, <2>3, <2>4 DEF Genuine
<1>8. ASSUME NEW c \in Command, Misreply(c) PROVE SigInv' /\ ReplyInv' /\ VerifyInv'
  <2>1. PICK e : e \in signed \cup {Spoilt} \cup
                       [digest : Version, names : {"this", "other"}, signer : {Stranger}]
                 /\ Reply(c, e)
    BY <1>8 DEF Misreply
  <2>2. sig' = sig /\ signed' = signed
    BY <1>8 DEF Misreply, booth
  <2>3. e = Spoilt \/ (e \in Envelope /\ (e.signer \in Pair => e \in signed'))
    BY <1>0, <2>1, <2>2, SignAssumption DEF TypeOK, Envelope, Digest
  <2>4. QED
    BY <1>6, <2>1, <2>2, <2>3 DEF Genuine
<1>9. ASSUME NEW c \in Command, CheckEnvelope(c) PROVE SigInv' /\ ReplyInv' /\ VerifyInv'
  <2>1. sig' = sig /\ env' = env /\ digest' = digest /\ signed' = signed
    BY <1>9 DEF CheckEnvelope, own, booth
  <2>2. \A v \in Verify : pc'[v] = pc[v]
    BY <1>5, <1>9 DEF CheckEnvelope
  <2>3. \A d \in Command : d # c => pc'[d] = pc[d]
    BY <1>5, <1>9 DEF CheckEnvelope
  <2>4. \/ pc'[c] = "failed"
        \/ /\ pc'[c] = "create" /\ env[c] # Spoilt /\ env[c].names = "this"
           /\ env[c].digest = digest[c]
    BY <1>5, <1>9 DEF CheckEnvelope
  <2>5. env[c] # Spoilt => Genuine(env[c])
    BY <1>9 DEF CheckEnvelope, IInv, ReplyInv
  <2>6. SigInv' /\ VerifyInv'
    BY <2>1, <2>2, Carried DEF VerifyInv
  <2>7. ReplyInv'
    BY <2>1, <2>3, <2>4, <2>5, Carried DEF ReplyInv, Genuine
  <2>8. QED
    BY <2>6, <2>7
<1>10. ASSUME NEW c \in Command, CreateSig(c) \/ WriteSig(c) PROVE SigInv' /\ ReplyInv' /\ VerifyInv'
  <2>1. /\ env' = env /\ digest' = digest /\ signed' = signed /\ sig' \in {Spoilt, env[c]}
        /\ pc[c] \in {"create", "write"}
    BY <1>10 DEF CreateSig, WriteSig, own, booth
  <2>2. Genuine(env[c]) /\ env[c].names = "this" /\ env[c].digest = digest[c]
    BY <2>1 DEF IInv, ReplyInv
  <2>3. SigInv'
    BY <2>1, <2>2, Carried DEF SigInv, Genuine, Asked
  <2>4. \A v \in Verify : pc'[v] = pc[v]
    BY <1>5, <1>10 DEF CreateSig, WriteSig
  <2>5. \A d \in Command : d # c => pc'[d] = pc[d]
    BY <1>5, <1>10 DEF CreateSig, WriteSig
  <2>6. pc'[c] \in {"write", "done"}
    BY <1>5, <1>10 DEF CreateSig, WriteSig
  <2>7. ReplyInv'
    BY <2>1, <2>2, <2>5, <2>6, Carried DEF ReplyInv, Genuine
  <2>8. VerifyInv'
    BY <2>1, <2>4, Carried DEF VerifyInv
  <2>9. QED
    BY <2>3, <2>7, <2>8
<1>11. ASSUME NEW v \in Verify, ReadSig(v) PROVE SigInv' /\ ReplyInv' /\ VerifyInv'
  <2>1. /\ sig' = sig /\ digest' = digest /\ signed' = signed /\ pin' = pin
        /\ env'[v] = sig /\ \A r \in Run : r # v => env'[r] = env[r] /\ pc'[r] = pc[r]
        /\ \/ pc'[v] = "failed"
           \/ pc'[v] = "hash" /\ sig \notin {None, Spoilt} /\ sig.signer = pin[v]
    BY <1>0, <1>11 DEF ReadSig, Goto, TypeOK, booth
  <2>2. \A c \in Command : env'[c] = env[c] /\ pc'[c] = pc[c]
    BY <1>0, <2>1, SignAssumption
  <2>3. SigInv' /\ ReplyInv'
    BY <2>1, <2>2, Carried DEF ReplyInv
  <2>4. sig \notin {None, Spoilt} => Genuine(sig) /\ Asked(sig)
    BY DEF IInv, SigInv
  <2>5. /\ pc'[v] # "done"
        /\ pc'[v] \in {"hash", "compare"} =>
             Genuine(env[v])' /\ Asked(env[v])' /\ env'[v].signer = pin'[v]
    BY <2>1, <2>4 DEF Genuine, Asked
  <2>6. VerifyInv'
    BY <1>0, <2>1, <2>5, Carried DEF VerifyInv
  <2>7. QED
    BY <2>3, <2>6
<1>12. ASSUME NEW v \in Verify, CheckFile(v) PROVE SigInv' /\ ReplyInv' /\ VerifyInv'
  <2>1. \A c \in Command : pc'[c] = pc[c]
    BY <1>0, <1>12, SignAssumption DEF CheckFile, Goto, TypeOK
  <2>2. QED
    BY <1>0, <1>1, <1>12, <2>1 DEF CheckFile, Goto, TypeOK, own
<1>13. QED
  BY <1>2, <1>3, <1>4, <1>7, <1>8, <1>9, <1>10, <1>11, <1>12 DEF Next, Proceed

LEMMA Step == IInv /\ [Next]_vars => IInv'
BY TypeStep, DigestStep, FlowStep DEF IInv

LEMMA Inductive == Spec => []IInv
BY Start, Step, PTL DEF Spec

-----------------------------------------------------------------------------

\* Every variable keeps its type, and what a sign command is about to write is an
\* envelope (remote.go:65-92).
THEOREM TypeCorrect == Spec => []TypeOK
<1>1. IInv => TypeOK
  BY DEF IInv
<1>2. QED
  BY <1>1, Inductive, PTL

\* Whatever answers, dies and overlaps, the .sbsig never names what no sign command
\* asked for (remote.go:76-92).
THEOREM SigIsOwnCorrect == Spec => []SigIsOwn
<1>1. IInv => SigIsOwn
  BY DEF IInv, SigInv, Asked, SigIsOwn
<1>2. QED
  BY <1>1, Inductive, PTL

\* A verify that succeeds has met bytes that a sign command met too and that the booth
\* signed with the pinned pair, however often the artifact, the key and the .sbsig
\* changed in between (verify.go:52-69).
THEOREM VerifiedIsSignedCorrect == Spec => []VerifiedIsSigned
<1>1. ASSUME IInv, NEW v \in Verify, pc[v] = "done"
      PROVE  \E e \in signed, c \in Command :
               /\ e.signer = pin[v] /\ e.names = "this"
               /\ e.digest = digest[c] /\ e.digest = digest[v]
               /\ e.digest = Mixed \/ e.digest \in held[c] \cap held[v]
  <2>1. /\ Genuine(env[v]) /\ Asked(env[v]) /\ env[v].signer = pin[v]
        /\ env[v].digest = digest[v] /\ pin[v] \in Pair
    BY <1>1 DEF IInv, VerifyInv, TypeOK
  <2>2. PICK c \in Command : digest[c] = env[v].digest
    BY <2>1 DEF Asked
  <2>3. env[v] \in signed /\ env[v].names = "this" /\ env[v].digest # None
    BY <2>1, Values DEF Genuine, Asked
  <2>4. env[v].digest = Mixed \/ env[v].digest \in held[c] \cap held[v]
    BY <1>1, <2>1, <2>2, <2>3 DEF IInv, DigestInv, Run
  <2>5. QED
    BY <2>1, <2>2, <2>3, <2>4
<1>2. IInv => VerifiedIsSigned
  BY <1>1 DEF VerifiedIsSigned
<1>3. QED
  BY <1>2, Inductive, PTL

-----------------------------------------------------------------------------
(* A sign command that nothing disturbs, and the verify after it.          *)

CalmSign(c) ==
  /\ \A d \in Command \ {c} : pc[d] \in Idle
  /\ pc[c] # "new" /\ held[c] = {artifact}
  /\ pc[c] \in {"ask", "check", "create", "write", "done"} => digest[c] = artifact
  /\ pc[c] \in {"check", "create", "write", "done"} =>
       env[c] \in signed /\ env[c].digest = artifact
  /\ pc[c] = "done" => sig = env[c]

CalmVerify(v) ==
  /\ pc[v] # "new" /\ held[v] = {artifact}
  /\ env[v] \in signed /\ env[v].digest = artifact
  /\ pc[v] = "compare" => digest[v] = artifact
  /\ pc[v] = "failed" => env[v].signer # pin[v]

CalmInv ==
  /\ \A c \in Command : calm[c] => CalmSign(c)
  /\ \A v \in Verify : calm[v] => CalmVerify(v)

CInv == IInv /\ CalmInv

\* A step leaves a run alone.
Alone(r) ==
  /\ pc'[r] = pc[r] /\ held'[r] = held[r] /\ digest'[r] = digest[r] /\ env'[r] = env[r]
  /\ calm'[r] => calm[r]

LEMMA LeftAlone ==
  ASSUME CInv, [Next]_vars, artifact' = artifact, pin' = pin
  PROVE  /\ \A v \in Verify : Alone(v) /\ calm'[v] => CalmVerify(v)'
         /\ \A c \in Command :
              /\ Alone(c) /\ calm'[c] /\ sig' = sig
              /\ \A d \in Command \ {c} : pc'[d] = pc[d]
              => CalmSign(c)'
<1>1. signed \subseteq signed'
  BY Lasting DEF CInv
<1>2. ASSUME NEW v \in Verify, Alone(v), calm'[v] PROVE CalmVerify(v)'
  <2>1. CalmVerify(v)
    BY <1>2 DEF CInv, CalmInv, Alone
  <2>2. QED
    BY <1>1, <1>2, <2>1 DEF CalmVerify, Alone
<1>3. ASSUME NEW c \in Command, Alone(c), calm'[c], sig' = sig,
             \A d \in Command \ {c} : pc'[d] = pc[d]
      PROVE  CalmSign(c)'
  <2>1. CalmSign(c)
    BY <1>3 DEF CInv, CalmInv, Alone
  <2>2. QED
    BY <1>1, <1>3, <2>1 DEF CalmSign, Alone
<1>4. QED
  BY <1>2, <1>3

\* The one sign command at work is the only one that can be calm, so that a step of it
\* has to keep no more than its own calm.
LEMMA AtWork ==
  ASSUME CInv, [Next]_vars, artifact' = artifact, pin' = pin,
         NEW c \in Command, pc[c] \notin Idle,
         \A r \in Run \ {c} : Alone(r), calm'[c] => CalmSign(c)'
  PROVE  CalmInv'
<1>1. ASSUME NEW d \in Command \ {c} PROVE ~calm'[d]
  <2>1. ~calm[d]
    BY DEF CInv, CalmInv, CalmSign
  <2>2. QED
    BY <2>1 DEF Alone, Run
<1>2. \A v \in Verify : Alone(v)
  BY SignAssumption DEF Run
<1>3. QED
  BY <1>1, <1>2, LeftAlone DEF CalmInv

\* A run that hashed the artifact while it did not change has its digest.
LEMMA CalmHash ==
  ASSUME NEW r \in Run, HashFile(r), held[r] = {artifact}, TypeOK
  PROVE  digest'[r] = artifact
<1>1. Cardinality(held[r]) = 1
  BY FS_Singleton
<1>2. QED
  BY <1>1 DEF HashFile, TypeOK

LEMMA CalmStep == CInv /\ [Next]_vars => CalmInv'
<1> SUFFICES ASSUME CInv, [Next]_vars PROVE CalmInv'
  OBVIOUS
<1>0. Command \subseteq Run /\ Verify \subseteq Run /\ TypeOK /\ CalmInv
  BY DEF Run, CInv, IInv
<1>1. pin' = pin
  BY DEF Next, Proceed, HashFile, Begin, NoReply, CheckEnvelope, CreateSig, WriteSig, WriteFails,
    ReadSig, CheckFile, Edit, Rotate, Answer, Misreply, LateReply, Crash, vars, own
<1>2. ASSUME NEW r \in Run, NEW step, Goto(r, step)
      PROVE  pc'[r] = step /\ \A q \in Run \ {r} : pc'[q] = pc[q]
  BY <1>0, <1>2 DEF Goto, TypeOK
<1>3. CASE Edit
  BY <1>0, <1>3 DEF Edit, CalmInv
<1>4. CASE Rotate \/ UNCHANGED vars
  <2>1. artifact' = artifact /\ sig' = sig /\ pc' = pc /\ \A r \in Run : Alone(r)
    BY <1>4 DEF Rotate, vars, own, Alone
  <2>2. QED
    BY <1>0, <1>1, <2>1, LeftAlone DEF CalmInv
<1>5. ASSUME NEW r \in Run, HashFile(r) PROVE CalmInv'
  <2>1. /\ artifact' = artifact /\ sig' = sig /\ held' = held /\ calm' = calm /\ env' = env
        /\ signed' = signed /\ pc[r] = "hash"
        /\ pc'[r] = IF r \in Command THEN "ask" ELSE "compare"
    BY <1>2, <1>5 DEF HashFile, booth
  <2>2. \A q \in Run \ {r} : pc'[q] = pc[q] /\ digest'[q] = digest[q]
    BY <1>0, <1>2, <1>5 DEF HashFile, TypeOK
  <2>3. \A q \in Run \ {r} : Alone(q)
    BY <2>1, <2>2 DEF Alone
  <2>4. CASE r \in Command
    <3>1. calm'[r] => CalmSign(r)'
      BY <1>0, <1>5, <2>1, <2>2, <2>4, CalmHash DEF CalmInv, CalmSign
    <3>2. QED
      BY <1>1, <2>1, <2>3, <2>4, <3>1, AtWork DEF Idle
  <2>5. CASE r \in Verify
    <3>1. r \notin Command
      BY <2>5, SignAssumption
    <3>2. calm'[r] => CalmVerify(r)'
      BY <1>0, <1>1, <1>5, <2>1, <2>5, <3>1, CalmHash DEF CalmInv, CalmVerify
    <3>3. QED
      BY <1>0, <1>1, <2>1, <2>2, <2>3, <3>1, <3>2, LeftAlone DEF CalmInv
  <2>6. QED
    BY <2>4, <2>5 DEF Run
<1>6. ASSUME NEW c \in Command, Begin(c) PROVE CalmInv'
  <2>1. \A r \in Run : calm'[r] = (r = c /\ \A d \in Command : pc[d] \in Idle)
    BY <1>6 DEF Begin
  <2>2. \A v \in Verify : ~calm'[v]
    BY <1>0, <2>1, SignAssumption
  <2>3. pc'[c] = "hash" /\ held'[c] = {artifact} /\ artifact' = artifact
    BY <1>0, <1>2, <1>6 DEF Begin, TypeOK
  <2>4. \A d \in Command \ {c} : pc'[d] = pc[d]
    BY <1>0, <1>2, <1>6 DEF Begin
  <2>5. calm'[c] => CalmSign(c)'
    BY <1>0, <2>1, <2>3, <2>4 DEF CalmSign
  <2>6. QED
    BY <1>0, <2>1, <2>2, <2>5 DEF CalmInv
<1>7. ASSUME NEW c \in Command, Answer(c) PROVE CalmInv'
  <2>1. PICK e : e = Signs(c)
    OBVIOUS
  <2>2. /\ artifact' = artifact /\ held' = held /\ digest' = digest /\ calm' = calm
        /\ signed' = signed \cup {e} /\ env' = [env EXCEPT ![c] = e] /\ pc[c] = "ask"
        /\ Goto(c, "check")
    BY <1>7, <2>1 DEF Answer, Reply
  <2>3. \A r \in Run \ {c} : Alone(r)
    BY <1>0, <1>2, <2>2 DEF Alone, TypeOK
  <2>4. calm'[c] => CalmSign(c)'
    <3>1. env'[c] = e /\ e \in signed' /\ e.digest = digest[c] /\ pc'[c] = "check"
      BY <1>0, <1>2, <2>1, <2>2 DEF Signs, TypeOK
    <3>2. \A d \in Command \ {c} : pc'[d] = pc[d]
      BY <1>0, <1>2, <2>2
    <3>3. QED
      BY <1>0, <2>2, <3>1, <3>2 DEF CalmInv, CalmSign
  <2>5. QED
    BY <1>1, <2>2, <2>3, <2>4, AtWork DEF Idle
<1>8. ASSUME NEW c \in Command, Misreply(c) PROVE CalmInv'
  <2>1. PICK e : Reply(c, e)
    BY <1>8 DEF Misreply
  <2>2. /\ artifact' = artifact /\ held' = held /\ digest' = digest /\ pc[c] = "ask"
        /\ calm' = [calm EXCEPT ![c] = FALSE] /\ env' = [env EXCEPT ![c] = e] /\ Goto(c, "check")
    BY <1>8, <2>1 DEF Misreply, Reply
  <2>3. \A r \in Run \ {c} : Alone(r)
    BY <1>0, <1>2, <2>2 DEF Alone, TypeOK
  <2>4. ~calm'[c]
    BY <1>0, <2>2 DEF TypeOK
  <2>5. QED
    BY <1>1, <2>2, <2>3, <2>4, AtWork DEF Idle
<1>9. ASSUME NEW c \in Command,
             \/ NoReply(c) \/ LateReply(c) \/ CheckEnvelope(c) \/ CreateSig(c) \/ WriteSig(c)
             \/ WriteFails(c) \/ Crash(c)
      PROVE  CalmInv'
  <2>1. /\ artifact' = artifact /\ held' = held /\ digest' = digest /\ env' = env /\ calm' = calm
        /\ pc[c] \notin Idle /\ signed \subseteq signed'
    BY <1>9 DEF NoReply, LateReply, CheckEnvelope, CreateSig, WriteSig, WriteFails, Crash, own,
                booth, Idle
  <2>2. \/ Goto(c, "failed")
        \/ Goto(c, "create") /\ pc[c] = "check"
        \/ Goto(c, "write") /\ pc[c] = "create"
        \/ Goto(c, "done") /\ pc[c] = "write" /\ sig' = env[c]
    BY <1>9 DEF NoReply, LateReply, CheckEnvelope, CreateSig, WriteSig, WriteFails, Crash
  <2>3. \A r \in Run \ {c} : Alone(r) /\ pc'[r] = pc[r]
    BY <1>0, <1>2, <2>1, <2>2 DEF Alone
  <2>4. \/ pc'[c] = "failed"
        \/ pc'[c] \in {"create", "write"} /\ pc[c] \in {"check", "create"}
        \/ pc'[c] = "done" /\ pc[c] = "write" /\ sig' = env[c]
    BY <1>0, <1>2, <2>2
  <2>5. calm'[c] => CalmSign(c)'
    BY <1>0, <2>1, <2>3, <2>4 DEF CalmInv, CalmSign
  <2>6. QED
    BY <1>1, <2>1, <2>3, <2>5, AtWork
<1>10. ASSUME NEW v \in Verify, ReadSig(v) PROVE CalmInv'
  <2>1. /\ artifact' = artifact /\ sig' = sig /\ digest' = digest /\ signed' = signed
        /\ env'[v] = sig /\ held'[v] = {artifact} /\ pc'[v] \in {"hash", "failed"}
        /\ pc'[v] = "failed" => sig \in {None, Spoilt} \/ sig.signer # pin[v]
    BY <1>0, <1>2, <1>10 DEF ReadSig, TypeOK, booth
  <2>2. \A r \in Run \ {v} : Alone(r) /\ pc'[r] = pc[r]
    BY <1>0, <1>2, <1>10 DEF ReadSig, TypeOK, Alone
  <2>3. calm'[v] => Settled
    BY <1>0, <1>10, Zenon DEF ReadSig, TypeOK
  <2>4. calm'[v] => CalmVerify(v)'
    <3> SUFFICES ASSUME calm'[v] PROVE CalmVerify(v)'
      OBVIOUS
    <3>1. PICK c \in Command : pc[c] = "done" /\ calm[c]
      BY <2>3 DEF Settled
    <3>2. sig \in signed /\ sig.digest = artifact
      BY <1>0, <3>1 DEF CalmInv, CalmSign
    <3>3. sig \notin {None, Spoilt}
      BY <1>0, <3>2, Values, NoneAssumption DEF TypeOK
    <3>4. QED
      BY <1>1, <2>1, <3>2, <3>3 DEF CalmVerify
  <2>5. \A c \in Command : Alone(c) /\ pc'[c] = pc[c]
    BY <1>0, <2>2, SignAssumption
  <2>6. \A w \in Verify : calm'[w] => CalmVerify(w)'
    BY <1>0, <1>1, <2>1, <2>2, <2>4, LeftAlone
  <2>7. \A c \in Command : calm'[c] => CalmSign(c)'
    BY <1>1, <2>1, <2>5, LeftAlone
  <2>8. QED
    BY <2>6, <2>7 DEF CalmInv
<1>11. ASSUME NEW v \in Verify, CheckFile(v) PROVE CalmInv'
  <2>1. /\ artifact' = artifact /\ sig' = sig /\ UNCHANGED <<held, digest, env, calm, signed>>
        /\ pc[v] = "compare" /\ pc'[v] \in {"done", "failed"}
        /\ pc'[v] = "failed" => digest[v] # env[v].digest
    BY <1>0, <1>2, <1>11 DEF CheckFile, own, booth
  <2>2. \A r \in Run \ {v} : Alone(r) /\ pc'[r] = pc[r]
    BY <1>0, <1>2, <1>11, <2>1 DEF CheckFile, Alone
  <2>3. calm'[v] => CalmVerify(v)'
    BY <1>0, <1>1, <2>1 DEF CalmInv, CalmVerify
  <2>4. \A c \in Command : Alone(c) /\ pc'[c] = pc[c]
    BY <1>0, <2>2, SignAssumption
  <2>5. \A w \in Verify : calm'[w] => CalmVerify(w)'
    BY <1>0, <1>1, <2>1, <2>2, <2>3, LeftAlone
  <2>6. \A c \in Command : calm'[c] => CalmSign(c)'
    BY <1>1, <2>1, <2>4, LeftAlone
  <2>7. QED
    BY <2>5, <2>6 DEF CalmInv
<1>12. QED
  BY <1>3, <1>4, <1>5, <1>6, <1>7, <1>8, <1>9, <1>10, <1>11 DEF Next, Proceed

\* After a sign command that was answered by the booth, ran beside no other and met no
\* edit, verify fails for nothing but another pair than the one that signed
\* (remote.go:85-97, verify.go:52-69).
THEOREM SignedVerifiesCorrect == Spec => []SignedVerifies
<1>1. Init => CInv
  BY Start DEF Init, CInv, CalmInv, Run
<1>2. CInv /\ [Next]_vars => CInv'
  BY Step, CalmStep DEF CInv
<1>3. CInv => SignedVerifies
  BY DEF CInv, CalmInv, CalmVerify, SignedVerifies
<1>4. QED
  BY <1>1, <1>2, <1>3, PTL DEF Spec
=============================================================================
