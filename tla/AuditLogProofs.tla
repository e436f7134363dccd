--------------------------- MODULE AuditLogProofs ---------------------------
(***************************************************************************)
(* Proofs about AuditLog, for any number of processes, threads, bodies and *)
(* lines, on platforms with flock and on platforms without:                *)
(*   TypeCorrect   Spec => []TypeOK                                        *)
(*   ChainCorrect  Spec => []ChainIntact                                   *)
(*   DamageSticksCorrect  Spec => DamageSticks                             *)
(*   TamperShowsCorrect   Spec => []TamperShows                            *)
(*   AtMostOneLostCorrect Spec => []AtMostOneLost                          *)
(*   KeepsPromiseCorrect  Spec => KeepsPromise, where a torn line does     *)
(*                        not decode                                       *)
(* The inductive invariant says who may be inside the locks, what the file *)
(* looks like between two steps, and how the entry in the hand of the one  *)
(* thread about to write is linked to the file as it is at that moment.    *)
(***************************************************************************)
EXTENDS AuditLog, SequenceTheorems, FiniteSetTheorems, TLAPS

\* The labels between the two lock operations on the mutex, and on the flock.
HoldsMu == {"open", "flock", "scan", "write", "rest", "glued", "unflock", "unmu"}
InFile == {"scan", "write", "rest", "glued", "unflock"}

\* A thread holds the locks exactly from its lock to its unlock operations.
LockInv ==
  \A t \in Thread :
    /\ pc[t] \in HoldsMu <=> mu[ProcOf[t]] = t
    /\ Flocks /\ pc[t] \in InFile => flock = t
    /\ flock = t => pc[t] \in InFile

\* The file: only its last line may fail to decode, every other one is linked
\* to the line before it.
FileInv ==
  /\ ~eol => lines # <<>>
  /\ \A i \in 1..Len(lines) :
       IF lines[i] = Garbage THEN i = Len(lines) ELSE Follows(lines[i], i, lines)

\* The entry about to be written belongs right behind the file, and the one
\* written in part belongs where its part is.
WriterInv ==
  \A t \in Thread :
    /\ pc[t] = "write" => ScanOk(lines) /\ Follows(entry[t], Len(lines) + 1, lines)
    /\ pc[t] = "rest" => lines # <<>> /\ Follows(entry[t], Len(lines), lines)
    /\ pc[t] = "glued" => lines # <<>> /\ lines[Len(lines)] = Garbage

IInv == TypeOK /\ LockInv /\ FileInv /\ WriterInv

-----------------------------------------------------------------------------

\* A draft linked to a scanned file is an entry that follows that file.
LEMMA LinkFollows ==
  ASSUME NEW file \in Seq(Line), ScanOk(file), NEW b \in Body
  PROVE  /\ Link(file, b) \in Entry
         /\ Follows(Link(file, b), Len(file) + 1, file)
<1>1. Len(file) \in Nat
  OBVIOUS
<1>2. ASSUME file # <<>>
      PROVE  Len(file) \in 1..Len(file) /\ file[Len(file)] \in Entry
  BY <1>1, <1>2 DEF ScanOk, Line
<1>3. TailHash(file) \in Digest
  BY <1>2 DEF TailHash, Entry, Genesis, Digest
<1>4. HashOf(Len(file) + 1, b, TailHash(file)) \in Digest
  BY <1>1, <1>3 DEF HashOf, Digest
<1>5. Link(file, b) \in Entry
  BY <1>1, <1>3, <1>4 DEF Link, Entry
<1>6. TailHash(file) = IF Len(file) + 1 = 1 THEN Genesis
                       ELSE file[Len(file) + 1 - 1].hash
  BY <1>1 DEF TailHash
<1>7. QED
  BY <1>5, <1>6 DEF Link, Follows

\* Overwriting the last line keeps a file a file, and its other lines.
LEMMA Overwrite ==
  ASSUME NEW file \in Seq(Line), NEW x \in Line
  PROVE  LET new == [file EXCEPT ![Len(file)] = x]
         IN  /\ new \in Seq(Line) /\ Len(new) = Len(file)
             /\ file # <<>> => new[Len(new)] = x
             /\ \A i \in 1..(Len(file) - 1) : new[i] = file[i]
<1> DEFINE new == [file EXCEPT ![Len(file)] = x]
<1>1. file \in [1..Len(file) -> Line] /\ Len(file) \in Nat
  OBVIOUS
<1>2. new \in [1..Len(file) -> Line]
  BY <1>1
<1>3. new \in Seq(Line) /\ Len(new) = Len(file)
  BY <1>1, <1>2
<1>4. ASSUME file # <<>> PROVE new[Len(new)] = x
  <2>1. Len(file) \in 1..Len(file)
    BY <1>1, <1>4
  <2>2. QED
    BY <1>1, <1>3, <2>1
<1>5. ASSUME NEW i \in 1..(Len(file) - 1) PROVE new[i] = file[i]
  <2>1. Len(file) \in Nat
    OBVIOUS
  <2>2. i \in 1..Len(file) /\ i # Len(file)
    BY <2>1
  <2>3. QED
    BY <1>1, <2>2
<1>6. QED
  BY <1>3, <1>4, <1>5

\* Type correctness: TypeOK is inductive together with the lock invariant.
LEMMA TypeInit == Init => TypeOK
BY LogAssumption DEF Init, TypeOK, Labels

LEMMA TypeStep == TypeOK /\ LockInv /\ [Next]_vars => TypeOK'
<1> SUFFICES ASSUME TypeOK, LockInv, [Next]_vars PROVE TypeOK'
  OBVIOUS
<1> USE LogAssumption
<1>1. ASSUME NEW p \in Proc, Start(p) PROVE TypeOK'
  BY <1>1 DEF TypeOK, Start
<1>2. ASSUME NEW p \in Proc, Crash(p) PROVE TypeOK'
  <2> DEFINE gone == {t \in Thread : ProcOf[t] = p}
  <2>1. /\ mu' \in [Proc -> Thread \cup {None}] /\ flock' \in Thread \cup {None}
        /\ up' \in [Proc -> BOOLEAN] /\ pc' \in [Thread -> Labels]
        /\ entry' \in [Thread -> Entry \cup {None}]
        /\ res' \in [Thread -> {"none", "ok", "err"}]
    BY <1>2 DEF TypeOK, Crash, Labels
  <2>2. \A t \in Thread : pc'[t] = "idle" <=> entry'[t] = None
    BY <1>2 DEF TypeOK, Crash
  <2>3. \A t \in Thread : pc'[t] = "idle" => mu'[ProcOf[t]] # t /\ flock' # t
    BY <1>2 DEF TypeOK, Crash
  <2>4. QED
    BY <1>2, <2>1, <2>2, <2>3 DEF TypeOK, Crash
<1>3. ASSUME NEW t \in Thread, NEW b \in Body, Call(t, b) PROVE TypeOK'
  <2>1. [seq |-> 0, body |-> b, prev |-> Genesis, hash |-> Genesis] \in Entry
    BY DEF Entry, Digest, Genesis
  <2>2. QED
    BY <1>3, <2>1 DEF TypeOK, Call, Labels
<1>4. ASSUME NEW t \in Thread, LockMu(t) PROVE TypeOK'
  BY <1>4 DEF TypeOK, LockMu, Labels
<1>5. ASSUME NEW t \in Thread, OpenFile(t) PROVE TypeOK'
  BY <1>5 DEF TypeOK, OpenFile, Labels
<1>6. ASSUME NEW t \in Thread, LockFile(t) PROVE TypeOK'
  BY <1>6 DEF TypeOK, LockFile, Labels
<1>7. ASSUME NEW t \in Thread, ScanTail(t) PROVE TypeOK'
  <2>1. entry[t] \in Entry /\ entry[t].body \in Body
    BY <1>7 DEF ScanTail, TypeOK, Entry
  <2>2. ScanOk(lines) => Link(lines, entry[t].body) \in Entry
    BY <2>1, LinkFollows DEF TypeOK
  <2>3. QED
    BY <1>7, <2>2 DEF TypeOK, ScanTail, Labels
<1>8. ASSUME NEW t \in Thread, NEW x \in Line PROVE Extended(x) \in Seq(Line)
  <2>1. lines \in Seq(Line) /\ Garbage \in Line
    BY DEF TypeOK, Line
  <2>2. /\ Append(lines, x) \in Seq(Line)
        /\ [lines EXCEPT ![Len(lines)] = Garbage] \in Seq(Line)
    <3>1. Len(lines) \in Nat /\ lines \in [1..Len(lines) -> Line]
      BY <2>1, LenProperties
    <3>2. [lines EXCEPT ![Len(lines)] = Garbage] \in [1..Len(lines) -> Line]
      BY <2>1, <3>1
    <3>3. [lines EXCEPT ![Len(lines)] = Garbage] \in Seq(Line)
      BY <3>1, <3>2, SeqDef
    <3>4. QED
      BY <1>8, <2>1, <3>3
  <2>3. QED
    BY <2>2 DEF Extended
<1>9. ASSUME NEW t \in Thread, WriteLine(t) PROVE TypeOK'
  <2>1. entry[t] \in Line
    BY <1>9 DEF WriteLine, TypeOK, Line
  <2>2. QED
    BY <1>8, <1>9, <2>1 DEF TypeOK, WriteLine, Labels
<1>10. ASSUME NEW t \in Thread, NEW kind \in TornKinds, ShortWrite(t, kind)
       PROVE  TypeOK'
  <2>1. entry[t] \in Line /\ Garbage \in Line
    BY <1>10 DEF ShortWrite, TypeOK, Line
  <2>2. lines' \in Seq(Line)
    BY <1>8, <1>10, <2>1 DEF ShortWrite
  <2>3. QED
    BY <1>10, <2>2 DEF TypeOK, ShortWrite, Labels
<1>11. ASSUME NEW t \in Thread, FinishWrite(t) PROVE TypeOK'
  <2>1. entry[t] \in Line /\ Garbage \in Line
    BY <1>11 DEF FinishWrite, TypeOK, Line
  <2>2. lines' \in Seq(Line)
    BY <1>11, <2>1, Overwrite DEF FinishWrite, TypeOK
  <2>3. QED
    BY <1>11, <2>2 DEF TypeOK, FinishWrite, Labels
<1>12. ASSUME NEW t \in Thread, Fails(t) PROVE TypeOK'
  BY <1>12 DEF TypeOK, Fails, Labels
<1>13. ASSUME NEW t \in Thread, UnlockFile(t) PROVE TypeOK'
  BY <1>13 DEF TypeOK, UnlockFile, Labels
<1>14. ASSUME NEW t \in Thread, Return(t) PROVE TypeOK'
  BY <1>14 DEF TypeOK, Return, Labels, LockInv, HoldsMu, InFile
<1>15. CASE UNCHANGED vars
  BY <1>15 DEF TypeOK, vars
<1>16. QED
  BY <1>1, <1>2, <1>3, <1>4, <1>5, <1>6, <1>7, <1>9, <1>10, <1>11, <1>12,
     <1>13, <1>14, <1>15 DEF Next, Proceed

\* The locks: who is between its lock and unlock operations holds them.
LEMMA LockStep == TypeOK /\ LockInv /\ [Next]_vars => LockInv'
<1> SUFFICES ASSUME TypeOK, LockInv, [Next]_vars PROVE LockInv'
  OBVIOUS
<1> USE LogAssumption DEF LockInv, TypeOK, HoldsMu, InFile
<1>1. ASSUME NEW p \in Proc, Start(p) PROVE LockInv'
  BY <1>1 DEF Start
<1>2. ASSUME NEW p \in Proc, Crash(p) PROVE LockInv'
  BY <1>2 DEF Crash
<1>3. ASSUME NEW t \in Thread, NEW b \in Body, Call(t, b) PROVE LockInv'
  BY <1>3 DEF Call
<1>4. ASSUME NEW t \in Thread, LockMu(t) PROVE LockInv'
  BY <1>4 DEF LockMu
<1>5. ASSUME NEW t \in Thread, OpenFile(t) PROVE LockInv'
  BY <1>5 DEF OpenFile
<1>6. ASSUME NEW t \in Thread, LockFile(t) PROVE LockInv'
  BY <1>6 DEF LockFile
<1>7. ASSUME NEW t \in Thread, ScanTail(t) PROVE LockInv'
  BY <1>7 DEF ScanTail
<1>8. ASSUME NEW t \in Thread, WriteLine(t) PROVE LockInv'
  BY <1>8 DEF WriteLine
<1>9. ASSUME NEW t \in Thread, NEW kind \in TornKinds, ShortWrite(t, kind)
      PROVE  LockInv'
  BY <1>9 DEF ShortWrite
<1>10. ASSUME NEW t \in Thread, FinishWrite(t) PROVE LockInv'
  BY <1>10 DEF FinishWrite
<1>11. ASSUME NEW t \in Thread, Fails(t) PROVE LockInv'
  BY <1>11 DEF Fails
<1>12. ASSUME NEW t \in Thread, UnlockFile(t) PROVE LockInv'
  BY <1>12 DEF UnlockFile
<1>13. ASSUME NEW t \in Thread, Return(t) PROVE LockInv'
  BY <1>13 DEF Return
<1>14. CASE UNCHANGED vars
  BY <1>14 DEF vars
<1>15. QED
  BY <1>1, <1>2, <1>3, <1>4, <1>5, <1>6, <1>7, <1>8, <1>9, <1>10, <1>11,
     <1>12, <1>13, <1>14 DEF Next, Proceed

\* With or without flock, two threads are never between open and close of the
\* log at the same time.
LEMMA Exclusion ==
  ASSUME TypeOK, LockInv, NEW s \in Thread, NEW t \in Thread,
         pc[s] \in InFile, pc[t] \in InFile
  PROVE  s = t
BY PlatformAssumption DEF LockInv, TypeOK, HoldsMu, InFile

\* Whether e follows the file at position i depends on line i - 1 only.
LEMMA FollowsLocal ==
  ASSUME NEW e, NEW i \in Nat \ {0}, NEW file, NEW new,
         i # 1 => new[i - 1] = file[i - 1], Follows(e, i, file)
  PROVE  Follows(e, i, new)
BY DEF Follows

\* A whole entry that follows the file may be appended to it.
LEMMA AppendEntry ==
  ASSUME TypeOK, FileInv, ScanOk(lines), NEW e \in Entry,
         Follows(e, Len(lines) + 1, lines), lines' = Append(lines, e)
  PROVE  \A i \in 1..Len(lines') :
           lines'[i] # Garbage /\ Follows(lines'[i], i, lines')
<1> TAKE i \in 1..Len(lines')
<1>1. /\ Len(lines) \in Nat /\ Len(lines') = Len(lines) + 1
      /\ lines'[Len(lines) + 1] = e
      /\ \A j \in 1..Len(lines) : lines'[j] = lines[j]
  BY DEF TypeOK
<1>2. i \in Nat \ {0} /\ (i # 1 => i - 1 \in 1..Len(lines))
  BY <1>1
<1>3. i # 1 => lines'[i - 1] = lines[i - 1]
  BY <1>1, <1>2
<1>4. CASE i = Len(lines) + 1
  <2>1. lines'[i] = e /\ e # Garbage
    BY <1>1, <1>4, GarbageAssumption
  <2>2. Follows(e, i, lines')
    BY <1>2, <1>3, <1>4, FollowsLocal
  <2>3. QED
    BY <2>1, <2>2
<1>5. CASE i \in 1..Len(lines)
  <2>1. lines[i] # Garbage /\ Follows(lines[i], i, lines)
    BY <1>5 DEF FileInv, ScanOk
  <2>2. QED
    BY <1>1, <1>2, <1>3, <1>5, <2>1, FollowsLocal
<1>6. QED
  BY <1>1, <1>4, <1>5

\* A line that does not decode may follow a file that does, as its last line.
LEMMA AppendGarbage ==
  ASSUME TypeOK, FileInv, ScanOk(lines), lines' = Append(lines, Garbage)
  PROVE  \A i \in 1..Len(lines') :
           IF lines'[i] = Garbage THEN i = Len(lines')
           ELSE Follows(lines'[i], i, lines')
<1> TAKE i \in 1..Len(lines')
<1>1. /\ Len(lines) \in Nat /\ Len(lines') = Len(lines) + 1
      /\ lines'[Len(lines) + 1] = Garbage
      /\ \A j \in 1..Len(lines) : lines'[j] = lines[j]
  BY DEF TypeOK, Line
<1>2. i \in Nat \ {0} /\ (i # 1 => i - 1 \in 1..Len(lines))
  BY <1>1
<1>3. CASE i \in 1..Len(lines)
  <2>1. lines[i] # Garbage /\ Follows(lines[i], i, lines)
    BY <1>3 DEF FileInv, ScanOk
  <2>2. QED
    BY <1>1, <1>2, <1>3, <2>1, FollowsLocal
<1>4. QED
  BY <1>1, <1>3

\* The last line may be replaced by one that does not decode, or by an entry
\* that follows the lines before it.
LEMMA ReplaceLast ==
  ASSUME TypeOK, FileInv, lines # <<>>, NEW x \in Line,
         x # Garbage => Follows(x, Len(lines), lines),
         lines' = [lines EXCEPT ![Len(lines)] = x]
  PROVE  /\ Len(lines') = Len(lines) /\ lines'[Len(lines')] = x
         /\ \A i \in 1..Len(lines') :
              IF lines'[i] = Garbage THEN i = Len(lines')
              ELSE Follows(lines'[i], i, lines')
<1>1. Len(lines) \in Nat \ {0}
  BY DEF TypeOK
<1>2. Len(lines') = Len(lines) /\ lines'[Len(lines)] = x
  BY Overwrite DEF TypeOK
<1>3. \A j \in 1..(Len(lines) - 1) : lines'[j] = lines[j]
  BY Overwrite DEF TypeOK
<1>4. ASSUME NEW i \in 1..Len(lines)
      PROVE  i \in Nat \ {0} /\ (i = Len(lines) \/ i \in 1..(Len(lines) - 1))
  BY <1>1
<1>5. ASSUME NEW i \in 1..Len(lines)
      PROVE  i # 1 => lines'[i - 1] = lines[i - 1]
  <2>1. i # 1 => i - 1 \in 1..(Len(lines) - 1)
    BY <1>1
  <2>2. QED
    BY <1>3, <2>1
<1>6. ASSUME NEW i \in 1..Len(lines), lines'[i] # Garbage
      PROVE  Follows(lines'[i], i, lines')
  <2>1. Follows(lines'[i], i, lines)
    <3>1. CASE i = Len(lines)
      BY <1>2, <1>6, <3>1
    <3>2. CASE i \in 1..(Len(lines) - 1)
      BY <1>3, <1>6, <3>2 DEF FileInv
    <3>3. QED
      BY <1>4, <3>1, <3>2
  <2>2. QED
    BY <1>4, <1>5, <2>1, FollowsLocal
<1>7. ASSUME NEW i \in 1..Len(lines), lines'[i] = Garbage
      PROVE  i = Len(lines)
  BY <1>3, <1>4, <1>7 DEF FileInv
<1>8. QED
  BY <1>2, <1>6, <1>7

Writing == {"write", "rest", "glued"}

\* While one thread writes, no other thread is about to.
LEMMA LoneWriter ==
  ASSUME TypeOK, LockInv, NEW t \in Thread, pc[t] \in InFile,
         NEW s \in Thread, s # t
  PROVE  pc[s] \notin Writing
BY Exclusion DEF Writing, InFile

\* The file and the entry in the writer's hand.
LEMMA FileStep == IInv /\ [Next]_vars => FileInv' /\ WriterInv'
<1> SUFFICES ASSUME IInv, [Next]_vars PROVE FileInv' /\ WriterInv'
  OBVIOUS
<1> USE DEF IInv
<1>1. ASSUME UNCHANGED <<lines, eol>>,
             \A t \in Thread : pc'[t] \in Writing =>
               pc'[t] = pc[t] /\ entry'[t] = entry[t]
      PROVE  FileInv' /\ WriterInv'
  BY <1>1 DEF FileInv, WriterInv, Writing, Follows, ScanOk
<1>2. ASSUME NEW p \in Proc, Start(p) \/ Crash(p) PROVE FileInv' /\ WriterInv'
  BY <1>1, <1>2 DEF Start, Crash, Writing
<1>3. ASSUME NEW t \in Thread,
             \/ \E b \in Body : Call(t, b)
             \/ LockMu(t) \/ OpenFile(t) \/ LockFile(t) \/ Fails(t)
             \/ UnlockFile(t) \/ Return(t)
      PROVE  FileInv' /\ WriterInv'
  BY <1>1, <1>3 DEF Call, LockMu, OpenFile, LockFile, Fails, UnlockFile, Return,
       Writing, TypeOK
<1>4. ASSUME NEW t \in Thread, ScanTail(t) PROVE FileInv' /\ WriterInv'
  <2>1. CASE ~ScanOk(lines)
    BY <1>1, <1>4, <2>1 DEF ScanTail, Writing, TypeOK
  <2>2. CASE ScanOk(lines)
    <3>1. FileInv'
      BY <1>4, <2>2 DEF ScanTail, FileInv, Follows
    <3>2. entry[t].body \in Body
      BY <1>4 DEF ScanTail, TypeOK, Entry
    <3>3. pc'[t] = "write" /\ entry'[t] = Link(lines, entry[t].body) /\ lines' = lines
      BY <1>4, <2>2 DEF ScanTail, TypeOK
    <3>4. Follows(entry'[t], Len(lines) + 1, lines)
      BY <3>2, <3>3, <2>2, LinkFollows DEF TypeOK
    <3>5. \A s \in Thread : s # t => pc'[s] = pc[s] /\ entry'[s] = entry[s]
      BY <1>4 DEF ScanTail, TypeOK
    <3>6. QED
      BY <2>2, <3>1, <3>3, <3>4, <3>5 DEF WriterInv, ScanOk, Follows
  <2>3. QED
    BY <2>1, <2>2
<1>5. ASSUME NEW t \in Thread, pc[t] \in Writing,
             \A s \in Thread : s # t => pc'[s] = pc[s],
             pc'[t] = "unflock"
      PROVE  WriterInv'
  BY <1>5, LoneWriter DEF WriterInv, Writing, InFile
<1>6. ASSUME NEW t \in Thread, pc[t] = "write", ~eol, NEW x, lines' = Extended(x)
      PROVE  /\ lines' # <<>> /\ lines'[Len(lines')] = Garbage
             /\ \A i \in 1..Len(lines') :
                  IF lines'[i] = Garbage THEN i = Len(lines')
                  ELSE Follows(lines'[i], i, lines')
  <2>1. lines # <<>> /\ lines' = [lines EXCEPT ![Len(lines)] = Garbage]
    BY <1>6 DEF FileInv, Extended
  <2>2. Len(lines') = Len(lines) /\ Len(lines) # 0
    BY <2>1, ReplaceLast DEF Line, TypeOK
  <2>3. QED
    BY <2>1, <2>2, ReplaceLast DEF Line
<1>7. ASSUME NEW t \in Thread, WriteLine(t) PROVE FileInv' /\ WriterInv'
  <2>1. /\ ScanOk(lines) /\ Follows(entry[t], Len(lines) + 1, lines)
        /\ entry[t] \in Entry /\ pc[t] = "write" /\ eol'
        /\ lines' = Extended(entry[t])
    BY <1>7 DEF WriteLine, WriterInv, TypeOK
  <2>2. FileInv'
    <3>1. CASE eol
      BY <2>1, <3>1, AppendEntry DEF Extended, FileInv
    <3>2. CASE ~eol
      BY <2>1, <3>2, <1>6 DEF FileInv
    <3>3. QED
      BY <3>1, <3>2
  <2>3. WriterInv'
    BY <1>5, <1>7 DEF WriteLine, TypeOK, Writing
  <2>4. QED
    BY <2>2, <2>3
<1>8. ASSUME NEW t \in Thread, NEW kind \in TornKinds, ShortWrite(t, kind)
      PROVE  FileInv' /\ WriterInv'
  <2> DEFINE x == IF kind = "fragment" THEN Garbage ELSE entry[t]
  <2>1. /\ ScanOk(lines) /\ Follows(entry[t], Len(lines) + 1, lines)
        /\ entry[t] \in Entry /\ pc[t] = "write" /\ ~eol'
        /\ lines' = Extended(x) /\ entry' = entry
        /\ pc'[t] = IF eol THEN "rest" ELSE "glued"
    BY <1>8 DEF ShortWrite, WriterInv, TypeOK
  <2>2. \A s \in Thread : s # t => pc'[s] \notin Writing
    BY <1>8, <2>1, LoneWriter DEF ShortWrite, TypeOK, InFile
  <2>3. CASE eol
    <3>1. lines' = Append(lines, x) /\ (x = Garbage \/ x = entry[t])
      BY <2>1, <2>3 DEF Extended
    <3>2. Len(lines') = Len(lines) + 1 /\ lines' # <<>>
      BY <3>1 DEF TypeOK
    <3>3. FileInv'
      BY <2>1, <3>1, <3>2, AppendEntry, AppendGarbage DEF FileInv
    <3>4. Follows(entry'[t], Len(lines'), lines')
      <4>1. /\ Len(lines) \in Nat
            /\ \A j \in 1..Len(lines) : lines'[j] = lines[j]
        BY <3>1 DEF TypeOK
      <4>2. /\ Len(lines) + 1 \in Nat \ {0}
            /\ Len(lines) + 1 # 1 => Len(lines) \in 1..Len(lines)
        BY <4>1
      <4>3. Len(lines) + 1 # 1 => lines'[Len(lines) + 1 - 1] = lines[Len(lines) + 1 - 1]
        BY <4>1, <4>2
      <4>4. Follows(entry[t], Len(lines) + 1, lines')
        BY <2>1, <4>2, <4>3, FollowsLocal
      <4>5. QED
        BY <2>1, <3>2, <4>4
    <3>5. QED
      BY <2>1, <2>2, <2>3, <3>2, <3>3, <3>4 DEF WriterInv, Writing
  <2>4. CASE ~eol
    <3>1. FileInv' /\ lines' # <<>> /\ lines'[Len(lines')] = Garbage
      BY <2>1, <2>4, <1>6 DEF FileInv
    <3>2. QED
      BY <2>1, <2>2, <2>4, <3>1 DEF WriterInv, Writing
  <2>5. QED
    BY <2>3, <2>4
<1>9. ASSUME NEW t \in Thread, FinishWrite(t) PROVE FileInv' /\ WriterInv'
  <2> DEFINE x == IF pc[t] = "rest" THEN entry[t] ELSE Garbage
  <2>1. lines # <<>> /\ (x # Garbage => Follows(x, Len(lines), lines))
    BY <1>9 DEF FinishWrite, WriterInv
  <2>2. x \in Line /\ lines' = [lines EXCEPT ![Len(lines)] = x] /\ eol'
    BY <1>9 DEF FinishWrite, TypeOK, Line
  <2>3. FileInv'
    BY <2>1, <2>2, ReplaceLast DEF FileInv
  <2>4. WriterInv'
    BY <1>5, <1>9 DEF FinishWrite, TypeOK, Writing
  <2>5. QED
    BY <2>3, <2>4
<1>10. CASE UNCHANGED vars
  BY <1>1, <1>10 DEF vars
<1>11. QED
  BY <1>2, <1>3, <1>4, <1>7, <1>8, <1>9, <1>10 DEF Next, Proceed

-----------------------------------------------------------------------------

LEMMA InitInv == Init => IInv
<1>1. Init => LockInv
  BY LogAssumption DEF Init, LockInv, HoldsMu, InFile
<1>2. Init => FileInv /\ WriterInv
  BY DEF Init, FileInv, WriterInv
<1>3. QED
  BY <1>1, <1>2, TypeInit DEF IInv

LEMMA Inductive == Spec => []IInv
<1>1. IInv /\ [Next]_vars => IInv'
  BY TypeStep, LockStep, FileStep DEF IInv
<1>2. QED
  BY <1>1, InitInv, PTL DEF Spec

\* Every variable keeps its type, and a thread that is not in Append holds
\* neither lock (the deferred calls of audit.go:113-124).
THEOREM TypeCorrect == Spec => []TypeOK
<1>1. IInv => TypeOK
  BY DEF IInv
<1>2. QED
  BY <1>1, Inductive, PTL

\* Leaving the last line out leaves the others as they are.
LEMMA Front ==
  ASSUME NEW file \in Seq(Line), file # <<>>
  PROVE  LET front == SubSeq(file, 1, Len(file) - 1)
         IN  /\ front \in Seq(Line) /\ Len(front) = Len(file) - 1
             /\ \A i \in 1..(Len(file) - 1) : front[i] = file[i]
<1> DEFINE n == Len(file) - 1
<1>1. Len(file) \in Nat \ {0}
  OBVIOUS
<1>2. \A i \in 1..n : file[i] \in Line
  BY <1>1
<1>3. /\ SubSeq(file, 1, n) \in Seq(Line)
      /\ Len(SubSeq(file, 1, n)) = IF 1 <= n THEN n - 1 + 1 ELSE 0
      /\ \A i \in 1..(n - 1 + 1) : SubSeq(file, 1, n)[i] = file[1 + i - 1]
  BY <1>1, <1>2, SubSeqProperties
<1>4. n - 1 + 1 = n /\ (IF 1 <= n THEN n - 1 + 1 ELSE 0) = n
  <2>1. n \in Nat
    BY <1>1
  <2>2. ASSUME NEW k \in Nat
        PROVE  k - 1 + 1 = k /\ (IF 1 <= k THEN k - 1 + 1 ELSE 0) = k
    OBVIOUS
  <2>3. QED
    BY <2>1, <2>2
<1>5. ASSUME NEW i \in 1..(Len(file) - 1) PROVE SubSeq(file, 1, n)[i] = file[i]
  <2>1. i \in Nat
    BY <1>1
  <2>2. 1 + i - 1 = i
    BY <2>1
  <2>3. QED
    BY <1>3, <1>4, <2>2
<1>6. QED
  BY <1>3, <1>4, <1>5

\* However many writers interleave, fail and die, and on both kinds of
\* platform: every line but a last one that does not decode passes Verify
\* ("always extend one linear chain", audit.go:106-111).
THEOREM ChainCorrect == Spec => []ChainIntact
<1>1. ASSUME IInv PROVE ChainIntact
  <2>1. lines \in Seq(Line) /\ FileInv
    BY <1>1 DEF IInv, TypeOK
  <2>2. Len(lines) \in Nat
    BY <2>1
  <2>3. CASE lines # <<>> /\ lines[Len(lines)] = Garbage
    <3> DEFINE front == SubSeq(lines, 1, Len(lines) - 1)
    <3>1. /\ Len(front) = Len(lines) - 1
          /\ \A i \in 1..(Len(lines) - 1) : front[i] = lines[i]
      BY <2>1, <2>3, Front
    <3>2. ASSUME NEW i \in 1..(Len(lines) - 1)
          PROVE  front[i] # Garbage /\ Follows(front[i], i, front)
      <4>1. i \in 1..Len(lines) /\ i # Len(lines)
        BY <2>2
      <4>2. lines[i] # Garbage /\ Follows(lines[i], i, lines)
        BY <2>1, <4>1 DEF FileInv
      <4>3. i \in Nat \ {0} /\ (i # 1 => i - 1 \in 1..(Len(lines) - 1))
        BY <2>2
      <4>4. Follows(lines[i], i, front)
        BY <3>1, <4>2, <4>3, FollowsLocal
      <4>5. QED
        BY <3>1, <4>2, <4>4
    <3>3. VerifyOk(front)
      BY <3>1, <3>2 DEF VerifyOk
    <3>4. QED
      BY <2>3, <3>3 DEF ChainIntact, Intact
  <2>4. CASE ~(lines # <<>> /\ lines[Len(lines)] = Garbage)
    <3>1. ASSUME NEW i \in 1..Len(lines)
          PROVE  lines[i] # Garbage /\ Follows(lines[i], i, lines)
      BY <2>1, <2>4 DEF FileInv
    <3>2. QED
      BY <2>4, <3>1 DEF ChainIntact, Intact, VerifyOk
  <2>5. QED
    BY <2>3, <2>4
<1>2. QED
  BY <1>1, Inductive, PTL

\* A log that does not verify has one bad line, the last, and it does not decode.
LEMMA DamageIsLast ==
  ASSUME TypeOK, FileInv, ~VerifyOk(lines)
  PROVE  lines # <<>> /\ lines[Len(lines)] = Garbage /\ ~ScanOk(lines)
<1>1. Len(lines) \in Nat
  BY DEF TypeOK
<1>2. PICK i \in 1..Len(lines) : lines[i] = Garbage
  BY DEF VerifyOk, FileInv
<1>3. i = Len(lines) /\ lines # <<>>
  BY <1>1, <1>2 DEF FileInv
<1>4. QED
  BY <1>2, <1>3 DEF ScanOk

\* No append and no restart writes over a damaged line, and what looks damaged because
\* it is half written is completed by its writer alone (audit.go:126-129, 67-79).
THEOREM DamageSticksCorrect == Spec => DamageSticks
<1> DEFINE Completed == \E t \in Thread : pc[t] = "rest" /\ pc'[t] = "unflock"
           Sticks == ~VerifyOk(lines) => lines' = lines \/ (VerifyOk(lines') /\ Completed)
<1>1. ASSUME IInv, IInv', [Next]_vars PROVE Sticks
  <2> SUFFICES ASSUME ~VerifyOk(lines), lines' # lines PROVE VerifyOk(lines') /\ Completed
    OBVIOUS
  <2>1. lines # <<>> /\ lines[Len(lines)] = Garbage /\ ~ScanOk(lines)
    BY <1>1, DamageIsLast DEF IInv
  <2>2. \A t \in Thread : pc[t] # "write"
    BY <1>1, <2>1 DEF IInv, WriterInv
  <2>3. PICK t \in Thread : FinishWrite(t)
    <3>1. \A p \in Proc : ~Start(p) /\ ~Crash(p)
      BY DEF Start, Crash
    <3>2. \A t \in Thread : ~Fails(t) /\ \A b \in Body : ~Call(t, b)
      BY DEF Fails, Call
    <3>3. \A t \in Thread : ~LockMu(t) /\ ~OpenFile(t) /\ ~LockFile(t) /\ ~ScanTail(t)
                            /\ ~UnlockFile(t) /\ ~Return(t)
      BY DEF LockMu, OpenFile, LockFile, ScanTail, UnlockFile, Return
    <3>4. \A t \in Thread : ~WriteLine(t) /\ \A kind \in TornKinds : ~ShortWrite(t, kind)
      BY <2>2 DEF WriteLine, ShortWrite
    <3>5. QED
      BY <1>1, <3>1, <3>2, <3>3, <3>4 DEF Next, Proceed, vars
  <2>4. lines \in Seq(Line) /\ Garbage \in Line
    BY <1>1 DEF IInv, TypeOK, Line
  <2>5. CASE pc[t] = "rest"
    <3>1. /\ lines' = [lines EXCEPT ![Len(lines)] = entry[t]] /\ entry[t] \in Entry
          /\ pc'[t] = "unflock"
      BY <1>1, <2>3, <2>5 DEF FinishWrite, IInv, TypeOK
    <3>2. lines'[Len(lines')] = entry[t] /\ entry[t] # Garbage
      BY <2>1, <2>4, <3>1, Overwrite, GarbageAssumption DEF Line
    <3>3. TypeOK' /\ FileInv' /\ (VerifyOk(lines') \/ lines'[Len(lines')] = Garbage)
      <4>1. TypeOK' /\ FileInv'
        BY <1>1 DEF IInv
      <4>2. ASSUME NEW i \in 1..Len(lines'), lines'[i] = Garbage
            PROVE  lines'[Len(lines')] = Garbage
        BY <4>1, <4>2 DEF FileInv
      <4>3. QED
        BY <4>1, <4>2 DEF FileInv, VerifyOk
    <3>4. QED
      BY <2>5, <3>1, <3>2, <3>3
  <2>6. CASE pc[t] # "rest"
    <3>1. lines' = [lines EXCEPT ![Len(lines)] = Garbage]
      BY <2>3, <2>6 DEF FinishWrite
    <3>2. lines' = lines
      BY <2>1, <2>4, <3>1
    <3>3. QED
      BY <3>2
  <2>7. QED
    BY <2>5, <2>6
<1>2. QED
  BY <1>1, Inductive, PTL DEF Spec, DamageSticks

-----------------------------------------------------------------------------

\* Two hashes of one line under one Prev are of the same body.
LEMMA HashTellsBodies ==
  ASSUME NEW i \in Nat, NEW d \in Digest, NEW a \in Body, NEW b \in Body,
         HashOf(i, a, d) = HashOf(i, b, d)
  PROVE  a = b
<1>1. Len(d) \in Nat /\ Len(d) + 1 \in 1..(Len(d) + 1)
  BY DEF Digest
<1>2. Append(d, <<i, a>>)[Len(d) + 1] = <<i, a>> /\ Append(d, <<i, b>>)[Len(d) + 1] = <<i, b>>
  BY DEF Digest
<1>3. <<i, a>> = <<i, b>>
  BY <1>2 DEF HashOf
<1>4. QED
  BY <1>3

\* Where the lines before the i-th are those of a log that verifies and the i-th does
\* not follow them, Verify stops at i.
LEMMA StopsAt ==
  ASSUME lines \in Seq(Line), VerifyOk(lines), NEW file \in Seq(Line), NEW i \in 1..Len(file),
         i - 1 <= Len(lines), \A j \in 1..(i - 1) : file[j] = lines[j],
         ~Follows(file[i], i, file)
  PROVE  ~VerifyOk(file) /\ FirstBroken(file) = i
<1>1. Len(file) \in Nat /\ Len(lines) \in Nat /\ i \in Nat \ {0}
  OBVIOUS
<1>2. ASSUME NEW j \in 1..(i - 1) PROVE Follows(file[j], j, file)
  <2>1. j \in Nat \ {0} /\ j \in 1..Len(lines) /\ (j # 1 => j - 1 \in 1..(i - 1))
    BY <1>1
  <2>2. Follows(lines[j], j, lines)
    BY <2>1 DEF VerifyOk
  <2>3. QED
    BY <2>1, <2>2, FollowsLocal
<1> DEFINE Stop(k) == /\ ~Follows(file[k], k, file)
                      /\ \A j \in 1..(k - 1) : Follows(file[j], j, file)
<1>3. Stop(i)
  BY <1>2
<1>4. ASSUME NEW k \in 1..Len(file), Stop(k) PROVE k = i
  <2>1. k \in Nat /\ (k < i => k \in 1..(i - 1)) /\ (i < k => i \in 1..(k - 1))
    BY <1>1
  <2>2. ~(k < i) /\ ~(i < k)
    BY <1>3, <1>4, <2>1
  <2>3. QED
    BY <1>1, <2>1, <2>2
<1>5. (CHOOSE k \in 1..Len(file) : Stop(k)) = i
  <2> HIDE DEF Stop
  <2>1. QED
    BY <1>3, <1>4
<1>6. QED
  BY <1>5 DEF FirstBroken, VerifyOk

\* Every line of a log that verifies.
LEMMA VerifiedLine ==
  ASSUME lines \in Seq(Line), VerifyOk(lines), NEW i \in 1..Len(lines)
  PROVE  /\ lines[i] \in Entry /\ lines[i].seq = i
         /\ lines[i].hash = HashOf(i, lines[i].body, lines[i].prev)
         /\ i # 1 => lines[i].prev = lines[i - 1].hash
BY DEF VerifyOk, Follows, Line

\* A line of the log in the place of another one stops Verify there.
LEMMA MovedLineStops ==
  ASSUME lines \in Seq(Line), VerifyOk(lines), NEW file \in Seq(Line), NEW i \in 1..Len(file),
         i - 1 <= Len(lines), \A j \in 1..(i - 1) : file[j] = lines[j],
         NEW k \in 1..Len(lines), k # i, file[i] = lines[k]
  PROVE  ~VerifyOk(file) /\ FirstBroken(file) = i
<1>1. file[i].seq # i
  BY VerifiedLine
<1>2. QED
  BY <1>1, StopsAt DEF Follows

\* One line exchanged for another.
LEMMA SetLine ==
  ASSUME lines \in Seq(Line), NEW i \in 1..Len(lines), NEW x \in Line
  PROVE  LET file == [lines EXCEPT ![i] = x]
         IN  /\ file \in Seq(Line) /\ Len(file) = Len(lines) /\ file[i] = x
             /\ \A j \in 1..Len(lines) : j # i => file[j] = lines[j]
<1>1. lines \in [1..Len(lines) -> Line] /\ Len(lines) \in Nat
  OBVIOUS
<1> DEFINE file == [lines EXCEPT ![i] = x]
<1>2. file \in [1..Len(lines) -> Line]
  BY <1>1
<1>3. file \in Seq(Line) /\ Len(file) = Len(lines)
  BY <1>1, <1>2
<1>4. QED
  BY <1>1, <1>3

\* A line changed so that it no longer follows the lines before it stops Verify.
LEMMA ChangedLineStops ==
  ASSUME lines \in Seq(Line), VerifyOk(lines), NEW i \in 1..Len(lines), NEW x \in Entry,
         ~Follows(x, i, lines)
  PROVE  LET file == [lines EXCEPT ![i] = x] IN ~VerifyOk(file) /\ FirstBroken(file) = i
<1> DEFINE file == [lines EXCEPT ![i] = x]
<1>1. Len(lines) \in Nat /\ i \in Nat \ {0} /\ x \in Line
  BY DEF Line
<1>2. /\ file \in Seq(Line) /\ Len(file) = Len(lines) /\ file[i] = x
      /\ \A j \in 1..Len(lines) : j # i => file[j] = lines[j]
  BY <1>1, SetLine
<1>3. \A j \in 1..(i - 1) : j \in 1..Len(lines) /\ j # i
  BY <1>1
<1>4. i # 1 => i - 1 \in 1..(i - 1)
  BY <1>1
<1>5. ~Follows(file[i], i, file)
  <2>1. i # 1 => file[i - 1] = lines[i - 1]
    BY <1>2, <1>3, <1>4
  <2>2. QED
    BY <1>2, <2>1 DEF Follows
<1>6. i \in 1..Len(file) /\ i - 1 <= Len(lines)
  BY <1>1, <1>2
<1> HIDE DEF file
<1>7. ~VerifyOk(file) /\ FirstBroken(file) = i
  BY <1>2, <1>3, <1>5, <1>6, StopsAt
<1>8. QED
  BY <1>7 DEF file

\* A field of the i-th line changed by hand: Verify stops at i.
LEMMA EditStops ==
  ASSUME lines \in Seq(Line), VerifyOk(lines), NEW i \in 1..Len(lines),
         NEW file \in EditedLine(i), file # lines
  PROVE  ~VerifyOk(file) /\ FirstBroken(file) = i
<1> DEFINE e == lines[i]
           hashes == {Genesis} \cup {lines[j].hash : j \in 1..Len(lines)}
<1>1. /\ e \in Entry /\ e.seq = i /\ e.hash = HashOf(i, e.body, e.prev)
      /\ e.prev = IF i = 1 THEN Genesis ELSE lines[i - 1].hash
  BY VerifiedLine DEF VerifyOk, Follows
<1>2. hashes \subseteq Digest
  <2>1. Genesis \in Digest
    BY DEF Genesis, Digest
  <2>2. ASSUME NEW j \in 1..Len(lines) PROVE lines[j].hash \in Digest
    BY VerifiedLine DEF Entry
  <2>3. QED
    BY <2>1, <2>2
<1>3. Len(lines) \in Nat /\ i \in Nat /\ 0..Len(lines) \subseteq Nat
  OBVIOUS
<1>4. ASSUME NEW x, file = [lines EXCEPT ![i] = x] PROVE x # e
  BY <1>4
<1>5. ASSUME NEW x \in Entry, file = [lines EXCEPT ![i] = x], ~Follows(x, i, lines)
      PROVE  ~VerifyOk(file) /\ FirstBroken(file) = i
  BY <1>5, ChangedLineStops
<1>6. ASSUME NEW b \in Body, file = [lines EXCEPT ![i].body = b]
      PROVE  ~VerifyOk(file) /\ FirstBroken(file) = i
  <2> DEFINE x == [e EXCEPT !.body = b]
  <2>1. file = [lines EXCEPT ![i] = x]
    BY <1>6
  <2>2. x \in Entry /\ x.body = b /\ x.hash = e.hash /\ x.prev = e.prev
    BY <1>1 DEF Entry
  <2>3. b # e.body
    <3>1. b = e.body => x = e
      BY <1>1 DEF Entry
    <3>2. QED
      BY <1>4, <2>1, <3>1
  <2>4. ~Follows(x, i, lines)
    <3>1. HashOf(i, b, e.prev) # HashOf(i, e.body, e.prev)
      BY <1>1, <1>3, <2>3, HashTellsBodies DEF Entry
    <3>2. QED
      BY <1>1, <2>2, <3>1 DEF Follows
  <2>5. QED
    BY <1>5, <2>1, <2>2, <2>4
<1>7. ASSUME NEW k \in 0..Len(lines), file = [lines EXCEPT ![i].seq = k]
      PROVE  ~VerifyOk(file) /\ FirstBroken(file) = i
  <2> DEFINE x == [e EXCEPT !.seq = k]
  <2>1. file = [lines EXCEPT ![i] = x]
    BY <1>7
  <2>2. x \in Entry /\ x.seq = k
    BY <1>1, <1>3 DEF Entry
  <2>3. k = e.seq => x = e
    BY <1>1 DEF Entry
  <2>4. ~Follows(x, i, lines)
    BY <1>1, <1>4, <2>1, <2>2, <2>3 DEF Follows
  <2>5. QED
    BY <1>5, <2>1, <2>2, <2>4
<1>8. ASSUME NEW h \in hashes, file = [lines EXCEPT ![i].prev = h]
      PROVE  ~VerifyOk(file) /\ FirstBroken(file) = i
  <2> DEFINE x == [e EXCEPT !.prev = h]
  <2>1. file = [lines EXCEPT ![i] = x]
    BY <1>8
  <2>2. x \in Entry /\ x.prev = h
    BY <1>1, <1>2 DEF Entry
  <2>3. h = e.prev => x = e
    BY <1>1 DEF Entry
  <2>4. ~Follows(x, i, lines)
    BY <1>1, <1>4, <2>1, <2>2, <2>3 DEF Follows
  <2>5. QED
    BY <1>5, <2>1, <2>2, <2>4
<1>9. ASSUME NEW h \in hashes, file = [lines EXCEPT ![i].hash = h]
      PROVE  ~VerifyOk(file) /\ FirstBroken(file) = i
  <2> DEFINE x == [e EXCEPT !.hash = h]
  <2>1. file = [lines EXCEPT ![i] = x]
    BY <1>9
  <2>2. x \in Entry /\ x.hash = h /\ x.body = e.body /\ x.prev = e.prev
    BY <1>1, <1>2 DEF Entry
  <2>3. h = e.hash => x = e
    BY <1>1 DEF Entry
  <2>4. ~Follows(x, i, lines)
    BY <1>1, <1>4, <2>1, <2>2, <2>3 DEF Follows
  <2>5. QED
    BY <1>5, <2>1, <2>2, <2>4
<1>10. QED
  BY <1>6, <1>7, <1>8, <1>9 DEF EditedLine

\* Two lines exchanged: Verify stops at the first of them.
LEMMA ReorderStops ==
  ASSUME lines \in Seq(Line), VerifyOk(lines), NEW i \in 1..Len(lines),
         NEW file \in Reordered(i)
  PROVE  ~VerifyOk(file) /\ FirstBroken(file) = i
<1>1. PICK k \in (i + 1)..Len(lines) : file = SwapLines(i, k)
  BY DEF Reordered
<1>2. Len(lines) \in Nat /\ i \in Nat \ {0} /\ k \in 1..Len(lines) /\ i < k
  OBVIOUS
<1>3. lines \in [1..Len(lines) -> Line]
  OBVIOUS
<1>4. file \in [1..Len(lines) -> Line]
  BY <1>1, <1>2, <1>3 DEF SwapLines
<1>5. file \in Seq(Line) /\ Len(file) = Len(lines)
  BY <1>2, <1>4
<1>6. file[i] = lines[k]
  BY <1>1, <1>2, <1>3 DEF SwapLines
<1>7. ASSUME NEW j \in 1..(i - 1) PROVE file[j] = lines[j]
  <2>1. j \in 1..Len(lines) /\ j # i /\ j # k
    BY <1>2
  <2>2. QED
    BY <1>1, <1>3, <2>1 DEF SwapLines
<1>8. i \in 1..Len(file) /\ i - 1 <= Len(lines) /\ k # i
  BY <1>2, <1>5
<1>9. QED
  BY <1>2, <1>5, <1>6, <1>7, <1>8, MovedLineStops

\* The lines from one place in a file to its end, and a file made of two.
LEMMA Rest ==
  ASSUME lines \in Seq(Line), NEW m \in 1..Len(lines)
  PROVE  LET rest == SubSeq(lines, m, Len(lines))
         IN  rest \in Seq(Line) /\ Len(rest) = Len(lines) - m + 1 /\ rest[1] = lines[m]
<1>1. Len(lines) \in Nat /\ m \in Int /\ m <= Len(lines)
  OBVIOUS
<1>2. \A k \in m..Len(lines) : lines[k] \in Line
  BY <1>1
<1>3. LET rest == SubSeq(lines, m, Len(lines))
      IN  /\ rest \in Seq(Line)
          /\ Len(rest) = IF m <= Len(lines) THEN Len(lines) - m + 1 ELSE 0
          /\ \A k \in 1..(Len(lines) - m + 1) : rest[k] = lines[m + k - 1]
  BY <1>1, <1>2, SubSeqProperties
<1>4. 1 \in 1..(Len(lines) - m + 1) /\ m + 1 - 1 = m
  BY <1>1
<1>5. QED
  BY <1>1, <1>3, <1>4

LEMMA Prefix ==
  ASSUME lines \in Seq(Line), NEW i \in 1..Len(lines)
  PROVE  LET front == SubSeq(lines, 1, i - 1)
         IN  /\ front \in Seq(Line) /\ Len(front) = i - 1
             /\ \A k \in 1..(i - 1) : front[k] = lines[k]
<1>1. Len(lines) \in Nat /\ i - 1 \in Nat /\ i - 1 <= Len(lines)
  OBVIOUS
<1>2. \A k \in 1..(i - 1) : k \in 1..Len(lines) /\ lines[k] \in Line /\ 1 + k - 1 = k
  BY <1>1
<1>3. LET front == SubSeq(lines, 1, i - 1)
      IN  /\ front \in Seq(Line)
          /\ Len(front) = IF 1 <= i - 1 THEN i - 1 - 1 + 1 ELSE 0
          /\ \A k \in 1..(i - 1 - 1 + 1) : front[k] = lines[1 + k - 1]
  BY <1>1, <1>2, SubSeqProperties
<1>4. i - 1 - 1 + 1 = i - 1 /\ (IF 1 <= i - 1 THEN i - 1 - 1 + 1 ELSE 0) = i - 1
  BY <1>1
<1>5. QED
  BY <1>2, <1>3, <1>4

\* The lines before the i-th, and behind them other ones that begin with the k-th.
LEMMA SpliceStops ==
  ASSUME lines \in Seq(Line), VerifyOk(lines), NEW i \in 1..Len(lines), NEW rest \in Seq(Line),
         rest # <<>>, NEW k \in 1..Len(lines), k # i, rest[1] = lines[k]
  PROVE  LET file == SubSeq(lines, 1, i - 1) \o rest
         IN  ~VerifyOk(file) /\ FirstBroken(file) = i
<1> DEFINE front == SubSeq(lines, 1, i - 1)
           file == front \o rest
<1>1. /\ front \in Seq(Line) /\ Len(front) = i - 1
      /\ \A j \in 1..(i - 1) : front[j] = lines[j]
  BY Prefix
<1>2. Len(rest) \in Nat \ {0} /\ i - 1 \in Nat /\ i - 1 <= Len(lines)
  OBVIOUS
<1> HIDE DEF front
<1>3. /\ file \in Seq(Line) /\ Len(file) = Len(front) + Len(rest)
      /\ \A j \in 1..(Len(front) + Len(rest)) :
           file[j] = IF j <= Len(front) THEN front[j] ELSE rest[j - Len(front)]
  BY <1>1, ConcatProperties
<1>4. i \in 1..Len(file) /\ file[i] = lines[k]
  <2>1. i \in 1..(Len(front) + Len(rest)) /\ ~(i <= Len(front)) /\ i - Len(front) = 1
    BY <1>1, <1>2
  <2>2. QED
    BY <1>3, <2>1
<1>5. ASSUME NEW j \in 1..(i - 1) PROVE file[j] = lines[j]
  <2>1. j \in 1..(Len(front) + Len(rest)) /\ j <= Len(front)
    BY <1>1, <1>2
  <2>2. QED
    BY <1>1, <1>3, <2>1
<1> HIDE DEF file
<1>6. ~VerifyOk(file) /\ FirstBroken(file) = i
  BY <1>2, <1>3, <1>4, <1>5, MovedLineStops
<1>7. QED
  BY <1>6 DEF file, front

\* Lines taken out, with others behind them: Verify stops at the first of those.
LEMMA DeletionStops ==
  ASSUME lines \in Seq(Line), VerifyOk(lines), NEW i \in 1..Len(lines),
         NEW file \in Deleted(i)
  PROVE  ~VerifyOk(file) /\ FirstBroken(file) = i
<1>1. PICK k \in (i + 1)..Len(lines) :
        file = SubSeq(lines, 1, i - 1) \o SubSeq(lines, k, Len(lines))
  BY DEF Deleted
<1>2. Len(lines) \in Nat /\ k \in 1..Len(lines) /\ k # i /\ Len(lines) - k + 1 # 0
  OBVIOUS
<1> DEFINE rest == SubSeq(lines, k, Len(lines))
<1>3. rest \in Seq(Line) /\ Len(rest) = Len(lines) - k + 1 /\ rest[1] = lines[k]
  BY <1>2, Rest
<1>4. rest # <<>>
  BY <1>2, <1>3
<1> HIDE DEF rest
<1>5. ~VerifyOk(SubSeq(lines, 1, i - 1) \o rest)
      /\ FirstBroken(SubSeq(lines, 1, i - 1) \o rest) = i
  BY <1>2, <1>3, <1>4, SpliceStops
<1>6. QED
  BY <1>1, <1>5 DEF rest

\* A line put in again at another place: Verify stops there.
LEMMA InsertionStops ==
  ASSUME lines \in Seq(Line), VerifyOk(lines), NEW i \in 1..Len(lines),
         NEW file \in Inserted(i)
  PROVE  ~VerifyOk(file) /\ FirstBroken(file) = i
<1>1. PICK k \in 1..Len(lines) \ {i} :
        file = SubSeq(lines, 1, i - 1) \o <<lines[k]>> \o SubSeq(lines, i, Len(lines))
  BY DEF Inserted
<1> DEFINE front == SubSeq(lines, 1, i - 1)
           last == SubSeq(lines, i, Len(lines))
           rest == <<lines[k]>> \o last
<1>0. file = (front \o <<lines[k]>>) \o last
  BY <1>1
<1>2. front \in Seq(Line) /\ last \in Seq(Line) /\ <<lines[k]>> \in Seq(Line)
  BY Prefix, Rest
<1>3. Len(last) \in Nat /\ Len(<<lines[k]>>) = 1 /\ <<lines[k]>>[1] = lines[k]
  BY <1>2
<1> HIDE DEF front, last
<1>4. /\ rest \in Seq(Line) /\ Len(rest) = 1 + Len(last)
      /\ \A j \in 1..(1 + Len(last)) :
           rest[j] = IF j <= 1 THEN <<lines[k]>>[j] ELSE last[j - 1]
  BY <1>2, <1>3, ConcatProperties
<1>5. rest # <<>> /\ rest[1] = lines[k]
  <2>1. 1 \in 1..(1 + Len(last)) /\ 1 + Len(last) # 0
    BY <1>3
  <2>2. QED
    BY <1>3, <1>4, <2>1
<1>6. file = front \o rest
  <2>1. file = (front \o <<lines[k]>>) \o last
    BY <1>0
  <2>2. PICK mid \in Seq(Line) : mid = <<lines[k]>>
    BY <1>2
  <2>3. (front \o mid) \o last = front \o (mid \o last)
    BY <1>2, <2>2, ConcatAssociative, SMTT(30)
  <2>4. QED
    BY <2>1, <2>2, <2>3
<1> HIDE DEF rest
<1>7. ~VerifyOk(front \o rest) /\ FirstBroken(front \o rest) = i
  BY <1>4, <1>5, SpliceStops DEF front
<1>8. QED
  BY <1>6, <1>7

\* A body changed and its hash made afresh: the next line shows it.
LEMMA RewriteStops ==
  ASSUME lines \in Seq(Line), VerifyOk(lines), NEW i \in 1..Len(lines), i < Len(lines),
         NEW file \in RewrittenLine(i), file # lines
  PROVE  ~VerifyOk(file) /\ FirstBroken(file) = i + 1
<1> DEFINE e == lines[i]
<1>1. PICK b \in Body :
        file = [lines EXCEPT ![i].body = b, ![i].hash = HashOf(i, b, lines[i].prev)]
  BY DEF RewrittenLine
<1>2. Len(lines) \in Nat /\ i \in Nat \ {0} /\ i + 1 \in 1..Len(lines) /\ i + 1 # 1
  OBVIOUS
<1>3. e \in Entry /\ e.seq = i /\ e.hash = HashOf(i, e.body, e.prev)
  BY VerifiedLine
<1> DEFINE x == [e EXCEPT !.body = b, !.hash = HashOf(i, b, e.prev)]
<1>4. HashOf(i, b, e.prev) \in Digest
  BY <1>2, <1>3 DEF HashOf, Digest, Entry
<1>5. x \in Entry /\ x.seq = i /\ x.hash = HashOf(i, b, e.prev) /\ x.prev = e.prev /\ x.body = b
  BY <1>3, <1>4 DEF Entry
<1>6. file = [lines EXCEPT ![i] = x]
  <2>1. lines \in [1..Len(lines) -> Line]
    OBVIOUS
  <2>2. QED
    BY <1>1, <2>1
<1>7. b # e.body
  <2>1. b = e.body => x = e
    BY <1>3, <1>5 DEF Entry
  <2>2. x = e => file = lines
    BY <1>6
  <2>3. QED
    BY <2>1, <2>2
<1>8. x.hash # e.hash
  BY <1>2, <1>3, <1>5, <1>7, HashTellsBodies DEF Entry
<1> HIDE DEF x
<1>9. /\ file \in Seq(Line) /\ Len(file) = Len(lines) /\ file[i] = x
      /\ \A j \in 1..Len(lines) : j # i => file[j] = lines[j]
  BY <1>5, <1>6, SetLine DEF Line
<1> DEFINE Stop(k) == /\ ~Follows(file[k], k, file)
                      /\ \A j \in 1..(k - 1) : Follows(file[j], j, file)
<1>10. ASSUME NEW j \in 1..(i - 1) PROVE Follows(file[j], j, file)
  <2>1. j \in Nat \ {0} /\ j \in 1..Len(lines) /\ j # i
        /\ (j # 1 => j - 1 \in 1..Len(lines) /\ j - 1 # i)
    BY <1>2
  <2>2. Follows(lines[j], j, lines)
    BY <2>1 DEF VerifyOk
  <2>3. QED
    BY <1>9, <2>1, <2>2, FollowsLocal
<1>11. Follows(file[i], i, file)
  <2>1. i # 1 => i - 1 \in 1..Len(lines) /\ i - 1 # i
    BY <1>2
  <2>2. Follows(e, i, lines)
    BY DEF VerifyOk
  <2>3. QED
    BY <1>5, <1>9, <2>1, <2>2 DEF Follows
<1>12. ~Follows(file[i + 1], i + 1, file)
  <2>1. i + 1 # i /\ i + 1 - 1 = i
    BY <1>2
  <2>2. file[i + 1] = lines[i + 1]
    BY <1>2, <1>9, <2>1
  <2>3. lines[i + 1].prev = e.hash
    BY <1>2, <2>1, VerifiedLine
  <2>4. QED
    BY <1>2, <1>8, <1>9, <2>1, <2>2, <2>3 DEF Follows
<1>13. Stop(i + 1)
  <2>1. \A j \in 1..(i + 1 - 1) : j = i \/ j \in 1..(i - 1)
    BY <1>2
  <2>2. QED
    BY <1>10, <1>11, <1>12, <2>1
<1>14. ASSUME NEW k \in 1..Len(file), Stop(k) PROVE k = i + 1
  <2>1. k \in Nat /\ (k < i + 1 => k \in 1..(i + 1 - 1)) /\ (i + 1 < k => i + 1 \in 1..(k - 1))
    BY <1>2
  <2>2. ~(k < i + 1) /\ ~(i + 1 < k)
    BY <1>13, <1>14, <2>1
  <2>3. QED
    BY <1>2, <2>1, <2>2
<1>15. (CHOOSE k \in 1..Len(file) : Stop(k)) = i + 1
  <2> HIDE DEF Stop
  <2>1. i + 1 \in 1..Len(file)
    BY <1>2, <1>9
  <2>2. QED
    BY <1>13, <1>14, <2>1
<1>16. QED
  BY <1>2, <1>9, <1>12, <1>15 DEF FirstBroken, VerifyOk

\* Of every log that arises and verifies, each edit short of its end is reported, at its
\* line or, where the hash of the line was made afresh, at the next (audit.go:1-4, 176-179).
THEOREM TamperShowsCorrect == Spec => []TamperShows
<1>1. ASSUME TypeOK PROVE TamperShows
  <2>1. lines \in Seq(Line)
    BY <1>1 DEF TypeOK
  <2>2. SUFFICES ASSUME VerifyOk(lines), NEW i \in 1..Len(lines)
                 PROVE  /\ \A file \in (EditedLine(i) \cup Reordered(i) \cup Deleted(i)
                                         \cup Inserted(i)) \ {lines} :
                             ~VerifyOk(file) /\ FirstBroken(file) = i
                        /\ i < Len(lines) =>
                             \A file \in RewrittenLine(i) \ {lines} :
                               ~VerifyOk(file) /\ FirstBroken(file) = i + 1
    BY DEF TamperShows
  <2>3. QED
    BY <2>1, <2>2, EditStops, ReorderStops, DeletionStops, InsertionStops, RewriteStops
<1>2. QED
  BY <1>1, TypeCorrect, PTL

-----------------------------------------------------------------------------
(* What is kept of the entries, for any ways to tear a line: an entry is   *)
(* claimed once its Append can only return nil; LossInv says that every    *)
(* claimed entry is in the file and that a line without its newline is     *)
(* nobody's claim, until one claim is lost: the log then ends in a line    *)
(* that does not decode, nobody is writing, and nobody will get past the   *)
(* scan again.                                                             *)


Kept == {lines[i] : i \in 1..Len(lines)}
Claimed == acked \cup {entry[t] : t \in {s \in Thread : res[s] = "ok"}}

\* Nothing is decided before the line is written, and a line written in part has no newline.
ResInv ==
  \A t \in Thread :
    /\ res[t] = "ok" => pc[t] \in {"unflock", "unmu"}
    /\ pc[t] \in {"rest", "glued"} => ~eol

NoneLost ==
  /\ Claimed \subseteq Kept
  /\ ~eol => lines[Len(lines)] \notin Claimed

OneLost ==
  /\ lines # <<>> /\ lines[Len(lines)] = Garbage
  /\ \A t \in Thread : pc[t] \notin Writing
  /\ \E e \in Entry : Claimed \ Kept \subseteq {e}

LossInv == IInv /\ ResInv /\ (NoneLost \/ OneLost)

-----------------------------------------------------------------------------

LEMMA ResStep == TypeOK /\ LockInv /\ ResInv /\ [Next]_vars => ResInv'
<1> SUFFICES ASSUME TypeOK, LockInv, ResInv, [Next]_vars PROVE ResInv'
  OBVIOUS
<1>1. ASSUME NEW p \in Proc, Start(p) \/ Crash(p) PROVE ResInv'
  BY <1>1 DEF Start, Crash, ResInv, TypeOK
<1>2. ASSUME NEW t \in Thread, (\E b \in Body : Call(t, b)) \/ LockMu(t) \/ OpenFile(t) \/ LockFile(t)
      PROVE  ResInv'
  BY <1>2 DEF Call, LockMu, OpenFile, LockFile, ResInv, TypeOK
<1>3. ASSUME NEW t \in Thread, ScanTail(t) PROVE ResInv'
  BY <1>3 DEF ScanTail, ResInv, TypeOK
<1>4. ASSUME NEW t \in Thread, WriteLine(t) \/ FinishWrite(t) PROVE ResInv'
  <2>1. /\ pc[t] \in Writing /\ pc' = [pc EXCEPT ![t] = "unflock"]
        /\ res' = [res EXCEPT ![t] = "ok"]
    BY <1>4 DEF WriteLine, FinishWrite, Writing
  <2>2. \A s \in Thread : s # t => pc[s] \notin Writing
    BY <2>1, LoneWriter DEF Writing, InFile
  <2>3. QED
    BY <2>1, <2>2 DEF ResInv, TypeOK, Writing
<1>5. ASSUME NEW t \in Thread, NEW kind \in TornKinds, ShortWrite(t, kind) PROVE ResInv'
  BY <1>5 DEF ShortWrite, ResInv, TypeOK
<1>6. ASSUME NEW t \in Thread, Fails(t) \/ UnlockFile(t) \/ Return(t) PROVE ResInv'
  BY <1>6 DEF Fails, UnlockFile, Return, ResInv, TypeOK
<1>7. CASE UNCHANGED vars
  BY <1>7 DEF vars, ResInv
<1>8. QED
  BY <1>1, <1>2, <1>3, <1>4, <1>5, <1>6, <1>7 DEF Next, Proceed

\* What is claimed is an entry.
LEMMA ClaimedType ==
  ASSUME TypeOK, ResInv
  PROVE  Claimed \subseteq Entry
<1>1. ASSUME NEW t \in Thread, res[t] = "ok" PROVE entry[t] \in Entry
  BY <1>1 DEF TypeOK, ResInv
<1>2. QED
  BY <1>1 DEF Claimed, TypeOK

\* Every step but those of a writer leaves the file alone and claims nothing.
LEMMA Quiet ==
  ASSUME LossInv, [Next]_vars
  PROVE  \/ /\ UNCHANGED <<lines, eol>> /\ Claimed' \subseteq Claimed
            /\ \A t \in Thread : pc'[t] \in Writing => pc[t] \in Writing \/ ScanOk(lines)
         \/ \E t \in Thread :
              WriteLine(t) \/ FinishWrite(t) \/ \E kind \in TornKinds : ShortWrite(t, kind)
<1> DEFINE IsQuiet == /\ UNCHANGED <<lines, eol>> /\ Claimed' \subseteq Claimed
                      /\ \A t \in Thread : pc'[t] \in Writing => pc[t] \in Writing \/ ScanOk(lines)
<1>1. TypeOK /\ ResInv
  BY DEF LossInv, IInv
<1>2. ASSUME NEW p \in Proc, Start(p) \/ Crash(p) PROVE IsQuiet
  <2>1. Claimed' \subseteq Claimed
    BY <1>1, <1>2 DEF Start, Crash, Claimed, TypeOK
  <2>2. QED
    BY <1>1, <1>2, <2>1 DEF Start, Crash, Writing, TypeOK
<1>3. ASSUME NEW t \in Thread, NEW b \in Body, Call(t, b) PROVE IsQuiet
  <2>1. Claimed' \subseteq Claimed
    BY <1>1, <1>3 DEF Call, Claimed, TypeOK, ResInv
  <2>2. QED
    BY <1>1, <1>3, <2>1 DEF Call, Writing, TypeOK
<1>4. ASSUME NEW t \in Thread, LockMu(t) \/ OpenFile(t) \/ LockFile(t) \/ UnlockFile(t)
      PROVE  IsQuiet
  <2>1. Claimed' = Claimed
    BY <1>4 DEF LockMu, OpenFile, LockFile, UnlockFile, Claimed
  <2>2. QED
    BY <1>1, <1>4, <2>1 DEF LockMu, OpenFile, LockFile, UnlockFile, Writing, TypeOK
<1>5. ASSUME NEW t \in Thread, ScanTail(t) PROVE IsQuiet
  <2>1. Claimed' \subseteq Claimed
    BY <1>1, <1>5 DEF ScanTail, Claimed, TypeOK, ResInv
  <2>2. QED
    BY <1>1, <1>5, <2>1 DEF ScanTail, Writing, TypeOK
<1>6. ASSUME NEW t \in Thread, Fails(t) \/ Return(t) PROVE IsQuiet
  <2>1. Claimed' \subseteq Claimed
    BY <1>1, <1>6 DEF Fails, Return, Claimed, TypeOK
  <2>2. QED
    BY <1>1, <1>6, <2>1 DEF Fails, Return, Writing, TypeOK
<1>7. CASE UNCHANGED vars
  BY <1>7 DEF vars, Claimed
<1>8. QED
  BY <1>2, <1>3, <1>4, <1>5, <1>6, <1>7 DEF Next, Proceed

\* Any step that writes nothing and claims nothing.
LEMMA NoWrite ==
  ASSUME LossInv, UNCHANGED <<lines, eol>>, Claimed' \subseteq Claimed,
         \A t \in Thread : pc'[t] \in Writing => pc[t] \in Writing \/ ScanOk(lines)
  PROVE  NoneLost' \/ OneLost'
<1>1. Kept' = Kept
  BY DEF Kept
<1>2. CASE NoneLost
  BY <1>1, <1>2 DEF NoneLost
<1>3. CASE OneLost
  <2>1. ~ScanOk(lines)
    <3>1. Len(lines) \in 1..Len(lines)
      BY <1>3 DEF OneLost, LossInv, IInv, TypeOK
    <3>2. QED
      BY <1>3, <3>1 DEF OneLost, ScanOk
  <2>2. QED
    BY <1>1, <1>3, <2>1 DEF OneLost
<1>4. QED
  BY <1>2, <1>3 DEF LossInv

\* The entry in a writer's hand is in the file no sooner than it is written.
LEMMA Fresh ==
  ASSUME TypeOK, WriterInv, NEW t \in Thread, pc[t] = "write"
  PROVE  entry[t] \notin Kept /\ entry[t] \in Entry
<1>1. ScanOk(lines) /\ entry[t].seq = Len(lines) + 1
  BY DEF WriterInv, Follows
<1>2. \A i \in 1..Len(lines) : lines[i].seq = i /\ i # Len(lines) + 1
  <2>1. Len(lines) \in Nat
    BY DEF TypeOK
  <2>2. QED
    BY <1>1, <2>1 DEF ScanOk
<1>3. QED
  BY <1>1, <1>2 DEF Kept, TypeOK

\* What a line more, and another last line, make of the lines kept.
LEMMA KeptAppend ==
  ASSUME TypeOK, NEW x \in Line, lines' = Append(lines, x)
  PROVE  Kept' = Kept \cup {x} /\ lines'[Len(lines')] = x
<1>1. /\ Len(lines) \in Nat /\ Len(lines') = Len(lines) + 1 /\ lines'[Len(lines) + 1] = x
      /\ \A i \in 1..Len(lines) : lines'[i] = lines[i]
  BY DEF TypeOK
<1>2. 1..Len(lines') = 1..Len(lines) \cup {Len(lines) + 1}
  BY <1>1
<1>3. QED
  BY <1>1, <1>2 DEF Kept

LEMMA KeptOverwrite ==
  ASSUME TypeOK, lines # <<>>, NEW x \in Line, lines' = [lines EXCEPT ![Len(lines)] = x]
  PROVE  /\ Kept \ {lines[Len(lines)]} \subseteq Kept'
         /\ x \in Kept' /\ lines'[Len(lines')] = x /\ lines' # <<>>
<1>1. Len(lines) \in Nat \ {0}
  BY DEF TypeOK
<1>2. /\ Len(lines') = Len(lines) /\ lines'[Len(lines')] = x
      /\ \A i \in 1..(Len(lines) - 1) : lines'[i] = lines[i]
  BY Overwrite DEF TypeOK
<1>3. 1..Len(lines) = 1..(Len(lines) - 1) \cup {Len(lines)}
  BY <1>1
<1>4. Len(lines') \in 1..Len(lines') /\ lines' # <<>>
  <2>1. Len(lines') \in 1..Len(lines')
    <3>1. ASSUME NEW n \in Nat \ {0} PROVE n \in 1..n
      OBVIOUS
    <3>2. QED
      BY <1>1, <1>2, <3>1
  <2>2. Len(<<>>) = 0
    OBVIOUS
  <2>3. QED
    BY <1>1, <1>2, <2>1, <2>2
<1>5. QED
  BY <1>2, <1>3, <1>4 DEF Kept

-----------------------------------------------------------------------------

\* Only the three steps that write can lose something.
LEMMA LossStep == LossInv /\ [Next]_vars => NoneLost' \/ OneLost'
<1> SUFFICES ASSUME LossInv, [Next]_vars PROVE NoneLost' \/ OneLost'
  OBVIOUS
<1>1. TypeOK /\ LockInv /\ FileInv /\ WriterInv /\ ResInv
  BY DEF LossInv, IInv
<1>2. Garbage \notin Claimed /\ Garbage \in Line
  BY <1>1, ClaimedType, GarbageAssumption DEF Line
<1>3. ASSUME UNCHANGED <<lines, eol>>, Claimed' \subseteq Claimed,
             \A t \in Thread : pc'[t] \in Writing => pc[t] \in Writing \/ ScanOk(lines)
      PROVE  NoneLost' \/ OneLost'
  BY <1>3, NoWrite
<1>4. ASSUME NEW t \in Thread, pc[t] \in Writing
      PROVE  /\ NoneLost /\ entry[t] \in Entry
             /\ \A s \in Thread : s # t => pc[s] \notin Writing
  <2>1. NoneLost
    BY <1>4 DEF LossInv, OneLost
  <2>2. entry[t] \in Entry
    BY <1>1, <1>4 DEF TypeOK, Writing
  <2>3. QED
    BY <1>1, <1>4, <2>1, <2>2, LoneWriter DEF Writing, InFile
<1>5. ASSUME lines # <<>>, ~eol, NoneLost, NEW x \in Line, lines' = [lines EXCEPT ![Len(lines)] = x]
      PROVE  Claimed \subseteq Kept' /\ x \in Kept' /\ lines'[Len(lines')] = x /\ lines' # <<>>
  BY <1>1, <1>5, KeptOverwrite DEF NoneLost
<1>6. ASSUME NEW t \in Thread, pc[t] \in Writing, pc' = [pc EXCEPT ![t] = "unflock"],
             res' = [res EXCEPT ![t] = "ok"], UNCHANGED <<entry, acked>>
      PROVE  Claimed' \subseteq Claimed \cup {entry[t]} /\ \A s \in Thread : pc'[s] \notin Writing
  BY <1>1, <1>4, <1>6 DEF Claimed, TypeOK, Writing
<1>7. ASSUME NEW t \in Thread, WriteLine(t) PROVE NoneLost' \/ OneLost'
  <2>1. /\ pc[t] = "write" /\ pc[t] \in Writing /\ lines' = Extended(entry[t]) /\ eol'
        /\ Claimed' \subseteq Claimed \cup {entry[t]} /\ \A s \in Thread : pc'[s] \notin Writing
    BY <1>6, <1>7 DEF WriteLine, Writing
  <2>2. NoneLost /\ entry[t] \in Entry /\ entry[t] \in Line
    BY <1>4, <2>1 DEF Line
  <2>3. CASE eol
    <3>1. Kept' = Kept \cup {entry[t]}
      BY <1>1, <2>1, <2>2, <2>3, KeptAppend DEF Extended
    <3>2. QED
      BY <2>1, <2>2, <3>1 DEF NoneLost
  <2>4. CASE ~eol
    <3>1. lines # <<>> /\ lines' = [lines EXCEPT ![Len(lines)] = Garbage]
      BY <1>1, <2>1, <2>4 DEF Extended, FileInv
    <3>2. Claimed \subseteq Kept' /\ lines'[Len(lines')] = Garbage /\ lines' # <<>>
      BY <1>2, <1>5, <2>2, <2>4, <3>1
    <3>3. QED
      BY <2>1, <2>2, <3>2 DEF OneLost
  <2>5. QED
    BY <2>3, <2>4
<1>8. ASSUME NEW t \in Thread, NEW kind \in TornKinds, ShortWrite(t, kind)
      PROVE  NoneLost' \/ OneLost'
  <2> DEFINE x == IF kind = "fragment" THEN Garbage ELSE entry[t]
  <2>1. /\ pc[t] = "write" /\ pc[t] \in Writing /\ lines' = Extended(x) /\ ~eol'
        /\ Claimed' = Claimed
    BY <1>8 DEF ShortWrite, Writing, Claimed
  <2>2. NoneLost /\ entry[t] \in Entry /\ x \in Line
    BY <1>2, <1>4, <2>1 DEF Line
  <2>3. x \notin Claimed
    BY <1>1, <1>2, <2>1, <2>2, Fresh DEF NoneLost
  <2>4. CASE eol
    <3>1. Kept' = Kept \cup {x} /\ lines'[Len(lines')] = x
      BY <1>1, <2>1, <2>2, <2>4, KeptAppend DEF Extended
    <3>2. QED
      BY <2>1, <2>2, <2>3, <3>1 DEF NoneLost
  <2>5. CASE ~eol
    <3>1. lines # <<>> /\ lines' = [lines EXCEPT ![Len(lines)] = Garbage]
      BY <1>1, <2>1, <2>5 DEF Extended, FileInv
    <3>2. Claimed \subseteq Kept' /\ lines'[Len(lines')] = Garbage
      BY <1>2, <1>5, <2>2, <2>5, <3>1
    <3>3. QED
      BY <1>2, <2>1, <3>2 DEF NoneLost
  <2>6. QED
    BY <2>4, <2>5
<1>9. ASSUME NEW t \in Thread, FinishWrite(t) PROVE NoneLost' \/ OneLost'
  <2> DEFINE x == IF pc[t] = "rest" THEN entry[t] ELSE Garbage
  <2>1. /\ pc[t] \in {"rest", "glued"} /\ pc[t] \in Writing /\ eol'
        /\ lines' = [lines EXCEPT ![Len(lines)] = x]
        /\ Claimed' \subseteq Claimed \cup {entry[t]} /\ \A s \in Thread : pc'[s] \notin Writing
    BY <1>6, <1>9 DEF FinishWrite, Writing
  <2>2. NoneLost /\ entry[t] \in Entry /\ x \in Line
    BY <1>2, <1>4, <2>1 DEF Line
  <2>3. lines # <<>> /\ ~eol
    BY <1>1, <2>1 DEF WriterInv, ResInv
  <2>4. Claimed \subseteq Kept' /\ x \in Kept' /\ lines'[Len(lines')] = x /\ lines' # <<>>
    BY <1>5, <2>1, <2>2, <2>3
  <2>5. CASE pc[t] = "rest"
    BY <2>1, <2>4, <2>5 DEF NoneLost
  <2>6. CASE pc[t] # "rest"
    BY <2>1, <2>2, <2>4, <2>6 DEF OneLost
  <2>7. QED
    BY <2>5, <2>6
<1>10. QED
  BY <1>3, <1>7, <1>8, <1>9, Quiet

LEMMA StartLoss == Init => LossInv
<1>1. Init => ResInv /\ NoneLost
  BY DEF Init, ResInv, NoneLost, Claimed, Kept
<1>2. QED
  BY <1>1, InitInv DEF LossInv

LEMMA LossInvStep == LossInv /\ [Next]_vars => LossInv'
BY TypeStep, LockStep, FileStep, ResStep, LossStep DEF LossInv, IInv

-----------------------------------------------------------------------------

\* A damaged log takes no more entries, so of all that Append ever returned nil for at most
\* one is missing from the file, whatever tears, fails and dies (audit.go:126-144).
THEOREM AtMostOneLostCorrect == Spec => []AtMostOneLost
<1>1. LossInv => AtMostOneLost
  <2> SUFFICES ASSUME LossInv PROVE AtMostOneLost
    OBVIOUS
  <2> DEFINE lost == acked \ Kept
  <2>1. PICK e : lost \subseteq {e}
    BY DEF LossInv, NoneLost, OneLost, Claimed
  <2>2. IsFiniteSet({e}) /\ Cardinality({e}) = 1
    BY FS_Singleton
  <2>3. IsFiniteSet(lost) /\ Cardinality(lost) <= 1
    BY <2>1, <2>2, FS_Subset
  <2>4. QED
    BY <2>3 DEF AtMostOneLost, Kept
<1>2. QED
  BY <1>1, StartLoss, LossInvStep, PTL DEF Spec

-----------------------------------------------------------------------------
(* Where a torn line does not decode, a line without its newline is the    *)
(* end of everything (TornInv): no claim is ever lost, and a claim is      *)
(* acknowledged once (UniqueInv).                                          *)

\* A file that does not end in a newline ends in a line that does not decode.
TornInv == ~eol => lines[Len(lines)] = Garbage

\* No two appends claim one entry, and none claims one that is acknowledged.
UniqueInv ==
  \A t \in Thread : res[t] = "ok" =>
    /\ entry[t] \notin acked
    /\ \A s \in Thread : s # t /\ res[s] = "ok" => entry[s] # entry[t]

\* No line is ever glued to another.
NoGlue == \A t \in Thread : pc[t] # "glued"

PromiseInv == LossInv /\ Claimed \subseteq Kept /\ TornInv /\ UniqueInv /\ NoGlue

-----------------------------------------------------------------------------

\* What is in the file is there once, at its sequence number.
LEMMA Position ==
  ASSUME TypeOK, FileInv, NEW e \in Entry, e \in Kept
  PROVE  e.seq \in 1..Len(lines) /\ lines[e.seq] = e
<1>1. PICK i \in 1..Len(lines) : lines[i] = e
  BY DEF Kept
<1>2. e.seq = i
  BY <1>1, GarbageAssumption DEF FileInv, Follows
<1>3. QED
  BY <1>1, <1>2

\* Where torn lines do not decode, TornInv holds and no line is glued to another.
LEMMA TornStep ==
  ASSUME TornKinds \subseteq {"fragment"}, PromiseInv, [Next]_vars
  PROVE  /\ TornInv'
         /\ \A t \in Thread : pc[t] = "write" => eol
         /\ \A t \in Thread, kind \in TornKinds :
              ShortWrite(t, kind) => eol /\ lines' = Append(lines, Garbage)
<1>1. TypeOK /\ FileInv /\ WriterInv
  BY DEF PromiseInv, LossInv, IInv
<1>2. ASSUME NEW t \in Thread, pc[t] = "write" PROVE eol
  <2>1. ScanOk(lines) /\ (~eol => lines # <<>> /\ lines[Len(lines)] = Garbage)
    BY <1>1, <1>2 DEF WriterInv, FileInv, PromiseInv, TornInv
  <2>2. lines # <<>> => Len(lines) \in 1..Len(lines)
    BY <1>1 DEF TypeOK
  <2>3. QED
    BY <2>1, <2>2 DEF ScanOk
<1>3. ASSUME NEW t \in Thread, NEW kind \in TornKinds, ShortWrite(t, kind)
      PROVE  eol /\ lines' = Append(lines, Garbage)
  BY <1>2, <1>3 DEF ShortWrite, Extended
<1>4. TornInv'
  <2>1. CASE UNCHANGED <<lines, eol>>
    BY <2>1 DEF PromiseInv, TornInv
  <2>2. ASSUME NEW t \in Thread, WriteLine(t) \/ FinishWrite(t) PROVE TornInv'
    BY <2>2 DEF WriteLine, FinishWrite, TornInv
  <2>3. ASSUME NEW t \in Thread, NEW kind \in TornKinds, ShortWrite(t, kind) PROVE TornInv'
    <3>1. lines' = Append(lines, Garbage) /\ Garbage \in Line
      BY <1>3, <2>3 DEF Line
    <3>2. QED
      BY <1>1, <3>1, KeptAppend DEF TornInv
  <2>4. QED
    BY <2>1, <2>2, <2>3, Quiet DEF PromiseInv
<1>5. QED
  BY <1>2, <1>3, <1>4

\* How the three steps of a writer change the file, and what they claim.
LEMMA WriteStep ==
  ASSUME PromiseInv, NEW t \in Thread, WriteLine(t) \/ FinishWrite(t), pc[t] = "write" => eol
  PROVE  /\ entry[t] \in Entry /\ entry[t] \notin Kept
         /\ Claimed' \subseteq Claimed \cup {entry[t]}
         /\ Claimed \cup {entry[t]} \subseteq Kept'
         /\ res' = [res EXCEPT ![t] = "ok"] /\ UNCHANGED <<entry, acked>>
<1>1. TypeOK /\ FileInv /\ WriterInv /\ ResInv /\ TornInv /\ Claimed \subseteq Kept
  BY DEF PromiseInv, LossInv, IInv
<1>2. /\ pc[t] \in {"write", "rest"}
      /\ res' = [res EXCEPT ![t] = "ok"] /\ UNCHANGED <<entry, acked>>
  BY DEF WriteLine, FinishWrite, PromiseInv, NoGlue
<1>3. entry[t] \in Entry /\ entry[t] \in Line
  BY <1>1, <1>2 DEF TypeOK, Line
<1>4. Claimed' \subseteq Claimed \cup {entry[t]}
  BY <1>1, <1>2 DEF Claimed, TypeOK
<1>5. CASE pc[t] = "write"
  <2>1. entry[t] \notin Kept
    BY <1>1, <1>5, Fresh
  <2>2. lines' = Append(lines, entry[t])
    BY <1>5 DEF WriteLine, FinishWrite, Extended
  <2>3. Kept' = Kept \cup {entry[t]}
    BY <1>1, <1>3, <2>2, KeptAppend
  <2>4. QED
    BY <1>1, <1>2, <1>3, <1>4, <2>1, <2>3
<1>6. CASE pc[t] = "rest"
  <2>1. lines # <<>> /\ lines[Len(lines)] = Garbage /\ entry[t].seq = Len(lines)
    BY <1>1, <1>6 DEF WriterInv, ResInv, TornInv, Follows
  <2>2. entry[t] \notin Kept
    BY <1>1, <1>3, <2>1, Position, GarbageAssumption
  <2>3. lines' = [lines EXCEPT ![Len(lines)] = entry[t]]
    BY <1>6 DEF WriteLine, FinishWrite
  <2>4. Kept \ {Garbage} \subseteq Kept' /\ entry[t] \in Kept'
    BY <1>1, <1>3, <2>1, <2>3, KeptOverwrite
  <2>5. Garbage \notin Claimed
    BY <1>1, ClaimedType, GarbageAssumption
  <2>6. QED
    BY <1>1, <1>2, <1>3, <1>4, <2>2, <2>4, <2>5
<1>7. QED
  BY <1>2, <1>5, <1>6

\* TornInv leaves no thread at a glued line.
LEMMA NeverGlued ==
  ASSUME TornKinds \subseteq {"fragment"}, PromiseInv, [Next]_vars
  PROVE  NoGlue'
<1>1. TypeOK /\ NoGlue
  BY DEF PromiseInv, LossInv, IInv
<1> USE DEF NoGlue
<1>2. ASSUME NEW t \in Thread, NEW kind \in TornKinds, ShortWrite(t, kind)
      PROVE  NoGlue'
  <2>1. eol
    BY <1>2, TornStep
  <2>2. QED
    BY <1>1, <1>2, <2>1 DEF ShortWrite, TypeOK
<1>3. ASSUME NEW t \in Thread, ScanTail(t) \/ Fails(t) PROVE NoGlue'
  BY <1>1, <1>3 DEF ScanTail, Fails, TypeOK
<1>4. ASSUME NEW t \in Thread, (\E b \in Body : Call(t, b)) \/ LockMu(t) \/ OpenFile(t) \/ LockFile(t)
      PROVE  NoGlue'
  BY <1>1, <1>4 DEF Call, LockMu, OpenFile, LockFile, TypeOK
<1>5. ASSUME NEW t \in Thread, WriteLine(t) \/ FinishWrite(t) \/ UnlockFile(t) \/ Return(t)
      PROVE  NoGlue'
  BY <1>1, <1>5 DEF WriteLine, FinishWrite, UnlockFile, Return, TypeOK
<1>6. ASSUME NEW p \in Proc, Start(p) \/ Crash(p) PROVE NoGlue'
  BY <1>1, <1>6 DEF Start, Crash, TypeOK
<1>7. CASE UNCHANGED vars
  BY <1>1, <1>7 DEF vars
<1>8. QED
  BY <1>2, <1>3, <1>4, <1>5, <1>6, <1>7 DEF Next, Proceed

\* An entry is claimed, and acknowledged, once.
LEMMA UniqueStep ==
  ASSUME TornKinds \subseteq {"fragment"}, PromiseInv, [Next]_vars
  PROVE  UniqueInv'
<1>1. TypeOK /\ ResInv /\ UniqueInv /\ Claimed \subseteq Kept
  BY DEF PromiseInv, LossInv, IInv
<1>2. ASSUME UNCHANGED acked, \A t \in Thread : res'[t] = "ok" => res[t] = "ok" /\ entry'[t] = entry[t]
      PROVE  UniqueInv'
  BY <1>1, <1>2 DEF UniqueInv
<1>3. ASSUME NEW p \in Proc, Start(p) \/ Crash(p) PROVE UniqueInv'
  BY <1>1, <1>2, <1>3 DEF Start, Crash, TypeOK
<1>4. ASSUME NEW t \in Thread, (\E b \in Body : Call(t, b)) \/ ScanTail(t) \/ Fails(t) PROVE UniqueInv'
  BY <1>1, <1>2, <1>4 DEF Call, ScanTail, Fails, TypeOK, ResInv
<1>5. ASSUME NEW t \in Thread, LockMu(t) \/ OpenFile(t) \/ LockFile(t) \/ UnlockFile(t) PROVE UniqueInv'
  BY <1>2, <1>5 DEF LockMu, OpenFile, LockFile, UnlockFile
<1>6. ASSUME NEW t \in Thread, NEW kind \in TornKinds, ShortWrite(t, kind) PROVE UniqueInv'
  BY <1>2, <1>6 DEF ShortWrite
<1>7. ASSUME NEW t \in Thread, WriteLine(t) \/ FinishWrite(t) PROVE UniqueInv'
  <2>1. pc[t] = "write" => eol
    BY TornStep
  <2>2. /\ entry[t] \notin Kept /\ res' = [res EXCEPT ![t] = "ok"]
        /\ entry' = entry /\ acked' = acked
    BY <1>7, <2>1, WriteStep
  <2>3. entry[t] \notin acked /\ \A s \in Thread : res[s] = "ok" => entry[s] # entry[t]
    BY <1>1, <2>2 DEF Claimed
  <2>4. QED
    BY <1>1, <2>2, <2>3 DEF UniqueInv, TypeOK
<1>8. ASSUME NEW t \in Thread, Return(t) PROVE UniqueInv'
  <2>1. /\ res'[t] = "none" /\ acked' = IF res[t] = "ok" THEN acked \cup {entry[t]} ELSE acked
        /\ \A s \in Thread : s # t => res'[s] = res[s] /\ entry'[s] = entry[s]
    BY <1>1, <1>8 DEF Return, TypeOK
  <2>2. QED
    BY <1>1, <2>1 DEF UniqueInv
<1>9. CASE UNCHANGED vars
  BY <1>2, <1>9 DEF vars
<1>10. QED
  BY <1>3, <1>4, <1>5, <1>6, <1>7, <1>8, <1>9 DEF Next, Proceed

\* No claim is lost.
LEMMA KeepStep ==
  ASSUME TornKinds \subseteq {"fragment"}, PromiseInv, [Next]_vars
  PROVE  Claimed' \subseteq Kept'
<1>1. TypeOK /\ Claimed \subseteq Kept
  BY DEF PromiseInv, LossInv, IInv
<1>2. CASE UNCHANGED <<lines, eol>> /\ Claimed' \subseteq Claimed
  BY <1>1, <1>2 DEF Kept
<1>3. ASSUME NEW t \in Thread, WriteLine(t) \/ FinishWrite(t) PROVE Claimed' \subseteq Kept'
  BY <1>3, TornStep, WriteStep
<1>4. ASSUME NEW t \in Thread, NEW kind \in TornKinds, ShortWrite(t, kind) PROVE Claimed' \subseteq Kept'
  <2>1. lines' = Append(lines, Garbage) /\ Garbage \in Line
    BY <1>4, TornStep DEF Line
  <2>2. Kept' = Kept \cup {Garbage} /\ Claimed' = Claimed
    BY <1>1, <1>4, <2>1, KeptAppend DEF ShortWrite, Claimed
  <2>3. QED
    BY <1>1, <2>2
<1>5. QED
  BY <1>2, <1>3, <1>4, Quiet DEF PromiseInv

LEMMA PromiseInvariant ==
  ASSUME TornKinds \subseteq {"fragment"}
  PROVE  Spec => []PromiseInv
<1>1. Init => PromiseInv
  BY StartLoss DEF Init, PromiseInv, TornInv, UniqueInv, NoGlue, Claimed, Kept
<1>2. PromiseInv /\ [Next]_vars => PromiseInv'
  BY LossInvStep, KeepStep, TornStep, UniqueStep, NeverGlued DEF PromiseInv
<1>3. QED
  BY <1>1, <1>2, PTL DEF Spec

-----------------------------------------------------------------------------
(* The refinement mapping: the log is the lines before a last one that does *)
(* not decode, by their bodies.                                             *)

Log == [i \in 1..Len(Intact(lines)) |-> lines[i].body]
Acked == {<<e.seq, e.body>> : e \in acked}

LEMMA IntactLength ==
  ASSUME NEW file \in Seq(Line)
  PROVE  Len(Intact(file)) = IF file # <<>> /\ file[Len(file)] = Garbage
                             THEN Len(file) - 1 ELSE Len(file)
BY Front DEF Intact

\* The bodies of a file with an entry more.
LEMMA OneMore ==
  ASSUME TypeOK, FileInv, NEW n \in Nat, n = Len(Intact(lines)), n <= Len(lines),
         n + 1 = Len(Intact(lines')), NEW b \in Body, lines'[n + 1].body = b,
         \A i \in 1..n : lines'[i] = lines[i] /\ lines[i] # Garbage
  PROVE  Log' = Append(Log, b)
<1>1. \A i \in 1..n : lines[i].body \in Body /\ lines'[i].body = lines[i].body
  BY DEF TypeOK, Line, Entry
<1>2. Log = [i \in 1..n |-> lines[i].body] /\ Log \in Seq(Body) /\ Len(Log) = n
  BY <1>1 DEF Log
<1>3. \A i \in 1..(n + 1) : lines'[i].body \in Body /\ (i \in 1..n \/ i = n + 1)
  BY <1>1
<1>4. /\ Log' = [i \in 1..(n + 1) |-> lines'[i].body]
      /\ Log' \in Seq(Body) /\ Len(Log') = n + 1
  BY <1>3 DEF Log
<1>5. /\ Append(Log, b) \in Seq(Body) /\ Len(Append(Log, b)) = n + 1
      /\ \A i \in 1..n : Append(Log, b)[i] = Log[i]
      /\ Append(Log, b)[n + 1] = b
  BY <1>2, AppendProperties
<1>6. \A i \in 1..(n + 1) : Log'[i] = Append(Log, b)[i]
  BY <1>1, <1>2, <1>3, <1>4, <1>5
<1>7. Len(Log') = Len(Append(Log, b)) /\ \A i \in 1..Len(Log') : Log'[i] = Append(Log, b)[i]
  BY <1>4, <1>5, <1>6
<1>8. QED
  BY <1>4, <1>5, <1>7, SeqEqual

\* A writer's last step records the body of its entry.
LEMMA Records ==
  ASSUME TornKinds \subseteq {"fragment"}, PromiseInv, [Next]_vars,
         NEW t \in Thread, WriteLine(t) \/ FinishWrite(t)
  PROVE  Log' = Append(Log, entry[t].body) /\ entry[t].body \in Body
<1>1. TypeOK /\ FileInv /\ WriterInv /\ ResInv /\ TornInv /\ Len(lines) \in Nat
  BY DEF PromiseInv, LossInv, IInv, TypeOK
<1>2. entry[t] \in Entry /\ entry[t] \in Line /\ entry[t].body \in Body /\ entry[t] # Garbage
  <2>1. entry[t] \in Entry
    BY TornStep, WriteStep
  <2>2. QED
    BY <2>1, GarbageAssumption DEF Line, Entry
<1>3. CASE pc[t] = "write"
  <2>1. eol /\ ScanOk(lines)
    BY <1>1, <1>3, TornStep DEF WriterInv
  <2>2. lines' = Append(lines, entry[t])
    BY <1>3, <2>1 DEF WriteLine, FinishWrite, Extended
  <2>3. /\ lines' \in Seq(Line) /\ Len(lines') = Len(lines) + 1 /\ lines'[Len(lines) + 1] = entry[t]
        /\ \A i \in 1..Len(lines) : lines'[i] = lines[i] /\ lines[i] # Garbage
    BY <1>1, <1>2, <2>1, <2>2 DEF TypeOK, ScanOk
  <2>4. Len(Intact(lines)) = Len(lines)
    <3>1. lines # <<>> => Len(lines) \in 1..Len(lines)
      BY <1>1 DEF TypeOK
    <3>2. QED
      BY <1>1, <2>3, <3>1, IntactLength DEF TypeOK
  <2>5. Len(Intact(lines')) = Len(lines) + 1
    BY <1>2, <2>3, IntactLength
  <2>6. QED
    BY <1>1, <1>2, <2>3, <2>4, <2>5, OneMore
<1>4. CASE pc[t] = "rest"
  <2>1. lines # <<>> /\ lines[Len(lines)] = Garbage /\ Len(lines) \in Nat \ {0}
    BY <1>1, <1>4 DEF WriterInv, ResInv, TornInv, TypeOK
  <2>2. lines' = [lines EXCEPT ![Len(lines)] = entry[t]]
    BY <1>4 DEF WriteLine, FinishWrite
  <2>3. /\ lines' \in Seq(Line) /\ Len(lines') = Len(lines) /\ lines'[Len(lines')] = entry[t]
        /\ \A i \in 1..(Len(lines) - 1) : lines'[i] = lines[i]
    BY <1>1, <1>2, <2>1, <2>2, Overwrite DEF TypeOK
  <2>4. \A i \in 1..(Len(lines) - 1) : lines[i] # Garbage
    BY <1>1, <2>1 DEF FileInv
  <2>5. Len(Intact(lines)) = Len(lines) - 1
    BY <1>1, <2>1, IntactLength DEF TypeOK
  <2>6. Len(Intact(lines')) = Len(lines)
    BY <1>2, <2>3, IntactLength
  <2>7. PICK n \in Nat : Len(lines) = n + 1 /\ n = Len(lines) - 1
    BY <2>1
  <2>8. n = Len(Intact(lines)) /\ n <= Len(lines) /\ n + 1 = Len(Intact(lines'))
    BY <2>5, <2>6, <2>7
  <2>9. /\ lines'[n + 1].body = entry[t].body
        /\ \A i \in 1..n : lines'[i] = lines[i] /\ lines[i] # Garbage
    BY <2>3, <2>4, <2>7
  <2>10. QED
    BY <1>1, <1>2, <2>8, <2>9, OneMore
<1>5. QED
  BY <1>3, <1>4 DEF WriteLine, FinishWrite, PromiseInv, NoGlue

\* A fragment is no line of the log yet.
LEMMA Fragments ==
  ASSUME TypeOK, FileInv, ScanOk(lines), lines' = Append(lines, Garbage)
  PROVE  Log' = Log
<1>1. /\ lines' \in Seq(Line) /\ Len(lines') = Len(lines) + 1 /\ lines'[Len(lines) + 1] = Garbage
      /\ \A i \in 1..Len(lines) : lines'[i] = lines[i] /\ lines[i] # Garbage
      /\ Len(lines) \in Nat
  BY DEF TypeOK, Line, ScanOk
<1>2. Len(Intact(lines)) = Len(lines)
  <2>1. lines # <<>> => Len(lines) \in 1..Len(lines)
    BY DEF TypeOK
  <2>2. QED
    BY <1>1, <2>1, IntactLength DEF TypeOK
<1>3. Len(Intact(lines')) = Len(lines)
  <2>1. lines' # <<>> /\ lines'[Len(lines')] = Garbage
    BY <1>1
  <2>2. Len(Intact(lines')) = Len(lines') - 1
    BY <1>1, <2>1, IntactLength
  <2>3. QED
    BY <1>1, <2>2
<1>4. QED
  BY <1>1, <1>2, <1>3 DEF Log

\* What is claimed has its position in the log.
LEMMA InLog ==
  ASSUME TypeOK, FileInv, Claimed \subseteq Kept, ResInv, NEW e \in Claimed
  PROVE  e \in Entry /\ e.seq \in 1..Len(Log) /\ Log[e.seq] = e.body /\ lines[e.seq] = e
<1>1. e \in Entry /\ e.seq \in 1..Len(lines) /\ lines[e.seq] = e /\ e # Garbage
  BY ClaimedType, Position, GarbageAssumption
<1>2. Len(Intact(lines)) = IF lines # <<>> /\ lines[Len(lines)] = Garbage
                           THEN Len(lines) - 1 ELSE Len(lines)
  BY IntactLength DEF TypeOK
<1>3. Len(lines) \in Nat
  BY DEF TypeOK
<1>4. e.seq \in 1..Len(Intact(lines)) /\ Len(Intact(lines)) \in Nat
  BY <1>1, <1>2, <1>3
<1>5. Len(Log) = Len(Intact(lines))
  BY <1>4 DEF Log
<1>6. QED
  BY <1>1, <1>4, <1>5 DEF Log

\* "Appends lock ... so always extend one linear chain" (audit.go:52-55, 106-111): where a
\* torn line does not decode, the log under any interleaving and any failure is one that
\* only grows, in which every acknowledged append has a position of its own for ever.
THEOREM KeepsPromiseCorrect ==
  ASSUME TornKinds \subseteq {"fragment"}
  PROVE  Spec => KeepsPromise
<1>1. Init => Promise!Init
  <2>1. ASSUME Init PROVE Log = <<>> /\ Acked = {}
    <3>1. Len(Intact(lines)) = 0
      BY <2>1 DEF Init, Intact
    <3>2. Log = [i \in 1..0 |-> lines[i].body]
      BY <3>1 DEF Log
    <3>3. QED
      BY <2>1, <3>2 DEF Init, Acked
  <2>2. QED
    BY <2>1 DEF Promise!Init, Log, Acked
<1>2. PromiseInv /\ [Next]_vars => [Promise!Next]_(Promise!vars)
  <2> SUFFICES ASSUME PromiseInv, [Next]_vars PROVE [Promise!Next]_(Promise!vars)
    OBVIOUS
  <2>1. TypeOK /\ FileInv /\ WriterInv /\ ResInv /\ Claimed \subseteq Kept /\ UniqueInv
    BY DEF PromiseInv, LossInv, IInv
  <2>2. ASSUME UNCHANGED Log, UNCHANGED Acked PROVE [Promise!Next]_(Promise!vars)
    BY <2>2 DEF Promise!vars, Log, Acked
  <2>3. ASSUME UNCHANGED <<lines, acked>> PROVE [Promise!Next]_(Promise!vars)
    BY <2>2, <2>3 DEF Log, Acked, Intact
  <2>4. ASSUME NEW t \in Thread, WriteLine(t) \/ FinishWrite(t) PROVE [Promise!Next]_(Promise!vars)
    <3>1. Log' = Append(Log, entry[t].body) /\ entry[t].body \in Body
      BY <2>4, Records
    <3>2. acked' = acked
      BY <2>4 DEF WriteLine, FinishWrite
    <3>3. Acked' = Acked
      BY <3>2 DEF Acked
    <3>4. PICK b \in Body : b = entry[t].body
      BY <3>1
    <3>5. Promise!Record(b)
      BY <3>1, <3>3, <3>4 DEF Promise!Record, Log, Acked
    <3>6. QED
      BY <3>5 DEF Promise!Next
  <2>5. ASSUME NEW t \in Thread, NEW kind \in TornKinds, ShortWrite(t, kind)
        PROVE  [Promise!Next]_(Promise!vars)
    <3>1. ScanOk(lines) /\ lines' = Append(lines, Garbage) /\ acked' = acked
      BY <2>1, <2>5, TornStep DEF ShortWrite, WriterInv
    <3>2. QED
      BY <2>1, <2>2, <3>1, Fragments DEF Acked
  <2>6. ASSUME NEW t \in Thread, Return(t) PROVE [Promise!Next]_(Promise!vars)
    <3>1. lines' = lines
      BY <2>6 DEF Return
    <3>2. CASE res[t] # "ok"
      BY <2>3, <2>6, <3>2 DEF Return
    <3>3. CASE res[t] = "ok"
      <4>1. acked' = acked \cup {entry[t]} /\ entry[t] \in Claimed /\ entry[t] \notin acked
        BY <2>1, <2>6, <3>3 DEF Return, Claimed, UniqueInv
      <4>2. PICK e : e = entry[t]
        OBVIOUS
      <4>3. e.seq \in 1..Len(Log) /\ Log[e.seq] = e.body /\ lines[e.seq] = e
        BY <2>1, <4>1, <4>2, InLog
      <4>4. <<e.seq, e.body>> \notin Acked
        <5>1. ASSUME NEW a \in acked, a.seq = e.seq PROVE a = e
          <6>1. lines[a.seq] = a
            BY <2>1, InLog DEF Claimed
          <6>2. QED
            BY <4>3, <5>1, <6>1
        <5>2. QED
          BY <4>1, <4>2, <5>1 DEF Acked
      <4>5. Acked' = Acked \cup {<<e.seq, Log[e.seq]>>} /\ Log' = Log
        BY <3>1, <4>1, <4>2, <4>3 DEF Acked, Log, Intact
      <4>6. Promise!Acknowledge(e.seq)
        BY <4>3, <4>4, <4>5 DEF Promise!Acknowledge, Log, Acked
      <4>7. QED
        BY <4>3, <4>6 DEF Promise!Next, Log
    <3>4. QED
      BY <3>2, <3>3
  <2>7. ASSUME NEW p \in Proc, Start(p) \/ Crash(p) PROVE UNCHANGED <<lines, acked>>
    BY <2>7 DEF Start, Crash
  <2>8. ASSUME NEW t \in Thread,
               \/ \E b \in Body : Call(t, b)
               \/ LockMu(t) \/ OpenFile(t) \/ LockFile(t) \/ ScanTail(t) \/ Fails(t) \/ UnlockFile(t)
        PROVE  UNCHANGED <<lines, acked>>
    BY <2>8 DEF Call, LockMu, OpenFile, LockFile, ScanTail, Fails, UnlockFile
  <2>9. UNCHANGED vars => UNCHANGED <<lines, acked>>
    BY DEF vars
  <2>10. QED
    BY <2>3, <2>4, <2>5, <2>6, <2>7, <2>8, <2>9 DEF Next, Proceed
<1>3. Spec => []PromiseInv
  BY PromiseInvariant
<1>4. QED
  BY <1>1, <1>2, <1>3, PTL DEF Spec, KeepsPromise, Promise!Spec
=============================================================================
