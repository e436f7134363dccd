--------------------------- MODULE KeyFilesProofs ---------------------------
(***************************************************************************)
(* TypeOK, SignsFinishedKeys, LoadIsAtomic and ReportedStands for any      *)
(* terminals, requests and bounds.                                         *)
(* The order in which Create writes its files makes the metadata vouch for *)
(* the public half: whatever key the metadata names, and whatever key a    *)
(* command is about to write there, has been published.                    *)
(***************************************************************************)
EXTENDS KeyFiles, TLAPS

\* An idle command starts at the first file, any other has a key, and one at the
\* last file has published it.
OrderInv ==
  \A c \in Command :
    /\ IF pc[c] = "idle" THEN at[c] = "key" ELSE mine[c] \in Key
    /\ pc[c] = "stat" => at[c] = "key"
    /\ at[c] = "meta" => mine[c] \in published

\* The metadata names a published key, if any.
MetaInv == files["meta"] \in published \cup {Absent, Torn}

\* A request that goes on to the metadata has read a key.
LoadInv == \A r \in Request : step[r] = "meta" => key[r] \in Key

IInv == TypeOK /\ OrderInv /\ MetaInv /\ LoadInv /\ SignsFinishedKeys

-----------------------------------------------------------------------------

LEMMA Values == Absent \notin Key /\ Torn \notin Key /\ Absent # Torn
BY DEF Absent, Torn, Key

\* What a write leaves of the types and of the metadata.
LEMMA WriteKeeps ==
  ASSUME TypeOK, NEW f \in File, NEW x \in Content, Write(f, x)
  PROVE  /\ files' \in [File -> Content]
         /\ usable' \in [Request -> SUBSET Key]
         /\ files'["meta"] = IF f = "meta" THEN x ELSE files["meta"]
<1>1. files' \in [File -> Content] /\ files' = [files EXCEPT ![f] = x]
  BY DEF Write, TypeOK
<1>2. files'["meta"] = IF f = "meta" THEN x ELSE files["meta"]
  BY <1>1 DEF TypeOK, File
<1>3. usable' \in [Request -> SUBSET Key]
  BY DEF Write, TypeOK
<1>4. QED
  BY <1>1, <1>2, <1>3

\* A command that ends leaves everything that is about files and requests.
LEMMA EndsKeeps ==
  ASSUME IInv, NEW c \in Command, Ends(c)
  PROVE  /\ pc' \in [Command -> {"idle", "stat", "open", "write", "audit"}]
         /\ at' \in [Command -> File]
         /\ mine' \in [Command -> Key \cup {Absent}] /\ linked' \in [Command -> BOOLEAN]
         /\ \A d \in Command : pc'[d] = "audit" => at'[d] = "meta" /\ mine'[d] \in published
         /\ OrderInv'
<1> USE DEF IInv, TypeOK, OrderInv, Ends, File
<1>1. \A d \in Command : d # c => pc'[d] = pc[d] /\ at'[d] = at[d] /\ mine'[d] = mine[d]
  OBVIOUS
<1>2. pc'[c] = "idle" /\ at'[c] = "key"
  OBVIOUS
<1>3. published' = published
  OBVIOUS
<1>4. QED
  BY <1>1, <1>2, <1>3

LEMMA Step == IInv /\ [Next]_vars => IInv'
<1> SUFFICES ASSUME IInv, [Next]_vars PROVE IInv'
  OBVIOUS
<1> USE DEF IInv
<1>1. ASSUME NEW c \in Command, Begin(c) PROVE IInv'
  <2>1. begun' = begun + 1 /\ begun + 1 \in Key /\ begun' \in 0..MaxCommands
    BY <1>1, KeyAssumption DEF Begin, TypeOK, Key
  <2>2. TypeOK'
    BY <1>1, <2>1 DEF Begin, TypeOK, request
  <2>3. OrderInv'
    BY <1>1, <2>1 DEF Begin, TypeOK, OrderInv
  <2>4. MetaInv' /\ LoadInv' /\ SignsFinishedKeys'
    BY <1>1 DEF Begin, MetaInv, LoadInv, SignsFinishedKeys, request
  <2>5. QED
    BY <2>2, <2>3, <2>4
<1>2. ASSUME NEW c \in Command, Stat(c) PROVE IInv'
  <2>1. CASE files["key"] = Absent
    <3>1. TypeOK'
      BY <1>2, <2>1 DEF Stat, TypeOK, request
    <3>2. OrderInv'
      BY <1>2, <2>1 DEF Stat, TypeOK, OrderInv
    <3>3. MetaInv' /\ LoadInv' /\ SignsFinishedKeys'
      BY <1>2, <2>1 DEF Stat, MetaInv, LoadInv, SignsFinishedKeys, request
    <3>4. QED
      BY <3>1, <3>2, <3>3
  <2>2. CASE files["key"] # Absent
    <3>1. Ends(c) /\ UNCHANGED <<files, reported, usable>>
      BY <1>2, <2>2 DEF Stat
    <3>2. TypeOK' /\ OrderInv'
      BY <3>1, EndsKeeps DEF TypeOK, Ends, request
    <3>3. MetaInv' /\ LoadInv' /\ SignsFinishedKeys'
      BY <3>1 DEF Ends, MetaInv, LoadInv, SignsFinishedKeys, request
    <3>4. QED
      BY <3>2, <3>3
  <2>3. QED
    BY <2>1, <2>2
<1>3. ASSUME NEW c \in Command, OpenFile(c) PROVE IInv'
  <2>1. at[c] \in File /\ Torn \in Content
    BY DEF TypeOK, Content
  <2>2. Write(at[c], Torn)
    BY <1>3 DEF OpenFile
  <2>3. /\ files' \in [File -> Content] /\ usable' \in [Request -> SUBSET Key]
        /\ files'["meta"] \in {Torn, files["meta"]}
    BY <2>1, <2>2, WriteKeeps
  <2>4. TypeOK'
    BY <1>3, <2>3 DEF OpenFile, TypeOK, request
  <2>5. OrderInv'
    BY <1>3 DEF OpenFile, TypeOK, OrderInv
  <2>6. MetaInv' /\ LoadInv' /\ SignsFinishedKeys'
    BY <1>3, <2>3 DEF OpenFile, MetaInv, LoadInv, SignsFinishedKeys, request
  <2>7. QED
    BY <2>4, <2>5, <2>6
<1>4. ASSUME NEW c \in Command, WriteFile(c) PROVE IInv'
  <2>1. mine[c] \in Key /\ mine[c] \in Content /\ at[c] \in File
    BY <1>4 DEF WriteFile, TypeOK, OrderInv, Content
  <2>2. published' = published \cup (IF at[c] = "pub" THEN {mine[c]} ELSE {})
    BY <1>4 DEF WriteFile
  <2>3. /\ files' \in [File -> Content] /\ usable' \in [Request -> SUBSET Key]
        /\ files'["meta"] \in {files["meta"], mine[c]}
        /\ at[c] # "meta" => files'["meta"] = files["meta"]
    <3>1. CASE linked[c]
      BY <1>4, <2>1, <3>1, WriteKeeps DEF WriteFile
    <3>2. CASE ~linked[c]
      BY <1>4, <3>2 DEF WriteFile, TypeOK
    <3>3. QED
      BY <3>1, <3>2
  <2>4. MetaInv'
    BY <2>2, <2>3 DEF MetaInv, OrderInv
  <2>5. UNCHANGED <<mine, linked, begun, deletes, request, sole, reported, deleted>>
    BY <1>4 DEF WriteFile
  <2>6. LoadInv' /\ SignsFinishedKeys'
    BY <2>2, <2>5 DEF LoadInv, SignsFinishedKeys, request
  <2>7. \/ /\ at[c] = "key" /\ pc' = [pc EXCEPT ![c] = "open"]
           /\ at' = [at EXCEPT ![c] = "pub"]
        \/ /\ at[c] = "pub" /\ pc' = [pc EXCEPT ![c] = "open"]
           /\ at' = [at EXCEPT ![c] = "meta"]
        \/ /\ at[c] = "meta" /\ pc' = [pc EXCEPT ![c] = "audit"]
           /\ at' = at
    BY <1>4, <2>1 DEF WriteFile, NextFile, File
  <2>8. /\ pc' \in [Command -> {"idle", "stat", "open", "write", "audit"}]
        /\ at' \in [Command -> File]
    BY <2>7 DEF TypeOK, File
  <2>9. OrderInv'
    BY <2>1, <2>2, <2>5, <2>7 DEF OrderInv, TypeOK
  <2>10. \A d \in Command : pc'[d] = "audit" => at'[d] = "meta" /\ mine'[d] \in published'
    BY <2>2, <2>5, <2>7, <2>9 DEF OrderInv, TypeOK
  <2>11. TypeOK'
    BY <2>1, <2>2, <2>3, <2>5, <2>8, <2>10 DEF TypeOK, request
  <2>12. QED
    BY <2>4, <2>6, <2>9, <2>11
<1>5. ASSUME NEW c \in Command, WriteFails(c) PROVE IInv'
  <2>1. at[c] \in File /\ Torn \in Content
    BY DEF TypeOK, Content
  <2>2. Ends(c) /\ reported' = reported
    BY <1>5 DEF WriteFails
  <2>3. /\ files' \in [File -> Content] /\ usable' \in [Request -> SUBSET Key]
        /\ files'["meta"] \in {Torn, files["meta"]}
    <3>1. CASE linked[c]
      BY <1>5, <2>1, <3>1, WriteKeeps DEF WriteFails
    <3>2. CASE ~linked[c]
      BY <1>5, <3>2 DEF WriteFails, TypeOK
    <3>3. QED
      BY <3>1, <3>2
  <2>4. TypeOK' /\ OrderInv'
    BY <2>2, <2>3, EndsKeeps DEF TypeOK, Ends, request
  <2>5. MetaInv' /\ LoadInv' /\ SignsFinishedKeys'
    BY <2>2, <2>3 DEF Ends, MetaInv, LoadInv, SignsFinishedKeys, request
  <2>6. QED
    BY <2>4, <2>5
<1>6. ASSUME NEW c \in Command, Report(c) PROVE IInv'
  <2>1. mine[c] \in published /\ Ends(c) /\ UNCHANGED <<files, usable>>
    BY <1>6 DEF Report, TypeOK
  <2>2. /\ UNCHANGED <<sole, published, deleted>>
        /\ sole \subseteq Key /\ published \subseteq Key /\ reported' \subseteq Key
        /\ deleted \subseteq Key
    BY <1>6, <2>1 DEF Report, Ends, TypeOK
  <2>3. \A K \in {sole', published', reported', deleted'} : K \subseteq Key
    BY <2>2
  <2>4. /\ OrderInv'
        /\ \A d \in Command : pc'[d] = "audit" => at'[d] = "meta" /\ mine'[d] \in published'
    BY <2>1, <2>2, EndsKeeps
  <2>5. TypeOK'
    BY <2>1, <2>3, <2>4, EndsKeeps DEF TypeOK, Ends, request
  <2>6. MetaInv' /\ LoadInv' /\ SignsFinishedKeys'
    BY <2>1 DEF Ends, MetaInv, LoadInv, SignsFinishedKeys, request
  <2>7. QED
    BY <2>4, <2>5, <2>6
<1>7. ASSUME NEW c \in Command, OpenFails(c) \/ AuditFails(c) \/ Crash(c) PROVE IInv'
  <2>1. Ends(c) /\ UNCHANGED <<files, reported, usable>>
    BY <1>7 DEF OpenFails, AuditFails, Crash
  <2>2. TypeOK' /\ OrderInv'
    BY <2>1, EndsKeeps DEF TypeOK, Ends, request
  <2>3. MetaInv' /\ LoadInv' /\ SignsFinishedKeys'
    BY <2>1 DEF Ends, MetaInv, LoadInv, SignsFinishedKeys, request
  <2>4. QED
    BY <2>2, <2>3
<1>8. ASSUME NEW f \in File, Delete(f) PROVE IInv'
  <2>1. Absent \in Content /\ Write(f, Absent)
    BY <1>8 DEF Delete, Content
  <2>2. /\ files' \in [File -> Content] /\ usable' \in [Request -> SUBSET Key]
        /\ files'["meta"] \in {Absent, files["meta"]}
    BY <2>1, WriteKeeps
  <2>3. deletes' \in 0..MaxDeletes
    BY <1>8, KeyAssumption DEF Delete, TypeOK
  <2>4. TypeOK'
    BY <1>8, <2>2, <2>3 DEF Delete, TypeOK, request
  <2>5. OrderInv'
    BY <1>8 DEF Delete, OrderInv
  <2>6. MetaInv' /\ LoadInv' /\ SignsFinishedKeys'
    BY <1>8, <2>2 DEF Delete, MetaInv, LoadInv, SignsFinishedKeys, request
  <2>7. QED
    BY <2>4, <2>5, <2>6
<1>9. ASSUME NEW r \in Request, LoadKey(r) PROVE IInv'
  <2>1. files["key"] \in Content
    BY DEF TypeOK, File
  <2>2. TypeOK'
    BY <1>9, <2>1 DEF LoadKey, TypeOK, command
  <2>3. OrderInv' /\ MetaInv'
    BY <1>9 DEF LoadKey, OrderInv, MetaInv, command
  <2>4. LoadInv' /\ SignsFinishedKeys'
    BY <1>9 DEF LoadKey, LoadInv, SignsFinishedKeys, TypeOK
  <2>5. QED
    BY <2>2, <2>3, <2>4
<1>10. ASSUME NEW r \in Request, LoadMeta(r) PROVE IInv'
  <2>1. key[r] \in Key /\ (files["meta"] = key[r] => key[r] \in published)
    BY <1>10, Values DEF LoadMeta, LoadInv, MetaInv
  <2>2. TypeOK'
    BY <1>10, <2>1 DEF LoadMeta, TypeOK, command
  <2>3. OrderInv' /\ MetaInv'
    BY <1>10 DEF LoadMeta, OrderInv, MetaInv, command
  <2>4. LoadInv' /\ SignsFinishedKeys'
    BY <1>10, <2>1 DEF LoadMeta, LoadInv, SignsFinishedKeys, TypeOK
  <2>5. QED
    BY <2>2, <2>3, <2>4
<1>11. CASE UNCHANGED vars
  BY <1>11 DEF vars, command, request, TypeOK, OrderInv, MetaInv, LoadInv, SignsFinishedKeys
<1>12. QED
  BY <1>1, <1>2, <1>3, <1>4, <1>5, <1>6, <1>7, <1>8, <1>9, <1>10, <1>11 DEF Next

LEMMA Inductive == Spec => []IInv
<1>1. Init => IInv
  BY KeyAssumption DEF Init, IInv, TypeOK, OrderInv, MetaInv, LoadInv,
    SignsFinishedKeys, Content, Key, File, Absent, Torn
<1>2. QED
  BY <1>1, Step, PTL DEF Spec

\* Every variable of the key files keeps its type, and a command that is about to
\* log its key has written the files before (keystore.go:72-94).
THEOREM TypeCorrect == Spec => []TypeOK
<1>1. IInv => TypeOK
  BY DEF IInv
<1>2. QED
  BY <1>1, Inductive, PTL

\* However many commands overlap, fail and die, and whatever is deleted, Load
\* never returns a key whose public half was not written (keystore.go:72-94, 123-129).
THEOREM SignsFinishedKeysCorrect == Spec => []SignsFinishedKeys
<1>1. IInv => SignsFinishedKeys
  BY DEF IInv
<1>2. QED
  BY <1>1, Inductive, PTL

-----------------------------------------------------------------------------
(* LoadIsAtomic.  A command that has its name for itself finds at its last *)
(* file what it wrote to its first, so a request that has read the one and *)
(* then meets the other was under way when the key became whole.           *)

\* Keys that nobody has generated yet are nowhere.
BornInv ==
  /\ \A f \in File : files[f] <= begun
  /\ \A c \in Command : mine[c] <= begun
  /\ \A r \in Request : key[r] <= begun /\ signer[r] <= begun
  /\ \A k \in sole : k <= begun

\* A command that has its name for itself is the only one at its files, and what it has
\* written keeps others from finding the name free.
SoleInv ==
  \A c \in Command : Creating(c) /\ mine[c] \in sole =>
    /\ \A d \in Command : d # c => ~Writing(d)
    /\ pc[c] = "write" => linked[c]
    /\ files["key"] # Absent \/ (pc[c] = "open" /\ at[c] = "key")
    /\ at[c] # "key" => files["key"] = mine[c]

UsableInv ==
  \A r \in Request : step[r] = "meta" /\ files["meta"] = key[r] /\ key[r] \in sole =>
    key[r] \in usable[r]

\* The command ends without reporting a key, and the files stay as they are.
Quits(c) == OpenFails(c) \/ AuditFails(c) \/ Crash(c)

AtomicInv == IInv /\ BornInv /\ SoleInv /\ UsableInv /\ LoadIsAtomic

\* What a write does to the key file and the metadata, and to who has met a whole key.
LEMMA WriteFacts ==
  ASSUME TypeOK, NEW f \in File, NEW x \in Content, Write(f, x)
  PROVE  /\ \A g \in File : files'[g] = IF g = f THEN x ELSE files[g]
         /\ \A r \in Request : usable[r] \subseteq usable'[r]
         /\ \A r \in Request : step[r] # "idle" /\ files'["key"] = files'["meta"] /\ files'["key"] \in Key
              => files'["key"] \in usable'[r]
BY DEF Write, TypeOK

LEMMA BornStep == AtomicInv /\ [Next]_vars => BornInv'
<1> SUFFICES ASSUME AtomicInv, [Next]_vars PROVE BornInv'
  OBVIOUS
<1>1. TypeOK /\ BornInv /\ begun \in Nat /\ "key" \in File /\ "meta" \in File
  BY KeyAssumption DEF AtomicInv, IInv, TypeOK, File
<1>2. -1 <= begun /\ 0 <= begun
  BY <1>1
<1>3. ASSUME NEW c \in Command, Begin(c) PROVE BornInv'
  <2>1. begun' = begun + 1 /\ \A k \in Int : k <= begun => k <= begun'
    BY <1>1, <1>3 DEF Begin
  <2>2. /\ \A f \in File : files[f] \in Int
        /\ \A d \in Command : mine[d] \in Int
        /\ \A r \in Request : key[r] \in Int /\ signer[r] \in Int
        /\ \A k \in sole : k \in Int
    BY <1>1, KeyAssumption DEF TypeOK, Content, Key, Absent, Torn
  <2>3. /\ files' = files /\ key' = key /\ signer' = signer
        /\ mine' = [mine EXCEPT ![c] = begun + 1] /\ sole' \subseteq sole \cup {begun + 1}
    BY <1>3 DEF Begin, request
  <2>4. \A d \in Command : mine'[d] <= begun'
    BY <1>1, <2>1, <2>2, <2>3 DEF BornInv, TypeOK
  <2>5. \A k \in sole' : k <= begun'
    BY <1>1, <2>1, <2>2, <2>3 DEF BornInv
  <2>6. QED
    BY <1>1, <2>1, <2>2, <2>3, <2>4, <2>5 DEF BornInv
<1>4. ASSUME NEW f \in File, NEW x \in Content, x <= begun, Write(f, x)
      PROVE  \A g \in File : files'[g] <= begun
  BY <1>1, <1>4, WriteFacts DEF BornInv
<1>5. ASSUME NEW c \in Command, Ends(c)
      PROVE  (\A d \in Command : mine'[d] <= begun') /\ UNCHANGED <<begun, key, signer, sole>>
  BY <1>1, <1>2, <1>5 DEF Ends, TypeOK, BornInv, Absent, request
<1>6. ASSUME NEW c \in Command, Stat(c) \/ Report(c) \/ Quits(c) PROVE BornInv'
  BY <1>1, <1>5, <1>6 DEF Stat, Report, Quits, OpenFails, AuditFails, Crash, BornInv, request
<1>7. ASSUME NEW c \in Command, OpenFile(c) PROVE BornInv'
  <2>1. at[c] \in File /\ Torn \in Content /\ Torn <= begun
    BY <1>1, <1>2 DEF TypeOK, Content, Torn
  <2>2. \A g \in File : files'[g] <= begun
    BY <1>4, <1>7, <2>1 DEF OpenFile
  <2>3. QED
    BY <1>1, <1>7, <2>2 DEF OpenFile, BornInv, request
<1>8. ASSUME NEW c \in Command, WriteFile(c) PROVE BornInv'
  <2>1. at[c] \in File /\ mine[c] \in Content /\ mine[c] <= begun
    BY <1>1 DEF TypeOK, Content, BornInv
  <2>2. \A g \in File : files'[g] <= begun
    BY <1>1, <1>4, <1>8, <2>1 DEF WriteFile, BornInv
  <2>3. QED
    BY <1>1, <1>8, <2>2 DEF WriteFile, BornInv, request
<1>9. ASSUME NEW c \in Command, WriteFails(c) PROVE BornInv'
  <2>1. at[c] \in File /\ Torn \in Content /\ Torn <= begun
    BY <1>1, <1>2 DEF TypeOK, Content, Torn
  <2>2. \A g \in File : files'[g] <= begun
    BY <1>1, <1>4, <1>9, <2>1 DEF WriteFails, BornInv
  <2>3. QED
    BY <1>1, <1>5, <1>9, <2>2 DEF WriteFails, BornInv
<1>10. ASSUME NEW f \in File, Delete(f) PROVE BornInv'
  <2>1. Absent \in Content /\ Absent <= begun
    BY <1>2 DEF Content, Absent
  <2>2. \A g \in File : files'[g] <= begun
    BY <1>4, <1>10, <2>1 DEF Delete
  <2>3. QED
    BY <1>1, <1>10, <2>2 DEF Delete, BornInv, request
<1>11. ASSUME NEW r \in Request, LoadKey(r) \/ LoadMeta(r) PROVE BornInv'
  BY <1>1, <1>2, <1>11 DEF LoadKey, LoadMeta, BornInv, TypeOK, command, Absent
<1>12. CASE UNCHANGED vars
  BY <1>1, <1>12 DEF vars, BornInv, command, request
<1>13. QED
  BY <1>3, <1>6, <1>7, <1>8, <1>9, <1>10, <1>11, <1>12 DEF Next, Quits

LEMMA SoleStep == AtomicInv /\ [Next]_vars => SoleInv'
<1> SUFFICES ASSUME AtomicInv, [Next]_vars PROVE SoleInv'
  OBVIOUS
<1>1. /\ TypeOK /\ OrderInv /\ BornInv /\ SoleInv
      /\ begun \in Nat /\ begun + 1 > begun /\ "key" \in File
  BY KeyAssumption DEF AtomicInv, IInv, TypeOK, File
\* Nobody begins to write, and no file changes.
<1>2. ASSUME files' = files, sole' \subseteq sole,
             \A c \in Command : \/ pc'[c] \in {"idle", "stat"}
                                \/ /\ pc'[c] = pc[c] /\ at'[c] = at[c]
                                   /\ mine'[c] = mine[c] /\ linked'[c] = linked[c]
      PROVE  SoleInv'
  BY <1>2, <1>1 DEF SoleInv, Creating, Writing
<1>3. ASSUME NEW c \in Command, Begin(c) PROVE SoleInv'
  <2>1. \A d \in Command : d # c /\ mine[d] \in sole' => mine[d] \in sole
    <3>1. \A k \in Int : k <= begun => k # begun + 1
      BY <1>1
    <3>2. \A d \in Command : mine[d] \in Int /\ mine[d] <= begun
      BY <1>1, KeyAssumption DEF TypeOK, Key, Absent, BornInv
    <3>3. QED
      BY <1>3, <3>1, <3>2 DEF Begin
  <2>2. /\ pc'[c] = "stat" /\ files' = files
        /\ \A d \in Command : d # c => /\ pc'[d] = pc[d] /\ at'[d] = at[d]
                                       /\ mine'[d] = mine[d] /\ linked'[d] = linked[d]
    BY <1>1, <1>3 DEF Begin, TypeOK
  <2>3. QED
    BY <1>1, <2>1, <2>2 DEF SoleInv, Creating, Writing
<1>4. ASSUME NEW c \in Command, Ends(c)
      PROVE  /\ sole' = sole /\ pc'[c] = "idle"
             /\ \A d \in Command : d # c => /\ pc'[d] = pc[d] /\ mine'[d] = mine[d]
                                            /\ at'[d] = at[d] /\ linked'[d] = linked[d]
  BY <1>1, <1>4 DEF Ends, TypeOK
<1>5. ASSUME NEW c \in Command, Stat(c) PROVE SoleInv'
  <2>1. CASE files["key"] = Absent
    <3>1. /\ pc[c] = "stat" /\ pc'[c] = "open" /\ files' = files /\ sole' = sole \ Raced(c)
          /\ at' = at /\ mine' = mine /\ linked' = linked
          /\ \A d \in Command : d # c => pc'[d] = pc[d]
      BY <1>1, <1>5, <2>1 DEF Stat, TypeOK
    <3>2. at[c] = "key"
      BY <1>1, <3>1 DEF OrderInv
    \* Whoever writes is a rival: were its key sole, and the name not in its hands
    \* since it opened the key file, that file would be there.
    <3>3. ASSUME NEW d \in Command, d # c, Writing(d)
          PROVE  mine[c] \notin sole' /\ mine[d] \notin sole'
      <4>1. (pc[d] = "open" /\ at[d] = "key") \/ mine[d] \notin sole
        BY <1>1, <2>1, <3>3 DEF SoleInv, Creating, Writing
      <4>2. mine[c] \in Raced(c) /\ mine[d] \in Raced(c)
        BY <3>3, <4>1 DEF Raced
      <4>3. QED
        BY <3>1, <4>2
    <3>4. ASSUME NEW d \in Command, d # c, Creating(d) PROVE mine[d] \notin sole'
      <4>1. CASE Writing(d)
        BY <3>3, <3>4, <4>1
      <4>2. CASE pc[d] = "audit"
        <5>1. at[d] = "meta" /\ mine[d] \in Key
          BY <1>1, <4>2 DEF TypeOK, OrderInv
        <5>2. mine[d] \notin sole
          BY <1>1, <2>1, <3>4, <5>1, Values DEF SoleInv
        <5>3. QED
          BY <3>1, <5>2
      <4>3. QED
        BY <1>1, <3>4, <4>1, <4>2 DEF TypeOK, Creating, Writing
    <3>5. QED
      BY <3>1, <3>2, <3>3, <3>4 DEF SoleInv, Creating, Writing
  <2>2. CASE files["key"] # Absent
    <3>1. Ends(c) /\ files' = files
      BY <1>5, <2>2 DEF Stat
    <3>2. QED
      BY <1>2, <1>4, <3>1
  <2>3. QED
    BY <2>1, <2>2
<1>6. ASSUME NEW c \in Command, Report(c) \/ Quits(c) PROVE SoleInv'
  <2>1. Ends(c) /\ files' = files
    BY <1>6 DEF Report, Quits, OpenFails, AuditFails, Crash
  <2>2. QED
    BY <1>2, <1>4, <2>1
\* The only writer moves: no other key is sole, whatever becomes of the files.
<1>7. ASSUME NEW c \in Command, Writing(c), sole' = sole,
             \A d \in Command : d # c => pc'[d] = pc[d] /\ mine'[d] = mine[d],
             Creating(c)' => /\ mine'[c] = mine[c]
                             /\ mine[c] \in sole =>
                                  /\ pc'[c] = "write" => linked'[c]
                                  /\ files'["key"] # Absent
                                  /\ at'[c] # "key" => files'["key"] = mine[c]
      PROVE  SoleInv'
  <2>1. \A d \in Command : d # c /\ Creating(d) => mine[d] \notin sole
    BY <1>1, <1>7 DEF SoleInv
  <2>2. Creating(c)
    BY <1>7 DEF Creating, Writing
  <2>3. \A d \in Command : d # c => (Creating(d)' <=> Creating(d)) /\ (Writing(d)' <=> Writing(d))
    BY <1>7 DEF Creating, Writing
  <2>4. QED
    BY <1>1, <1>7, <2>1, <2>2, <2>3 DEF SoleInv
<1>8. ASSUME NEW c \in Command, WriteFails(c) PROVE SoleInv'
  <2>1. Writing(c) /\ Ends(c)
    BY <1>8 DEF WriteFails, Writing
  <2>2. ~Creating(c)'
    BY <1>4, <2>1 DEF Creating
  <2>3. QED
    BY <1>4, <1>7, <2>1, <2>2
<1>9. ASSUME NEW c \in Command, OpenFile(c) PROVE SoleInv'
  <2>1. /\ pc[c] = "open" /\ mine' = mine /\ sole' = sole /\ linked'[c] /\ at' = at
        /\ \A d \in Command : d # c => pc'[d] = pc[d]
    BY <1>1, <1>9 DEF OpenFile, TypeOK
  <2>2. files'["key"] = IF at[c] = "key" THEN Torn ELSE files["key"]
    <3>1. at[c] \in File /\ Torn \in Content
      BY <1>1 DEF TypeOK, Content
    <3>2. QED
      BY <1>1, <1>9, <3>1, WriteFacts DEF OpenFile
  <2>3. mine[c] \in sole /\ at[c] # "key" => files["key"] = mine[c] /\ mine[c] # Absent
    <3>1. mine[c] \in Key
      BY <1>1, <2>1 DEF OrderInv
    <3>2. QED
      BY <1>1, <2>1, <3>1, Values DEF SoleInv, Creating
  <2>4. QED
    BY <1>7, <2>1, <2>2, <2>3, Values DEF Writing
<1>10. ASSUME NEW c \in Command, WriteFile(c) PROVE SoleInv'
  <2>1. /\ pc[c] = "write" /\ mine' = mine /\ sole' = sole /\ linked' = linked
        /\ \A d \in Command : d # c => pc'[d] = pc[d]
    BY <1>1, <1>10 DEF WriteFile, TypeOK
  <2>2. at[c] \in File /\ mine[c] \in Content /\ mine[c] \in Key /\ mine[c] # Absent
    BY <1>1, <2>1, Values DEF TypeOK, OrderInv, Content
  <2>3. linked[c] => files'["key"] = IF at[c] = "key" THEN mine[c] ELSE files["key"]
    BY <1>1, <1>10, <2>2, WriteFacts DEF WriteFile
  <2>4. mine[c] \in sole => linked[c] /\ (at[c] # "key" => files["key"] = mine[c])
    BY <1>1, <2>1 DEF SoleInv, Creating
  <2>5. mine[c] \in sole => files'["key"] = mine[c]
    BY <2>3, <2>4
  <2>6. QED
    BY <1>7, <2>1, <2>2, <2>4, <2>5 DEF Writing
<1>11. ASSUME NEW f \in File, Delete(f) PROVE SoleInv'
  <2>1. \A c \in Command : Creating(c)' => mine'[c] \notin sole'
    BY <1>11 DEF Delete, Creating
  <2>2. QED
    BY <2>1 DEF SoleInv
<1>12. ASSUME NEW r \in Request, LoadKey(r) \/ LoadMeta(r) PROVE SoleInv'
  BY <1>2, <1>12 DEF LoadKey, LoadMeta, command
<1>13. CASE UNCHANGED vars
  BY <1>2, <1>13 DEF vars, command
<1>14. QED
  BY <1>3, <1>5, <1>6, <1>8, <1>9, <1>10, <1>11, <1>12, <1>13 DEF Next, Quits

LEMMA UsableStep == AtomicInv /\ [Next]_vars => UsableInv' /\ LoadIsAtomic'
<1> SUFFICES ASSUME AtomicInv, [Next]_vars PROVE UsableInv' /\ LoadIsAtomic'
  OBVIOUS
<1>1. /\ TypeOK /\ OrderInv /\ LoadInv /\ BornInv /\ SoleInv /\ UsableInv /\ LoadIsAtomic
      /\ begun \in Nat /\ "key" \in File /\ "meta" \in File
  BY KeyAssumption DEF AtomicInv, IInv, TypeOK, File
<1>2. ASSUME UNCHANGED <<step, key, signer>>, files'["meta"] = files["meta"] \/ files'["meta"] \notin Key,
             \A r \in Request : usable[r] \subseteq usable'[r], sole' \subseteq sole
      PROVE  UsableInv' /\ LoadIsAtomic'
  BY <1>1, <1>2 DEF UsableInv, LoadIsAtomic, LoadInv
<1>3. ASSUME NEW c \in Command, Begin(c) PROVE UsableInv' /\ LoadIsAtomic'
  <2>1. \A k \in Int : k <= begun => k # begun + 1
    BY <1>1
  <2>2. \A r \in Request : key[r] \in Int /\ signer[r] \in Int
    BY <1>1, KeyAssumption DEF TypeOK, Content, Key, Absent, Torn
  <2>3. \A r \in Request : key[r] # begun + 1 /\ signer[r] # begun + 1
    BY <1>1, <2>1, <2>2 DEF BornInv
  <2>4. UNCHANGED <<files, step, key, signer, usable>> /\ sole' \subseteq sole \cup {begun + 1}
    BY <1>3 DEF Begin, request
  <2>5. QED
    BY <1>1, <2>3, <2>4 DEF UsableInv, LoadIsAtomic
<1>4. ASSUME NEW f \in File, NEW x \in Content, x \notin Key \/ f # "meta", Write(f, x),
             UNCHANGED <<step, key, signer>>, sole' \subseteq sole
      PROVE  UsableInv' /\ LoadIsAtomic'
  <2>1. files'["meta"] = files["meta"] \/ files'["meta"] \notin Key
    BY <1>1, <1>4, WriteFacts
  <2>2. \A r \in Request : usable[r] \subseteq usable'[r]
    BY <1>1, <1>4, WriteFacts
  <2>3. QED
    BY <1>2, <1>4, <2>1, <2>2
<1>5. Torn \in Content \ Key /\ Absent \in Content \ Key
  BY Values DEF Content
<1>6. ASSUME NEW c \in Command, Stat(c) \/ Report(c) \/ Quits(c) PROVE UsableInv' /\ LoadIsAtomic'
  BY <1>2, <1>6 DEF Stat, Report, Quits, OpenFails, AuditFails, Crash, Ends, request
<1>7. ASSUME NEW c \in Command, OpenFile(c) PROVE UsableInv' /\ LoadIsAtomic'
  <2>1. at[c] \in File
    BY <1>1 DEF TypeOK
  <2>2. QED
    BY <1>4, <1>5, <1>7, <2>1 DEF OpenFile, request
<1>8. ASSUME NEW c \in Command, WriteFile(c) PROVE UsableInv' /\ LoadIsAtomic'
  <2>1. at[c] \in File /\ mine[c] \in Content /\ pc[c] = "write" /\ mine[c] \in Key
    BY <1>1, <1>8 DEF WriteFile, OrderInv, TypeOK, Content
  <2>2. UNCHANGED <<step, key, signer>> /\ sole' = sole
    BY <1>8 DEF WriteFile, request
  <2>3. CASE ~linked[c]
    BY <1>2, <1>8, <2>2, <2>3 DEF WriteFile
  <2>4. CASE linked[c] /\ at[c] # "meta"
    BY <1>4, <1>8, <2>1, <2>2, <2>4 DEF WriteFile
  <2>5. CASE linked[c] /\ at[c] = "meta"
    <3>1. Write("meta", mine[c])
      BY <1>8, <2>5 DEF WriteFile
    <3>2. /\ files'["meta"] = mine[c] /\ files'["key"] = files["key"]
          /\ \A r \in Request : usable[r] \subseteq usable'[r]
      BY <1>1, <2>1, <3>1, WriteFacts DEF File
    <3>3. mine[c] \in sole => files'["key"] = mine[c]
      BY <1>1, <2>1, <2>5, <3>2 DEF SoleInv, Creating
    <3>4. ASSUME NEW r \in Request, step[r] = "meta", mine[c] \in sole PROVE mine[c] \in usable'[r]
      BY <1>1, <2>1, <3>1, <3>2, <3>3, <3>4, WriteFacts
    <3>5. UsableInv'
      BY <2>2, <3>2, <3>4 DEF UsableInv
    <3>6. LoadIsAtomic'
      BY <1>1, <2>2, <3>2 DEF LoadIsAtomic
    <3>7. QED
      BY <3>5, <3>6
  <2>6. QED
    BY <2>3, <2>4, <2>5
<1>9. ASSUME NEW c \in Command, WriteFails(c) PROVE UsableInv' /\ LoadIsAtomic'
  <2>1. at[c] \in File /\ UNCHANGED <<step, key, signer>> /\ sole' = sole
    BY <1>1, <1>9 DEF TypeOK, WriteFails, Ends, request
  <2>2. CASE linked[c]
    BY <1>4, <1>5, <1>9, <2>1, <2>2 DEF WriteFails
  <2>3. CASE ~linked[c]
    BY <1>2, <1>9, <2>1, <2>3 DEF WriteFails
  <2>4. QED
    BY <2>2, <2>3
<1>10. ASSUME NEW f \in File, Delete(f) PROVE UsableInv' /\ LoadIsAtomic'
  BY <1>4, <1>5, <1>10 DEF Delete, request
<1>11. ASSUME NEW r \in Request, LoadKey(r) PROVE UsableInv' /\ LoadIsAtomic'
  <2>1. /\ UNCHANGED <<files, sole>> /\ key'[r] = files["key"] /\ signer'[r] = Absent
        /\ step'[r] = "meta" => files["key"] \in Key
        /\ usable'[r] = IF files["key"] = files["meta"] THEN {files["key"]} \cap Key ELSE {}
        /\ \A q \in Request : q # r => /\ step'[q] = step[q] /\ key'[q] = key[q]
                                       /\ signer'[q] = signer[q] /\ usable'[q] = usable[q]
    BY <1>1, <1>11 DEF LoadKey, TypeOK
  <2>2. Absent \notin sole
    BY <1>1, <1>5 DEF TypeOK
  <2>3. QED
    BY <1>1, <2>1, <2>2 DEF UsableInv, LoadIsAtomic
<1>12. ASSUME NEW r \in Request, LoadMeta(r) PROVE UsableInv' /\ LoadIsAtomic'
  <2>1. /\ UNCHANGED <<files, sole, key, usable>> /\ step[r] = "meta" /\ step'[r] = "idle"
        /\ signer'[r] = IF files["meta"] = key[r] THEN key[r] ELSE Absent
        /\ \A q \in Request : q # r => step'[q] = step[q] /\ signer'[q] = signer[q]
    BY <1>1, <1>12 DEF LoadMeta, TypeOK
  <2>2. Absent \notin sole
    BY <1>1, <1>5 DEF TypeOK
  <2>3. QED
    BY <1>1, <2>1, <2>2 DEF UsableInv, LoadIsAtomic
<1>13. CASE UNCHANGED vars
  BY <1>1, <1>13 DEF vars, UsableInv, LoadIsAtomic, request
<1>14. QED
  BY <1>3, <1>6, <1>7, <1>8, <1>9, <1>10, <1>11, <1>12, <1>13 DEF Next, Quits

LEMMA StartAtomic == Init => AtomicInv
<1> SUFFICES ASSUME Init PROVE AtomicInv
  OBVIOUS
<1>1. IInv
  BY KeyAssumption DEF Init, IInv, TypeOK, OrderInv, MetaInv, LoadInv,
    SignsFinishedKeys, Content, Key, File, Absent, Torn
<1>2. BornInv
  BY DEF Init, BornInv, Absent
<1>3. SoleInv /\ UsableInv /\ LoadIsAtomic
  BY DEF Init, SoleInv, UsableInv, LoadIsAtomic
<1>4. QED
  BY <1>1, <1>2, <1>3 DEF AtomicInv

LEMMA AtomicStep == AtomicInv /\ [Next]_vars => AtomicInv'
BY Step, BornStep, SoleStep, UsableStep DEF AtomicInv

\* Load reads the key file and the metadata at two moments; a key it returns, made by a
\* command that had its name for itself, was whole at one of the moments in between,
\* whatever other commands and deletions do (keystore.go:98-131).
THEOREM LoadIsAtomicCorrect == Spec => []LoadIsAtomic
<1>1. AtomicInv => LoadIsAtomic
  BY DEF AtomicInv
<1>2. QED
  BY <1>1, StartAtomic, AtomicStep, PTL DEF Spec

-----------------------------------------------------------------------------
(* ReportedStands.  While a reported key is whole, nobody is at its files: *)
(* every command that runs is about to find the key file, or over it.      *)

\* What a command that has its name for itself has written is there.
WholeInv ==
  \A c \in Command : Creating(c) /\ mine[c] \in sole =>
    /\ at[c] = "meta" => files["pub"] = mine[c]
    /\ pc[c] = "audit" => files["meta"] = mine[c]

StandsInv ==
  /\ \A k \in reported : k <= begun
  /\ \A k \in (reported \cap sole) \ deleted :
       \A f \in File : files[f] = k /\ \A c \in Command : ~Writing(c)

WholeStandsInv == AtomicInv /\ WholeInv /\ StandsInv

LEMMA WholeStep == WholeStandsInv /\ [Next]_vars => WholeInv'
<1> SUFFICES ASSUME WholeStandsInv, [Next]_vars PROVE WholeInv'
  OBVIOUS
<1>1. /\ TypeOK /\ OrderInv /\ BornInv /\ SoleInv /\ WholeInv
      /\ File = {"key", "pub", "meta"} /\ begun \in Nat
  BY KeyAssumption DEF WholeStandsInv, AtomicInv, IInv, File, TypeOK
\* Nobody goes on, and no file changes.
<1>2. ASSUME files' = files, sole' \subseteq sole,
             \A c \in Command : \/ pc'[c] \in {"idle", "stat"}
                                \/ at'[c] = "key" /\ pc'[c] # "audit"
                                \/ pc'[c] = pc[c] /\ at'[c] = at[c] /\ mine'[c] = mine[c]
      PROVE  WholeInv'
  BY <1>1, <1>2 DEF WholeInv, Creating
<1>3. ASSUME NEW c \in Command, Begin(c) PROVE WholeInv'
  <2>1. \A d \in Command : d # c /\ mine[d] \in sole' => mine[d] \in sole
    <3>1. \A k \in Int : k <= begun => k # begun + 1
      BY <1>1
    <3>2. \A d \in Command : mine[d] \in Int /\ mine[d] <= begun
      BY <1>1, KeyAssumption DEF TypeOK, Key, Absent, BornInv
    <3>3. QED
      BY <1>3, <3>1, <3>2 DEF Begin
  <2>2. /\ pc'[c] = "stat" /\ files' = files /\ at' = at
        /\ \A d \in Command : d # c => pc'[d] = pc[d] /\ mine'[d] = mine[d]
    BY <1>1, <1>3 DEF Begin, TypeOK
  <2>3. QED
    BY <1>1, <2>1, <2>2 DEF WholeInv, Creating
<1>4. ASSUME NEW c \in Command, Ends(c)
      PROVE  /\ sole' = sole /\ pc'[c] = "idle"
             /\ \A d \in Command : d # c => pc'[d] = pc[d] /\ mine'[d] = mine[d] /\ at'[d] = at[d]
  BY <1>1, <1>4 DEF Ends, TypeOK
<1>5. ASSUME NEW c \in Command, Stat(c) PROVE WholeInv'
  <2>1. CASE files["key"] = Absent
    <3>1. /\ pc[c] = "stat" /\ pc'[c] = "open" /\ files' = files /\ sole' \subseteq sole
          /\ at' = at /\ mine' = mine /\ \A d \in Command : d # c => pc'[d] = pc[d]
      BY <1>1, <1>5, <2>1 DEF Stat, TypeOK
    <3>2. at[c] = "key"
      BY <1>1, <3>1 DEF OrderInv
    <3>3. QED
      BY <1>2, <3>1, <3>2
  <2>2. CASE files["key"] # Absent
    <3>1. Ends(c) /\ files' = files
      BY <1>5, <2>2 DEF Stat
    <3>2. QED
      BY <1>2, <1>4, <3>1
  <2>3. QED
    BY <2>1, <2>2
<1>6. ASSUME NEW c \in Command, Report(c) \/ Quits(c) PROVE WholeInv'
  <2>1. Ends(c) /\ files' = files
    BY <1>6 DEF Report, Quits, OpenFails, AuditFails, Crash
  <2>2. QED
    BY <1>2, <1>4, <2>1
\* The only writer moves.
<1>7. ASSUME NEW c \in Command, Writing(c), sole' = sole,
             \A d \in Command : d # c => pc'[d] = pc[d] /\ mine'[d] = mine[d],
             Creating(c)' /\ mine'[c] \in sole =>
               /\ at'[c] = "meta" => files'["pub"] = mine'[c]
               /\ pc'[c] = "audit" => files'["meta"] = mine'[c]
      PROVE  WholeInv'
  <2>1. \A d \in Command : d # c /\ Creating(d) => mine[d] \notin sole
    BY <1>1, <1>7 DEF SoleInv
  <2>2. \A d \in Command : d # c => (Creating(d)' <=> Creating(d))
    BY <1>7 DEF Creating
  <2>3. ASSUME NEW d \in Command, Creating(d)', mine'[d] \in sole' PROVE d = c
    BY <1>7, <2>1, <2>2, <2>3
  <2>4. QED
    BY <1>7, <2>3 DEF WholeInv
<1>8. ASSUME NEW c \in Command, WriteFails(c) PROVE WholeInv'
  <2>1. Writing(c) /\ Ends(c)
    BY <1>8 DEF WriteFails, Writing
  <2>2. ~Creating(c)'
    BY <1>4, <2>1 DEF Creating
  <2>3. QED
    BY <1>4, <1>7, <2>1, <2>2
<1>9. ASSUME NEW c \in Command, OpenFile(c) PROVE WholeInv'
  <2>1. /\ pc[c] = "open" /\ mine' = mine /\ sole' = sole /\ pc'[c] = "write" /\ at' = at
        /\ \A d \in Command : d # c => pc'[d] = pc[d]
    BY <1>1, <1>9 DEF OpenFile, TypeOK
  <2>2. at[c] = "meta" => files'["pub"] = files["pub"]
    <3>1. at[c] \in File /\ Torn \in Content
      BY <1>1 DEF TypeOK, Content
    <3>2. QED
      BY <1>1, <1>9, <3>1, WriteFacts DEF OpenFile
  <2>3. mine[c] \in sole /\ at[c] = "meta" => files["pub"] = mine[c]
    BY <1>1, <2>1 DEF WholeInv, Creating
  <2>4. QED
    BY <1>7, <2>1, <2>2, <2>3 DEF Writing
<1>10. ASSUME NEW c \in Command, WriteFile(c) PROVE WholeInv'
  <2>1. /\ pc[c] = "write" /\ mine' = mine /\ sole' = sole
        /\ \A d \in Command : d # c => pc'[d] = pc[d]
    BY <1>1, <1>10 DEF WriteFile, TypeOK
  <2>2. at[c] \in File /\ mine[c] \in Content
    BY <1>1 DEF TypeOK, Content
  <2>3. linked[c] => files'[at[c]] = mine[c]
    BY <1>1, <1>10, <2>2, WriteFacts DEF WriteFile
  <2>4. \/ at[c] = "key" /\ at'[c] = "pub" /\ pc'[c] = "open"
        \/ at[c] = "pub" /\ at'[c] = "meta" /\ pc'[c] = "open"
        \/ at[c] = "meta" /\ at'[c] = "meta" /\ pc'[c] = "audit"
    BY <1>1, <1>10, <2>2 DEF WriteFile, NextFile, TypeOK
  <2>5. linked[c] /\ at[c] = "meta" => files'["pub"] = files["pub"]
    BY <1>1, <1>10, <2>2, WriteFacts DEF WriteFile
  <2>6. mine[c] \in sole => linked[c] /\ (at[c] = "meta" => files["pub"] = mine[c])
    BY <1>1, <2>1 DEF SoleInv, WholeInv, Creating
  <2>7. QED
    BY <1>7, <2>1, <2>3, <2>4, <2>5, <2>6 DEF Writing
<1>11. ASSUME NEW f \in File, Delete(f) PROVE WholeInv'
  <2>1. \A c \in Command : Creating(c)' => mine'[c] \notin sole'
    BY <1>11 DEF Delete, Creating
  <2>2. QED
    BY <2>1 DEF WholeInv
<1>12. ASSUME NEW r \in Request, LoadKey(r) \/ LoadMeta(r) PROVE WholeInv'
  BY <1>2, <1>12 DEF LoadKey, LoadMeta, command
<1>13. CASE UNCHANGED vars
  BY <1>2, <1>13 DEF vars, command
<1>14. QED
  BY <1>3, <1>5, <1>6, <1>8, <1>9, <1>10, <1>11, <1>12, <1>13 DEF Next, Quits

LEMMA StandsStep == WholeStandsInv /\ [Next]_vars => StandsInv'
<1> SUFFICES ASSUME WholeStandsInv, [Next]_vars PROVE StandsInv'
  OBVIOUS
<1>1. /\ TypeOK /\ BornInv /\ SoleInv /\ WholeInv /\ StandsInv /\ File = {"key", "pub", "meta"}
      /\ begun \in Nat
  BY KeyAssumption DEF WholeStandsInv, AtomicInv, IInv, File, TypeOK
<1>2. ASSUME NEW k \in reported PROVE k \in Key /\ k # Absent /\ k <= begun
  BY <1>1, <1>2, Values DEF TypeOK, StandsInv
<1>3. ASSUME NEW c \in Command, Begin(c) PROVE StandsInv'
  <2>1. /\ begun' = begun + 1 /\ UNCHANGED <<files, reported, deleted>> /\ sole' \subseteq sole \cup {begun + 1}
        /\ \A d \in Command : pc'[d] = IF d = c THEN "stat" ELSE pc[d]
    BY <1>1, <1>3 DEF Begin, TypeOK
  <2>2. \A k \in reported : k <= begun + 1 /\ k # begun + 1
    <3>1. \A k \in Int : k <= begun => k <= begun + 1 /\ k # begun + 1
      BY <1>1
    <3>2. QED
      BY <1>2, <3>1 DEF Key
  <2>3. QED
    BY <1>1, <2>1, <2>2 DEF StandsInv, Writing
\* Nothing that stands is touched.
<1>4. ASSUME UNCHANGED <<begun, files, reported, deleted>>, sole' \subseteq sole,
             \A c \in Command : pc'[c] \in {"idle", "stat"} \/ pc'[c] = pc[c]
      PROVE  StandsInv'
  BY <1>1, <1>4 DEF StandsInv, Writing
\* Somebody writes: nothing stands, and nothing is reported.
<1>5. ASSUME NEW c \in Command, Writing(c), UNCHANGED <<begun, reported, sole, deleted>>
      PROVE  StandsInv'
  BY <1>1, <1>5 DEF StandsInv, File
<1>6. ASSUME NEW c \in Command, Ends(c)
      PROVE  /\ UNCHANGED <<begun, sole, deleted>>
             /\ pc'[c] = "idle" /\ \A d \in Command : d # c => pc'[d] = pc[d]
  BY <1>1, <1>6 DEF Ends, TypeOK
<1>7. ASSUME NEW c \in Command, Stat(c) PROVE StandsInv'
  <2>1. CASE files["key"] = Absent
    <3>1. UNCHANGED <<begun, files, reported, deleted>> /\ sole' \subseteq sole
      BY <1>7, <2>1 DEF Stat
    <3>2. (reported \cap sole) \ deleted = {}
      BY <1>1, <1>2, <2>1 DEF StandsInv
    <3>3. QED
      BY <1>1, <3>1, <3>2 DEF StandsInv
  <2>2. CASE files["key"] # Absent
    <3>1. Ends(c) /\ UNCHANGED <<files, reported>>
      BY <1>7, <2>2 DEF Stat
    <3>2. QED
      BY <1>4, <1>6, <3>1
  <2>3. QED
    BY <2>1, <2>2
<1>8. ASSUME NEW c \in Command, OpenFile(c) \/ WriteFile(c) PROVE StandsInv'
  BY <1>5, <1>8 DEF OpenFile, WriteFile, Writing
<1>9. ASSUME NEW c \in Command, WriteFails(c) PROVE StandsInv'
  BY <1>5, <1>6, <1>9 DEF WriteFails, Writing
<1>10. ASSUME NEW c \in Command, Quits(c) PROVE StandsInv'
  <2>1. Ends(c) /\ UNCHANGED <<files, reported>>
    BY <1>10 DEF Quits, OpenFails, AuditFails, Crash
  <2>2. QED
    BY <1>4, <1>6, <2>1
<1>11. ASSUME NEW c \in Command, Report(c) PROVE StandsInv'
  <2>1. /\ pc[c] = "audit" /\ files' = files /\ reported' = reported \cup {mine[c]}
        /\ UNCHANGED <<begun, sole, deleted>> /\ at[c] = "meta" /\ mine[c] <= begun
        /\ pc'[c] = "idle" /\ \A d \in Command : d # c => pc'[d] = pc[d]
    BY <1>1, <1>6, <1>11 DEF Report, Ends, TypeOK, BornInv
  <2>2. mine[c] \in sole =>
          /\ files["key"] = mine[c] /\ files["pub"] = mine[c] /\ files["meta"] = mine[c]
          /\ \A d \in Command : d # c => ~Writing(d)
    BY <1>1, <2>1 DEF SoleInv, WholeInv, Creating
  <2>3. \A d \in Command : Writing(d)' => Writing(d) /\ d # c
    BY <2>1 DEF Writing
  <2>4. \A k \in reported' : k <= begun'
    BY <1>1, <2>1 DEF StandsInv
  <2>5. ASSUME NEW k \in (reported' \cap sole') \ deleted', NEW f \in File
        PROVE  files'[f] = k /\ \A d \in Command : ~Writing(d)'
    <3>1. CASE k = mine[c]
      BY <1>1, <2>1, <2>2, <2>3, <2>5, <3>1
    <3>2. CASE k # mine[c]
      <4>1. k \in (reported \cap sole) \ deleted
        BY <2>1, <2>5, <3>2
      <4>2. files[f] = k /\ \A d \in Command : ~Writing(d)
        BY <1>1, <4>1 DEF StandsInv
      <4>3. QED
        BY <2>1, <2>3, <4>2
    <3>3. QED
      BY <3>1, <3>2
  <2>6. QED
    BY <2>4, <2>5 DEF StandsInv
<1>12. ASSUME NEW f \in File, Delete(f) PROVE StandsInv'
  <2>1. /\ deleted' = deleted \cup ({files[f]} \cap Key) /\ sole' \subseteq sole
        /\ UNCHANGED <<begun, reported>>
    BY <1>12 DEF Delete
  <2>2. (reported' \cap sole') \ deleted' = {}
    BY <1>1, <1>2, <2>1 DEF StandsInv
  <2>3. QED
    BY <1>1, <2>1, <2>2 DEF StandsInv
<1>13. ASSUME NEW r \in Request, LoadKey(r) \/ LoadMeta(r) PROVE StandsInv'
  BY <1>4, <1>13 DEF LoadKey, LoadMeta, command
<1>14. CASE UNCHANGED vars
  BY <1>4, <1>14 DEF vars, command
<1>15. QED
  BY <1>3, <1>7, <1>8, <1>9, <1>10, <1>11, <1>12, <1>13, <1>14 DEF Next, Quits

\* "It refuses to overwrite" (keystore.go:50-51): a reported key stays what it is until an
\* operator deletes a file of it, however many commands create the name meanwhile, unless
\* another was between finding the name free and opening the key file when its own was.
THEOREM ReportedStandsCorrect == Spec => []ReportedStands
<1>1. Init => WholeStandsInv
  BY StartAtomic DEF Init, WholeStandsInv, WholeInv, StandsInv
<1>2. WholeStandsInv /\ [Next]_vars => WholeStandsInv'
  BY AtomicStep, WholeStep, StandsStep DEF WholeStandsInv
<1>3. WholeStandsInv => ReportedStands
  BY DEF WholeStandsInv, StandsInv, ReportedStands
<1>4. QED
  BY <1>1, <1>2, <1>3, PTL DEF Spec
=============================================================================
