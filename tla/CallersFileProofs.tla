-------------------------- MODULE CallersFileProofs --------------------------
(***************************************************************************)
(* Proofs about CallersFile, for any number of terminals, callers and      *)
(* commands run, whichever of them overlap, fail or are killed:            *)
(*   TypeCorrect               Spec => []TypeOK                            *)
(*   PolicyDecodesCorrect      Spec => []PolicyDecodes                     *)
(*   ReportedAloneHoldsCorrect Spec => []ReportedAloneHolds                *)
(*   KeepsStoreCorrect         Spec => KeepsStore                          *)
(* The inductive invariant says which tokens may be in which table, what a *)
(* command that no other has run beside is about to rename into place, and *)
(* that every table that can still become the live one, in a file or in    *)
(* the memory of a command, agrees with what was reported by a command     *)
(* that ran alone.                                                         *)
(***************************************************************************)
EXTENDS CallersFile, FiniteSetTheorems, TLAPS

\* A table of tokens minted so far, no two names with the same one.
Sound(f) ==
  /\ \A n \in Name : f[n] \in 0..begun
  /\ \A m, n \in Name : f[m] = f[n] /\ f[m] # NoToken => m = n

Absent(k, f) == \A n \in Name : f[n] # k

SaveSteps == {"create", "write", "rename"}

\* A command starts from nothing, and a caller rm that has loaded its table is out to
\* retire its token.
CommandInv ==
  \A c \in Command :
    /\ pc[c] \in {"idle", "load"} => table[c] = NoCallers
    /\ kind[c] = "rm" /\ pc[c] \in SaveSteps \cup {"audit"} => token[c] \in retired

\* A token is minted for each command that begins, and stands for nothing else until
\* that command has loaded its table.
MintInv ==
  /\ \A i \in Inode : Sound(data[i].callers)
  /\ \A c \in Command : Sound(table[c])
  /\ used \cup shown \cup retired \subseteq 1..begun /\ revoked \subseteq retired
  /\ \A c \in Command : pc[c] # "idle" => token[c] \in 1..begun
  /\ \A c \in Command : pc[c] = "load" =>
       /\ token[c] \notin used \cup shown \cup retired
       /\ \A i \in Inode : Absent(token[c], data[i].callers)
       /\ \A d \in Command : Absent(token[c], table[d])
       /\ \A d \in Command \ {c} : pc[d] # "idle" => token[d] # token[c]

\* What a command that has run alone so far is going to rename into place ...
Planned(c) ==
  /\ Decodes
  /\ kind[c] = "init" => live = NoInode /\ table[c] = NoCallers
  /\ kind[c] = "add" =>
       /\ live # NoInode /\ Table[name[c]] = NoToken
       /\ table[c] = [Table EXCEPT ![name[c]] = token[c]]
       /\ token[c] \notin used \cup shown \cup retired
  /\ kind[c] = "rm" =>
       /\ live # NoInode /\ Table[name[c]] = token[c]
       /\ table[c] = [Table EXCEPT ![name[c]] = NoToken]

\* ... and what it has renamed there.
Done(c) ==
  /\ live # NoInode /\ tmp = NoInode /\ fd[c] = live /\ data[live].state = "whole"
  /\ kind[c] = "add" => Table[name[c]] = token[c] /\ token[c] \notin shown \cup retired
  /\ kind[c] = "rm" => Absent(token[c], Table)

\* A command that no other has run beside finds the files as it left them.
SoloAt(c) ==
  /\ pc[c] \in SaveSteps => Planned(c)
  /\ pc[c] \in {"write", "rename"} => tmp # NoInode /\ fd[c] = tmp
  /\ pc[c] = "write" => data[tmp].state = "empty"
  /\ pc[c] = "rename" => data[tmp] = Whole(table[c])
  /\ pc[c] = "audit" => Done(c)

SoloInv ==
  \A c \in Command : alone[c] /\ pc[c] # "idle" =>
    /\ \A d \in Command : pc[d] # "idle" => d = c
    /\ SoloAt(c)

\* Until two commands overlap, all have run alone.
LoneInv ==
  ~overlapped =>
    /\ Decodes /\ \A n \in Name : Table[n] # NoToken => Table[n] \in used
    /\ \A c \in Command : alone[c]
    /\ \A c \in Command :
         kind[c] = "rm" /\ pc[c] \in SaveSteps \cup {"audit"} => token[c] \in used

\* What commands that ran alone have reported is so in table f.
Covered(f) ==
  /\ \A k \in (shown \cap safe) \ retired : \E n \in Name : f[n] = k
  /\ \A k \in revoked \cap safe : Absent(k, f)

InUse(i) == i = live \/ i = tmp \/ \E c \in Command : fd[c] = i

\* Until two commands are at the temporary file at once, one that is there has it for
\* itself, and finds in it what it has put there.
TmpInv ==
  ~collided =>
    /\ Decodes
    /\ \A c, d \in Command : Saving(c) /\ Saving(d) => c = d
    /\ \A c \in Command : Saving(c) => tmp # NoInode /\ fd[c] = tmp
    /\ \A c \in Command : pc[c] = "rename" => data[tmp].state = "whole"
    /\ \A c \in Command : pc[c] = "write" => data[tmp].state = "empty"

\* It is so in every table that may still be, or become, the live one.
CoverInv ==
  /\ live = NoInode => shown = {} /\ revoked = {}
  /\ \A c \in Command : pc[c] = "audit" => live # NoInode
  /\ \A i \in Inode : InUse(i) /\ data[i].state = "whole" => Covered(data[i].callers)
  /\ \A c \in Command : pc[c] \in {"create", "write"} => Covered(table[c])

IInv == TypeOK /\ CommandInv /\ MintInv /\ SoloInv /\ LoneInv /\ TmpInv /\ CoverInv

Tables == [Name -> Token \cup {NoToken}]

-----------------------------------------------------------------------------

\* There is always a file no name and no command refers to when one is to be created.
LEMMA UnusedFresh ==
  ASSUME TypeOK, tmp = NoInode
  PROVE  Unused \in Inode /\ ~InUse(Unused) /\ Unused # NoInode
<1> DEFINE n == Cardinality(Command)
           taken == {live} \cup {fd[c] : c \in Command}
<1>1. n \in Nat
  BY CommandAssumption, FS_CardinalityType
<1>2. IsFiniteSet({fd[c] : c \in Command}) /\ Cardinality({fd[c] : c \in Command}) <= n
  <2>1. fd \in Surjection(Command, {fd[c] : c \in Command})
    BY DEF Surjection, TypeOK
  <2>2. QED
    BY <2>1, CommandAssumption, FS_Surjection
<1>3. IsFiniteSet(taken) /\ Cardinality(taken) <= n + 1
  <2>1. PICK fds : fds = {fd[c] : c \in Command}
    OBVIOUS
  <2>2. taken = fds \cup {live} /\ IsFiniteSet(fds) /\ Cardinality(fds) <= n
    BY <1>2, <2>1
  <2>3. Cardinality(fds) \in Nat
    BY <2>2, FS_CardinalityType
  <2>4. /\ IsFiniteSet(fds \cup {live})
        /\ Cardinality(fds \cup {live}) = IF live \in fds THEN Cardinality(fds)
                                          ELSE Cardinality(fds) + 1
    BY <2>2, FS_AddElement
  <2>5. QED
    BY <1>1, <2>2, <2>3, <2>4
<1>4. IsFiniteSet(Inode) /\ Cardinality(Inode) = n + 2
  <2>1. n + 1 \in Int /\ 0 <= n + 1
    BY <1>1
  <2>2. IsFiniteSet(0..(n + 1)) /\ Cardinality(0..(n + 1)) = n + 1 - 0 + 1
    BY <2>1, FS_Interval
  <2>3. QED
    BY <1>1, <2>2 DEF Inode
<1>5. ~(Inode \subseteq taken)
  <2>1. Inode \subseteq taken => Cardinality(Inode) <= Cardinality(taken)
    BY <1>3, FS_Subset
  <2>2. Cardinality(taken) \in Nat
    BY <1>3, FS_CardinalityType
  <2>3. QED
    BY <1>1, <1>3, <1>4, <2>1, <2>2
<1>6. NoInode \notin Inode
  BY DEF NoInode, Inode
<1>7. \E i \in Inode : i \notin {live, tmp} \cup {fd[c] : c \in Command}
  BY <1>5, <1>6
<1>8. Unused \in Inode /\ Unused \notin {live, tmp} \cup {fd[c] : c \in Command}
  BY <1>7 DEF Unused
<1>9. QED
  BY <1>6, <1>8 DEF InUse

\* The steps after which a command is gone and the files are as before.
Quits(c) == pc[c] # "idle" /\ Ends(c) /\ UNCHANGED <<file, history>>

LEMMA StepCases ==
  ASSUME NEW c \in Command, Step(c)
  PROVE  \/ Quits(c) \/ StatToInit(c) \/ LoadToAdd(c) \/ LoadToRemove(c) \/ CreateTmp(c)
         \/ WriteTmp(c) \/ WriteFails(c) \/ RenameTmp(c) \/ Report(c)
BY DEF Step, Quits, Reject, RenameFails, AuditFails, Crash

LEMMA CreatesFresh ==
  ASSUME TypeOK, NEW c \in Command, CreateTmp(c)
  PROVE  /\ tmp' \in Inode /\ tmp' # live /\ tmp' # NoInode
         /\ tmp' = tmp \/ ~InUse(tmp')
         /\ data' = [data EXCEPT ![tmp'] = Empty] /\ fd' = [fd EXCEPT ![c] = tmp']
<1>1. /\ tmp' = IF tmp = NoInode THEN Unused ELSE tmp
      /\ data' = [data EXCEPT ![tmp'] = Empty] /\ fd' = [fd EXCEPT ![c] = tmp']
  BY DEF CreateTmp
<1>2. NoInode \notin Inode
  BY DEF NoInode, Inode
<1>3. CASE tmp = NoInode
  BY <1>1, <1>2, <1>3, UnusedFresh DEF InUse
<1>4. CASE tmp # NoInode
  BY <1>1, <1>4 DEF TypeOK
<1>5. QED
  BY <1>3, <1>4

LEMMA TablesKept ==
  ASSUME NEW f \in Tables, NEW n \in Name, NEW k \in Token \cup {NoToken}
  PROVE  /\ [f EXCEPT ![n] = k] \in Tables /\ [f EXCEPT ![n] = k][n] = k
         /\ \A m \in Name \ {n} : [f EXCEPT ![n] = k][m] = f[m]
BY DEF Tables

LEMMA ContentTypes ==
  /\ Empty \in Content /\ Mixed \in Content /\ NoCallers \in Tables
  /\ \A f \in Tables : Whole(f) \in Content
  /\ \A x \in Content : x.callers \in Tables
BY DEF Empty, Mixed, Whole, Content, NoCallers, Tables

LEMMA TypeInit == Init => TypeOK
<1> SUFFICES ASSUME Init PROVE TypeOK
  OBVIOUS
<1>1. 0 \in Inode /\ NoInode \notin Inode
  BY CommandAssumption, FS_CardinalityType DEF Inode, NoInode
<1>2. /\ live \in Inode \cup {NoInode} /\ tmp \in Inode \cup {NoInode}
      /\ live = tmp => tmp = NoInode
  BY <1>1 DEF Init
<1>3. data \in [Inode -> Content] /\ table \in [Command -> Tables]
  BY ContentTypes DEF Init
<1>4. begun \in 0..MaxCommands
  BY CommandAssumption DEF Init
<1>5. \A T \in {used, shown, retired, revoked, safe} : T \subseteq Token
  BY DEF Init
<1>6. QED
  BY <1>2, <1>3, <1>4, <1>5 DEF Init, TypeOK, Tables

\* The types, in the form the steps need them.
LEMMA Types ==
  ASSUME TypeOK
  PROVE  /\ data \in [Inode -> Content] /\ table \in [Command -> Tables]
         /\ begun \in Nat /\ MaxCommands \in Nat /\ NoInode \notin Inode
         /\ live # NoInode => live \in Inode /\ data[live].callers \in Tables
         /\ tmp # NoInode => tmp \in Inode /\ data[tmp].callers \in Tables
         /\ \A i \in Inode : data[i].callers \in Tables
         /\ Table \in Tables
         /\ \A c \in Command : pc[c] \in {"write", "rename", "audit"} => fd[c] \in Inode
<1>1. data \in [Inode -> Content] /\ table \in [Command -> Tables]
  BY DEF TypeOK, Tables
<1>2. \A i \in Inode : data[i].callers \in Tables
  BY <1>1, ContentTypes
<1>3. /\ begun \in Nat /\ MaxCommands \in Nat /\ NoInode \notin Inode
      /\ live # NoInode => live \in Inode
      /\ tmp # NoInode => tmp \in Inode
      /\ \A c \in Command : pc[c] \in {"write", "rename", "audit"} => fd[c] \in Inode
  BY CommandAssumption DEF TypeOK, Inode, NoInode
<1>4. Table \in Tables
  BY <1>2, <1>3, ContentTypes DEF Table
<1>5. QED
  BY <1>1, <1>2, <1>3, <1>4

\* The variables that a command's end changes.
EndTypes(c) ==
  /\ pc' \in [Command -> {"idle", "load", "create", "write", "rename", "audit"}]
  /\ token' \in [Command -> Token \cup {NoToken}]
  /\ table' \in [Command -> Tables]
  /\ fd' \in [Command -> Inode \cup {NoInode}]
  /\ alone' \in [Command -> BOOLEAN]
  /\ kind' = kind /\ name' = name /\ begun' = begun
  /\ overlapped' = overlapped /\ collided' = collided
  /\ \A d \in Command : fd'[d] # NoInode <=> pc'[d] \in {"write", "rename", "audit"}
  /\ pc'[c] = "idle" /\ fd'[c] = NoInode
  /\ \A d \in Command \ {c} :
       /\ pc'[d] = pc[d] /\ fd'[d] = fd[d] /\ token'[d] = token[d] /\ table'[d] = table[d]
       /\ alone'[d] = alone[d]

LEMMA EndsTypes ==
  ASSUME TypeOK, NEW c \in Command, Ends(c)
  PROVE  EndTypes(c) /\ table'[c] = NoCallers
BY Types, ContentTypes DEF TypeOK, Ends, EndTypes

LEMMA TypeStep == TypeOK /\ MintInv /\ [Next]_vars => TypeOK'
<1> SUFFICES ASSUME TypeOK, MintInv, [Next]_vars PROVE TypeOK'
  OBVIOUS
<1> USE DEF file, command, history
<1>1. ASSUME NEW c \in Command, NEW k \in {"init", "add", "rm"}, NEW n \in Name, Begin(c, k, n)
      PROVE  TypeOK'
  <2>1. begun + 1 \in Token /\ begun + 1 \in 0..MaxCommands
    BY <1>1, Types DEF Begin, Token, TypeOK
  <2>2. alone' \in [Command -> BOOLEAN]
    BY <1>1 DEF Begin
  <2>3. fd[c] = NoInode
    BY <1>1 DEF Begin, TypeOK
  <2>4. overlapped' \in BOOLEAN
    BY <1>1 DEF Begin, TypeOK
  <2>5. \A d \in Command : fd'[d] # NoInode <=> pc'[d] \in {"write", "rename", "audit"}
    BY <1>1, <2>3 DEF Begin, TypeOK
  <2>6. QED
    BY <1>1, <2>1, <2>2, <2>4, <2>5 DEF Begin, TypeOK
<1>2. ASSUME NEW c \in Command, Quits(c) PROVE TypeOK'
  BY <1>2, EndsTypes DEF Quits, TypeOK, EndTypes, Tables
<1>3. ASSUME NEW c \in Command, StatToInit(c) PROVE TypeOK'
  BY <1>3 DEF StatToInit, TypeOK
<1>4. ASSUME NEW c \in Command, LoadToAdd(c) PROVE TypeOK'
  <2>1. [data[live].callers EXCEPT ![name[c]] = token[c]] \in Tables
    BY <1>4, Types, TablesKept DEF LoadToAdd, TypeOK
  <2>2. table' \in [Command -> Tables]
    BY <1>4, <2>1, Types DEF LoadToAdd
  <2>3. QED
    BY <1>4, <2>2 DEF LoadToAdd, TypeOK, Tables
<1>5. ASSUME NEW c \in Command, LoadToRemove(c) PROVE TypeOK'
  <2> DEFINE old == data[live].callers[name[c]]
  <2>1. [data[live].callers EXCEPT ![name[c]] = NoToken] \in Tables
    BY <1>5, Types, TablesKept DEF LoadToRemove, TypeOK
  <2>2. old \in Token
    BY <1>5, Types DEF LoadToRemove, TypeOK, Tables
  <2>3. table' \in [Command -> Tables]
    BY <1>5, <2>1, Types DEF LoadToRemove
  <2>4. token' \in [Command -> Token \cup {NoToken}] /\ retired' \subseteq Token
    BY <1>5, <2>2 DEF LoadToRemove, TypeOK
  <2>5. QED
    BY <1>5, <2>3, <2>4 DEF LoadToRemove, TypeOK, Tables
<1>6. ASSUME NEW c \in Command, CreateTmp(c) PROVE TypeOK'
  <2>1. tmp' \in Inode /\ tmp' # live /\ tmp' # NoInode
    BY <1>6, CreatesFresh
  <2>2. data' \in [Inode -> Content]
    BY <1>6, CreatesFresh, ContentTypes DEF TypeOK
  <2>3. fd' \in [Command -> Inode \cup {NoInode}]
    BY <1>6, <2>1, CreatesFresh DEF TypeOK
  <2>4. pc' = [pc EXCEPT ![c] = "write"] /\ fd' = [fd EXCEPT ![c] = tmp']
    BY <1>6 DEF CreateTmp
  <2>5. \A d \in Command : fd'[d] # NoInode <=> pc'[d] \in {"write", "rename", "audit"}
    BY <2>1, <2>4 DEF TypeOK
  <2>6. QED
    BY <1>6, <2>1, <2>2, <2>3, <2>4, <2>5 DEF CreateTmp, TypeOK
<1>7. ASSUME NEW c \in Command, WriteTmp(c) PROVE TypeOK'
  <2>1. PICK text \in {Whole(table[c]), Mixed} : data' = [data EXCEPT ![fd[c]] = text]
    BY <1>7 DEF WriteTmp
  <2>2. text \in Content
    BY <2>1, Types, ContentTypes
  <2>3. data' \in [Inode -> Content]
    BY <2>1, <2>2, Types
  <2>4. QED
    BY <1>7, <2>3 DEF WriteTmp, TypeOK
<1>8. ASSUME NEW c \in Command, WriteFails(c) PROVE TypeOK'
  <2>1. data' \in [Inode -> Content]
    BY <1>8, Types, ContentTypes DEF WriteFails
  <2>2. EndTypes(c)
    BY <1>8, EndsTypes DEF WriteFails
  <2>3. QED
    BY <1>8, <2>1, <2>2 DEF WriteFails, TypeOK, EndTypes, Tables
<1>9. ASSUME NEW c \in Command, RenameTmp(c) PROVE TypeOK'
  <2>1. TokensIn(tmp) \subseteq Token
    BY <1>9, Types DEF RenameTmp, TokensIn, Tables
  <2>2. QED
    BY <1>9, <2>1, Types DEF RenameTmp, TypeOK
<1>10. ASSUME NEW c \in Command, Report(c) PROVE TypeOK'
  <2>1. token[c] \in Token
    <3>1. token[c] # 0
      BY <1>10 DEF Report, MintInv
    <3>2. QED
      BY <3>1 DEF TypeOK, NoToken
  <2>2. \A T \in {shown', revoked', safe'} : T \subseteq Token
    BY <1>10, <2>1 DEF Report, TypeOK
  <2>3. EndTypes(c)
    BY <1>10, EndsTypes DEF Report
  <2>4. QED
    BY <1>10, <2>2, <2>3 DEF Report, TypeOK, EndTypes, Tables
<1>11. CASE UNCHANGED vars
  BY <1>11 DEF vars, TypeOK
<1>12. QED
  BY <1>1, <1>2, <1>3, <1>4, <1>5, <1>6, <1>7, <1>8, <1>9, <1>10, <1>11, StepCases DEF Next

-----------------------------------------------------------------------------

\* A token that is in no table may be added to one, and a name may be taken out.
LEMMA ChangedSound ==
  ASSUME NEW f \in Tables, NEW n \in Name, Sound(f), begun \in Nat,
         NEW k \in 0..begun, k # NoToken => Absent(k, f)
  PROVE  LET g == [f EXCEPT ![n] = k]
         IN  Sound(g) /\ \A j : j # k /\ j # NoToken /\ Absent(j, f) => Absent(j, g)
<1> DEFINE g == [f EXCEPT ![n] = k]
<1>1. g[n] = k /\ \A m \in Name : m # n => g[m] = f[m]
  BY DEF Tables
<1> HIDE DEF g
<1>2. Sound(g)
  BY <1>1 DEF Sound, Absent
<1>3. \A j : j # k /\ j # NoToken /\ Absent(j, f) => Absent(j, g)
  BY <1>1 DEF Absent
<1>4. QED
  BY <1>2, <1>3 DEF g

LEMMA EmptySound == begun \in Nat => Sound(NoCallers) /\ \A k \in 1..begun : Absent(k, NoCallers)
BY DEF Sound, NoCallers, NoToken, Absent

\* A step that mints no token: its tables are sound, no token still to be used comes
\* into a table or into the history, and no command is made to load anew.
LEMMA NothingMinted ==
  ASSUME TypeOK, MintInv, begun' = begun,
         \A i \in Inode : data'[i].callers = data[i].callers \/ data'[i].callers = NoCallers
                          \/ \E d \in Command : data'[i].callers = table[d],
         \A d \in Command : \/ table'[d] = table[d] \/ table'[d] = NoCallers
                            \/ Sound(table'[d]) /\ \A e \in Command :
                                 pc'[e] = "load" => Absent(token[e], table'[d]),
         \A d \in Command : pc'[d] = "load" => pc[d] = "load",
         \A d \in Command : \/ pc'[d] = "idle"
                            \/ pc[d] # "idle" /\ token'[d] = token[d]
                            \/ /\ token'[d] \in 1..begun /\ pc'[d] # "load"
                               /\ \A e \in Command : pc[e] = "load" => token[e] # token'[d],
         used' \cup shown' \cup retired' \subseteq 1..begun, revoked' \subseteq retired',
         \A e \in Command :
           pc'[e] = "load" => token[e] \notin used' \cup shown' \cup retired'
  PROVE  MintInv'
<1>1. begun \in Nat
  BY Types
<1>2. \A e \in Command : pc'[e] = "load" => pc[e] = "load" /\ token'[e] = token[e] /\ token[e] \in 1..begun
  BY DEF MintInv
<1>3. \A f : Sound(f)' <=> Sound(f)
  BY DEF Sound
<1>4. \A i \in Inode : Sound(data'[i].callers)
  BY <1>1, EmptySound DEF MintInv
<1>5. \A d \in Command : Sound(table'[d])
  BY <1>1, EmptySound DEF MintInv
<1>6. ASSUME NEW e \in Command, pc'[e] = "load"
      PROVE  /\ \A i \in Inode : Absent(token'[e], data'[i].callers)
             /\ \A d \in Command : Absent(token'[e], table'[d])
  BY <1>1, <1>2, <1>6, EmptySound DEF MintInv
<1>7. ASSUME NEW e \in Command, pc'[e] = "load", NEW d \in Command \ {e}, pc'[d] # "idle"
      PROVE  token'[d] # token'[e]
  BY <1>2, <1>7 DEF MintInv
<1>8. \A d \in Command : pc'[d] # "idle" => token'[d] \in 1..begun
  BY DEF MintInv
<1>9. /\ \A i \in Inode : Sound(data[i].callers)'
      /\ \A d \in Command : Sound(table[d])'
  BY <1>4, <1>5 DEF Sound
<1>10. /\ \A e \in Command : pc'[e] = "load" =>
            /\ token'[e] \notin used' \cup shown' \cup retired'
            /\ \A i \in Inode : Absent(token[e], data[i].callers)'
            /\ \A d \in Command : Absent(token[e], table[d])'
            /\ \A d \in Command \ {e} : pc'[d] # "idle" => token'[d] # token'[e]
  BY <1>2, <1>6, <1>7 DEF Absent
<1>11. QED
  BY <1>8, <1>9, <1>10 DEF MintInv

LEMMA MintBegin ==
  ASSUME TypeOK, MintInv, NEW c \in Command, NEW k \in {"init", "add", "rm"}, NEW n \in Name,
         Begin(c, k, n)
  PROVE  MintInv'
<1>1. begun \in Nat /\ begun' = begun + 1
  BY Types DEF Begin
<1>2. /\ data' = data /\ table' = table /\ used' = used /\ shown' = shown
      /\ retired' = retired /\ revoked' = revoked
      /\ pc[c] = "idle" /\ token' = [token EXCEPT ![c] = begun + 1]
      /\ \A d \in Command \ {c} : pc'[d] = pc[d]
  BY DEF Begin, file, history, TypeOK
<1>3. token'[c] = begun + 1 /\ \A d \in Command \ {c} : token'[d] = token[d]
  BY <1>2 DEF TypeOK
<1>4. \A j \in 0..begun : j \in 0..(begun + 1) /\ j # begun + 1
  BY <1>1
<1>5. \A j \in 1..begun : j \in 1..(begun + 1) /\ j # begun + 1
  BY <1>1
<1>6. \A f : Sound(f) => Sound(f)' /\ Absent(begun + 1, f)
  BY <1>1, <1>4 DEF Sound, Absent
<1>7. /\ \A i \in Inode : Sound(data[i].callers)'
      /\ \A d \in Command : Sound(table[d])'
  <2>1. /\ \A i \in Inode : Sound(data'[i].callers)
        /\ \A d \in Command : Sound(table'[d])
    BY <1>2 DEF MintInv
  <2>2. QED
    BY <1>1, <1>4, <2>1 DEF Sound
<1>8. /\ \A i \in Inode : Absent(begun + 1, data'[i].callers)
      /\ \A d \in Command : Absent(begun + 1, table'[d])
  BY <1>2, <1>6 DEF MintInv
<1>9. used' \cup shown' \cup retired' \subseteq 1..begun'
      /\ begun + 1 \notin used' \cup shown' \cup retired' /\ revoked' \subseteq retired'
  BY <1>1, <1>2, <1>5 DEF MintInv
<1>10. \A d \in Command : pc'[d] # "idle" => token'[d] \in 1..begun'
  <2>1. begun + 1 \in 1..(begun + 1)
    BY <1>1
  <2>2. QED
    BY <1>1, <1>2, <1>3, <1>5, <2>1 DEF MintInv
<1>11. ASSUME NEW e \in Command, pc'[e] = "load"
       PROVE  /\ token'[e] \notin used' \cup shown' \cup retired'
              /\ \A i \in Inode : Absent(token'[e], data'[i].callers)
              /\ \A d \in Command : Absent(token'[e], table'[d])
              /\ \A d \in Command \ {e} : pc'[d] # "idle" => token'[d] # token'[e]
  <2>1. CASE e = c
    <3>1. \A d \in Command \ {c} : pc'[d] # "idle" => token[d] \in 1..begun
      BY <1>2 DEF MintInv
    <3>2. \A d \in Command \ {c} : pc'[d] # "idle" => token'[d] # token'[e]
      BY <1>3, <1>5, <2>1, <3>1
    <3>3. QED
      BY <1>3, <1>8, <1>9, <2>1, <3>2
  <2>2. CASE e # c
    <3>1. pc[e] = "load" /\ token'[e] = token[e] /\ token[e] \in 1..begun
      BY <1>2, <1>3, <1>11, <2>2 DEF MintInv
    <3>2. token[e] # begun + 1
      BY <1>5, <3>1
    <3>3. /\ token[e] \notin used \cup shown \cup retired
          /\ \A i \in Inode : Absent(token[e], data[i].callers)
          /\ \A d \in Command : Absent(token[e], table[d])
          /\ \A d \in Command \ {e} : pc[d] # "idle" => token[d] # token[e]
      BY <3>1 DEF MintInv
    <3>4. QED
      BY <1>2, <1>3, <2>2, <3>1, <3>2, <3>3
  <2>3. QED
    BY <2>1, <2>2
<1>12. QED
  BY <1>7, <1>9, <1>10, <1>11 DEF MintInv, Absent

LEMMA CommandStep == TypeOK /\ CommandInv /\ [Next]_vars => CommandInv'
<1> SUFFICES ASSUME TypeOK, CommandInv, [Next]_vars PROVE CommandInv'
  OBVIOUS
<1> USE DEF file, command, history, CommandInv, SaveSteps
<1>1. ASSUME NEW c \in Command, NEW k \in {"init", "add", "rm"}, NEW n \in Name, Begin(c, k, n)
      PROVE  CommandInv'
  BY <1>1 DEF Begin, TypeOK
<1>2. ASSUME NEW c \in Command, Quits(c) PROVE CommandInv'
  BY <1>2, EndsTypes DEF Quits, EndTypes
<1>3. ASSUME NEW c \in Command, StatToInit(c) PROVE CommandInv'
  BY <1>3 DEF StatToInit, TypeOK
<1>4. ASSUME NEW c \in Command, LoadToAdd(c) PROVE CommandInv'
  BY <1>4 DEF LoadToAdd, TypeOK
<1>5. ASSUME NEW c \in Command, LoadToRemove(c) PROVE CommandInv'
  BY <1>5 DEF LoadToRemove, TypeOK
<1>6. ASSUME NEW c \in Command, CreateTmp(c) PROVE CommandInv'
  BY <1>6 DEF CreateTmp, TypeOK
<1>7. ASSUME NEW c \in Command, WriteTmp(c) PROVE CommandInv'
  BY <1>7 DEF WriteTmp, TypeOK
<1>8. ASSUME NEW c \in Command, WriteFails(c) PROVE CommandInv'
  BY <1>8, EndsTypes DEF WriteFails, EndTypes
<1>9. ASSUME NEW c \in Command, RenameTmp(c) PROVE CommandInv'
  BY <1>9 DEF RenameTmp, TypeOK
<1>10. ASSUME NEW c \in Command, Report(c) PROVE CommandInv'
  BY <1>10, EndsTypes DEF Report, EndTypes
<1>11. CASE UNCHANGED vars
  BY <1>11 DEF vars
<1>12. QED
  BY <1>1, <1>2, <1>3, <1>4, <1>5, <1>6, <1>7, <1>8, <1>9, <1>10, <1>11, StepCases DEF Next

LEMMA MintStep == TypeOK /\ CommandInv /\ MintInv /\ [Next]_vars => MintInv'
<1> SUFFICES ASSUME TypeOK, CommandInv, MintInv, [Next]_vars PROVE MintInv'
  OBVIOUS
<1> USE DEF file, command, history
<1>1. /\ used \cup shown \cup retired \subseteq 1..begun /\ revoked \subseteq retired
      /\ begun \in Nat
      /\ \A e \in Command : pc[e] = "load" => token[e] \notin used \cup shown \cup retired
  BY Types DEF MintInv
<1>2. \A e, d \in Command : pc[e] = "load" /\ pc[d] # "idle" /\ e # d => token[d] # token[e]
  BY DEF MintInv
<1>3. ASSUME NEW c \in Command, Quits(c) PROVE MintInv'
  BY <1>1, <1>3, EndsTypes, NothingMinted DEF Quits, EndTypes
<1>4. ASSUME NEW c \in Command, StatToInit(c) PROVE MintInv'
  BY <1>1, <1>4, NothingMinted DEF StatToInit, TypeOK
<1>5. ASSUME NEW c \in Command, LoadToAdd(c) PROVE MintInv'
  <2> DEFINE f == data[live].callers
             g == [f EXCEPT ![name[c]] = token[c]]
  <2>1. /\ live \in Inode /\ f \in Tables /\ Sound(f) /\ name[c] \in Name
        /\ token[c] \in 1..begun /\ Absent(token[c], f) /\ pc[c] = "load"
    BY <1>5, Types DEF LoadToAdd, MintInv, TypeOK
  <2>2. token[c] \in 0..begun
    BY <1>1, <2>1
  <2>3. Sound(g) /\ \A j : j # token[c] /\ j # NoToken /\ Absent(j, f) => Absent(j, g)
    BY <1>1, <2>1, <2>2, ChangedSound
  <2>4. /\ pc'[c] = "create" /\ \A d \in Command \ {c} : pc'[d] = pc[d] /\ table'[d] = table[d]
        /\ table'[c] = g /\ token' = token /\ data' = data
    BY <1>5, Types DEF LoadToAdd, TypeOK
  <2>5. ASSUME NEW e \in Command, pc'[e] = "load" PROVE Absent(token[e], table'[c])
    <3>1. e # c /\ pc[e] = "load" /\ pc[c] # "idle"
      BY <2>1, <2>4, <2>5
    <3>2. token[e] # token[c] /\ token[e] \in 1..begun /\ Absent(token[e], f)
      BY <1>2, <2>1, <3>1 DEF MintInv
    <3>3. token[e] # NoToken
      BY <1>1, <3>2 DEF NoToken
    <3>4. QED
      BY <2>3, <2>4, <3>2, <3>3
  <2>6. \A d \in Command : \/ table'[d] = table[d] \/ table'[d] = NoCallers
                           \/ Sound(table'[d]) /\ \A e \in Command :
                                pc'[e] = "load" => Absent(token[e], table'[d])
    BY <2>3, <2>4, <2>5
  <2>7. \A d \in Command : /\ pc'[d] = "load" => pc[d] = "load"
                           /\ pc'[d] = "idle" \/ (pc[d] # "idle" /\ token'[d] = token[d])
    BY <2>1, <2>4
  <2>8. begun' = begun /\ used' = used /\ shown' = shown /\ retired' = retired /\ revoked' = revoked
    BY <1>5 DEF LoadToAdd
  <2> HIDE DEF f, g
  <2>9. QED
    BY <1>1, <2>4, <2>6, <2>7, <2>8, NothingMinted
<1>6. ASSUME NEW c \in Command, LoadToRemove(c) PROVE MintInv'
  <2> DEFINE f == data[live].callers
             g == [f EXCEPT ![name[c]] = NoToken]
             old == f[name[c]]
  <2>1. /\ live \in Inode /\ f \in Tables /\ Sound(f) /\ name[c] \in Name
        /\ old # NoToken /\ pc[c] = "load"
    BY <1>6, Types DEF LoadToRemove, MintInv, TypeOK
  <2>2. NoToken \in 0..begun
    BY <1>1 DEF NoToken
  <2>3. Sound(g) /\ \A j : j # NoToken /\ Absent(j, f) => Absent(j, g)
    BY <1>1, <2>1, <2>2, ChangedSound
  <2>4. /\ pc'[c] = "create" /\ \A d \in Command \ {c} : pc'[d] = pc[d] /\ table'[d] = table[d]
        /\ table'[c] = g /\ token'[c] = old /\ data' = data
        /\ \A d \in Command \ {c} : token'[d] = token[d]
    BY <1>6, Types DEF LoadToRemove, TypeOK
  <2>5. old \in 1..begun
    BY <1>1, <2>1 DEF Sound, NoToken
  <2>6. ASSUME NEW e \in Command, pc[e] = "load"
        PROVE  token[e] # old /\ token[e] # NoToken /\ Absent(token[e], f)
    <3>1. token[e] \in 1..begun /\ Absent(token[e], f)
      BY <2>1, <2>6 DEF MintInv
    <3>2. QED
      BY <1>1, <2>1, <3>1 DEF NoToken, Absent
  <2>7. \A d \in Command : \/ table'[d] = table[d] \/ table'[d] = NoCallers
                           \/ Sound(table'[d]) /\ \A e \in Command :
                                pc'[e] = "load" => Absent(token[e], table'[d])
    BY <2>1, <2>3, <2>4, <2>6
  <2>8. \A d \in Command : \/ pc'[d] = "idle"
                           \/ pc[d] # "idle" /\ token'[d] = token[d]
                           \/ /\ token'[d] \in 1..begun /\ pc'[d] # "load"
                              /\ \A e \in Command : pc[e] = "load" => token[e] # token'[d]
    BY <2>4, <2>5, <2>6
  <2>9. \A d \in Command : pc'[d] = "load" => pc[d] = "load"
    BY <2>4
  <2>10. /\ begun' = begun /\ used' = used /\ shown' = shown /\ revoked' = revoked
         /\ retired' = retired \cup {old}
    BY <1>6 DEF LoadToRemove
  <2>11. /\ used' \cup shown' \cup retired' \subseteq 1..begun /\ revoked' \subseteq retired'
         /\ \A e \in Command :
              pc'[e] = "load" => token[e] \notin used' \cup shown' \cup retired'
    BY <1>1, <2>5, <2>6, <2>9, <2>10
  <2> HIDE DEF f, g, old
  <2>12. QED
    BY <2>4, <2>7, <2>8, <2>9, <2>10, <2>11, NothingMinted
<1>7. ASSUME NEW c \in Command, CreateTmp(c) PROVE MintInv'
  <2>1. tmp' \in Inode /\ data' = [data EXCEPT ![tmp'] = Empty]
    BY <1>7, CreatesFresh
  <2>2. \A i \in Inode : data'[i].callers = data[i].callers \/ data'[i].callers = NoCallers
    BY <2>1, Types DEF Empty
  <2>3. QED
    BY <1>1, <1>7, <2>2, NothingMinted DEF CreateTmp, TypeOK
<1>8. ASSUME NEW c \in Command, WriteTmp(c) PROVE MintInv'
  <2>1. PICK text \in {Whole(table[c]), Mixed} : data' = [data EXCEPT ![fd[c]] = text]
    BY <1>8 DEF WriteTmp
  <2>2. text.callers = table[c] \/ text.callers = NoCallers
    BY <2>1 DEF Whole, Mixed
  <2>3. \A i \in Inode : \/ data'[i].callers = data[i].callers \/ data'[i].callers = NoCallers
                         \/ data'[i].callers = table[c]
    BY <2>1, <2>2, Types
  <2>4. QED
    BY <1>1, <1>8, <2>3, NothingMinted DEF WriteTmp, TypeOK
<1>9. ASSUME NEW c \in Command, WriteFails(c) PROVE MintInv'
  <2>1. \A i \in Inode : data'[i].callers = data[i].callers \/ data'[i].callers = NoCallers
    BY <1>9, Types DEF WriteFails, Mixed
  <2>2. EndTypes(c) /\ table'[c] = NoCallers
    BY <1>9, EndsTypes DEF WriteFails
  <2>3. QED
    BY <1>1, <1>9, <2>1, <2>2, NothingMinted DEF WriteFails, EndTypes
<1>10. ASSUME NEW c \in Command, RenameTmp(c) PROVE MintInv'
  <2>1. tmp \in Inode /\ Sound(data[tmp].callers)
        /\ \A e \in Command : pc[e] = "load" => Absent(token[e], data[tmp].callers)
    BY <1>10, Types DEF RenameTmp, MintInv
  <2>2. TokensIn(tmp) \subseteq 1..begun
    <3>1. \A j \in 0..begun : j = 0 \/ j \in 1..begun
      BY <1>1
    <3>2. QED
      BY <2>1, <3>1 DEF TokensIn, Sound, NoToken
  <2>3. \A e \in Command : pc[e] = "load" => token[e] \notin TokensIn(tmp)
    BY <2>1 DEF TokensIn, Absent
  <2>4. \A d \in Command : /\ pc'[d] = "load" => pc[d] = "load"
                           /\ pc'[d] = "idle" \/ (pc[d] # "idle" /\ token'[d] = token[d])
    BY <1>10 DEF RenameTmp, TypeOK
  <2>5. /\ begun' = begun /\ data' = data /\ table' = table /\ shown' = shown
        /\ retired' = retired /\ revoked' = revoked /\ used' = used \cup TokensIn(tmp)
    BY <1>10 DEF RenameTmp
  <2>6. /\ used' \cup shown' \cup retired' \subseteq 1..begun
        /\ \A e \in Command :
             pc'[e] = "load" => token[e] \notin used' \cup shown' \cup retired'
    BY <1>1, <2>2, <2>3, <2>4, <2>5
  <2>7. QED
    BY <1>1, <2>4, <2>5, <2>6, NothingMinted
<1>11. ASSUME NEW c \in Command, Report(c) PROVE MintInv'
  <2>1. EndTypes(c) /\ table'[c] = NoCallers
    BY <1>11, EndsTypes DEF Report
  <2>2. token[c] \in 1..begun /\ pc[c] = "audit"
    BY <1>11 DEF Report, MintInv
  <2>3. /\ used' = used /\ retired' = retired /\ shown' \subseteq shown \cup {token[c]}
        /\ revoked' \subseteq retired' /\ data' = data
    BY <1>1, <1>11 DEF Report, CommandInv
  <2>4. \A e \in Command : pc[e] = "load" => token[e] # token[c]
    BY <1>2, <2>2
  <2>5. \A e \in Command : pc'[e] = "load" => pc[e] = "load"
    BY <2>1 DEF EndTypes
  <2>6. /\ used' \cup shown' \cup retired' \subseteq 1..begun
        /\ \A e \in Command :
             pc'[e] = "load" => token[e] \notin used' \cup shown' \cup retired'
    BY <1>1, <2>2, <2>3, <2>4, <2>5
  <2>7. \A d \in Command : pc'[d] = "idle" \/ (pc[d] # "idle" /\ token'[d] = token[d])
    BY <2>1 DEF EndTypes
  <2>8. \A d \in Command : table'[d] = table[d] \/ table'[d] = NoCallers
    BY <2>1 DEF EndTypes
  <2>9. begun' = begun
    BY <2>1 DEF EndTypes
  <2>10. QED
    BY <2>3, <2>5, <2>6, <2>7, <2>8, <2>9, NothingMinted
<1>12. CASE UNCHANGED vars
  BY <1>12 DEF vars, MintInv, Sound, Absent
<1>13. QED
  BY <1>3, <1>4, <1>5, <1>6, <1>7, <1>8, <1>9, <1>10, <1>11, <1>12, MintBegin, StepCases DEF Next

-----------------------------------------------------------------------------

\* A step of one command leaves no other one alone, and its own part of the invariant
\* is all there is to show.
LEMMA SoloOnly ==
  ASSUME SoloInv, NEW c \in Command, pc[c] # "idle",
         \A d \in Command \ {c} : pc'[d] = pc[d] /\ alone'[d] = alone[d],
         alone'[c] /\ pc'[c] # "idle" => alone[c] /\ SoloAt(c)'
  PROVE  SoloInv'
BY DEF SoloInv

\* What a command that runs alone does to its temporary file is not done to callers.json.
LEMMA LiveKept ==
  ASSUME TypeOK, SoloInv, NEW c \in Command, alone[c],
         CreateTmp(c) \/ WriteTmp(c) \/ WriteFails(c)
  PROVE  /\ live' = live /\ Table' = Table /\ Decodes' = Decodes
         /\ live # NoInode => data'[live] = data[live]
<1>1. live' = live
  BY DEF CreateTmp, WriteTmp, WriteFails
<1>2. live # NoInode => data'[live] = data[live]
  <2>1. CASE CreateTmp(c)
    BY <2>1, Types, CreatesFresh
  <2>2. CASE WriteTmp(c) \/ WriteFails(c)
    <3>1. pc[c] = "write"
      BY <2>2 DEF WriteTmp, WriteFails
    <3>2. tmp # NoInode /\ fd[c] = tmp
      BY <3>1 DEF SoloInv, SoloAt
    <3>3. tmp # live
      BY <3>2 DEF TypeOK
    <3>4. PICK x : data' = [data EXCEPT ![fd[c]] = x]
      BY <2>2 DEF WriteTmp, WriteFails
    <3>5. QED
      BY <3>2, <3>3, <3>4, Types
  <2>3. QED
    BY <2>1, <2>2
<1>3. QED
  BY <1>1, <1>2 DEF Table, Decodes

LEMMA SoloStep == TypeOK /\ CommandInv /\ MintInv /\ SoloInv /\ [Next]_vars => SoloInv'
<1> SUFFICES ASSUME TypeOK, CommandInv, MintInv, SoloInv, [Next]_vars PROVE SoloInv'
  OBVIOUS
<1> USE DEF file, command, history
<1>1. ASSUME NEW c \in Command, NEW k \in {"init", "add", "rm"}, NEW n \in Name, Begin(c, k, n)
      PROVE  SoloInv'
  <2>1. SUFFICES ASSUME NEW e \in Command, alone'[e], pc'[e] # "idle"
                 PROVE  /\ \A d \in Command : pc'[d] # "idle" => d = e
                        /\ SoloAt(e)'
    BY DEF SoloInv
  <2>2. pc' = [pc EXCEPT ![c] = "load"] /\ pc'[c] = "load"
    BY <1>1 DEF Begin, TypeOK
  <2>3. e \in Active \cup {c}
    BY <2>1, <2>2 DEF Active, TypeOK
  <2>4. Active = {}
    BY <1>1, <2>1, <2>3 DEF Begin
  <2>5. e = c /\ \A d \in Command : pc'[d] # "idle" => d = e
    BY <2>2, <2>3, <2>4 DEF Active, TypeOK
  <2>6. QED
    BY <2>2, <2>5 DEF SoloAt, SaveSteps
<1>2. ASSUME NEW c \in Command, Quits(c) PROVE SoloInv'
  BY <1>2, EndsTypes, SoloOnly DEF Quits, EndTypes
<1>3. ASSUME NEW c \in Command, StatToInit(c) PROVE SoloInv'
  <2>1. pc'[c] = "create" /\ \A d \in Command \ {c} : pc'[d] = pc[d]
    BY <1>3 DEF StatToInit, TypeOK
  <2>2. Planned(c)' /\ alone' = alone
    BY <1>3 DEF StatToInit, CommandInv, Planned, Decodes
  <2>3. SoloAt(c)'
    BY <2>1, <2>2 DEF SoloAt
  <2>4. pc[c] # "idle"
    BY <1>3 DEF StatToInit
  <2>5. QED
    BY <2>1, <2>2, <2>3, <2>4, SoloOnly
<1>4. ASSUME NEW c \in Command, LoadToAdd(c) PROVE SoloInv'
  <2>1. pc'[c] = "create" /\ (\A d \in Command \ {c} : pc'[d] = pc[d]) /\ alone' = alone
        /\ pc[c] = "load"
    BY <1>4 DEF LoadToAdd, TypeOK
  <2>2. Planned(c)'
    <3>1. Table' = Table /\ Table = data[live].callers /\ Decodes'
      BY <1>4 DEF LoadToAdd, Table, Decodes
    <3>2. table'[c] = [Table EXCEPT ![name[c]] = token[c]]
      BY <1>4, <3>1, Types DEF LoadToAdd
    <3>3. token[c] \notin used \cup shown \cup retired
      BY <2>1 DEF MintInv
    <3>4. QED
      BY <1>4, <3>1, <3>2, <3>3 DEF LoadToAdd, Planned
  <2>3. SoloAt(c)'
    BY <2>1, <2>2 DEF SoloAt
  <2>4. QED
    BY <2>1, <2>3, SoloOnly DEF SoloInv
<1>5. ASSUME NEW c \in Command, LoadToRemove(c) PROVE SoloInv'
  <2>1. pc'[c] = "create" /\ (\A d \in Command \ {c} : pc'[d] = pc[d]) /\ alone' = alone
        /\ pc[c] = "load"
    BY <1>5 DEF LoadToRemove, TypeOK
  <2>2. Planned(c)'
    <3>1. Table' = Table /\ Table = data[live].callers /\ Decodes'
      BY <1>5 DEF LoadToRemove, Table, Decodes
    <3>2. table'[c] = [Table EXCEPT ![name[c]] = NoToken] /\ token'[c] = Table[name[c]]
      BY <1>5, <3>1, Types DEF LoadToRemove, TypeOK
    <3>3. QED
      BY <1>5, <3>1, <3>2 DEF LoadToRemove, Planned
  <2>3. SoloAt(c)'
    BY <2>1, <2>2 DEF SoloAt
  <2>4. QED
    BY <2>1, <2>3, SoloOnly DEF SoloInv
<1>6. ASSUME NEW c \in Command, CreateTmp(c) PROVE SoloInv'
  <2>1. pc'[c] = "write" /\ (\A d \in Command \ {c} : pc'[d] = pc[d]) /\ alone' = alone
        /\ pc[c] = "create"
    BY <1>6 DEF CreateTmp, TypeOK
  <2>2. ASSUME alone[c] PROVE SoloAt(c)'
    <3>1. Planned(c)
      BY <2>1, <2>2 DEF SoloInv, SoloAt, SaveSteps
    <3>2. live' = live /\ Table' = Table /\ Decodes' = Decodes
      BY <1>6, <2>2, LiveKept
    <3>3. Planned(c)'
      BY <1>6, <3>1, <3>2 DEF CreateTmp, Planned
    <3>4. tmp' # NoInode /\ fd'[c] = tmp' /\ data'[tmp'].state = "empty"
      BY <1>6, CreatesFresh, Types DEF Empty, TypeOK
    <3>5. QED
      BY <2>1, <3>3, <3>4 DEF SoloAt
  <2>3. QED
    BY <2>1, <2>2, SoloOnly
<1>7. ASSUME NEW c \in Command, WriteTmp(c) PROVE SoloInv'
  <2>1. pc'[c] = "rename" /\ (\A d \in Command \ {c} : pc'[d] = pc[d]) /\ alone' = alone
        /\ pc[c] = "write"
    BY <1>7 DEF WriteTmp, TypeOK
  <2>2. ASSUME alone[c] PROVE SoloAt(c)'
    <3>1. Planned(c) /\ tmp # NoInode /\ fd[c] = tmp /\ data[tmp].state = "empty"
      BY <2>1, <2>2 DEF SoloInv, SoloAt, SaveSteps
    <3>2. live' = live /\ Table' = Table /\ Decodes' = Decodes
      BY <1>7, <2>2, LiveKept
    <3>3. Planned(c)'
      BY <1>7, <3>1, <3>2 DEF WriteTmp, Planned
    <3>4. data' = [data EXCEPT ![tmp] = Whole(table[c])]
      BY <1>7, <3>1 DEF WriteTmp
    <3>5. tmp' = tmp /\ fd' = fd /\ table' = table /\ data'[tmp] = Whole(table[c])
      BY <1>7, <3>1, <3>4, Types DEF WriteTmp
    <3>6. QED
      BY <2>1, <3>1, <3>3, <3>5 DEF SoloAt
  <2>3. QED
    BY <2>1, <2>2, SoloOnly
<1>8. ASSUME NEW c \in Command, WriteFails(c) PROVE SoloInv'
  BY <1>8, EndsTypes, SoloOnly DEF WriteFails, EndTypes
<1>9. ASSUME NEW c \in Command, RenameTmp(c) PROVE SoloInv'
  <2>1. pc'[c] = "audit" /\ (\A d \in Command \ {c} : pc'[d] = pc[d]) /\ alone' = alone
        /\ pc[c] = "rename"
    BY <1>9 DEF RenameTmp, TypeOK
  <2>2. ASSUME alone[c] PROVE SoloAt(c)'
    <3>1. Planned(c) /\ tmp # NoInode /\ fd[c] = tmp /\ data[tmp] = Whole(table[c])
      BY <2>1, <2>2 DEF SoloInv, SoloAt, SaveSteps
    <3>2. /\ live' = tmp /\ tmp' = NoInode /\ fd' = fd /\ data' = data /\ kind' = kind
          /\ name' = name /\ token' = token /\ table' = table /\ shown' = shown
          /\ retired' = retired
      BY <1>9 DEF RenameTmp
    <3>3. data'[live'].state = "whole" /\ Table' = table[c]
      BY <3>1, <3>2 DEF Whole, Table
    <3>4. name[c] \in Name /\ Table \in Tables
      BY Types DEF TypeOK
    <3>5. kind[c] = "add" => table[c][name[c]] = token[c]
      BY <3>1, <3>4 DEF Planned, Tables
    <3>6. ASSUME kind[c] = "rm" PROVE Absent(token[c], table[c])
      <4>1. Table[name[c]] = token[c] /\ table[c] = [Table EXCEPT ![name[c]] = NoToken]
            /\ live # NoInode
        BY <3>1, <3>6 DEF Planned
      <4>2. token[c] # NoToken
        BY <2>1, Types DEF MintInv, NoToken
      <4>3. Sound(Table)
        BY <4>1, Types DEF Table, MintInv
      <4>4. QED
        BY <3>4, <4>1, <4>2, <4>3 DEF Absent, Sound, Tables
    <3>7. Done(c)'
      BY <3>1, <3>2, <3>3, <3>5, <3>6 DEF Done, Planned, Absent
    <3>8. QED
      BY <2>1, <3>7 DEF SoloAt, SaveSteps
  <2>3. QED
    BY <2>1, <2>2, SoloOnly
<1>10. ASSUME NEW c \in Command, Report(c) PROVE SoloInv'
  BY <1>10, EndsTypes, SoloOnly DEF Report, EndTypes
<1>11. CASE UNCHANGED vars
  <2>1. UNCHANGED <<data, live, tmp, fd, pc, kind, name, token, table, alone, used, shown, retired>>
    BY <1>11 DEF vars
  <2>2. Table' = Table /\ (Decodes <=> Decodes')
    BY <2>1 DEF Table, Decodes
  <2>3. ASSUME NEW c \in Command, SoloAt(c) PROVE SoloAt(c)'
    <3>1. Planned(c) => Planned(c)'
      BY <2>1, <2>2 DEF Planned
    <3>2. Done(c) => Done(c)'
      BY <2>1, <2>2 DEF Done, Absent
    <3>3. QED
      BY <2>1, <2>3, <3>1, <3>2 DEF SoloAt
  <2>4. QED
    BY <2>1, <2>3 DEF SoloInv
<1>12. QED
  BY <1>1, <1>2, <1>3, <1>4, <1>5, <1>6, <1>7, <1>8, <1>9, <1>10, <1>11, StepCases DEF Next

\* Until two commands overlap, the one that runs has run alone from its beginning.
LEMMA LoneStep == TypeOK /\ SoloInv /\ LoneInv /\ [Next]_vars => LoneInv'
<1> SUFFICES ASSUME TypeOK, SoloInv, LoneInv, [Next]_vars, ~overlapped' PROVE LoneInv'
  BY DEF LoneInv
<1> USE DEF file, command, history
<1>1. ~overlapped
  BY StepCases DEF Next, Begin, Quits, Ends, StatToInit, LoadToAdd, LoadToRemove, CreateTmp,
     WriteTmp, WriteFails, RenameTmp, Report, vars
<1>2. /\ Decodes /\ \A n \in Name : Table[n] # NoToken => Table[n] \in used
      /\ \A c \in Command : alone[c]
      /\ \A c \in Command :
           kind[c] = "rm" /\ pc[c] \in SaveSteps \cup {"audit"} => token[c] \in used
  BY <1>1 DEF LoneInv
<1>3. ASSUME Decodes' = Decodes, Table' = Table, used' = used,
             \A d \in Command : alone'[d],
             \A d \in Command : kind'[d] = "rm" /\ pc'[d] \in SaveSteps \cup {"audit"} =>
               token'[d] \in used
      PROVE  LoneInv'
  BY <1>2, <1>3 DEF LoneInv
<1>4. ASSUME NEW c \in Command, NEW k \in {"init", "add", "rm"}, NEW n \in Name, Begin(c, k, n)
      PROVE  LoneInv'
  <2>1. Active = {}
    BY <1>4 DEF Begin
  <2>2. \A d \in Command : alone'[d]
    BY <1>4, <2>1 DEF Begin
  <2>3. \A d \in Command : pc'[d] \notin SaveSteps \cup {"audit"}
    BY <1>4, <2>1 DEF Begin, Active, TypeOK, SaveSteps
  <2>4. QED
    BY <1>3, <1>4, <2>2, <2>3 DEF Begin, Decodes, Table
<1>5. ASSUME NEW c \in Command, Quits(c) PROVE LoneInv'
  <2>1. \A d \in Command : alone'[d]
    BY <1>2, <1>5 DEF Quits, Ends, TypeOK
  <2>2. \A d \in Command : kind'[d] = "rm" /\ pc'[d] \in SaveSteps \cup {"audit"} =>
               token'[d] \in used
    BY <1>2, <1>5, EndsTypes DEF Quits, EndTypes, SaveSteps
  <2>3. QED
    BY <1>3, <1>5, <2>1, <2>2 DEF Quits, Decodes, Table
<1>6. ASSUME NEW c \in Command, StatToInit(c) PROVE LoneInv'
  <2>1. \A d \in Command : kind'[d] = "rm" /\ pc'[d] \in SaveSteps \cup {"audit"} =>
               token'[d] \in used
    BY <1>2, <1>6 DEF StatToInit, TypeOK
  <2>2. QED
    BY <1>2, <1>3, <1>6, <2>1 DEF StatToInit, Decodes, Table
<1>7. ASSUME NEW c \in Command, LoadToAdd(c) PROVE LoneInv'
  <2>1. \A d \in Command : kind'[d] = "rm" /\ pc'[d] \in SaveSteps \cup {"audit"} =>
               token'[d] \in used
    BY <1>2, <1>7 DEF LoadToAdd, TypeOK
  <2>2. QED
    BY <1>2, <1>3, <1>7, <2>1 DEF LoadToAdd, Decodes, Table
<1>8. ASSUME NEW c \in Command, LoadToRemove(c) PROVE LoneInv'
  <2>1. Table[name[c]] # NoToken /\ token' = [token EXCEPT ![c] = Table[name[c]]]
        /\ name[c] \in Name
    BY <1>8 DEF LoadToRemove, Table, TypeOK
  <2>2. Table[name[c]] \in used
    BY <1>2, <2>1
  <2>3. \A d \in Command : kind'[d] = "rm" /\ pc'[d] \in SaveSteps \cup {"audit"} =>
               token'[d] \in used
    BY <1>2, <1>8, <2>1, <2>2 DEF LoadToRemove, TypeOK
  <2>4. QED
    BY <1>2, <1>3, <1>8, <2>3 DEF LoadToRemove, Decodes, Table
<1>9. ASSUME NEW c \in Command, CreateTmp(c) \/ WriteTmp(c) PROVE LoneInv'
  <2>1. Table' = Table /\ Decodes' = Decodes
    BY <1>2, <1>9, LiveKept
  <2>2. pc[c] \in SaveSteps /\ \A d \in Command \ {c} : pc'[d] = pc[d]
    BY <1>9 DEF CreateTmp, WriteTmp, TypeOK, SaveSteps
  <2>3. kind' = kind /\ token' = token /\ alone' = alone /\ used' = used
    BY <1>9 DEF CreateTmp, WriteTmp
  <2>4. QED
    BY <1>2, <1>3, <2>1, <2>2, <2>3
<1>10. ASSUME NEW c \in Command, WriteFails(c) PROVE LoneInv'
  <2>1. Table' = Table /\ Decodes' = Decodes
    BY <1>2, <1>10, LiveKept
  <2>2. \A d \in Command : alone'[d]
    BY <1>2, <1>10 DEF WriteFails, Ends, TypeOK
  <2>3. \A d \in Command : kind'[d] = "rm" /\ pc'[d] \in SaveSteps \cup {"audit"} =>
               token'[d] \in used
    BY <1>2, <1>10, EndsTypes DEF WriteFails, EndTypes, SaveSteps
  <2>4. QED
    BY <1>3, <1>10, <2>1, <2>2, <2>3 DEF WriteFails
<1>11. ASSUME NEW c \in Command, RenameTmp(c) PROVE LoneInv'
  <2>1. data[tmp] = Whole(table[c]) /\ tmp # NoInode /\ pc[c] \in SaveSteps
    BY <1>2, <1>11 DEF RenameTmp, SoloInv, SoloAt, SaveSteps
  <2>2. /\ live' = tmp /\ data' = data /\ used' = used \cup TokensIn(tmp) /\ kind' = kind
        /\ token' = token /\ alone' = alone
    BY <1>11 DEF RenameTmp
  <2>3. Decodes' /\ Table' = data[tmp].callers
    BY <2>1, <2>2 DEF Decodes, Table, Whole
  <2>4. \A n \in Name : Table'[n] # NoToken => Table'[n] \in used'
    BY <2>2, <2>3 DEF TokensIn
  <2>5. \A d \in Command \ {c} : pc'[d] = pc[d]
    BY <1>11 DEF RenameTmp, TypeOK
  <2>6. \A d \in Command : kind'[d] = "rm" /\ pc'[d] \in SaveSteps \cup {"audit"} =>
               token'[d] \in used'
    BY <1>2, <2>1, <2>2, <2>5
  <2>7. QED
    BY <1>2, <2>2, <2>3, <2>4, <2>6 DEF LoneInv
<1>12. ASSUME NEW c \in Command, Report(c) PROVE LoneInv'
  <2>1. \A d \in Command : alone'[d]
    BY <1>2, <1>12 DEF Report, Ends, TypeOK
  <2>2. \A d \in Command : kind'[d] = "rm" /\ pc'[d] \in SaveSteps \cup {"audit"} =>
               token'[d] \in used
    BY <1>2, <1>12, EndsTypes DEF Report, EndTypes, SaveSteps
  <2>3. QED
    BY <1>3, <1>12, <2>1, <2>2 DEF Report, Decodes, Table
<1>13. CASE UNCHANGED vars
  BY <1>2, <1>3, <1>13 DEF vars, Decodes, Table
<1>14. QED
  BY <1>4, <1>5, <1>6, <1>7, <1>8, <1>9, <1>10, <1>11, <1>12, <1>13, StepCases DEF Next

-----------------------------------------------------------------------------

\* Taking in a table that is covered, and the change a command makes to it.
LEMMA AddedCovered ==
  ASSUME NEW f \in Tables, NEW n \in Name, f[n] = NoToken, Covered(f), MintInv,
         NEW k, k \notin retired
  PROVE  Covered([f EXCEPT ![n] = k])
<1> DEFINE g == [f EXCEPT ![n] = k]
<1>1. g[n] = k /\ \A m \in Name \ {n} : g[m] = f[m]
  BY DEF Tables
<1>2. \A j \in shown \cup retired : j # NoToken
  BY DEF MintInv, NoToken
<1> HIDE DEF g
<1>3. \A j \in (shown \cap safe) \ retired : \E m \in Name : g[m] = j
  BY <1>1, <1>2 DEF Covered
<1>4. \A j \in revoked \cap safe : Absent(j, g)
  BY <1>1, <1>2 DEF Covered, Absent, MintInv
<1>5. QED
  BY <1>3, <1>4 DEF Covered, g

LEMMA RemovedCovered ==
  ASSUME NEW f \in Tables, NEW n \in Name, Covered(f), MintInv
  PROVE  LET g == [f EXCEPT ![n] = NoToken]
         IN  /\ \A j \in (shown \cap safe) \ (retired \cup {f[n]}) : \E m \in Name : g[m] = j
             /\ \A j \in revoked \cap safe : Absent(j, g)
<1> DEFINE g == [f EXCEPT ![n] = NoToken]
<1>1. g[n] = NoToken /\ \A m \in Name \ {n} : g[m] = f[m]
  BY DEF Tables
<1>2. \A j \in retired : j # NoToken
  BY DEF MintInv, NoToken
<1> HIDE DEF g
<1>3. \A j \in (shown \cap safe) \ (retired \cup {f[n]}) : \E m \in Name : g[m] = j
  BY <1>1 DEF Covered
<1>4. \A j \in revoked \cap safe : Absent(j, g)
  BY <1>1, <1>2 DEF Covered, Absent, MintInv
<1>5. QED
  BY <1>3, <1>4 DEF g

\* A step that adds nothing to what is reported asks no more of any table.
LEMMA StillCovered ==
  ASSUME (shown' \cap safe') \ retired' \subseteq (shown \cap safe) \ retired,
         revoked' \cap safe' \subseteq revoked \cap safe
  PROVE  \A f : Covered(f) =>
           /\ \A k \in (shown' \cap safe') \ retired' : \E n \in Name : f[n] = k
           /\ \A k \in revoked' \cap safe' : Absent(k, f)
BY DEF Covered

\* The form in which the steps prove the invariant.
LEMMA CoverFrom ==
  ASSUME live' = NoInode => shown' = {} /\ revoked' = {},
         \A c \in Command : pc'[c] = "audit" => live' # NoInode,
         \A f : Covered(f) =>
           /\ \A k \in (shown' \cap safe') \ retired' : \E n \in Name : f[n] = k
           /\ \A k \in revoked' \cap safe' : Absent(k, f),
         \A i \in Inode : InUse(i)' /\ data'[i].state = "whole" => Covered(data'[i].callers),
         \A c \in Command : pc'[c] \in {"create", "write"} => Covered(table'[c])
  PROVE  CoverInv'
BY DEF CoverInv, Covered, Absent

\* What is reported by a command that ran alone is so in callers.json, and there is no
\* other table left that could replace it.
LEMMA CoverReport ==
  ASSUME TypeOK, CommandInv, MintInv, SoloInv, CoverInv, NEW c \in Command, Report(c)
  PROVE  CoverInv'
<1>1. /\ live' = live /\ tmp' = tmp /\ data' = data /\ retired' = retired /\ pc[c] = "audit"
      /\ shown' = IF kind[c] = "add" THEN shown \cup {token[c]} ELSE shown
      /\ revoked' = IF kind[c] = "rm" THEN revoked \cup {token[c]} ELSE revoked
      /\ safe' = IF alone[c] /\ kind[c] # "init"
                 THEN safe \cup {token[c]} ELSE safe \ {token[c]}
  BY DEF Report, file
<1>2. EndTypes(c) /\ table'[c] = NoCallers
  BY EndsTypes DEF Report
<1>3. live # NoInode
  BY <1>1 DEF CoverInv
<1>4. \A d \in Command : pc'[d] # "idle" => d # c /\ pc'[d] = pc[d] /\ table'[d] = table[d]
  BY <1>2 DEF EndTypes
<1>5. \A i \in Inode : InUse(i)' => InUse(i)
  BY <1>1, <1>2, Types DEF InUse, EndTypes
<1>6. \A d \in Command : pc'[d] = "audit" => live' # NoInode
  BY <1>1, <1>3
<1>7. CASE ~(alone[c] /\ kind[c] # "init")
  <2>1. /\ (shown' \cap safe') \ retired' \subseteq (shown \cap safe) \ retired
        /\ revoked' \cap safe' \subseteq revoked \cap safe
    BY <1>1, <1>7
  <2>2. \A i \in Inode : InUse(i)' /\ data'[i].state = "whole" => Covered(data'[i].callers)
    BY <1>1, <1>5 DEF CoverInv
  <2>3. \A d \in Command : pc'[d] \in {"create", "write"} => Covered(table'[d])
    BY <1>4 DEF CoverInv
  <2>4. \A f : Covered(f) =>
          /\ \A k \in (shown' \cap safe') \ retired' : \E n \in Name : f[n] = k
          /\ \A k \in revoked' \cap safe' : Absent(k, f)
    BY <2>1, StillCovered
  <2>5. QED
    BY <1>1, <1>3, <1>6, <2>2, <2>3, <2>4, CoverFrom
<1>8. CASE alone[c] /\ kind[c] # "init"
  <2>1. Done(c) /\ \A d \in Command : pc[d] # "idle" => d = c
    BY <1>1, <1>8 DEF SoloInv, SoloAt
  <2>2. \A d \in Command : pc'[d] = "idle" /\ fd'[d] = NoInode
    BY <1>2, <2>1 DEF EndTypes
  <2>3. ASSUME NEW i \in Inode, InUse(i)' PROVE i = live
    BY <1>1, <2>1, <2>2, <2>3, Types DEF InUse, Done
  <2>4. live \in Inode /\ Covered(Table) /\ Table = data[live].callers
    BY <1>3, <2>1, Types DEF CoverInv, Done, InUse, Table
  <2>5. kind[c] \in {"add", "rm"} /\ name[c] \in Name
    BY <1>8 DEF TypeOK
  <2>6. ASSUME NEW k \in (shown' \cap safe') \ retired' PROVE \E n \in Name : Table[n] = k
    <3>1. CASE k = token[c]
      <4>1. kind[c] # "rm"
        BY <1>1, <2>6, <3>1 DEF CommandInv
      <4>2. QED
        BY <2>1, <2>5, <3>1, <4>1 DEF Done
    <3>2. CASE k # token[c]
      <4>1. k \in (shown \cap safe) \ retired
        BY <1>1, <2>6, <3>2
      <4>2. QED
        BY <2>4, <4>1 DEF Covered
    <3>3. QED
      BY <3>1, <3>2
  <2>7. ASSUME NEW k \in revoked' \cap safe' PROVE Absent(k, Table)
    <3>1. CASE k = token[c]
      <4>1. k \in revoked => k \in retired
        BY DEF MintInv
      <4>2. kind[c] # "add"
        BY <1>1, <2>1, <2>7, <3>1, <4>1 DEF Done
      <4>3. QED
        BY <2>1, <2>5, <3>1, <4>2 DEF Done
    <3>2. CASE k # token[c]
      <4>1. k \in revoked \cap safe
        BY <1>1, <2>7, <3>2
      <4>2. QED
        BY <2>4, <4>1 DEF Covered
    <3>3. QED
      BY <3>1, <3>2
  <2>8. \A i \in Inode : InUse(i)' /\ data'[i].state = "whole" => Covered(data[i].callers)'
    BY <1>1, <2>3, <2>4, <2>6, <2>7 DEF Covered, Absent
  <2>9. QED
    BY <1>1, <1>3, <1>6, <2>2, <2>8 DEF CoverInv
<1>9. QED
  BY <1>7, <1>8

LEMMA CoverRemove ==
  ASSUME TypeOK, MintInv, CoverInv, NEW c \in Command, LoadToRemove(c)
  PROVE  CoverInv'
<1> DEFINE f == data[live].callers
           g == [f EXCEPT ![name[c]] = NoToken]
<1>1. /\ live' = live /\ tmp' = tmp /\ data' = data /\ fd' = fd /\ shown' = shown
      /\ revoked' = revoked /\ safe' = safe /\ retired' = retired \cup {f[name[c]]}
      /\ live # NoInode /\ data[live].state = "whole"
  BY DEF LoadToRemove, file
<1>2. /\ f \in Tables /\ name[c] \in Name /\ live \in Inode /\ InUse(live)
  BY <1>1, Types DEF TypeOK, InUse
<1>3. pc'[c] = "create" /\ table'[c] = g
      /\ \A d \in Command \ {c} : pc'[d] = pc[d] /\ table'[d] = table[d]
  BY Types DEF LoadToRemove, TypeOK
<1>4. Covered(f)
  BY <1>1, <1>2 DEF CoverInv
<1>5. /\ \A j \in (shown' \cap safe') \ retired' : \E m \in Name : g[m] = j
      /\ \A j \in revoked' \cap safe' : Absent(j, g)
  <2> HIDE DEF f
  <2>1. QED
    BY <1>1, <1>2, <1>4, RemovedCovered
<1>6. \A x : Covered(x) =>
        /\ \A k \in (shown' \cap safe') \ retired' : \E n \in Name : x[n] = k
        /\ \A k \in revoked' \cap safe' : Absent(k, x)
  BY <1>1, StillCovered
<1>7. \A i \in Inode : InUse(i)' /\ data'[i].state = "whole" => Covered(data[i].callers)'
  <2>1. \A i \in Inode : InUse(i)' => InUse(i)
    BY <1>1 DEF InUse
  <2>2. QED
    BY <1>1, <1>6, <2>1 DEF CoverInv, Covered, Absent
<1>8. \A d \in Command : pc'[d] \in {"create", "write"} => Covered(table[d])'
  <2>1. Covered(table[c])'
    <3> HIDE DEF f, g
    <3>1. QED
      BY <1>3, <1>5 DEF Covered, Absent
  <2>2. ASSUME NEW d \in Command \ {c}, pc'[d] \in {"create", "write"} PROVE Covered(table[d])'
    <3>1. Covered(table[d]) /\ table'[d] = table[d]
      BY <1>3, <2>2 DEF CoverInv
    <3>2. QED
      BY <1>6, <3>1 DEF Covered, Absent
  <2>3. QED
    BY <2>1, <2>2
<1>9. live' # NoInode
  BY <1>1
<1>10. QED
  BY <1>7, <1>8, <1>9 DEF CoverInv

LEMMA CoverStep ==
  TypeOK /\ CommandInv /\ MintInv /\ SoloInv /\ CoverInv /\ [Next]_vars => CoverInv'
<1> SUFFICES ASSUME TypeOK, CommandInv, MintInv, SoloInv, CoverInv, [Next]_vars PROVE CoverInv'
  OBVIOUS
<1> USE DEF file, command, history
<1>1. ASSUME shown' = shown, revoked' = revoked, safe' = safe, retired' = retired,
             live' = NoInode => live = NoInode,
             \A c \in Command : pc'[c] = "audit" => live' # NoInode,
             \A i \in Inode : InUse(i)' /\ data'[i].state = "whole" => Covered(data'[i].callers),
             \A c \in Command : pc'[c] \in {"create", "write"} => Covered(table'[c])
      PROVE  CoverInv'
  <2>1. \A f : Covered(f) =>
          /\ \A k \in (shown' \cap safe') \ retired' : \E n \in Name : f[n] = k
          /\ \A k \in revoked' \cap safe' : Absent(k, f)
    BY <1>1, StillCovered
  <2>2. live' = NoInode => shown' = {} /\ revoked' = {}
    BY <1>1 DEF CoverInv
  <2>3. QED
    BY <1>1, <2>1, <2>2, CoverFrom
<1>2. ASSUME NEW c \in Command, live' = live, tmp' = tmp, data' = data,
             \A d \in Command : fd'[d] = fd[d] \/ fd'[d] = NoInode,
             \A d \in Command : pc'[d] = "audit" => pc[d] = "audit"
      PROVE  /\ live' = NoInode => live = NoInode
             /\ \A d \in Command : pc'[d] = "audit" => live' # NoInode
             /\ \A i \in Inode : InUse(i)' /\ data'[i].state = "whole" => Covered(data'[i].callers)
  <2>1. \A i \in Inode : InUse(i)' => InUse(i)
    BY <1>2, Types DEF InUse
  <2>2. QED
    BY <1>2, <2>1 DEF CoverInv
<1>3. ASSUME NEW c \in Command, NEW k \in {"init", "add", "rm"}, NEW n \in Name, Begin(c, k, n)
      PROVE  CoverInv'
  <2>1. \A d \in Command : /\ pc'[d] = pc[d] \/ pc'[d] = "load"
                           /\ table'[d] = table[d] /\ fd'[d] = fd[d]
    BY <1>3 DEF Begin, TypeOK
  <2>2. \A d \in Command : pc'[d] \in {"create", "write"} => Covered(table'[d])
    BY <2>1 DEF CoverInv
  <2>3. QED
    BY <1>1, <1>2, <1>3, <2>1, <2>2 DEF Begin
<1>4. ASSUME NEW c \in Command, Quits(c) PROVE CoverInv'
  <2>1. EndTypes(c)
    BY <1>4, EndsTypes DEF Quits
  <2>2. \A d \in Command : pc'[d] \in {"create", "write"} => Covered(table'[d])
    BY <2>1 DEF EndTypes, CoverInv
  <2>3. QED
    BY <1>1, <1>2, <1>4, <2>1, <2>2 DEF Quits, EndTypes
<1>5. ASSUME NEW c \in Command, StatToInit(c) PROVE CoverInv'
  <2>1. Covered(NoCallers)
    BY <1>5 DEF StatToInit, CoverInv, Covered
  <2>2. table[c] = NoCallers
    BY <1>5 DEF StatToInit, CommandInv
  <2>3. \A d \in Command : /\ pc'[d] = IF d = c THEN "create" ELSE pc[d]
                           /\ table'[d] = table[d] /\ fd'[d] = fd[d]
    BY <1>5 DEF StatToInit, TypeOK
  <2>4. \A d \in Command : pc'[d] \in {"create", "write"} => Covered(table'[d])
    BY <2>1, <2>2, <2>3 DEF CoverInv
  <2>5. QED
    BY <1>1, <1>2, <1>5, <2>3, <2>4 DEF StatToInit
<1>6. ASSUME NEW c \in Command, LoadToAdd(c) PROVE CoverInv'
  <2> DEFINE f == data[live].callers
             g == [f EXCEPT ![name[c]] = token[c]]
  <2>1. /\ f \in Tables /\ name[c] \in Name /\ live \in Inode /\ InUse(live)
        /\ data[live].state = "whole" /\ f[name[c]] = NoToken
    BY <1>6, Types DEF LoadToAdd, TypeOK, InUse
  <2>2. Covered(f) /\ token[c] \notin retired
    BY <1>6, <2>1 DEF CoverInv, LoadToAdd, MintInv
  <2>3. table'[c] = g /\ \A d \in Command : /\ pc'[d] = IF d = c THEN "create" ELSE pc[d]
                                            /\ fd'[d] = fd[d] /\ (d # c => table'[d] = table[d])
    BY <1>6, Types DEF LoadToAdd, TypeOK
  <2>4. Covered(g)
    <3> HIDE DEF f
    <3>1. QED
      BY <2>1, <2>2, AddedCovered
  <2> HIDE DEF f, g
  <2>5. \A d \in Command : pc'[d] \in {"create", "write"} => Covered(table'[d])
    BY <2>3, <2>4 DEF CoverInv
  <2>6. QED
    BY <1>1, <1>2, <1>6, <2>3, <2>5 DEF LoadToAdd
<1>7. ASSUME NEW c \in Command, CreateTmp(c) PROVE CoverInv'
  <2>1. /\ tmp' \in Inode /\ data' = [data EXCEPT ![tmp'] = Empty]
        /\ fd' = [fd EXCEPT ![c] = tmp']
    BY <1>7, CreatesFresh
  <2>2. \A i \in Inode : i # tmp' /\ InUse(i)' => InUse(i) /\ data'[i] = data[i]
    BY <1>7, <2>1, Types DEF InUse, CreateTmp, TypeOK
  <2>3. data'[tmp'].state # "whole"
    BY <2>1, Types DEF Empty
  <2>4. \A i \in Inode : InUse(i)' /\ data'[i].state = "whole" => Covered(data'[i].callers)
    BY <2>2, <2>3 DEF CoverInv
  <2>5. \A d \in Command : pc'[d] = IF d = c THEN "write" ELSE pc[d]
    BY <1>7 DEF CreateTmp, TypeOK
  <2>6. live' = live /\ table' = table /\ pc[c] = "create"
    BY <1>7 DEF CreateTmp
  <2>7. /\ \A d \in Command : pc'[d] \in {"create", "write"} => Covered(table'[d])
        /\ \A d \in Command : pc'[d] = "audit" => live' # NoInode
    BY <2>5, <2>6 DEF CoverInv
  <2>8. QED
    BY <1>1, <1>7, <2>4, <2>6, <2>7 DEF CreateTmp
<1>8. ASSUME NEW c \in Command, WriteTmp(c) PROVE CoverInv'
  <2>1. PICK text \in {Whole(table[c]), Mixed} : data' = [data EXCEPT ![fd[c]] = text]
    BY <1>8 DEF WriteTmp
  <2>2. Covered(table[c]) /\ fd[c] \in Inode
    BY <1>8, Types DEF WriteTmp, CoverInv
  <2>3. text.state = "whole" => text.callers = table[c]
    BY <2>1 DEF Whole, Mixed
  <2>4. \A i \in Inode : (InUse(i)' => InUse(i)) /\ data'[i] = IF i = fd[c] THEN text ELSE data[i]
    BY <1>8, <2>1, Types DEF InUse, WriteTmp
  <2>5. \A i \in Inode : InUse(i)' /\ data'[i].state = "whole" => Covered(data'[i].callers)
    BY <2>2, <2>3, <2>4 DEF CoverInv
  <2>6. \A d \in Command : pc'[d] = IF d = c THEN "rename" ELSE pc[d]
    BY <1>8 DEF WriteTmp, TypeOK
  <2>7. /\ \A d \in Command : pc'[d] \in {"create", "write"} => Covered(table'[d])
        /\ \A d \in Command : pc'[d] = "audit" => live' # NoInode
    BY <1>8, <2>6 DEF WriteTmp, CoverInv
  <2>8. QED
    BY <1>1, <1>8, <2>5, <2>7 DEF WriteTmp
<1>9. ASSUME NEW c \in Command, WriteFails(c) PROVE CoverInv'
  <2>1. EndTypes(c)
    BY <1>9, EndsTypes DEF WriteFails
  <2>2. \A i \in Inode : (InUse(i)' => InUse(i)) /\ data'[i] = IF i = fd[c] THEN Mixed ELSE data[i]
    BY <1>9, <2>1, Types DEF InUse, WriteFails, EndTypes
  <2>3. Mixed.state # "whole"
    BY DEF Mixed
  <2>4. \A i \in Inode : InUse(i)' /\ data'[i].state = "whole" => Covered(data'[i].callers)
    BY <2>2, <2>3 DEF CoverInv
  <2>5. /\ \A d \in Command : pc'[d] \in {"create", "write"} => Covered(table'[d])
        /\ \A d \in Command : pc'[d] = "audit" => live' # NoInode
    BY <1>9, <2>1 DEF WriteFails, EndTypes, CoverInv
  <2>6. QED
    BY <1>1, <1>9, <2>4, <2>5 DEF WriteFails
<1>10. ASSUME NEW c \in Command, RenameTmp(c) PROVE CoverInv'
  <2>1. live' = tmp /\ tmp' = NoInode /\ tmp # NoInode /\ data' = data /\ fd' = fd /\ table' = table
    BY <1>10 DEF RenameTmp
  <2>2. \A i \in Inode : InUse(i)' => InUse(i)
    BY <2>1, Types DEF InUse
  <2>3. \A i \in Inode : InUse(i)' /\ data'[i].state = "whole" => Covered(data'[i].callers)
    BY <2>1, <2>2 DEF CoverInv
  <2>4. \A d \in Command : pc'[d] \in {"create", "write"} => Covered(table'[d])
    BY <1>10, <2>1 DEF RenameTmp, CoverInv, TypeOK
  <2>5. QED
    BY <1>1, <1>10, <2>1, <2>3, <2>4 DEF RenameTmp
<1>11. CASE UNCHANGED vars
  BY <1>11 DEF vars, CoverInv, InUse, Covered, Absent
<1>12. QED
  BY <1>3, <1>4, <1>5, <1>6, <1>7, <1>8, <1>9, <1>10, <1>11, CoverReport, CoverRemove, StepCases
  DEF Next

-----------------------------------------------------------------------------

LEMMA TmpStep == TypeOK /\ TypeOK' /\ TmpInv /\ [Next]_vars => TmpInv'
<1> SUFFICES ASSUME TypeOK, TypeOK', TmpInv, [Next]_vars, ~collided' PROVE TmpInv'
  BY DEF TmpInv
<1> USE DEF file, command, history
<1>1. ~collided
  BY StepCases DEF Next, Begin, Quits, Ends, StatToInit, LoadToAdd, LoadToRemove, CreateTmp,
     WriteTmp, WriteFails, RenameTmp, Report, vars, TypeOK
<1>2. /\ Decodes
      /\ \A c, d \in Command : Saving(c) /\ Saving(d) => c = d
      /\ \A c \in Command : Saving(c) => tmp # NoInode /\ fd[c] = tmp
      /\ \A c \in Command : pc[c] = "rename" => data[tmp].state = "whole"
      /\ \A c \in Command : pc[c] = "write" => data[tmp].state = "empty"
  BY <1>1 DEF TmpInv
<1>3. ASSUME live' = live, tmp' = tmp, data' = data,
             \A c \in Command : Saving(c)' => pc'[c] = pc[c] /\ fd'[c] = fd[c]
      PROVE  TmpInv'
  BY <1>2, <1>3 DEF TmpInv, Decodes, Saving
<1>4. ASSUME NEW c \in Command,
             \/ \E k \in {"init", "add", "rm"}, n \in Name : Begin(c, k, n)
             \/ Quits(c) \/ StatToInit(c) \/ LoadToAdd(c) \/ LoadToRemove(c) \/ Report(c)
      PROVE  TmpInv'
  <2>1. \A d \in Command : Saving(d)' => pc'[d] = pc[d] /\ fd'[d] = fd[d]
    BY <1>4 DEF Begin, Quits, Ends, StatToInit, LoadToAdd, LoadToRemove, Report, Saving, TypeOK
  <2>2. live' = live /\ tmp' = tmp /\ data' = data
    BY <1>4 DEF Begin, Quits, StatToInit, LoadToAdd, LoadToRemove, Report
  <2>3. QED
    BY <1>3, <2>1, <2>2
<1>5. ASSUME NEW c \in Command, CreateTmp(c) PROVE TmpInv'
  <2>1. /\ tmp' \in Inode /\ tmp' # live /\ tmp' # NoInode /\ live' = live
        /\ data' = [data EXCEPT ![tmp'] = Empty] /\ fd' = [fd EXCEPT ![c] = tmp']
    BY <1>5, CreatesFresh DEF CreateTmp
  <2>2. \A d \in Command : ~Saving(d)
    BY <1>5 DEF CreateTmp
  <2>3. \A d \in Command : pc'[d] = IF d = c THEN "write" ELSE pc[d]
    BY <1>5 DEF CreateTmp, TypeOK
  <2>4. Decodes'
    BY <1>2, <2>1, Types DEF Decodes
  <2>5. data'[tmp'].state = "empty"
    BY <2>1, Types DEF Empty
  <2>6. fd'[c] = tmp'
    BY <2>1 DEF TypeOK
  <2>7. QED
    BY <2>1, <2>2, <2>3, <2>4, <2>5, <2>6 DEF TmpInv, Saving
<1>6. ASSUME NEW c \in Command, WriteTmp(c) PROVE TmpInv'
  <2>1. pc[c] = "write" /\ live' = live /\ tmp' = tmp /\ fd' = fd
    BY <1>6 DEF WriteTmp
  <2>2. fd[c] = tmp /\ tmp \in Inode /\ tmp # live /\ data[tmp].state = "empty"
    BY <1>2, <2>1, Types DEF Saving, TypeOK
  <2>3. data' = [data EXCEPT ![tmp] = Whole(table[c])]
    BY <1>6, <2>2 DEF WriteTmp
  <2>4. data'[tmp].state = "whole"
    BY <2>2, <2>3, Types DEF Whole
  <2>5. Decodes'
    BY <1>2, <2>1, <2>2, <2>3, Types DEF Decodes
  <2>6. \A d \in Command : pc'[d] = IF d = c THEN "rename" ELSE pc[d]
    BY <1>6 DEF WriteTmp, TypeOK
  <2>7. QED
    BY <1>2, <2>1, <2>2, <2>4, <2>5, <2>6 DEF TmpInv, Saving
<1>7. ASSUME NEW c \in Command, WriteFails(c) PROVE TmpInv'
  <2>1. pc[c] = "write" /\ live' = live /\ tmp' = tmp
    BY <1>7 DEF WriteFails
  <2>2. fd[c] = tmp /\ tmp # live
    BY <1>2, <2>1, Types DEF Saving, TypeOK
  <2>3. Decodes'
    BY <1>2, <1>7, <2>1, <2>2, Types DEF Decodes, WriteFails
  <2>4. \A d \in Command : pc'[d] = IF d = c THEN "idle" ELSE pc[d]
    BY <1>7 DEF WriteFails, Ends, TypeOK
  <2>5. \A d \in Command : ~Saving(d)'
    BY <1>2, <2>1, <2>4 DEF Saving
  <2>6. QED
    BY <2>3, <2>5 DEF TmpInv, Saving
<1>8. ASSUME NEW c \in Command, RenameTmp(c) PROVE TmpInv'
  <2>1. pc[c] = "rename" /\ live' = tmp /\ data' = data
    BY <1>8 DEF RenameTmp
  <2>2. Decodes'
    BY <1>2, <2>1 DEF Decodes
  <2>3. \A d \in Command : pc'[d] = IF d = c THEN "audit" ELSE pc[d]
    BY <1>8 DEF RenameTmp, TypeOK
  <2>4. \A d \in Command : ~Saving(d)'
    BY <1>2, <2>1, <2>3 DEF Saving
  <2>5. QED
    BY <2>2, <2>4 DEF TmpInv, Saving
<1>9. CASE UNCHANGED vars
  BY <1>3, <1>9 DEF vars, Saving
<1>10. QED
  BY <1>4, <1>5, <1>6, <1>7, <1>8, <1>9, StepCases DEF Next

-----------------------------------------------------------------------------

LEMMA InitInv == Init => IInv
<1> SUFFICES ASSUME Init PROVE IInv
  OBVIOUS
<1>1. TypeOK /\ 0 \in Inode
  BY TypeInit, CommandAssumption, FS_CardinalityType DEF Inode
<1>2. /\ \A c \in Command : pc[c] = "idle" /\ table[c] = NoCallers /\ alone[c]
      /\ \A i \in Inode : data[i] = IF i = 0 THEN Whole(NoCallers) ELSE Empty
      /\ begun = 0 /\ used = {} /\ shown = {} /\ retired = {} /\ revoked = {} /\ safe = {}
      /\ live \in {0, NoInode} /\ tmp = NoInode
  BY DEF Init
<1>3. \A i \in Inode : data[i].callers = NoCallers
  BY <1>2 DEF Whole, Empty
<1>4. CommandInv
  BY <1>2 DEF CommandInv, SaveSteps
<1>5. MintInv
  BY <1>1, <1>2, <1>3, Types, EmptySound DEF MintInv
<1>6. SoloInv
  BY <1>2 DEF SoloInv
<1>7. Decodes /\ \A n \in Name : Table[n] = NoToken
  BY <1>1, <1>2 DEF Decodes, Table, Whole, NoCallers
<1>8. LoneInv
  BY <1>2, <1>7 DEF LoneInv, SaveSteps
<1>9. TmpInv
  BY <1>2, <1>7 DEF TmpInv, Saving
<1>10. CoverInv
  BY <1>2 DEF CoverInv, Covered
<1>11. QED
  BY <1>1, <1>4, <1>5, <1>6, <1>8, <1>9, <1>10 DEF IInv

LEMMA Inductive == Spec => []IInv
<1>1. IInv /\ [Next]_vars => IInv'
  BY TypeStep, CommandStep, MintStep, SoloStep, LoneStep, TmpStep, CoverStep DEF IInv
<1>2. QED
  BY <1>1, InitInv, PTL DEF Spec

\* Every variable has its type; there is always an inode for a new temporary file, and it
\* is never the live one (booth.go:133-145).
THEOREM TypeCorrect == Spec => []TypeOK
<1>1. IInv => TypeOK
  BY DEF IInv
<1>2. QED
  BY <1>1, Inductive, PTL

\* Whatever commands overlap and fail, and whenever one is killed, callers.json decodes,
\* until two are at the temporary file at once (booth.go:133-145).
THEOREM PolicyDecodesCorrect == Spec => []PolicyDecodes
<1>1. IInv => PolicyDecodes
  BY DEF IInv, TmpInv, PolicyDecodes
<1>2. QED
  BY <1>1, Inductive, PTL

\* However other commands overlap and fail: as long as the policy decodes, a token shown by
\* a command that ran alone is accepted until a caller rm is run for it, and one that such
\* a command reported dead is dead (booth.go:148-185, callers.go:95-118, 187-200).
THEOREM ReportedAloneHoldsCorrect == Spec => []ReportedAloneHolds
<1>1. ASSUME IInv, Decodes
      PROVE  /\ (shown \cap safe) \ retired \subseteq Accepted
             /\ revoked \cap safe \cap Accepted = {}
  <2>1. TypeOK /\ MintInv /\ CoverInv
    BY <1>1 DEF IInv
  <2>2. CASE live = NoInode
    BY <2>1, <2>2 DEF CoverInv
  <2>3. CASE live # NoInode
    <3>1. live \in Inode /\ InUse(live) /\ data[live].state = "whole"
      BY <1>1, <2>1, <2>3, Types DEF Decodes, InUse
    <3>2. Covered(Table)
      BY <2>1, <2>3, <3>1 DEF CoverInv, Table
    <3>3. NoToken \notin shown
      BY <2>1 DEF MintInv, NoToken
    <3>4. QED
      BY <3>2, <3>3 DEF Covered, Accepted, Absent
  <2>4. QED
    BY <2>2, <2>3
<1>2. IInv => ReportedAloneHolds
  BY <1>1 DEF ReportedAloneHolds
<1>3. QED
  BY <1>2, Inductive, PTL

-----------------------------------------------------------------------------

\* The steps of a command that has run alone are steps of CallerStore, or none.
LEMMA RenameKeeps ==
  ASSUME IInv, NEW c \in Command, alone[c], RenameTmp(c), ~overlapped
  PROVE  Store!Next \/ UNCHANGED Store!vars
<1>1. /\ TypeOK /\ MintInv /\ \A n \in Name : Table[n] # NoToken => Table[n] \in used
      /\ Planned(c) /\ data[tmp] = Whole(table[c]) /\ tmp # NoInode /\ pc[c] = "rename"
  BY DEF IInv, LoneInv, SoloInv, SoloAt, SaveSteps, RenameTmp
<1>2. /\ live' = tmp /\ data' = data /\ used' = used \cup TokensIn(tmp) /\ shown' = shown
      /\ revoked' = revoked /\ overlapped' = overlapped
  BY DEF RenameTmp
<1>3. Table' = table[c] /\ TokensIn(tmp) = {table[c][n] : n \in Name} \ {NoToken}
  BY <1>1, <1>2 DEF Table, Whole, TokensIn
<1>4. Table \in Tables /\ name[c] \in Name /\ kind[c] \in {"init", "add", "rm"}
      /\ token[c] \in Token /\ token[c] # NoToken
  <2>1. token[c] # NoToken
    BY <1>1, Types DEF MintInv, NoToken
  <2>2. QED
    BY <1>1, <2>1, Types DEF TypeOK
<1>5. CASE kind[c] = "init"
  <2>1. Table = NoCallers /\ table[c] = NoCallers
    BY <1>1, <1>5 DEF Planned, Table
  <2>2. Table' = Table /\ used' = used
    BY <1>2, <1>3, <2>1 DEF NoCallers
  <2>3. QED
    BY <1>2, <2>2 DEF Store!vars
<1>6. CASE kind[c] = "add"
  <2>1. /\ Table[name[c]] = NoToken /\ table[c] = [Table EXCEPT ![name[c]] = token[c]]
        /\ token[c] \notin used
    BY <1>1, <1>6 DEF Planned
  <2>2. used' = used \cup {token[c]}
    <3>1. table[c][name[c]] = token[c] /\ \A n \in Name \ {name[c]} : table[c][n] = Table[n]
      BY <1>4, <2>1 DEF Tables
    <3>2. \A k : k \in TokensIn(tmp) => k \in used \cup {token[c]}
      BY <1>1, <1>3, <3>1
    <3>3. token[c] \in TokensIn(tmp)
      BY <1>3, <1>4, <3>1
    <3>4. QED
      BY <1>2, <3>2, <3>3
  <2>3. Store!Register(name[c], token[c])
    BY <1>2, <1>3, <2>1, <2>2 DEF Store!Register
  <2>4. QED
    BY <1>4, <2>3 DEF Store!Next
<1>7. CASE kind[c] = "rm"
  <2>1. Table[name[c]] = token[c] /\ table[c] = [Table EXCEPT ![name[c]] = NoToken]
    BY <1>1, <1>7 DEF Planned
  <2>2. used' = used
    <3>1. table[c][name[c]] = NoToken /\ \A n \in Name \ {name[c]} : table[c][n] = Table[n]
      BY <1>4, <2>1 DEF Tables
    <3>2. \A k : k \in TokensIn(tmp) => k \in used
      BY <1>1, <1>3, <3>1
    <3>3. QED
      BY <1>2, <3>2
  <2>3. Store!Remove(name[c])
    BY <1>2, <1>3, <1>4, <2>1, <2>2 DEF Store!Remove
  <2>4. QED
    BY <1>4, <2>3 DEF Store!Next
<1>8. QED
  BY <1>4, <1>5, <1>6, <1>7

LEMMA ReportKeeps ==
  ASSUME IInv, NEW c \in Command, alone[c], Report(c), ~overlapped
  PROVE  Store!Next \/ UNCHANGED Store!vars
<1>1. /\ TypeOK /\ MintInv /\ Done(c)
      /\ kind[c] = "rm" => token[c] \in used
      /\ pc[c] = "audit"
  BY DEF IInv, LoneInv, SoloInv, SoloAt, SaveSteps, Report
<1>2. /\ Table' = Table /\ used' = used /\ overlapped' = overlapped
      /\ shown' = IF kind[c] = "add" THEN shown \cup {token[c]} ELSE shown
      /\ revoked' = IF kind[c] = "rm" THEN revoked \cup {token[c]} ELSE revoked
  BY DEF Report, file, Table, Ends
<1>3. name[c] \in Name /\ token[c] \in Token /\ token[c] # NoToken
  <2>1. token[c] # NoToken
    BY <1>1, Types DEF MintInv, NoToken
  <2>2. QED
    BY <1>1, <2>1 DEF TypeOK
<1>4. CASE kind[c] = "add"
  <2>1. Table[name[c]] = token[c] /\ token[c] \notin shown
    BY <1>1, <1>4 DEF Done
  <2>2. Store!Show(token[c])
    BY <1>2, <1>3, <1>4, <2>1 DEF Store!Show, Store!Live
  <2>3. QED
    BY <1>3, <2>2 DEF Store!Next
<1>5. CASE kind[c] = "rm"
  <2>1. Absent(token[c], Table)
    BY <1>1, <1>5 DEF Done
  <2>2. Store!Confirm(token[c])
    BY <1>1, <1>2, <1>5, <2>1 DEF Store!Confirm, Store!Live, Absent
  <2>3. QED
    BY <1>3, <2>2 DEF Store!Next
<1>6. CASE kind[c] \notin {"add", "rm"}
  BY <1>2, <1>6 DEF Store!vars
<1>7. QED
  BY <1>4, <1>5, <1>6

\* Until two commands overlap, callers.json is the table of CallerStore: each registration
\* takes effect in one step, under a token used for nothing else, and is shown afterwards;
\* each removal takes effect in one step and is confirmed afterwards (booth.go:64-185).
THEOREM KeepsStoreCorrect == Spec => KeepsStore
<1>1. ASSUME Init PROVE Store!Init
  <2>1. /\ live \in {0, NoInode} /\ overlapped = FALSE
        /\ used = {} /\ shown = {} /\ revoked = {}
        /\ live # NoInode => data[live].callers = NoCallers
    <3>1. 0 \in Inode
      BY CommandAssumption, FS_CardinalityType DEF Inode
    <3>2. QED
      BY <1>1, <3>1 DEF Init, Whole
  <2>2. QED
    BY <2>1 DEF Store!Init, Table, NoCallers
<1>2. ASSUME IInv, [Next]_vars PROVE [Store!Next]_Store!vars
  <2> USE DEF file, command, history
  <2>1. CASE overlapped'
    BY <2>1 DEF Store!Next, Store!Lapse
  <2>2. CASE ~overlapped'
    <3>1. TypeOK /\ SoloInv
      BY <1>2 DEF IInv
    <3>2. ~overlapped /\ overlapped' = overlapped
      <4>1. ~overlapped
        BY <1>2, <2>2, StepCases DEF Next, Begin, Quits, Ends, StatToInit, LoadToAdd,
           LoadToRemove, CreateTmp, WriteTmp, WriteFails, RenameTmp, Report, vars
      <4>2. overlapped \in BOOLEAN /\ overlapped' \in BOOLEAN
        BY <1>2, TypeStep DEF IInv, TypeOK
      <4>3. QED
        BY <2>2, <4>1, <4>2
    <3>3. \A c \in Command : alone[c]
      BY <1>2, <3>2 DEF IInv, LoneInv
    <3>4. ASSUME Table' = Table, used' = used, shown' = shown, revoked' = revoked
          PROVE  UNCHANGED Store!vars
      BY <3>2, <3>4 DEF Store!vars
    <3>5. ASSUME NEW c \in Command,
                 \/ \E k \in {"init", "add", "rm"}, n \in Name : Begin(c, k, n)
                 \/ Quits(c) \/ StatToInit(c) \/ LoadToAdd(c) \/ LoadToRemove(c)
          PROVE  UNCHANGED Store!vars
      BY <3>4, <3>5 DEF Begin, Quits, StatToInit, LoadToAdd, LoadToRemove, Table
    <3>6. ASSUME NEW c \in Command, CreateTmp(c) \/ WriteTmp(c) \/ WriteFails(c)
          PROVE  UNCHANGED Store!vars
      <4>1. Table' = Table
        BY <3>1, <3>3, <3>6, LiveKept
      <4>2. used' = used /\ shown' = shown /\ revoked' = revoked
        BY <3>6 DEF CreateTmp, WriteTmp, WriteFails
      <4>3. QED
        BY <3>4, <4>1, <4>2
    <3>7. CASE UNCHANGED vars
      BY <3>4, <3>7 DEF vars, Table
    <3>8. QED
      BY <1>2, <3>2, <3>3, <3>5, <3>6, <3>7, RenameKeeps, ReportKeeps, StepCases DEF Next
  <2>3. QED
    BY <2>1, <2>2
<1>3. QED
  BY <1>1, <1>2, Inductive, PTL DEF Spec, KeepsStore, Store!Spec
=============================================================================
