------------------------------ MODULE KeyFiles ------------------------------
(***************************************************************************)
(* internal/keystore at the grain of its file operations, for one key      *)
(* name: the private key, the public half and the metadata are three files *)
(* that key new writes one after the other, without a lock; the daemon     *)
(* loads a key by reading two of them.  Commands die, writes fail, and     *)
(* operators delete files.                                                 *)
(***************************************************************************)
EXTENDS Integers, FiniteSets

CONSTANTS
  Command,       \* terminals that run key new
  Request,       \* requests of the daemon that load the key
  MaxCommands,   \* bound: commands run altogether
  MaxDeletes     \* bound: files deleted by operators

ASSUME KeyAssumption ==
  IsFiniteSet(Command) /\ MaxCommands \in Nat /\ MaxDeletes \in Nat

File == {"key", "pub", "meta"}

\* The n-th command generates key n, and a file holds a key, or is Absent, or
\* holds nothing that belongs to one key.  What two commands write to a file has
\* the same length, so the later write leaves nothing of the earlier one.
Key == 1..MaxCommands
Absent == -1
Torn == 0
Content == Key \cup {Absent, Torn}

VARIABLES
  files,      \* the three files
  pc,         \* per command: its next step
  at,         \* per command: the file it is at
  mine,       \* per command: the key it generated
  linked,     \* per command: the file it has open still has its name
  begun,      \* commands run so far
  deletes,    \* files deleted so far
  step,       \* per request: idle, or about to read the metadata
  key,        \* per request: what it read from the key file
  signer,     \* per request: the key its last Load returned, or Absent
  sole,       \* history: keys whose command had the name for itself, see Raced
  published,  \* history: keys whose public half was written
  reported,   \* history: keys key new printed
  deleted,    \* history: keys that operators deleted a file of
  usable      \* history, per request: the keys all of Load would have accepted
              \* at one moment since it began

command == <<pc, at, mine, linked, begun>>
request == <<step, key, signer>>
vars == <<files, command, deletes, request, sole, published, reported, deleted, usable>>

\* The command has found the name free; it is at one of its three files.
Creating(c) == pc[c] \notin {"idle", "stat"}
Writing(c) == pc[c] \in {"open", "write"}

Init ==
  /\ files = [f \in File |-> Absent]
  /\ pc = [c \in Command |-> "idle"]
  /\ at = [c \in Command |-> "key"]
  /\ mine = [c \in Command |-> Absent]
  /\ linked = [c \in Command |-> TRUE]
  /\ begun = 0 /\ deletes = 0
  /\ step = [r \in Request |-> "idle"]
  /\ key = [r \in Request |-> Absent]
  /\ signer = [r \in Request |-> Absent]
  /\ sole = {} /\ published = {} /\ reported = {} /\ deleted = {}
  /\ usable = [r \in Request |-> {}]

-----------------------------------------------------------------------------
(* key new.                                                                *)

\* The file f now holds x; the histories of the requests under way follow.
Write(f, x) ==
  /\ files' = [files EXCEPT ![f] = x]
  /\ usable' = [r \in Request |->
       IF step[r] # "idle" /\ files'["key"] = files'["meta"]
       THEN usable[r] \cup ({files'["key"]} \cap Key) ELSE usable[r]]

Begin(c) ==
  /\ pc[c] = "idle" /\ begun < MaxCommands
  /\ begun' = begun + 1
  /\ pc' = [pc EXCEPT ![c] = "stat"]
  /\ mine' = [mine EXCEPT ![c] = begun + 1]
  /\ sole' = sole \cup {begun + 1}
  /\ UNCHANGED <<files, at, linked, deletes, request, published, reported, deleted, usable>>

\* The command is over: it printed the key, it failed, or it was killed.
Ends(c) ==
  /\ pc' = [pc EXCEPT ![c] = "idle"]
  /\ at' = [at EXCEPT ![c] = "key"]
  /\ mine' = [mine EXCEPT ![c] = Absent]
  /\ linked' = [linked EXCEPT ![c] = TRUE]
  /\ UNCHANGED <<begun, deletes, request, sole, published, deleted>>

\* Create finds the name free until the key file is opened.  The keys that stop
\* being sole when c finds it free too: its own and those of the commands that are
\* between the one and the other, or whose files were deleted under them.
Raced(c) ==
  LET rivals == {d \in Command \ {c} :
        Writing(d) /\ ((pc[d] = "open" /\ at[d] = "key") \/ mine[d] \notin sole)}
  IN IF rivals = {} THEN {} ELSE {mine[d] : d \in rivals \cup {c}}

\* Mutant: Create looks for the file it writes last.
StatMeta(c) ==
  /\ pc[c] = "stat"
  /\ IF files["meta"] = Absent
     THEN /\ pc' = [pc EXCEPT ![c] = "open"]
          /\ sole' = sole \ Raced(c)
          /\ UNCHANGED <<at, mine, linked, begun, deletes, request, published, deleted>>
     ELSE Ends(c)
  /\ UNCHANGED <<files, reported, usable>>

\* Create refuses a name whose key file is there, whatever it holds; the other
\* two files it does not look for.
Stat(c) ==
  /\ pc[c] = "stat"
  /\ IF files["key"] = Absent
     THEN /\ pc' = [pc EXCEPT ![c] = "open"]
          /\ sole' = sole \ Raced(c)
          /\ UNCHANGED <<at, mine, linked, begun, deletes, request, published, deleted>>
     ELSE Ends(c)
  /\ UNCHANGED <<files, reported, usable>>

\* os.WriteFile opens the file with O_CREATE and O_TRUNC ...
OpenFile(c) ==
  /\ pc[c] = "open"
  /\ Write(at[c], Torn)
  /\ linked' = [linked EXCEPT ![c] = TRUE]
  /\ pc' = [pc EXCEPT ![c] = "write"]
  /\ UNCHANGED <<at, mine, begun, deletes, request, sole, published, reported, deleted>>

\* Mutant: the public half comes last.
NextFilePubLast == [key |-> "meta", meta |-> "pub"]

NextFile == [key |-> "pub", pub |-> "meta"]

\* ... and writes it; the text of a file deleted meanwhile is lost.
WriteFile(c) ==
  /\ pc[c] = "write"
  /\ IF linked[c] THEN Write(at[c], mine[c]) ELSE UNCHANGED <<files, usable>>
  /\ published' = IF at[c] = "pub" THEN published \cup {mine[c]} ELSE published
  /\ IF at[c] \in DOMAIN NextFile
     THEN pc' = [pc EXCEPT ![c] = "open"] /\ at' = [at EXCEPT ![c] = NextFile[at[c]]]
     ELSE pc' = [pc EXCEPT ![c] = "audit"] /\ UNCHANGED at
  /\ UNCHANGED <<mine, linked, begun, deletes, request, sole, reported, deleted>>

\* The write fails, and Create leaves what there is.
WriteFails(c) ==
  /\ pc[c] = "write"
  /\ IF linked[c] THEN Write(at[c], Torn) ELSE UNCHANGED <<files, usable>>
  /\ Ends(c)
  /\ UNCHANGED reported

\* The audit entry is written and the key printed.
Report(c) ==
  /\ pc[c] = "audit"
  /\ reported' = reported \cup {mine[c]}
  /\ Ends(c)
  /\ UNCHANGED <<files, usable>>

\* The directory or the file cannot be made, and Create returns the error.
OpenFails(c) ==
  /\ pc[c] = "open"
  /\ Ends(c)
  /\ UNCHANGED <<files, reported, usable>>

\* The audit entry cannot be written, and key new returns without showing the key.
AuditFails(c) ==
  /\ pc[c] = "audit"
  /\ Ends(c)
  /\ UNCHANGED <<files, reported, usable>>

\* The command is killed.
Crash(c) ==
  /\ pc[c] # "idle"
  /\ Ends(c)
  /\ UNCHANGED <<files, reported, usable>>

\* An operator deletes a file, which is how a key is revoked.
Delete(f) ==
  /\ deletes < MaxDeletes /\ files[f] # Absent
  /\ deletes' = deletes + 1
  /\ Write(f, Absent)
  /\ deleted' = deleted \cup ({files[f]} \cap Key)
  /\ sole' = sole \ {mine[c] : c \in {d \in Command : Creating(d)}}
  /\ linked' = [c \in Command |-> linked[c] /\ ~(pc[c] = "write" /\ at[c] = f)]
  /\ UNCHANGED <<pc, at, mine, begun, request, published, reported>>

-----------------------------------------------------------------------------
(* Store.Load.                                                             *)

\* It reads the key file and gives up at one that is not there or not a key.
LoadKey(r) ==
  /\ step[r] = "idle"
  /\ signer' = [signer EXCEPT ![r] = Absent]
  /\ key' = [key EXCEPT ![r] = files["key"]]
  /\ step' = [step EXCEPT ![r] = IF files["key"] \in Key THEN "meta" ELSE "idle"]
  /\ usable' = [usable EXCEPT ![r] =
       IF files["key"] = files["meta"] THEN {files["key"]} \cap Key ELSE {}]
  /\ UNCHANGED <<files, command, deletes, sole, published, reported, deleted>>

\* Mutant: the fingerprints are not compared.
LoadMetaUnchecked(r) ==
  /\ step[r] = "meta"
  /\ signer' = [signer EXCEPT ![r] = key[r]]
  /\ step' = [step EXCEPT ![r] = "idle"]
  /\ UNCHANGED <<files, command, deletes, key, sole, published, reported, deleted, usable>>

\* It reads the metadata and returns the key if that names its fingerprint.
LoadMeta(r) ==
  /\ step[r] = "meta"
  /\ signer' = [signer EXCEPT ![r] = IF files["meta"] = key[r] THEN key[r] ELSE Absent]
  /\ step' = [step EXCEPT ![r] = "idle"]
  /\ UNCHANGED <<files, command, deletes, key, sole, published, reported, deleted, usable>>

Next ==
  \/ \E c \in Command :
       \/ Begin(c) \/ Stat(c) \/ OpenFile(c) \/ OpenFails(c) \/ WriteFile(c)
       \/ WriteFails(c) \/ Report(c) \/ AuditFails(c) \/ Crash(c)
  \/ \E f \in File : Delete(f)
  \/ \E r \in Request : LoadKey(r) \/ LoadMeta(r)

Spec == Init /\ [][Next]_vars

-----------------------------------------------------------------------------

\* Every variable has its type, and a command that is about to write a file has
\* written all that come before it (keystore.go:72-94).
TypeOK ==
  /\ files \in [File -> Content]
  /\ pc \in [Command -> {"idle", "stat", "open", "write", "audit"}]
  /\ at \in [Command -> File]
  /\ mine \in [Command -> Key \cup {Absent}] /\ linked \in [Command -> BOOLEAN]
  /\ begun \in 0..MaxCommands /\ deletes \in 0..MaxDeletes
  /\ step \in [Request -> {"idle", "meta"}]
  /\ key \in [Request -> Content] /\ signer \in [Request -> Key \cup {Absent}]
  /\ \A K \in {sole, published, reported, deleted} : K \subseteq Key
  /\ usable \in [Request -> SUBSET Key]
  /\ \A c \in Command : pc[c] = "audit" => at[c] = "meta" /\ mine[c] \in published

\* "It refuses to overwrite" (keystore.go:50-51): a key that key new reported is
\* there, all three files of it, until an operator deletes one, however many commands
\* create the name meanwhile.  Except if two were between finding the name free and
\* opening the key file at the same time (keystore.go:56-72): their files mix.
ReportedStands ==
  \A k \in (reported \cap sole) \ deleted : \A f \in File : files[f] = k

\* Nothing is signed with a key before its creation has come to its last file
\* (keystore.go:123-129), so the public half of it was there to be exported and
\* pinned; whatever overlaps, fails or dies.
SignsFinishedKeys == \A r \in Request : signer[r] \in published \cup {Absent}

\* Load reads two files at two moments, yet it returns only a key that was whole
\* at one moment since it began, if the command that made the key had its name for
\* itself, whatever overlaps, fails, dies and is deleted (keystore.go:104, 123-130).
\* Server relies on it: there Load is one step.
LoadIsAtomic ==
  \A r \in Request : signer[r] \in sole => signer[r] \in usable[r]
=============================================================================
