----------------------------- MODULE CallersFile -----------------------------
(***************************************************************************)
(* init, caller add and caller rm at the grain of their file operations.   *)
(* add and rm load callers.json and change the table in memory, init finds *)
(* the file missing and starts an empty table; each writes its table to    *)
(* callers.json.tmp and renames that over callers.json.  No lock is taken, *)
(* and all commands share the one temporary name; what they write through  *)
(* is an inode, which a rename by another command may have made the live   *)
(* file.  Commands may be killed between any two steps.                    *)
(***************************************************************************)
EXTENDS Integers, FiniteSets

CONSTANTS
  Name,         \* caller names
  Command,      \* terminals (or scripts) that run init, caller add, caller rm
  MaxActive,    \* how many commands run at the same time
  MaxCommands   \* bound: commands run altogether

ASSUME CommandAssumption ==
  /\ IsFiniteSet(Command) /\ MaxActive \in Nat /\ MaxCommands \in Nat

\* The n-th command that is run mints token n, if any.
Token == 1..MaxCommands
NoToken == 0

\* The live file, the temporary one, and one for each command.
Inode == 0..(Cardinality(Command) + 1)
NoInode == -1

NoCallers == [n \in Name |-> NoToken]

\* What a file holds: nothing yet, one whole table, or bytes that do not decode.
Content == [state : {"empty", "whole", "mixed"}, callers : [Name -> Token \cup {NoToken}]]
Empty == [state |-> "empty", callers |-> NoCallers]
Mixed == [state |-> "mixed", callers |-> NoCallers]
Whole(callers) == [state |-> "whole", callers |-> callers]

VARIABLES
  live,      \* the inode callers.json names, if it exists
  tmp,       \* the inode callers.json.tmp names, if it exists
  data,      \* the contents of the inodes
  pc,        \* per command: its next step
  kind,      \* per command: "init", "add" or "rm"
  name,      \* per command: its argument
  token,     \* per command: the token it adds or takes away
  table,     \* per command: the table it loaded, then changed
  fd,        \* per command: the inode it opened for writing
  alone,     \* history: no other command has run while this one does
  begun,     \* history: commands run so far
  overlapped, \* history: two commands have run at the same time
  collided,  \* history: two commands were at the temporary file at the same time
  used,      \* history: tokens that have come into the live file by a rename
  shown,     \* history: tokens printed
  retired,   \* history: tokens some caller rm set out to remove
  revoked,   \* history: tokens whose removal was confirmed
  safe       \* history: tokens shown or confirmed by a command that ran alone

file == <<live, tmp, data>>
command == <<kind, name, token, table, fd>>
history == <<used, shown, retired, revoked, safe>>
vars == <<file, pc, command, alone, begun, overlapped, collided, history>>

Active == {c \in Command : pc[c] # "idle"}

\* A home that init has run in, or one without a callers.json.
Init ==
  /\ live \in {0, NoInode} /\ tmp = NoInode
  /\ data = [i \in Inode |-> IF i = 0 THEN Whole(NoCallers) ELSE Empty]
  /\ pc = [c \in Command |-> "idle"]
  /\ kind = [c \in Command |-> "add"]
  /\ name \in [Command -> Name]
  /\ token = [c \in Command |-> NoToken]
  /\ table = [c \in Command |-> NoCallers]
  /\ fd = [c \in Command |-> NoInode]
  /\ alone = [c \in Command |-> TRUE]
  /\ begun = 0 /\ overlapped = FALSE /\ collided = FALSE
  /\ used = {} /\ shown = {} /\ retired = {} /\ revoked = {} /\ safe = {}

-----------------------------------------------------------------------------

\* The command is started with arguments that parse.
Begin(c, k, n) ==
  /\ pc[c] = "idle" /\ Cardinality(Active) < MaxActive /\ begun < MaxCommands
  /\ pc' = [pc EXCEPT ![c] = "load"]
  /\ kind' = [kind EXCEPT ![c] = k] /\ name' = [name EXCEPT ![c] = n]
  /\ begun' = begun + 1
  /\ overlapped' = (overlapped \/ Active # {})
  /\ token' = [token EXCEPT ![c] = begun + 1]
  /\ alone' = [d \in Command |-> IF d \in Active \cup {c} THEN Active = {} ELSE TRUE]
  /\ UNCHANGED <<file, table, fd, collided, history>>

\* The command is over: it printed its result, it failed, or it was killed.
\* Nothing of it is left but what it did to the files.
Ends(c) ==
  /\ pc' = [pc EXCEPT ![c] = "idle"]
  /\ token' = [token EXCEPT ![c] = NoToken]
  /\ table' = [table EXCEPT ![c] = NoCallers]
  /\ fd' = [fd EXCEPT ![c] = NoInode]
  /\ alone' = [alone EXCEPT ![c] = TRUE]
  /\ UNCHANGED <<kind, name, begun, overlapped, collided>>

\* booth.Init refuses a home that has a callers.json, booth.Open one that has not.
\* LoadCallers fails on a file that does not decode, AddCaller on a name that is
\* taken, RemoveCaller on one that is not.
Reject(c) ==
  /\ pc[c] = "load"
  /\ IF live = NoInode THEN kind[c] # "init"
     ELSE \/ kind[c] = "init"
          \/ data[live].state # "whole"
          \/ kind[c] = "add" /\ data[live].callers[name[c]] # NoToken
          \/ kind[c] = "rm" /\ data[live].callers[name[c]] = NoToken
  /\ Ends(c)
  /\ UNCHANGED <<file, history>>

\* Mutant: init does not look for callers.json.
StatToInitAgain(c) ==
  /\ pc[c] = "load" /\ kind[c] = "init"
  /\ pc' = [pc EXCEPT ![c] = "create"]
  /\ UNCHANGED <<file, command, alone, begun, overlapped, collided, history>>

\* booth.Init up to its save: there is no callers.json; the table is empty.
StatToInit(c) ==
  /\ pc[c] = "load" /\ kind[c] = "init" /\ live = NoInode
  /\ pc' = [pc EXCEPT ![c] = "create"]
  /\ UNCHANGED <<file, command, alone, begun, overlapped, collided, history>>

\* Mutant: a name that is taken is taken over.
LoadToAddOver(c) ==
  /\ pc[c] = "load" /\ kind[c] = "add"
  /\ live # NoInode /\ data[live].state = "whole"
  /\ table' = [table EXCEPT ![c] = [data[live].callers EXCEPT ![name[c]] = token[c]]]
  /\ pc' = [pc EXCEPT ![c] = "create"]
  /\ UNCHANGED <<file, kind, name, token, fd, alone, begun, overlapped, collided, history>>

\* AddCaller up to its save: load, look the name up, mint a token, insert.
LoadToAdd(c) ==
  /\ pc[c] = "load" /\ kind[c] = "add"
  /\ live # NoInode /\ data[live].state = "whole" /\ data[live].callers[name[c]] = NoToken
  /\ table' = [table EXCEPT ![c] = [data[live].callers EXCEPT ![name[c]] = token[c]]]
  /\ pc' = [pc EXCEPT ![c] = "create"]
  /\ UNCHANGED <<file, kind, name, token, fd, alone, begun, overlapped, collided, history>>

\* Mutant: the record is not deleted from the table.
LoadToRemoveKept(c) ==
  LET old == data[live].callers[name[c]] IN
  /\ pc[c] = "load" /\ kind[c] = "rm"
  /\ live # NoInode /\ data[live].state = "whole" /\ old # NoToken
  /\ table' = [table EXCEPT ![c] = data[live].callers]
  /\ token' = [token EXCEPT ![c] = old]
  /\ retired' = retired \cup {old}
  /\ pc' = [pc EXCEPT ![c] = "create"]
  /\ UNCHANGED <<file, kind, name, fd, alone, begun, overlapped, collided, used, shown, revoked, safe>>

\* RemoveCaller up to its save: load, look the name up, delete.
LoadToRemove(c) ==
  LET old == data[live].callers[name[c]] IN
  /\ pc[c] = "load" /\ kind[c] = "rm"
  /\ live # NoInode /\ data[live].state = "whole" /\ old # NoToken
  /\ table' = [table EXCEPT ![c] = [data[live].callers EXCEPT ![name[c]] = NoToken]]
  /\ token' = [token EXCEPT ![c] = old]
  /\ retired' = retired \cup {old}
  /\ pc' = [pc EXCEPT ![c] = "create"]
  /\ UNCHANGED <<file, kind, name, fd, alone, begun, overlapped, collided, used, shown, revoked, safe>>

\* An inode no name and no open file refers to.
Unused == CHOOSE i \in Inode : i \notin {live, tmp} \cup {fd[c] : c \in Command}

\* The command is at the temporary file: it has opened it and not yet renamed it.
Saving(c) == pc[c] \in {"write", "rename"}

\* os.WriteFile opens the temporary file with O_CREATE and O_TRUNC.
CreateTmp(c) ==
  LET i == IF tmp = NoInode THEN Unused ELSE tmp IN
  /\ pc[c] = "create"
  /\ tmp' = i
  /\ data' = [data EXCEPT ![i] = Empty]
  /\ fd' = [fd EXCEPT ![c] = i]
  /\ pc' = [pc EXCEPT ![c] = "write"]
  /\ collided' = (collided \/ \E d \in Command : Saving(d))
  /\ UNCHANGED <<live, kind, name, token, table, alone, begun, overlapped, history>>

\* ... and writes the table from its start.  In a file another command has
\* written to, the end of a longer text stays behind.
WriteTmp(c) ==
  /\ pc[c] = "write"
  /\ \E text \in {Whole(table[c])} \cup
                 (IF data[fd[c]].state = "empty" THEN {} ELSE {Mixed}) :
       data' = [data EXCEPT ![fd[c]] = text]
  /\ pc' = [pc EXCEPT ![c] = "rename"]
  /\ UNCHANGED <<live, tmp, command, alone, begun, overlapped, collided, history>>

\* Mutant: the error of os.WriteFile is dropped.
WriteFailsUnnoticed(c) ==
  /\ pc[c] = "write"
  /\ data' = [data EXCEPT ![fd[c]] = Mixed]
  /\ pc' = [pc EXCEPT ![c] = "rename"]
  /\ UNCHANGED <<live, tmp, command, alone, begun, overlapped, collided, history>>

\* The write fails or is cut short; saveCallers returns without a rename.
WriteFails(c) ==
  /\ pc[c] = "write"
  /\ data' = [data EXCEPT ![fd[c]] = Mixed]
  /\ Ends(c)
  /\ UNCHANGED <<live, tmp, history>>

TokensIn(i) == {data[i].callers[n] : n \in Name} \ {NoToken}

\* Mutant: a second link, the temporary name stays.
RenameTmpLinked(c) ==
  /\ pc[c] = "rename" /\ tmp # NoInode
  /\ live' = tmp
  /\ used' = used \cup TokensIn(tmp)
  /\ pc' = [pc EXCEPT ![c] = "audit"]
  /\ UNCHANGED <<tmp, data, command, alone, begun, overlapped, collided, shown, retired, revoked, safe>>

\* os.Rename replaces callers.json in one step.
RenameTmp(c) ==
  /\ pc[c] = "rename" /\ tmp # NoInode
  /\ live' = tmp /\ tmp' = NoInode
  /\ used' = used \cup TokensIn(tmp)
  /\ pc' = [pc EXCEPT ![c] = "audit"]
  /\ UNCHANGED <<data, command, alone, begun, overlapped, collided, shown, retired, revoked, safe>>

\* Another command has renamed the temporary file away: ENOENT, and the command
\* reports an error.
RenameFails(c) ==
  /\ pc[c] = "rename" /\ tmp = NoInode
  /\ Ends(c)
  /\ UNCHANGED <<file, history>>

\* Audit.Append succeeded: print the token, that the token is dead, or the home.
Report(c) ==
  /\ pc[c] = "audit"
  /\ shown' = IF kind[c] = "add" THEN shown \cup {token[c]} ELSE shown
  /\ revoked' = IF kind[c] = "rm" THEN revoked \cup {token[c]} ELSE revoked
  /\ safe' = IF alone[c] /\ kind[c] # "init"
             THEN safe \cup {token[c]} ELSE safe \ {token[c]}
  /\ Ends(c)
  /\ UNCHANGED <<file, used, retired>>

\* Audit.Append failed, or in init audit.Open before it: the command exits with an
\* error, its change in force.
AuditFails(c) ==
  /\ pc[c] = "audit"
  /\ Ends(c)
  /\ UNCHANGED <<file, history>>

\* The command is killed.
Crash(c) ==
  /\ pc[c] # "idle"
  /\ Ends(c)
  /\ UNCHANGED <<file, history>>

Step(c) ==
  \/ Reject(c) \/ StatToInit(c) \/ LoadToAdd(c) \/ LoadToRemove(c) \/ CreateTmp(c) \/ WriteTmp(c)
  \/ WriteFails(c) \/ RenameTmp(c) \/ RenameFails(c) \/ Report(c)
  \/ AuditFails(c) \/ Crash(c)

Next ==
  \E c \in Command :
    Step(c) \/ \E k \in {"init", "add", "rm"}, n \in Name : Begin(c, k, n)

Spec == Init /\ [][Next]_vars

-----------------------------------------------------------------------------

\* Every variable has its type; callers.json and its temporary file are never
\* the same file, and a command holds a file open only while it saves.
TypeOK ==
  /\ live \in Inode \cup {NoInode} /\ tmp \in Inode \cup {NoInode}
  /\ live = tmp => tmp = NoInode
  /\ data \in [Inode -> Content]
  /\ pc \in [Command -> {"idle", "load", "create", "write", "rename", "audit"}]
  /\ kind \in [Command -> {"init", "add", "rm"}] /\ name \in [Command -> Name]
  /\ token \in [Command -> Token \cup {NoToken}]
  /\ table \in [Command -> [Name -> Token \cup {NoToken}]]
  /\ fd \in [Command -> Inode \cup {NoInode}]
  /\ alone \in [Command -> BOOLEAN] /\ begun \in 0..MaxCommands
  /\ overlapped \in BOOLEAN /\ collided \in BOOLEAN
  /\ \A T \in {used, shown, retired, revoked, safe} : T \subseteq Token
  /\ \A c \in Command : fd[c] # NoInode <=> pc[c] \in {"write", "rename", "audit"}

\* The table in callers.json; before init there is none.
Table == IF live = NoInode THEN NoCallers ELSE data[live].callers

\* The tokens the daemon accepts with the file as it is (server.go:99-116).
Accepted == {Table[n] : n \in Name} \ {NoToken}

Decodes == live # NoInode => data[live].state = "whole"

\* "a crash mid-write can never leave a truncated policy" (booth.go:133-134), be
\* it the empty one of init, and whatever commands overlap.  Except if two were
\* between opening the temporary file and renaming it at the same time: they write
\* to one file, and one may rename what the other is still writing.
PolicyDecodes == collided \/ Decodes

\* "its token is dead as of the daemon's next request" (callers.go:199), and so
\* for ever.  Holds while commands run one at a time.
RevokedIsDead == revoked \cap Accepted = {}

\* With any overlap of commands, two init among them: what a command that overlapped
\* no other has reported stays true while the policy decodes at all.  The token it
\* showed is accepted until a caller rm is run for it, the token it reported dead is
\* dead (booth.go:148-185, callers.go:95-118, 187-200).
ReportedAloneHolds ==
  Decodes =>
    /\ (shown \cap safe) \ retired \subseteq Accepted
    /\ revoked \cap safe \cap Accepted = {}

\* Until two commands overlap, callers.json is the table of CallerStore, whatever
\* fails and whenever a command is killed (booth.go:64-185).
Store == INSTANCE CallerStore WITH callers <- Table, lapsed <- overlapped

KeepsStore == Store!Spec
=============================================================================
