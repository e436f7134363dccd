------------------------------ MODULE AuditLog ------------------------------
(***************************************************************************)
(* audit.Log at the grain of its lock operations and write calls: the      *)
(* threads of several processes (the daemon's request goroutines, one CLI  *)
(* command each) append to one audit.log under a per-process mutex and a   *)
(* per-file flock.  Processes die between any two steps, calls fail, and a *)
(* line may reach the file in two pieces.                                  *)
(***************************************************************************)
EXTENDS AuditChain, FiniteSets

CONSTANTS
  Proc,       \* operating-system processes that have the booth open
  Thread,     \* goroutines that call Append
  ProcOf,     \* the process of a thread
  None,       \* no thread, no entry
  Flocks,     \* TRUE for lock_unix.go, FALSE for lock_other.go's no-op
  TornKinds,  \* the ways a line is cut between two write calls
  MaxLines    \* bound: no Append starts once the file has this many lines

ASSUME LogAssumption ==
  /\ ProcOf \in [Thread -> Proc]
  /\ None \notin Thread \cup Entry
  /\ TornKinds \subseteq {"fragment", "unterminated"}
  /\ MaxLines \in Nat

\* Without flock only the threads of one process exclude each other, which is
\* all lock_other.go offers; every run and theorem is about such an instance.
ASSUME PlatformAssumption ==
  /\ Flocks \in BOOLEAN
  /\ Flocks \/ \A s, t \in Thread : ProcOf[s] = ProcOf[t]

VARIABLES
  lines,   \* audit.log, line by line
  eol,     \* the file is empty or ends in a newline
  mu,      \* per process: the holder of Log.mu
  flock,   \* the holder of the exclusive flock on the file
  up,      \* per process: running, with a Log from audit.Open
  pc,      \* per thread: the step of Append it is about to take
  entry,   \* per thread: Append's e
  res,     \* per thread: the error Append is going to return, once decided
  acked    \* history: the entries Append returned with a nil error

vars == <<lines, eol, mu, flock, up, pc, entry, res, acked>>

Labels == {"idle", "mu", "open", "flock", "scan", "write", "rest", "glued",
           "unflock", "unmu"}

Init ==
  /\ lines = <<>> /\ eol = TRUE
  /\ mu = [p \in Proc |-> None] /\ flock = None
  /\ up = [p \in Proc |-> FALSE]
  /\ pc = [t \in Thread |-> "idle"]
  /\ entry = [t \in Thread |-> None]
  /\ res = [t \in Thread |-> "none"]
  /\ acked = {}

-----------------------------------------------------------------------------

\* audit.Open, when the process opens its booth.  The walk takes no lock, and a
\* file it rejects stops the process from starting at all.
Start(p) ==
  /\ ~up[p]
  /\ ScanOk(lines)
  /\ up' = [up EXCEPT ![p] = TRUE]
  /\ UNCHANGED <<lines, eol, mu, flock, pc, entry, res, acked>>

\* Append is called with an entry whose Seq, Prev and Hash are not set.
Call(t, b) ==
  /\ up[ProcOf[t]] /\ pc[t] = "idle"
  /\ Len(lines) < MaxLines
  /\ pc' = [pc EXCEPT ![t] = "mu"]
  /\ entry' = [entry EXCEPT ![t] =
       [seq |-> 0, body |-> b, prev |-> Genesis, hash |-> Genesis]]
  /\ UNCHANGED <<lines, eol, mu, flock, up, res, acked>>

LockMu(t) ==
  /\ pc[t] = "mu" /\ mu[ProcOf[t]] = None
  /\ mu' = [mu EXCEPT ![ProcOf[t]] = t]
  /\ pc' = [pc EXCEPT ![t] = "open"]
  /\ UNCHANGED <<lines, eol, flock, up, entry, res, acked>>

\* Mutant: O_TRUNC among the flags.
OpenFileTruncated(t) ==
  /\ pc[t] = "open"
  /\ pc' = [pc EXCEPT ![t] = "flock"]
  /\ lines' = <<>> /\ eol' = TRUE
  /\ UNCHANGED <<mu, flock, up, entry, res, acked>>

OpenFile(t) ==
  /\ pc[t] = "open"
  /\ pc' = [pc EXCEPT ![t] = "flock"]
  /\ UNCHANGED <<lines, eol, mu, flock, up, entry, res, acked>>

\* Mutant: a shared lock instead of LOCK_EX.
LockFileShared(t) ==
  /\ pc[t] = "flock"
  /\ flock' = IF Flocks THEN t ELSE flock
  /\ pc' = [pc EXCEPT ![t] = "scan"]
  /\ UNCHANGED <<lines, eol, mu, up, entry, res, acked>>

\* Every Append opens the file anew, so the flock excludes the other threads of
\* the same process too.
LockFile(t) ==
  /\ pc[t] = "flock" /\ (Flocks => flock = None)
  /\ flock' = IF Flocks THEN t ELSE flock
  /\ pc' = [pc EXCEPT ![t] = "scan"]
  /\ UNCHANGED <<lines, eol, mu, up, entry, res, acked>>

\* scanTail under the lock, then Seq, Prev and Hash.
ScanTail(t) ==
  /\ pc[t] = "scan"
  /\ \/ /\ ScanOk(lines)
        /\ entry' = [entry EXCEPT ![t] = Link(lines, entry[t].body)]
        /\ pc' = [pc EXCEPT ![t] = "write"]
        /\ UNCHANGED res
     \/ /\ ~ScanOk(lines)
        /\ res' = [res EXCEPT ![t] = "err"]
        /\ pc' = [pc EXCEPT ![t] = "unflock"]
        /\ UNCHANGED entry
  /\ UNCHANGED <<lines, eol, mu, flock, up, acked>>

\* The file after x has been written at its end.  Where the file does not end
\* in a newline, x runs on from the last line and the two do not decode.
Extended(x) ==
  IF eol THEN Append(lines, x) ELSE [lines EXCEPT ![Len(lines)] = Garbage]

\* f.Write puts the line and its newline out in one call.
WriteLine(t) ==
  /\ pc[t] = "write"
  /\ lines' = Extended(entry[t]) /\ eol' = TRUE
  /\ res' = [res EXCEPT ![t] = "ok"]
  /\ pc' = [pc EXCEPT ![t] = "unflock"]
  /\ UNCHANGED <<mu, flock, up, entry, acked>>

\* The write call takes only a part of the line: a fragment that does not
\* decode, or all but the newline.  f.Write goes on with what is left.
ShortWrite(t, kind) ==
  /\ pc[t] = "write"
  /\ lines' = Extended(IF kind = "fragment" THEN Garbage ELSE entry[t])
  /\ eol' = FALSE
  /\ pc' = [pc EXCEPT ![t] = IF eol THEN "rest" ELSE "glued"]
  /\ UNCHANGED <<mu, flock, up, entry, res, acked>>

\* The rest of the line follows.
FinishWrite(t) ==
  /\ pc[t] \in {"rest", "glued"}
  /\ lines' = [lines EXCEPT ![Len(lines)] =
                 IF pc[t] = "rest" THEN entry[t] ELSE Garbage]
  /\ eol' = TRUE
  /\ res' = [res EXCEPT ![t] = "ok"]
  /\ pc' = [pc EXCEPT ![t] = "unflock"]
  /\ UNCHANGED <<mu, flock, up, entry, acked>>

\* Mutant: the error of f.Write is dropped.
FailsUnnoticed(t) ==
  /\ pc[t] \in {"write", "rest", "glued"}
  /\ pc' = [pc EXCEPT ![t] = "unflock"]
  /\ res' = [res EXCEPT ![t] = "ok"]
  /\ UNCHANGED <<lines, eol, mu, flock, up, entry, acked>>

\* A system call fails (open, flock, read, seek, write) and Append returns its
\* error through the deferred calls registered so far.  What is in the file
\* stays there.
Fails(t) ==
  /\ \/ /\ pc[t] \in {"open", "flock"}
        /\ pc' = [pc EXCEPT ![t] = "unmu"]
     \/ /\ pc[t] \in {"scan", "write", "rest", "glued"}
        /\ pc' = [pc EXCEPT ![t] = "unflock"]
  /\ res' = [res EXCEPT ![t] = "err"]
  /\ UNCHANGED <<lines, eol, mu, flock, up, entry, acked>>

\* Mutant: the lock is given back only by an Append that succeeded.
UnlockFileOnSuccess(t) ==
  /\ pc[t] = "unflock"
  /\ flock' = IF flock = t /\ res[t] = "ok" THEN None ELSE flock
  /\ pc' = [pc EXCEPT ![t] = "unmu"]
  /\ UNCHANGED <<lines, eol, mu, up, entry, res, acked>>

\* Deferred unlockFile and Close.
UnlockFile(t) ==
  /\ pc[t] = "unflock"
  /\ flock' = IF flock = t THEN None ELSE flock
  /\ pc' = [pc EXCEPT ![t] = "unmu"]
  /\ UNCHANGED <<lines, eol, mu, up, entry, res, acked>>

\* Mutant: an early return without mu.Unlock.
ReturnLocked(t) ==
  /\ pc[t] = "unmu"
  /\ pc' = [pc EXCEPT ![t] = "idle"]
  /\ acked' = IF res[t] = "ok" THEN acked \cup {entry[t]} ELSE acked
  /\ entry' = [entry EXCEPT ![t] = None]
  /\ res' = [res EXCEPT ![t] = "none"]
  /\ UNCHANGED <<lines, eol, mu, flock, up>>

\* Deferred mu.Unlock; Append returns.
Return(t) ==
  /\ pc[t] = "unmu"
  /\ mu' = [mu EXCEPT ![ProcOf[t]] = None]
  /\ pc' = [pc EXCEPT ![t] = "idle"]
  /\ acked' = IF res[t] = "ok" THEN acked \cup {entry[t]} ELSE acked
  /\ entry' = [entry EXCEPT ![t] = None]
  /\ res' = [res EXCEPT ![t] = "none"]
  /\ UNCHANGED <<lines, eol, flock, up>>

\* The process dies or exits: its threads are gone, its mutex with them, and
\* the kernel drops the flock of a descriptor it closes.
Crash(p) ==
  LET gone == {t \in Thread : ProcOf[t] = p} IN
  /\ up[p]
  /\ up' = [up EXCEPT ![p] = FALSE]
  /\ mu' = [mu EXCEPT ![p] = None]
  /\ flock' = IF flock \in gone THEN None ELSE flock
  /\ pc' = [t \in Thread |-> IF t \in gone THEN "idle" ELSE pc[t]]
  /\ entry' = [t \in Thread |-> IF t \in gone THEN None ELSE entry[t]]
  /\ res' = [t \in Thread |-> IF t \in gone THEN "none" ELSE res[t]]
  /\ UNCHANGED <<lines, eol, acked>>

-----------------------------------------------------------------------------

\* What an Append in progress does unless a system call fails it.
Proceed(t) ==
  \/ LockMu(t) \/ OpenFile(t) \/ LockFile(t) \/ ScanTail(t)
  \/ WriteLine(t) \/ (\E kind \in TornKinds : ShortWrite(t, kind))
  \/ FinishWrite(t) \/ UnlockFile(t) \/ Return(t)

Next ==
  \/ \E p \in Proc : Start(p) \/ Crash(p)
  \/ \E t \in Thread : Proceed(t) \/ Fails(t) \/ \E b \in Body : Call(t, b)

Spec == Init /\ [][Next]_vars

\* A running goroutine goes on; sync.Mutex hands over to a waiter that starves
\* (1 ms), and the kernel queues flock waiters in order of arrival.  No system
\* call has to fail for a thread to get on.
Fairness ==
  \A t \in Thread : WF_vars(Proceed(t)) /\ SF_vars(LockMu(t)) /\ SF_vars(LockFile(t))

FairSpec == Spec /\ Fairness

-----------------------------------------------------------------------------

\* Every variable has its type, and an idle thread holds nothing over from the
\* Append it returned from (the deferred calls of audit.go:114-124 all ran).
TypeOK ==
  /\ lines \in Seq(Line) /\ eol \in BOOLEAN
  /\ mu \in [Proc -> Thread \cup {None}] /\ flock \in Thread \cup {None}
  /\ up \in [Proc -> BOOLEAN]
  /\ pc \in [Thread -> Labels]
  /\ entry \in [Thread -> Entry \cup {None}]
  /\ res \in [Thread -> {"none", "ok", "err"}]
  /\ acked \subseteq Entry
  /\ \A t \in Thread : pc[t] = "idle" <=> entry[t] = None
  /\ \A t \in Thread : pc[t] = "idle" => mu[ProcOf[t]] # t /\ flock # t

\* The lines before a last one that does not decode.
Intact(file) ==
  IF file # <<>> /\ file[Len(file)] = Garbage
  THEN SubSeq(file, 1, Len(file) - 1) ELSE file

\* "always extend one linear chain" (audit.go:106-111): whatever interleaves,
\* fails or dies, everything before the last line verifies, and so does the
\* last line if it decodes.  Hence Verify accepts each log that Open accepts,
\* although Open looks at no hash.
ChainIntact == VerifyOk(Intact(lines))

\* The daemon takes an Append that returned nil for recorded (server.go:296-300),
\* and so do the commands (callers.go:99-104).  Where a line can lose its newline
\* an acknowledged entry can still be lost: the next line runs on from it
\* (audit.go:138-141).  But only the one: the wreck that leaves makes every later
\* scanTail fail, so nothing is acknowledged after it.
AtMostOneLost ==
  Cardinality(acked \ {lines[i] : i \in 1..Len(lines)}) <= 1

\* A log that does not verify is changed by nobody but the thread still writing its
\* last line, and verifies once that line is complete.  So an alarm that Open or Verify
\* raise over a line they met half written (audit.go:67-79, 180-184; they take no lock,
\* and see the file as it is when they reach its end) passes, and damage is written over
\* by no append and no restart (audit.go:126-129, 75-77).
DamageSticks ==
  [][~VerifyOk(lines) =>
       \/ lines' = lines
       \/ VerifyOk(lines') /\ \E t \in Thread : pc[t] = "rest" /\ pc'[t] = "unflock"]_vars

\* What a hand can do to the i-th line of a log and the lines behind it.
EditedLine(i) ==
  LET hashes == {Genesis} \cup {lines[j].hash : j \in 1..Len(lines)} IN
  {[lines EXCEPT ![i].body = b] : b \in Body} \cup
  {[lines EXCEPT ![i].seq = k] : k \in 0..Len(lines)} \cup
  {[lines EXCEPT ![i].prev = h] : h \in hashes} \cup
  {[lines EXCEPT ![i].hash = h] : h \in hashes}

\* ... also one that knows how the hash of the line is made.
RewrittenLine(i) ==
  {[lines EXCEPT ![i].body = b, ![i].hash = HashOf(i, b, lines[i].prev)] : b \in Body}

SwapLines(i, j) == [lines EXCEPT ![i] = lines[j], ![j] = lines[i]]

Reordered(i) == {SwapLines(i, j) : j \in (i + 1)..Len(lines)}

Deleted(i) == {SubSeq(lines, 1, i - 1) \o SubSeq(lines, j, Len(lines)) :
                 j \in (i + 1)..Len(lines)}

Inserted(i) == {SubSeq(lines, 1, i - 1) \o <<lines[j]>> \o SubSeq(lines, i, Len(lines)) :
                  j \in 1..Len(lines) \ {i}}

\* "deleting, editing, or reordering any line breaks the chain from that point on -
\* audit verify walks the file and reports the first bad line" (audit.go:1-4, 176-179):
\* of every log that arises, each edit is reported at its line, and one that made the
\* hash of its line afresh at the next.  Lines cut off or rewritten at the very end
\* are beyond Verify, and are not among the edits.
TamperShows ==
  VerifyOk(lines) =>
    \A i \in 1..Len(lines) :
      /\ \A file \in (EditedLine(i) \cup Reordered(i) \cup Deleted(i) \cup Inserted(i)) \ {lines} :
           ~VerifyOk(file) /\ FirstBroken(file) = i
      /\ i < Len(lines) =>
           \A file \in RewrittenLine(i) \ {lines} : ~VerifyOk(file) /\ FirstBroken(file) = i + 1

\* Every Append returns (or its process dies), however many others contend for
\* the two locks and whichever system calls fail in them.
AppendReturns == \A t \in Thread : pc[t] = "mu" ~> pc[t] = "idle"

\* Append keeps the promise of AppendOnlyLog (audit.go:52-55) wherever a torn line
\* does not decode; with lines that lose only their newline it does not.
Promise == INSTANCE AppendOnlyLog WITH
  log <- [i \in 1..Len(Intact(lines)) |-> lines[i].body],
  acked <- {<<e.seq, e.body>> : e \in acked}

KeepsPromise == Promise!Spec
=============================================================================
