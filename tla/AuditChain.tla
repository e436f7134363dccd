----------------------------- MODULE AuditChain -----------------------------
(***************************************************************************)
(* The hash chain of internal/audit: what one line of audit.log is, how an *)
(* entry is linked to the line before it, and the two walks over the file, *)
(* scanTail (run before every append) and Verify (run by the auditor).     *)
(* Nothing here has state; AuditLog, and later the signing server, use it. *)
(*                                                                         *)
(* A file is a sequence of lines.  A line that decodes to an entry is a    *)
(* record of Entry, any other non-blank line is Garbage: no operator tells *)
(* two undecodable lines apart.  Blank lines are skipped by both walks and *)
(* are never written, so they are left out.                                *)
(***************************************************************************)
EXTENDS Integers, Sequences

CONSTANTS
  Body,     \* what a caller asks to record: actor, action, key, artifact, ...
  Garbage   \* a line that does not decode as one JSON entry

-----------------------------------------------------------------------------
(* SHA-256 is taken to be collision free.  The digest of an entry is then   *)
(* as good as the entry itself with everything Prev stands for: the list of *)
(* the (seq, body) pairs from the first line on.                            *)

Digest == Seq(Nat \X Body)

Genesis == <<>>

\* The hash covers every field but Hash itself.
HashOf(seq, body, prev) == Append(prev, <<seq, body>>)

\* An entry that has not been linked yet has sequence number 0.
Entry == [seq : Nat, body : Body, prev : Digest, hash : Digest]

ASSUME GarbageAssumption == Garbage \notin Entry

Line == Entry \cup {Garbage}

-----------------------------------------------------------------------------

\* scanTail succeeds: every line decodes and the sequence numbers are 1, 2, ...
\* It looks at no hash.
ScanOk(lines) ==
  \A i \in 1..Len(lines) : lines[i] # Garbage /\ lines[i].seq = i

\* The hash scanTail returns for the file: that of its last line.
TailHash(lines) == IF lines = <<>> THEN Genesis ELSE lines[Len(lines)].hash

\* What Append makes of a draft whose body is b, given the scanned tail.
Link(lines, b) ==
  [seq  |-> Len(lines) + 1,
   body |-> b,
   prev |-> TailHash(lines),
   hash |-> HashOf(Len(lines) + 1, b, TailHash(lines))]

\* Mutant: Prev is not compared.
FollowsLoosely(e, i, lines) == e.seq = i /\ e.hash = HashOf(i, e.body, e.prev)

\* What one round of the loop of Verify asks of the i-th line e.
Follows(e, i, lines) ==
  /\ e.seq = i
  /\ e.prev = IF i = 1 THEN Genesis ELSE lines[i - 1].hash
  /\ e.hash = HashOf(i, e.body, e.prev)

\* Verify returns no error.
VerifyOk(lines) ==
  \A i \in 1..Len(lines) : lines[i] # Garbage /\ Follows(lines[i], i, lines)

\* The line at which the loop of Verify stops, in a file that decodes and that it rejects.
FirstBroken(lines) ==
  CHOOSE i \in 1..Len(lines) :
    /\ ~Follows(lines[i], i, lines)
    /\ \A j \in 1..(i - 1) : Follows(lines[j], j, lines)
=============================================================================
