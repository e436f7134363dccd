# A TLA+ model of signbooth

signbooth is a daemon that keeps Ed25519 keys and signs digests for callers
that hold bearer tokens, each under a policy of its own, with every decision in
a hash-chained log. This directory models the parts of it that several
goroutines, several processes and crashes act on, checks them with TLC and
proves the central invariants with TLAPS. Source references are paths of the
repository.

## The system

| Component | State | Operations | Shared with |
| --- | --- | --- | --- |
| `internal/audit` | the file `audit.log`, one mutex per process, one flock on the file | `Open`, `Append`, `Read`, `Verify` | every request goroutine of the daemon and every operator command |
| `internal/booth` | `callers.json`, `callers.json.tmp`, the home directory | `Init`, `Open`, `LoadCallers`, `AddCaller`, `RemoveCaller` | daemon (reads per request), commands (read and write; `init` writes) |
| `internal/keystore` | three files per key | `Create`, `Load`, `Get`, `List`, export | daemon (loads per request), `key new` |
| `internal/policy` | none | `Evaluate`, `Match` | daemon |
| `internal/server` | the rate windows and their mutex | `POST /v1/sign`; read-only `health`, `keys`, `self` | its own goroutines |
| `internal/cli` (serve) | the listening socket and its file | start, signal, five seconds of grace | other daemons on the same home |
| `internal/envelope` | none | `Sign`, `Open`, `Pin` | daemon and clients |
| `internal/client`, `internal/cli` (remote, verify) | the `.sbsig` file | `sign`, `verify`, `status`, `whoami` | other sign commands on the artifact, whoever edits it |
| `internal/cli` (flags) | none | `stringList.Set`, `parseSize`, `formatSize`, `parseTTL` | `caller add`, which stores what they return |

A sign request is authenticated against `callers.json` as it is at that moment,
validated, evaluated at a time `now`, counted in the caller's window, signed with
the key as it is on disk then, logged, and answered. No lock spans two of these
steps; `callers.json` and the keys are changed by other processes meanwhile. The
commands change `callers.json` by load, change, save, and append to the same log.

What is hard to test here is listed, line by line, under `hazards` in
`PROJECT.json`: the interleaving of several writers of one file under two locks
of different scope; torn lines; the unlocked load-change-save of `callers.json`;
the clock read outside the lock; decisions made from records that are gone by
the time they are used; the answer that must not precede its entry; the socket file,
which is a name that several daemons probe, remove, bind and unlink; the artifact, which
is hashed twice and changes in between; and the arithmetic between what an operator
types and what is enforced.

What makes each part correct:

* audit: the chain stays linear and verifiable under any interleaving and any
  crash; an acknowledged entry stays; damage is never overwritten; `Append` returns.
* keys: a reported key stays what it is; nothing is signed with a key that was not completed.
* callers: the policy file always decodes; a shown token works, a revoked one does not.
* rate windows: no more slots in an hour than the limit; nobody turned away early.
* sign requests: no signature without grounds; no answer without its entry; an answer
  for every request.
* socket: one daemon serves, clients reach it, and a dead one is in nobody's way.
* registration: what was typed is what is enforced and what is shown.
* sign and verify: what verifies was asked for and signed; what sign reported verifies.

## Modules

| Module | Models | How |
| --- | --- | --- |
| `AuditChain` | `Entry`, `hashOf`, `scanTail`, `Verify` | operators on a sequence of lines; a digest is the list of what it covers |
| `AuditLog` | `audit.Log` | one action per lock operation and system call of `Append`, `Start` for `Open`, `Crash` of a process |
| `AppendOnlyLog` | what `Append` promises | `Record` and `Acknowledge`; `AuditLog` implements it (`KeepsPromise`) |
| `AuditLogProofs` | | the theorems about `AuditLog` |
| `RateSlots` | one `rateWindow` | the operators `allowRate` applies to it |
| `RateWindow` | `Server.allowRate` | clock read, locked section, restarts; history variables count per hour |
| `RateWindowProofs` | | the theorems about `RateWindow` |
| `CallersFile` | `Init`, `AddCaller`, `RemoveCaller`, `saveCallers`, `init`, `caller add`, `caller rm` | one action per file operation, on inodes |
| `CallerStore` | what operators are promised of `callers.json` | an atomic table, until two commands overlap; `CallersFile` implements it (`KeepsStore`) |
| `CallersFileProofs` | | the theorems about `CallersFile` |
| `KeyFiles` | `keystore.Create`, `keystore.Load`, `key new` | one action per file operation on the three files of one key name; other names have files of their own |
| `KeyFilesProofs` | | the theorems about `KeyFiles` |
| `Policy` | `Evaluate`, `Expired`, `AllowsKey` | operators, in the source's order of checks |
| `Glob` | `Match`, `matchSegments`, `matchSegment` | recursive functions, and `Denotes`, which says what a pattern means without an algorithm |
| `CliParse` | `parseSize`, `formatSize`, `parseTTL` | operators on a number and a unit, in words from `-MaxInt - 1` to `MaxInt` |
| `Registration` | `caller add` from its flags to the stored record, and a later `Evaluate` | over `CliParse`, `Glob` and `Policy`; one flag set, one request |
| `RegistrationProofs` | | the theorems about `Glob` and `Registration` |
| `Listener` | `Listen` and the end of `cmdServe` | one action per system call on the socket path |
| `ListenerProofs` | | the theorems about `Listener` |
| `SignCommand` | `cmdSign`, `client.do`, `cmdVerify`, the envelope functions they call | one action per read, write, request and check |
| `SignCommandProofs` | | the theorems about `SignCommand` |
| `Server` | `authed`, `authenticate`, `handleSign`, `log`, `serve` | one action per access to state others change; `AuditChain`, `Policy` and `RateSlots` inside |
| `DecisionLog` | what the daemon promises of answers and log | each request decided, and told of in the log, in one step; `Server` implements it (`DecidesAtOnce`) |
| `ServerProofs` | | the theorems about `Server` |

The `MC` modules name the model values and give the structured constants.

Correspondence, where it is not one to one:

* A file is a sequence of lines, a line that does not decode is `Garbage`. `eol`
  says whether the file ends in a newline. A write call takes the whole line, a
  fragment, or all but the newline (`ShortWrite`), and Go's `Write` goes on with the
  rest (`FinishWrite`) unless the process dies or the next call fails.
* SHA-256 is collision free: `HashOf` appends to the list that `prev` stands for.
* Each `Append` opens the file anew, so the flock is held by a thread, not by a
  process, and the kernel releases it when the process dies.
* In `CallersFile` a command holds an inode, not a name: a rename by another command
  can turn the file it is writing into the live one. Text written over longer text
  may or may not decode (`Mixed`); text written to an empty file does.
* In `Server` the hour is the unit of time, a request names its artifact and size
  directly, and a caller's patterns are the set of artifacts they match. `Append`
  is one step, which is what `KeepsPromise` shows, and it may fail. `grounds` and
  `held` record what was in force while a request was under way.
* In `CallersFile` `init` begins its table empty and the others load theirs; the audit entry
  each appends at its end succeeds (`Report`) or not (`AuditFails`).
* In `Listener` the path names a socket, a plain file or nothing; every start makes a socket
  of its own. Closing a Go unix listener unlinks the path first and closes after, whatever
  the path names by then; `Stop` stands for the signal and for a `Serve` that returns with an
  error, which closes the listener the same way. The draining of open connections after that, and a
  probe that times out on a full backlog, are left out.
* In `CliParse` a size is a number and its unit, `Wrap` is two's complement; `MaxInt`, `Kilo`,
  `HoursPerDay` and the ticks stand for 2^63 - 1, 1024, 24 and nanoseconds. In `Registration` a name and a pattern are
  sequences of bytes, as they are in `Match`.
* In `SignCommand` a digest is the content it is of, or `Mixed` for a file that changed while it
  was read; key name and artifact name are one field, `names`. `Misreply` lets any envelope of the booth
  so far, a stranger's, or nonsense come back. A write of the `.sbsig` truncates first.
* A 405 is counted as a 400 (neither is logged); the 500 after a failed `envelope.Sign`
  is left out, as a key that `Load` returned and a digest that was validated leave it
  no way to fail.

## Runs

| Run | Shows | Bounds |
| --- | --- | --- |
| `audit_faults` | types, the chain, at most one acknowledged entry lost, damage stays and half-written lines pass, every edit but one at the end shows | two daemon goroutines and one command, two bodies, three lines |
| `audit_promise` | `AuditLog` implements `AppendOnlyLog` where a torn line never decodes; every `Append` returns | same, two lines |
| `rate_bound` | types, the bound `allowRate` does keep, no early denial | limits 2, 1 and none, two handlers, three hours, one restart an hour |
| `callers_overlap` | types; until two commands are at the temporary file at once the policy decodes; until two overlap `CallerStore` is implemented; what a lone command reported survives later overlaps | four commands, two at a time, two names, with and without a `callers.json` at first |
| `callers_revoked` | a removed caller returns (violation) | four commands |
| `keys_overlap` | types; a reported key stands, created beside other commands or not; nothing unfinished signs; `Load` acts as one step | three commands, two at a time, two deletions, one request |
| `server_sign` | types, grounds of every signature, one entry before every answer; `Server` implements `DecisionLog` | two requests, two names that may share a token, any registrations and a key or none at first, two changes, one hour change |
| `server_live` | every request is answered or lost with the daemon | two requests, one name, three kinds of policy, one change, log that may fail |
| `server_gap` | an unlogged signature leaves no gap (violation) | one request |
| `caller_flags` | types; a request passes exactly if the flags meant it to; shown is enforced | globs and names of up to four bytes, six-bit words with every number, two list entries |
| `socket_file` | types; one daemon serves; one that started alone keeps its path; a lone start succeeds | three processes, five starts |
| `sign_verify` | types; an envelope on disk was asked for; verified is signed; a good sign verifies | two signs, one verify, two contents, two edits, two key pairs |

Why these bounds are enough to meet the interesting cases: two writers of one
process and one of another are the least that tell the mutex from the flock, and a
torn third line already has a verified predecessor, a tail to scan and a writer
behind it. Two handlers and three hours let a request be late by two hours, with a
restart between. Two names and a shared token, with two changes
from any registrations and a key that may be there, cover remove-and-register-again and a
key replaced under a request in flight. Three commands on one key name are the least with
an overlap before or after a creation that succeeded. Three daemons are the
least in which two starts overlap while a third serves, and five starts let every one of
them be replaced. Four bytes hold two stars around a byte, a `**` with its slash, and
empty segments on either side; two longer patterns with two stars or `**` in the middle are added.
A six-bit word has products that fit, that wrap, and that wrap to zero and below. Two signs
let each write over the other's `.sbsig`, and two edits bring a content back. `MaxLines`,
`MaxCommands`, `MaxActive`, `MaxDeletes`, `MaxHour`, `MaxRestarts`, `MaxTime`, `MaxEdits`,
`MaxStarts`, `MaxPattern` and `MaxName` are the only bounds.

Symmetry is used between goroutines of one process, handlers, requests, terminals, daemons,
sign commands, contents, key pairs and names of equal standing, and only for invariants and action properties.

Deadlock is not checked where an instance comes to an end. A log whose last line does
not decode stops `Open`, so that once every process is down none starts again; and
`CallersFile`, `SignCommand`, `Listener` and `Registration` have so many commands, starts or
requests and no more. `RateWindow`, `KeyFiles` and
`Server` must not deadlock.

### Fairness

`AuditLog`: a goroutine that can go on does (weak fairness of `Proceed`); a waiter for
`sync.Mutex` that starved for a millisecond is handed the lock, and the kernel queues
flock waiters, hence strong fairness of `LockMu` and `LockFile`. Failing calls,
crashes and new calls are never required. `Server`: every handler has a goroutine of
its own and none waits for another, so weak fairness per request; nothing is assumed
of the clock, the operators, or the daemon staying up.

## Findings

Each is a run TLC refutes, with the line it disagrees with in `PROJECT.json`:

* `GapSurfaces`: the error of `Append` is dropped, and the log verifies without the entry.
* `RevokedIsDead`: `callers.json` is loaded, changed and saved without a lock.

The passing runs state what the code does keep, and so show limits that a reader of the source
may not expect:

* `HourlyBound` allows a caller its limit once more for each late request. `allowRate` reads the
  hour before it takes `s.mu` (server.go:214), and a request counted after the hour has turned
  throws the new window away; the next one gets a fresh window in the same hour.
* `PolicyDecodes` holds until two commands are between opening the temporary file and renaming it at the
  same time: they share that file, and one may rename it while the other has just truncated it. `KeepsStore`
  holds until two commands overlap anywhere: the later save undoes the earlier. `ReportedAloneHolds` is what is
  left then; it does not cover an `init` that overlaps the first `caller add`.
* `KeepsPromise` is checked for fragments only: `Append` does not end a last line that lost its
  newline, so the next line runs on from it, and an acknowledged entry can be lost;
  `AtMostOneLost` and `DamageSticks` bound the damage.
* `TamperShows` is about edits that leave something behind them. Lines cut off at the end, and a
  last line rewritten with its own hash, verify; nothing outside the file says how it ended.
* `ReportedStands` and `LoadIsAtomic` except keys whose command was between finding the name free and opening
  the key file (keystore.go:56-72) when another was there too: both go on, and the later one replaces
  the key the earlier one reported. Any other overlap of creations they cover; what an operator
  deletes under a running creation they do not.
* `OneServes` is about starts that do not overlap. A daemon that has bound its socket and not yet
  called `listen` answers no probe, so another start removes its file; so it does if the daemon
  binds between the probe of a stale socket and its removal. `KeepsItsPath` does cover overlapping
  starts, against a daemon that serves.
* `EnforcedAsTyped` and `ShownIsEnforced` ask for numbers whose product with their unit fits in a word.
  Beyond that `parseSize` and the days of `parseTTL` wrap, to 0 among others, which means no limit
  and no expiry. `?` matches one byte, where pattern.go:8 speaks of a character; the two
  differ for names outside ASCII.
* `SigIsOwn` does not name the key pair: `sign` compares digest and names of the
  envelope it gets, not the size and not the signer. `verify` pins the signer (`VerifiedIsSigned`) and compares the size.

## Proofs

The theorems hold for every value of the constants the named assumptions allow: any number
of processes, goroutines, requests and commands, any bodies, policies and limits, and any of
the bounds the runs need. None of the properties is inductive as it stands. Each module has an
invariant `IInv` that is, the lemmas that every action keeps it, and theorems that
read the property off it.

`AuditLogProofs`, from the assumptions of `AuditChain` and `AuditLog`:

* `TypeCorrect`: `Spec => []TypeOK`.
* `ChainCorrect`: `Spec => []ChainIntact`. An append keeps the chain only if the entry
  written was linked to the tail that is still there. The invariant adds that the locks
  exclude (`LockInv`: past the mutex a thread holds it, between `LockFile` and
  `UnlockFile` it holds the flock, or there is no flock and one process), that the file is
  a verified chain with at most its last line undecodable and unterminated only there
  (`FileInv`), and that a thread about to write holds the successor of the tail
  (`WriterInv`). `LockInv` gives that at most one thread is a writer; `AppendEntry`,
  `AppendGarbage` and `ReplaceLast` are the three ways the file changes.
* `DamageSticksCorrect`: `Spec => DamageSticks`. A file that does not verify ends in `Garbage`
  (`DamageIsLast`), which no scan passes, so nobody is about to write a line of his own; what
  is left is the writer of that line.

* `AtMostOneLostCorrect`. `AtMostOneLost` says nothing of an entry whose `Append`
  has decided to return nil and not returned yet, so `LossInv` counts those as `Claimed`. Either nothing
  claimed is missing and a line without its newline is nobody's claim (`NoneLost`), or one is, and
  then the file ends in a line that does not decode and nobody is writing (`OneLost`): no later
  scan passes, and nothing more can be lost.
* `KeepsPromiseCorrect`, that `AuditLog` implements `AppendOnlyLog`, if
  `TornKinds \subseteq {"fragment"}`. A line without its newline then does not decode (`TornInv`), so
  no line runs on from another (`NoGlue`), no claim is ever missing, and no two appends claim
  the same entry (`UniqueInv`). A step that completes a line maps to `Record`, a return to
  `Acknowledge`, any other to a stutter. Without the assumption the theorem is false, as
  `AtMostOneLost` admits.
* `TamperShowsCorrect`, for a log of any length. `FirstBroken` is the least line that does not follow from the
  one before it (`StopsAt`), so it is enough to name it. A digest is of one body only (`HashTellsBodies`), so a
  line with another hash than its own is found where it is (`ChangedLineStops`), and so is one at a
  position other than its sequence number (`MovedLineStops`); a line with a hash made afresh is found by its
  successor (`RewriteStops`).

`RateWindowProofs`: `TypeCorrect`; `HourlyBoundCorrect`, from an invariant (`SlotsInv`) that counts,
besides the slots granted, those of the window that is open; `DeniedForReasonCorrect`, from
its converse (`GrantedInv`): the open window never shows more slots than were granted this hour.

`CallersFileProofs`, from the assumptions of `CallersFile`:

* `TypeCorrect`. Tokens are minted once and stay with their command (`MintInv`), and there is always an inode
  nobody has (`UnusedFresh`).
* `PolicyDecodesCorrect`. Whoever else runs, the one command that is between opening the temporary file and
  renaming it has that file for itself, empty before its write and a whole table after (`TmpInv`).
* `KeepsStoreCorrect`: `CallersFile` implements `CallerStore`. A command beside which no other has run finds the
  files as it left them, whatever was there when it began (`SoloInv`, which says for each of its steps what the
  temporary file and the live one hold); until two commands overlap every command is of that kind (`LoneInv`),
  and the rename is the one step that changes the table, to what the command loaded and did; once
  they do, `CallerStore` promises nothing.
* `ReportedAloneHoldsCorrect`. A later command can bring back any table that was ever loaded or is still being
  written, so the invariant is about all of those: each table that may yet become live agrees with what
  commands that overlapped no other have reported (`CoverInv`).

`KeyFilesProofs`, from `KeyAssumption`:

* `TypeCorrect`, `SignsFinishedKeysCorrect`. What a request signs with is what the metadata
  names, so the invariant carries `published` along the order of the files: a command at
  the metadata has published its key (`OrderInv`), and so has whoever wrote the metadata
  that is there (`MetaInv`).
* `LoadIsAtomicCorrect`. A key number nobody was given yet is nowhere (`BornInv`), so no old file can
  be taken for the new key; while the command that makes it has the name for itself (`sole`) it is the only
  one at the files, and its private half is there from the first write on (`SoleInv`), so the write of the metadata, the last, makes the
  key whole at once; and a request that read the private half of a key the metadata names has
  met it whole (`UsableInv`).
* `ReportedStandsCorrect`. What such a command has written is still there when it reports
  (`WholeInv`), and while an undeleted reported key stands nobody is at a file of its name
  (`StandsInv`): `Create` never gets past the check, so overlapping creations end there too.

`ListenerProofs`: `TypeCorrect`, `OneServesCorrect`, `KeepsItsPathCorrect`, `LoneStartSucceedsCorrect`.
Whether a probe is answered depends on the step of the owner of the socket, so `SocketInv` ties every
socket to its process. `LoneInv` lists what the others can be doing at each step of a daemon that
started alone: once it serves, every other start ends at its probe. `SoloInv` does the same for
starts that do not overlap, where a stopping daemon must have unlinked its path before anyone
can get past the probe.

`SignCommandProofs`, from the assumptions of `SignCommand`: `TypeCorrect`, `SigIsOwnCorrect`,
`VerifiedIsSignedCorrect`, `SignedVerifiesCorrect`. A digest once computed
stays (`DigestInv`), so an envelope some sign command asked for stays one, and an envelope under a
pair of the booth is one it signed, wherever it is. The invariant carries both from the reply
(`ReplyInv`) through the file (`SigInv`) into the hands of verify (`VerifyInv`). For `SignedVerifies` it says
of a sign that nothing has disturbed, and of the verify that follows it, what the file and the artifact hold
at each step (`CalmInv`); the placeholder `None` must not be an envelope (`NoneAssumption`).

`ServerProofs`, from `ServerAssumption` and `BodyAssumption`:

* `TypeCorrect`: no path through `handleSign` ends without an answer.
* `ReleaseJustifiedCorrect`. The handler finds the caller and the key at moments of its own, so the
  history has to hold them whatever those moments are: `WitnessInv` says that what a request in
  flight would find now is in its history, and every edit keeps that true because the
  histories only grow. `FlowInv` says what the handler has established at each step.
* `LogTellsAnswersCorrect`, if `AppendMayFail = FALSE`. A request's note carries its own digest or is
  `Nobody`'s (`NoteInv`), so no request writes another's entry; before its one `Log` a request has no
  entry, after it exactly that one (`EntryInv`).
* `DecidesAtOnceCorrect`, that `Server` implements `DecisionLog`, whether `Append` fails or not. The instant of the
  decision is `Log` (for a malformed request, `Validate`); up to it a request is open, and what its handler
  is about to log tells what it is about to answer (`ToldInv`). `Die` maps to the loss of all pending
  requests at once, every other step to a stutter. Unlike `LogTellsAnswers` this counts the
  entries of 401s, which carry no digest, and it holds of the order of the entries too.

`RegistrationProofs`, from `ParseAssumption` and `TrialsAssumption` (the trials are of flags and requests, and the
placeholder for no caller is not a caller):

* `MatchDenotes`: the two matchers accept exactly the names that a pattern denotes, whatever its length. `Rests`
  is `Aligned` from a place in the pattern and one in the name, and unrolls by one element (`RestsStep`). So as a
  function of the places it obeys the matcher's recursion (`SegmentStep`, `NameStep`), and only one function
  does: of the places where two differ one would be nearest to the ends (`SameRests`). `matchSegments`
  needs the theorem about `matchSegment` first. This is induction without an induction theorem, by the least
  element of a set of naturals (`Least`).
* `TypeCorrect`, `EnforcedAsTypedCorrect`, `ShownIsEnforcedCorrect`. The invariant is that the stored record is
  `Stored`, the one the flags make, and the verdict is on it. What is left is arithmetic: a number that
  fits wraps to itself (`WrapFits`), formatting a time takes less than a second off it (`RFC3339Is`), and
  `formatSize` finds a unit that divides (`FormatSizeIs`).

With these every safety property that a passing run checks is a theorem, the three refinements included. Out of
the prover's reach, and only model-checked, is liveness (`AppendReturns`, `Answered`): it needs fairness. `RevokedIsDead`
and `GapSurfaces` are false. Instances without flock are covered by the theorems about
`AuditLog`, whose `PlatformAssumption` has one process there; no run has one.

## Not modelled, and the plan

* `key ls`, `key export`, `caller ls`, `status`, `whoami`, `audit show` and the routes `health`, `keys` and
  `self` read a file or the caller's record once and print it. They change no state; what they
  read is modelled.
* JSON and HTTP framing, dispatch of commands, usage texts, file modes, output, and the
  cryptography itself: not where steps of two actors meet. The TCP transport has no file to race for.
* `fsync` is never called by the code; loss of acknowledged writes with the whole machine is
  outside the model. So are writers of `audit.log`, `callers.json` or the key files other than
  the program's own, but for an editor of `callers.json` in `Server` and deletions in `KeyFiles`.
* `SignCommand` has an `Answer` for what `Server` decides, and `Server` has an `Append` for what `AuditLog`
  does; one instance with all of them is out of TLC's reach.

Next: the time an entry carries is taken before `Append` queues for its locks, so times may decrease along the
chain; how far, and that nothing reads their order, is not stated yet.
