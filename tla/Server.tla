-------------------------------- MODULE Server --------------------------------
(***************************************************************************)
(* The daemon: POST /v1/sign from the moment a request is sent to its      *)
(* answer, cut wherever the handler reads or changes something others      *)
(* change too: callers.json, the clock, the rate windows, the key          *)
(* directory, the audit log.  Requests run concurrently; meanwhile time    *)
(* passes, operators add and remove callers and keys, and the daemon may   *)
(* die and be started again.                                               *)
(*                                                                         *)
(* Audit.Append is one step here: AuditLog shows that it acts like one.    *)
(* An hour is the unit of the clock.                                       *)
(***************************************************************************)
EXTENDS AuditChain, Policy, RateSlots, FiniteSets

CONSTANTS
  Request,        \* sign requests; each is about a digest of its own
  Name,           \* caller names
  Token, NoToken, \* bearer tokens; NoToken is a missing or malformed header
  Key,            \* key names
  Terms,          \* what a caller may be registered with: key list, ...
  Wants,          \* what a request may carry
  NoCaller,       \* no such caller
  AppendMayFail,  \* TRUE if Audit.Append may fail in the daemon
  MaxTime,        \* bound: the clock stops here
  MaxEdits        \* bound: changes operators make altogether

ASSUME ServerAssumption ==
  /\ NoToken \notin Token /\ NoCaller \notin Name \cup Request
  /\ MaxTime \in Nat /\ MaxEdits \in Nat /\ AppendMayFail \in BOOLEAN
  /\ \A w \in Wants : w.token \in Token \cup {NoToken} /\ w.key \in Key

\* What the daemon logs can be logged.
ASSUME BodyAssumption ==
  [actor : Name \cup {NoCaller}, action : {"auth-reject", "sign", "deny"},
   digest : Request \cup {NoCaller},
   reason : {"token", "-", "expired", "key", "artifact", "size", "rate", "unavailable"}]
    \subseteq Body

VARIABLES
  clock,      \* Server.clock
  callers,    \* callers.json: what it says of each name
  readable,   \* callers.json decodes
  keys,       \* the key directory: which of its keys a name has now, or 0
  up,         \* the daemon runs
  windows,    \* Server.windows
  lines,      \* audit.log, as far as this daemon writes it
  edits,      \* changes made so far
  pc,         \* per request: the handler's next step
  want,       \* per request: what it carries
  rec,        \* per request: the caller record authenticate returned
  now,        \* per request: handleSign's now
  seen,       \* per request: allowRate's hour
  signer,     \* per request: the key it was signed with, or 0
  status,     \* per request: the status decided on, or 0
  note,       \* per request: the entry to log
  grounds,    \* history, per request: the records its token has named since it
              \* was sent, each at a time it named just the one
  held        \* history, per request: the keys of its key name since then

world == <<clock, callers, readable, keys, up, windows, edits>>
handler == <<want, rec, now, seen, signer, status, note>>
history == <<grounds, held>>
vars == <<world, lines, pc, handler, history>>

\* What callers.json says of the requests' callers: NoCaller, or a record.
Record == [name : Name, token : Token, terms : Terms]

\* A name has key 1 at first, if any, and key n + 1 after the n-th change made it one.
KeyNumber == 1..(MaxEdits + 1)

\* The records a token names; authenticate wants exactly one (server.go:113).
Named(file, token) == {file[n] : n \in {m \in Name :
                         file[m] # NoCaller /\ file[m].token = token}}

\* The entry of an outcome.  The digest of a request tells its entries apart;
\* auth-reject entries carry none.
Nobody == [actor |-> NoCaller, action |-> "auth-reject", digest |-> NoCaller, reason |-> "token"]
About(r, action, reason) ==
  [actor |-> rec[r].name, action |-> action, digest |-> r, reason |-> reason]

InFlight(r) == pc[r] \notin {"unsent", "done", "lost"}

\* A daemon just started, with whatever callers and keys there are.
Init ==
  /\ clock = 0
  /\ callers \in {file \in [Name -> Record \cup {NoCaller}] :
                   \A n \in Name : file[n] # NoCaller => file[n].name = n}
  /\ readable = TRUE
  /\ keys \in [Key -> {0, 1}]
  /\ up = TRUE /\ windows = [n \in Name |-> NoWindow]
  /\ lines = <<>> /\ edits = 0
  /\ pc = [r \in Request |-> "unsent"]
  /\ want = [r \in Request |-> NoCaller]
  /\ rec = [r \in Request |-> NoCaller]
  /\ now = [r \in Request |-> 0] /\ seen = [r \in Request |-> 0]
  /\ signer = [r \in Request |-> 0] /\ status = [r \in Request |-> 0]
  /\ note = [r \in Request |-> Nobody]
  /\ grounds = [r \in Request |-> {}] /\ held = [r \in Request |-> {}]

-----------------------------------------------------------------------------
(* What goes into the histories of the requests in flight when a file      *)
(* changes to what is given.                                               *)

OneOf(S) == IF Cardinality(S) = 1 THEN S ELSE {}

Witness(file, ok, dir) ==
  /\ grounds' = [r \in Request |->
       IF InFlight(r) /\ ok
       THEN grounds[r] \cup OneOf(Named(file, want[r].token)) ELSE grounds[r]]
  /\ held' = [r \in Request |->
       IF InFlight(r) THEN held[r] \cup ({dir[want[r].key]} \ {0}) ELSE held[r]]

-----------------------------------------------------------------------------
(* The handler.                                                            *)

\* The request reaches the running daemon.
Arrive(r, w) ==
  /\ up /\ pc[r] = "unsent"
  /\ pc' = [pc EXCEPT ![r] = "authenticate"]
  /\ want' = [want EXCEPT ![r] = w]
  /\ grounds' = [grounds EXCEPT ![r] = IF readable THEN OneOf(Named(callers, w.token)) ELSE {}]
  /\ held' = [held EXCEPT ![r] = {keys[w.key]} \ {0}]
  /\ UNCHANGED <<world, lines, rec, now, seen, signer, status, note>>

\* The handler has decided on an answer and an entry to log first.
Decide(r, code, entry) ==
  /\ status' = [status EXCEPT ![r] = code]
  /\ note' = [note EXCEPT ![r] = entry]
  /\ pc' = [pc EXCEPT ![r] = "log"]

\* Mutant: the last of several matching records will do.
AuthenticateAny(r) ==
  LET found == Named(callers, want[r].token) IN
  /\ pc[r] = "authenticate"
  /\ IF readable /\ found # {}
     THEN /\ \E c \in found : rec' = [rec EXCEPT ![r] = c]
          /\ pc' = [pc EXCEPT ![r] = "validate"]
          /\ UNCHANGED <<status, note>>
     ELSE Decide(r, 401, Nobody) /\ UNCHANGED rec
  /\ UNCHANGED <<world, lines, want, now, seen, signer, history>>

\* Mutant: a request without a caller is turned away and not logged.
AuthenticateQuiet(r) ==
  LET found == Named(callers, want[r].token) IN
  /\ pc[r] = "authenticate"
  /\ IF readable /\ Cardinality(found) = 1
     THEN /\ \E c \in found : rec' = [rec EXCEPT ![r] = c]
          /\ pc' = [pc EXCEPT ![r] = "validate"]
          /\ UNCHANGED <<status, note>>
     ELSE /\ pc' = [pc EXCEPT ![r] = "reply"] /\ status' = [status EXCEPT ![r] = 401]
          /\ UNCHANGED <<rec, note>>
  /\ UNCHANGED <<world, lines, want, now, seen, signer, history>>

\* authenticate loads callers.json anew; a file that does not decode, and a token
\* that names no record or several, is a 401.
Authenticate(r) ==
  LET found == Named(callers, want[r].token) IN
  /\ pc[r] = "authenticate"
  /\ IF readable /\ Cardinality(found) = 1
     THEN /\ \E c \in found : rec' = [rec EXCEPT ![r] = c]
          /\ pc' = [pc EXCEPT ![r] = "validate"]
          /\ UNCHANGED <<status, note>>
     ELSE Decide(r, 401, Nobody) /\ UNCHANGED rec
  /\ UNCHANGED <<world, lines, want, now, seen, signer, history>>

\* Mutant: the handler returns and forgets to say why.
ValidateSilent(r) ==
  /\ pc[r] = "validate"
  /\ pc' = [pc EXCEPT ![r] = IF want[r].wellFormed THEN "evaluate" ELSE "reply"]
  /\ UNCHANGED <<world, lines, handler, history>>

\* A request that is no POST (a 405, not told apart here), or whose body does not
\* decode or does not validate, is a 400, and no entry.
Validate(r) ==
  /\ pc[r] = "validate"
  /\ IF want[r].wellFormed
     THEN pc' = [pc EXCEPT ![r] = "evaluate"] /\ UNCHANGED status
     ELSE pc' = [pc EXCEPT ![r] = "reply"] /\ status' = [status EXCEPT ![r] = 400]
  /\ UNCHANGED <<world, lines, want, rec, now, seen, signer, note, history>>

\* now is read once, for the policy and for the envelope's signedAt.
EvaluatePolicy(r) ==
  LET reason == Evaluate(rec[r].terms, want[r], clock) IN
  /\ pc[r] = "evaluate"
  /\ now' = [now EXCEPT ![r] = clock]
  /\ IF reason = "allow"
     THEN pc' = [pc EXCEPT ![r] = "clock"] /\ UNCHANGED <<status, note>>
     ELSE Decide(r, 403, About(r, "deny", reason))
  /\ UNCHANGED <<world, lines, want, rec, seen, signer, history>>

\* allowRate, up to the lock: unlimited callers pass, for others the clock is
\* read again.
ReadHour(r) ==
  /\ pc[r] = "clock"
  /\ seen' = [seen EXCEPT ![r] = clock]
  /\ pc' = [pc EXCEPT ![r] = IF rec[r].terms.rate = 0 THEN "sign" ELSE "count"]
  /\ UNCHANGED <<world, lines, want, rec, now, signer, status, note, history>>

\* Mutant: waits for a slot instead of denying.
CountWaits(r) ==
  LET win == Current(windows[rec[r].name], seen[r]) IN
  /\ pc[r] = "count"
  /\ HasSlot(win, rec[r].terms.rate)
  /\ windows' = [windows EXCEPT ![rec[r].name] = TakeSlotOf(win)]
  /\ pc' = [pc EXCEPT ![r] = "sign"]
  /\ UNCHANGED <<clock, callers, readable, keys, up, edits, lines, handler, history>>

\* allowRate under s.mu.  The windows go by the caller's name: a caller that was
\* removed and added again goes on with its window.
Count(r) ==
  LET win == Current(windows[rec[r].name], seen[r])
      ok == HasSlot(win, rec[r].terms.rate) IN
  /\ pc[r] = "count"
  /\ windows' = [windows EXCEPT ![rec[r].name] = IF ok THEN TakeSlotOf(win) ELSE win]
  /\ IF ok THEN pc' = [pc EXCEPT ![r] = "sign"] /\ UNCHANGED <<status, note>>
     ELSE Decide(r, 429, About(r, "deny", "rate"))
  /\ UNCHANGED <<clock, callers, readable, keys, up, edits, lines, want, rec, now,
                 seen, signer, history>>

\* Keys.Load, and Sign with the key it returned.  A key that cannot be loaded is
\* a 404 and logged as a denial; its slot is gone.
LoadKeyAndSign(r) ==
  LET key == keys[want[r].key] IN
  /\ pc[r] = "sign"
  /\ signer' = [signer EXCEPT ![r] = key]
  /\ IF key # 0 THEN Decide(r, 200, About(r, "sign", "-"))
     ELSE Decide(r, 404, About(r, "deny", "unavailable"))
  /\ UNCHANGED <<world, lines, want, rec, now, seen, history>>

\* Mutant: the entry is written only if there is nothing to release.
LogDenials(r) ==
  /\ pc[r] = "log"
  /\ lines' = IF status[r] = 200 THEN lines ELSE Append(lines, Link(lines, note[r]))
  /\ pc' = [pc EXCEPT ![r] = "reply"]
  /\ UNCHANGED <<world, handler, history>>

\* Server.log.
Log(r) ==
  /\ pc[r] = "log"
  /\ lines' = Append(lines, Link(lines, note[r]))
  /\ pc' = [pc EXCEPT ![r] = "reply"]
  /\ UNCHANGED <<world, handler, history>>

\* Server.log when Append returns an error: it is dropped.
LogFails(r) ==
  /\ AppendMayFail /\ pc[r] = "log"
  /\ pc' = [pc EXCEPT ![r] = "reply"]
  /\ UNCHANGED <<world, lines, handler, history>>

\* The answer goes out.
Reply(r) ==
  /\ pc[r] = "reply"
  /\ pc' = [pc EXCEPT ![r] = "done"]
  /\ UNCHANGED <<world, lines, handler, history>>

\* What the handler does once the request is there.
Handle(r) ==
  \/ Authenticate(r) \/ Validate(r) \/ EvaluatePolicy(r) \/ ReadHour(r)
  \/ Count(r) \/ LoadKeyAndSign(r) \/ Log(r) \/ LogFails(r) \/ Reply(r)

-----------------------------------------------------------------------------
(* Around the daemon.                                                      *)

Tick ==
  /\ clock < MaxTime
  /\ clock' = clock + 1
  /\ UNCHANGED <<callers, readable, keys, up, windows, edits, lines, pc, handler, history>>

\* serve is killed, or gives up on what is in flight after its five seconds of
\* grace.  The clients see their connections break.
Die ==
  /\ up
  /\ up' = FALSE
  /\ pc' = [r \in Request |-> IF InFlight(r) THEN "lost" ELSE pc[r]]
  /\ UNCHANGED <<clock, callers, readable, keys, windows, edits, lines, handler, history>>

\* serve again, with a new Server.
Boot ==
  /\ ~up
  /\ up' = TRUE
  /\ windows' = [n \in Name |-> NoWindow]
  /\ UNCHANGED <<clock, callers, readable, keys, edits, lines, pc, handler, history>>

\* callers.json changes: caller add, caller rm, or an editor, which may use a
\* token twice or leave a file that does not decode.
EditCallers(file, ok) ==
  /\ edits < MaxEdits
  /\ edits' = edits + 1
  /\ callers' = file /\ readable' = ok
  /\ Witness(file, ok, keys)
  /\ UNCHANGED <<clock, keys, up, windows, lines, pc, handler>>

PutCaller(n, token, terms) ==
  /\ callers[n] = NoCaller
  /\ EditCallers([callers EXCEPT ![n] =
       [name |-> n, token |-> token, terms |-> terms]], TRUE)

DropCaller(n) ==
  /\ callers[n] # NoCaller
  /\ EditCallers([callers EXCEPT ![n] = NoCaller], TRUE)

SpoilFile == readable /\ EditCallers(callers, FALSE)

\* The key directory changes: key new, or a key's files are deleted.
EditKeys(dir) ==
  /\ edits < MaxEdits
  /\ edits' = edits + 1
  /\ keys' = dir
  /\ Witness(callers, readable, dir)
  /\ UNCHANGED <<clock, callers, readable, up, windows, lines, pc, handler>>

MakeKey(k) == keys[k] = 0 /\ EditKeys([keys EXCEPT ![k] = edits + 2])

DropKey(k) == keys[k] # 0 /\ EditKeys([keys EXCEPT ![k] = 0])

Environment ==
  \/ Tick \/ Die \/ Boot \/ SpoilFile
  \/ \E n \in Name : DropCaller(n) \/ \E t \in Token, p \in Terms : PutCaller(n, t, p)
  \/ \E k \in Key : MakeKey(k) \/ DropKey(k)

Next ==
  \/ \E r \in Request : Handle(r) \/ \E w \in Wants : Arrive(r, w)
  \/ Environment

Spec == Init /\ [][Next]_vars

\* net/http runs every handler in a goroutine of its own, and none waits for
\* another for longer than a lock is held.
FairSpec == Spec /\ \A r \in Request : WF_vars(Handle(r))

-----------------------------------------------------------------------------

Labels == {"unsent", "authenticate", "validate", "evaluate", "clock", "count",
           "sign", "log", "reply", "done", "lost"}

\* Every variable has its type, and a request whose handler is past its decision
\* has one: no path through handleSign ends without an answer.
TypeOK ==
  /\ clock \in 0..MaxTime /\ edits \in 0..MaxEdits
  /\ callers \in [Name -> Record \cup {NoCaller}]
  /\ readable \in BOOLEAN /\ up \in BOOLEAN
  /\ keys \in [Key -> KeyNumber \cup {0}]
  /\ windows \in [Name -> Window]
  /\ \A i \in 1..Len(lines) : lines[i] \in Entry
  /\ pc \in [Request -> Labels]
  /\ want \in [Request -> Wants \cup {NoCaller}]
  /\ rec \in [Request -> Record \cup {NoCaller}]
  /\ now \in [Request -> 0..MaxTime] /\ seen \in [Request -> 0..MaxTime]
  /\ signer \in [Request -> KeyNumber \cup {0}]
  /\ status \in [Request -> {0, 200, 400, 401, 403, 404, 429}]
  /\ note \in [Request -> Body]
  /\ grounds \in [Request -> SUBSET Record] /\ held \in [Request -> SUBSET KeyNumber]
  /\ \A r \in Request : pc[r] \in {"log", "reply", "done"} => status[r] # 0

\* Nothing is signed but on grounds that were there while the request was in
\* flight: its token named one caller, with just this policy; the policy allows
\* the request at the time the envelope states; the key was there, and was that
\* key.  So a removed caller is refused from its next request on
\* (booth.go:173-174), a token used twice is refused (server.go:113), and a
\* deleted key signs nothing any more (server.go:272-283).
ReleaseJustified ==
  \A r \in Request : status[r] = 200 =>
    /\ rec[r] \in grounds[r]
    /\ want[r].wellFormed /\ Evaluate(rec[r].terms, want[r], now[r]) = "allow"
    /\ signer[r] \in held[r]

EntriesOf(r) == {i \in 1..Len(lines) : lines[i].body.digest = r}

\* "every grant and denial lands in a hash-chained audit log" (README.md:19),
\* once, with what was answered, and before it is answered; an entry whose
\* request got no answer is that of a request lost with the daemon.
LogTellsAnswers ==
  \A r \in Request :
    /\ pc[r] \in {"reply", "done"} /\ status[r] \in {200, 403, 404, 429} =>
         \E i \in EntriesOf(r) : EntriesOf(r) = {i} /\ lines[i].body = note[r]
    /\ EntriesOf(r) # {} => /\ pc[r] \in {"reply", "done", "lost"}
                            /\ status[r] \in {200, 403, 404, 429}

\* What is left of a request's handler when its steps are hidden.
Stage == [r \in Request |->
  IF pc[r] \in {"unsent", "lost"} THEN pc[r]
  ELSE IF pc[r] = "done" THEN "answered"
  ELSE IF pc[r] = "reply" THEN "decided" ELSE "open"]

Verdict == [r \in Request |-> IF pc[r] \in {"reply", "done"} THEN status[r] ELSE 0]

Said == [i \in 1..Len(lines) |-> lines[i].body]

Decisions ==
  INSTANCE DecisionLog WITH NoDigest <- NoCaller, MayDrop <- AppendMayFail,
                            stage <- Stage, verdict <- Verdict, book <- Said

\* For whoever reads the answers and the log, the concurrent handlers, with what
\* operators change under them, are a daemon that decides each request at once:
\* whatever path it took through handleSign, it got one status and, unless that is
\* a 400, the log one entry, of the right kind and in the order of the decisions;
\* a 401 is logged too, about no request (server.go:119-130).
DecidesAtOnce == Decisions!Spec

\* "the next `signbooth audit verify` will surface the gap loudly"
\* (server.go:85-86): whenever a signature is out without its entry, the chain
\* does not verify.  Fails: the entry that was not written got no sequence number.
GapSurfaces ==
  (\E r \in Request : pc[r] = "done" /\ status[r] = 200 /\ EntriesOf(r) = {})
    => ~VerifyOk(lines)

\* Every request that reached the daemon is answered, or lost with the daemon.
Answered == \A r \in Request : pc[r] = "authenticate" ~> pc[r] \in {"done", "lost"}
=============================================================================
