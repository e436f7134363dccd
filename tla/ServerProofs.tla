----------------------------- MODULE ServerProofs -----------------------------
(***************************************************************************)
(* TypeOK, ReleaseJustified and LogTellsAnswers for any requests, callers, *)
(* policies, keys and bounds.  Every state the handler reads changes while *)
(* it works; WitnessInv says that what it would find now it has had since  *)
(* it was sent, FlowInv what it has established at each step, and EntryInv *)
(* where the entry of a request is.                                        *)
(***************************************************************************)
EXTENDS Server, SequenceTheorems, TLAPS

\* From the authentication to the decision.
Deciding == {"validate", "evaluate", "clock", "count", "sign"}

\* What a request would find now is among what its history says it could find.
WitnessInv ==
  \A r \in Request : InFlight(r) =>
    /\ want[r] \in Wants
    /\ readable => OneOf(Named(callers, want[r].token)) \subseteq grounds[r]
    /\ keys[want[r].key] # 0 => keys[want[r].key] \in held[r]

FlowInv ==
  \A r \in Request :
    /\ pc[r] \in {"unsent", "authenticate"} \cup Deciding => status[r] = 0
    /\ pc[r] \in Deciding => rec[r] \in grounds[r]
    /\ pc[r] \in {"evaluate", "clock", "count", "sign"} => want[r].wellFormed
    /\ pc[r] \in {"clock", "count", "sign"} =>
         Evaluate(rec[r].terms, want[r], now[r]) = "allow"

LinesInv == lines \in Seq(Entry)

IInv == TypeOK /\ LinesInv /\ WitnessInv /\ FlowInv /\ ReleaseJustified

-----------------------------------------------------------------------------

LEMMA LinkIsEntry ==
  ASSUME NEW file \in Seq(Entry), NEW b \in Body
  PROVE  Append(file, Link(file, b)) \in Seq(Entry)
<1>1. Len(file) \in Nat
  OBVIOUS
<1>2. file # <<>> => file[Len(file)] \in Entry
  BY <1>1
<1>3. TailHash(file) \in Digest
  BY <1>2 DEF TailHash, Entry, Genesis, Digest
<1>4. HashOf(Len(file) + 1, b, TailHash(file)) \in Digest
  BY <1>1, <1>3 DEF HashOf, Digest
<1>5. Link(file, b) \in Entry
  BY <1>1, <1>3, <1>4 DEF Link, Entry
<1>6. QED
  BY <1>5

\* The handler's entries can be logged.
LEMMA Notes ==
  ASSUME NEW r \in Request, rec[r] \in Record,
         NEW action \in {"sign", "deny"},
         NEW reason \in {"-", "expired", "key", "artifact", "size", "rate", "unavailable"}
  PROVE  About(r, action, reason) \in Body
<1>1. rec[r].name \in Name \cup {NoCaller}
  BY DEF Record
<1>2. QED
  BY <1>1, BodyAssumption DEF About

LEMMA NobodyIsBody == Nobody \in Body
BY BodyAssumption DEF Nobody

LEMMA Reasons ==
  ASSUME NEW c, NEW w, NEW t, Evaluate(c, w, t) # "allow"
  PROVE  Evaluate(c, w, t) \in {"expired", "key", "artifact", "size"}
BY DEF Evaluate

LEMMA StartInv == Init => IInv
<1> SUFFICES ASSUME Init PROVE IInv
  OBVIOUS
<1>1. \A r \in Request : pc[r] = "unsent" /\ status[r] = 0
  BY DEF Init
<1>2. WitnessInv /\ FlowInv /\ ReleaseJustified
  BY <1>1 DEF WitnessInv, FlowInv, ReleaseJustified, InFlight, Deciding
<1>3. LinesInv /\ lines = <<>>
  BY DEF Init, LinesInv
<1>4. /\ clock \in 0..MaxTime /\ edits \in 0..MaxEdits /\ 0 \in 0..MaxTime /\ 0 \in 0..MaxEdits
  BY ServerAssumption DEF Init
<1>5. windows \in [Name -> Window] /\ note \in [Request -> Body]
  BY NobodyIsBody DEF Init, NoWindow, Window
<1>6. TypeOK
  <2>1. \A i \in 1..Len(lines) : lines[i] \in Entry
    BY <1>3
  <2>2. /\ pc \in [Request -> Labels]
        /\ status \in [Request -> {0, 200, 400, 401, 403, 404, 429}]
        /\ \A r \in Request : pc[r] \in {"log", "reply", "done"} => status[r] # 0
    BY DEF Init, Labels
  <2>3. keys \in [Key -> KeyNumber \cup {0}]
    <3>1. 1 \in KeyNumber
      BY ServerAssumption DEF KeyNumber
    <3>2. QED
      BY <3>1 DEF Init
  <2>4. /\ callers \in [Name -> Record \cup {NoCaller}] /\ readable \in BOOLEAN /\ up \in BOOLEAN
        /\ want \in [Request -> Wants \cup {NoCaller}]
        /\ rec \in [Request -> Record \cup {NoCaller}] /\ now \in [Request -> 0..MaxTime]
        /\ seen \in [Request -> 0..MaxTime] /\ signer \in [Request -> KeyNumber \cup {0}]
        /\ grounds \in [Request -> SUBSET Record] /\ held \in [Request -> SUBSET KeyNumber]
    BY <1>4 DEF Init
  <2>5. QED
    BY <1>4, <1>5, <2>1, <2>2, <2>3, <2>4 DEF TypeOK
<1>7. QED
  BY <1>2, <1>3, <1>6 DEF IInv

-----------------------------------------------------------------------------
(* The handler, one step after the other.                                  *)

\* A step of the handler of r that leaves what others look at.
Steps(r) ==
  /\ UNCHANGED <<clock, callers, readable, keys, up, edits, want, grounds, held>>
  /\ \A q \in Request \ {r} :
       /\ pc'[q] = pc[q] /\ rec'[q] = rec[q] /\ now'[q] = now[q]
       /\ signer'[q] = signer[q] /\ status'[q] = status[q] /\ note'[q] = note[q]

LEMMA Others ==
  ASSUME IInv, NEW r \in Request, Steps(r), InFlight(r),
         pc'[r] \in {"unsent", "authenticate"} \cup Deciding => status'[r] = 0,
         pc'[r] \in Deciding => rec'[r] \in grounds[r],
         pc'[r] \in {"evaluate", "clock", "count", "sign"} => want[r].wellFormed,
         pc'[r] \in {"clock", "count", "sign"} =>
           Evaluate(rec'[r].terms, want[r], now'[r]) = "allow",
         status'[r] = 200 =>
           /\ rec'[r] \in grounds[r] /\ want[r].wellFormed
           /\ Evaluate(rec'[r].terms, want[r], now'[r]) = "allow"
           /\ signer'[r] \in held[r]
  PROVE  WitnessInv' /\ FlowInv' /\ ReleaseJustified'
<1>1. WitnessInv'
  <2>1. ASSUME NEW q \in Request, InFlight(q)' PROVE InFlight(q)
    BY <2>1 DEF Steps, InFlight
  <2>2. ASSUME NEW q \in Request
        PROVE  OneOf(Named(callers, want[q].token))' = OneOf(Named(callers, want[q].token))
    BY DEF Steps, OneOf, Named
  <2>3. UNCHANGED <<want, readable, keys, grounds, held>>
    BY DEF Steps
  <2>4. QED
    BY <2>1, <2>2, <2>3 DEF IInv, WitnessInv
<1>2. FlowInv'
  BY DEF IInv, FlowInv, Steps
<1>3. ReleaseJustified'
  BY DEF IInv, ReleaseJustified, Steps
<1>4. QED
  BY <1>1, <1>2, <1>3

\* The found record is one the request's history knows.
LEMMA AuthenticateStep ==
  ASSUME IInv, NEW r \in Request, Authenticate(r)
  PROVE  IInv'
<1> DEFINE found == Named(callers, want[r].token)
<1>1. TypeOK /\ WitnessInv /\ FlowInv /\ InFlight(r) /\ status[r] = 0 /\ LinesInv
  BY DEF IInv, FlowInv, Authenticate, InFlight
<1>2. CASE readable /\ Cardinality(found) = 1
  <2>1. PICK c \in found : rec' = [rec EXCEPT ![r] = c]
    BY <1>2 DEF Authenticate
  <2>2. c \in grounds[r] /\ c \in Record
    <3>1. c \in OneOf(found)
      BY <1>2, <2>1 DEF OneOf
    <3>2. c \in grounds[r]
      BY <1>1, <1>2, <3>1 DEF WitnessInv
    <3>3. QED
      BY <1>1, <3>2 DEF TypeOK
  <2>3. /\ pc' = [pc EXCEPT ![r] = "validate"] /\ UNCHANGED <<status, note>>
        /\ UNCHANGED <<world, lines, want, now, seen, signer, history>>
    BY <1>2 DEF Authenticate
  <2>4. TypeOK' /\ LinesInv'
    BY <1>1, <2>1, <2>2, <2>3 DEF TypeOK, LinesInv, Labels, world, history
  <2>5. Steps(r) /\ pc'[r] = "validate" /\ rec'[r] = c /\ status'[r] = 0
    BY <1>1, <2>1, <2>3 DEF Steps, TypeOK, world, history
  <2>6. QED
    BY <1>1, <2>2, <2>4, <2>5, Others DEF IInv, Deciding
<1>3. CASE ~(readable /\ Cardinality(found) = 1)
  <2>1. /\ status' = [status EXCEPT ![r] = 401] /\ note' = [note EXCEPT ![r] = Nobody]
        /\ pc' = [pc EXCEPT ![r] = "log"] /\ rec' = rec
        /\ UNCHANGED <<world, lines, want, now, seen, signer, history>>
    BY <1>3 DEF Authenticate, Decide
  <2>2. TypeOK' /\ LinesInv'
    BY <1>1, <2>1, NobodyIsBody DEF TypeOK, LinesInv, Labels, world, history
  <2>3. Steps(r) /\ pc'[r] = "log" /\ status'[r] = 401
    BY <1>1, <2>1 DEF Steps, TypeOK, world, history
  <2>4. QED
    BY <1>1, <2>2, <2>3, Others DEF IInv, Deciding
<1>4. QED
  BY <1>2, <1>3

LEMMA ValidateStep ==
  ASSUME IInv, NEW r \in Request, Validate(r)
  PROVE  IInv'
<1>1. /\ TypeOK /\ FlowInv /\ InFlight(r) /\ LinesInv /\ status[r] = 0
      /\ rec[r] \in grounds[r]
  BY DEF IInv, FlowInv, Validate, InFlight, Deciding
<1>2. CASE want[r].wellFormed
  <2>1. pc' = [pc EXCEPT ![r] = "evaluate"] /\ status' = status
        /\ UNCHANGED <<world, lines, want, rec, now, seen, signer, note, history>>
    BY <1>2 DEF Validate
  <2>2. TypeOK' /\ LinesInv'
    BY <1>1, <2>1 DEF TypeOK, LinesInv, Labels, world, history
  <2>3. Steps(r) /\ pc'[r] = "evaluate" /\ status'[r] = 0 /\ rec'[r] = rec[r]
    BY <1>1, <2>1 DEF Steps, TypeOK, world, history
  <2>4. QED
    BY <1>1, <1>2, <2>2, <2>3, Others DEF IInv, Deciding
<1>3. CASE ~want[r].wellFormed
  <2>1. pc' = [pc EXCEPT ![r] = "reply"] /\ status' = [status EXCEPT ![r] = 400]
        /\ UNCHANGED <<world, lines, want, rec, now, seen, signer, note, history>>
    BY <1>3 DEF Validate
  <2>2. TypeOK' /\ LinesInv'
    BY <1>1, <2>1 DEF TypeOK, LinesInv, Labels, world, history
  <2>3. Steps(r) /\ pc'[r] = "reply" /\ status'[r] = 400
    BY <1>1, <2>1 DEF Steps, TypeOK, world, history
  <2>4. QED
    BY <1>1, <2>2, <2>3, Others DEF IInv, Deciding
<1>4. QED
  BY <1>2, <1>3

LEMMA EvaluateStep ==
  ASSUME IInv, NEW r \in Request, EvaluatePolicy(r)
  PROVE  IInv'
<1>1. /\ TypeOK /\ FlowInv /\ InFlight(r) /\ LinesInv /\ status[r] = 0
      /\ rec[r] \in grounds[r] /\ rec[r] \in Record /\ want[r].wellFormed
  BY DEF IInv, FlowInv, EvaluatePolicy, InFlight, Deciding, TypeOK
<1>2. PICK reason : reason = Evaluate(rec[r].terms, want[r], clock)
  OBVIOUS
<1>3. /\ now' = [now EXCEPT ![r] = clock] /\ now'[r] = clock
      /\ UNCHANGED <<world, lines, want, rec, seen, signer, history>>
  BY <1>1 DEF EvaluatePolicy, TypeOK
<1>4. CASE reason = "allow"
  <2>1. pc' = [pc EXCEPT ![r] = "clock"] /\ UNCHANGED <<status, note>>
    BY <1>2, <1>4 DEF EvaluatePolicy
  <2>2. TypeOK' /\ LinesInv'
    BY <1>1, <1>3, <2>1 DEF TypeOK, LinesInv, Labels, world, history
  <2>3. Steps(r) /\ pc'[r] = "clock" /\ status'[r] = 0 /\ rec'[r] = rec[r]
    BY <1>1, <1>3, <2>1 DEF Steps, TypeOK, world, history
  <2>4. Evaluate(rec'[r].terms, want[r], now'[r]) = "allow"
    BY <1>2, <1>3, <1>4, <2>3
  <2>5. QED
    BY <1>1, <2>2, <2>3, <2>4, Others DEF IInv, Deciding
<1>5. CASE reason # "allow"
  <2>1. /\ pc' = [pc EXCEPT ![r] = "log"] /\ status' = [status EXCEPT ![r] = 403]
        /\ note' = [note EXCEPT ![r] = About(r, "deny", reason)]
    BY <1>2, <1>5 DEF EvaluatePolicy, Decide
  <2>2. About(r, "deny", reason) \in Body
    BY <1>1, <1>2, <1>5, Reasons, Notes
  <2>3. TypeOK' /\ LinesInv'
    BY <1>1, <1>3, <2>1, <2>2 DEF TypeOK, LinesInv, Labels, world, history
  <2>4. Steps(r) /\ pc'[r] = "log" /\ status'[r] = 403
    BY <1>1, <1>3, <2>1 DEF Steps, TypeOK, world, history
  <2>5. QED
    BY <1>1, <2>3, <2>4, Others DEF IInv, Deciding
<1>6. QED
  BY <1>4, <1>5

LEMMA ReadHourStep ==
  ASSUME IInv, NEW r \in Request, ReadHour(r)
  PROVE  IInv'
<1>1. /\ TypeOK /\ FlowInv /\ InFlight(r) /\ LinesInv /\ status[r] = 0
      /\ rec[r] \in grounds[r] /\ want[r].wellFormed
      /\ Evaluate(rec[r].terms, want[r], now[r]) = "allow"
  BY DEF IInv, FlowInv, ReadHour, InFlight, Deciding
<1>2. PICK l \in {"sign", "count"} : pc' = [pc EXCEPT ![r] = l]
  BY DEF ReadHour
<1>3. /\ seen' = [seen EXCEPT ![r] = clock]
      /\ UNCHANGED <<world, lines, want, rec, now, signer, status, note, history>>
  BY DEF ReadHour
<1>4. TypeOK' /\ LinesInv'
  <2>1. pc' \in [Request -> Labels] /\ seen' \in [Request -> 0..MaxTime]
    BY <1>1, <1>2, <1>3 DEF TypeOK, Labels
  <2>2. \A q \in Request : pc'[q] \in {"log", "reply", "done"} => status[q] # 0
    BY <1>1, <1>2, <1>3 DEF TypeOK
  <2>3. QED
    BY <1>1, <1>2, <1>3, <2>1, <2>2 DEF TypeOK, LinesInv, world, history
<1>5. /\ Steps(r) /\ pc'[r] \in {"sign", "count"} /\ status'[r] = 0
      /\ rec'[r] = rec[r] /\ now'[r] = now[r]
  BY <1>1, <1>2, <1>3 DEF Steps, TypeOK, world, history
<1>6. QED
  BY <1>1, <1>4, <1>5, Others DEF IInv, Deciding

LEMMA CountStep ==
  ASSUME IInv, NEW r \in Request, Count(r)
  PROVE  IInv'
<1> DEFINE win == Current(windows[rec[r].name], seen[r])
           ok == HasSlot(win, rec[r].terms.rate)
<1>1. /\ TypeOK /\ FlowInv /\ InFlight(r) /\ LinesInv /\ status[r] = 0
      /\ rec[r] \in grounds[r] /\ rec[r] \in Record /\ want[r].wellFormed
      /\ Evaluate(rec[r].terms, want[r], now[r]) = "allow"
  BY DEF IInv, FlowInv, Count, InFlight, Deciding, TypeOK
<1>2. windows' \in [Name -> Window]
  <2>1. windows[rec[r].name] \in Window /\ seen[r] \in Nat
    BY <1>1, ServerAssumption DEF TypeOK, Record
  <2>2. win \in Window
    BY <2>1 DEF Current, Window
  <2>3. TakeSlotOf(win) \in Window
    BY <2>2 DEF TakeSlotOf, Window
  <2>4. PICK new : windows' = [windows EXCEPT ![rec[r].name] = new]
                   /\ new \in {win, TakeSlotOf(win)}
    BY DEF Count
  <2>5. windows \in [Name -> Window]
    BY <1>1 DEF TypeOK
  <2> HIDE DEF win
  <2>6. QED
    BY <2>2, <2>3, <2>4, <2>5
<1>3. UNCHANGED <<clock, callers, readable, keys, up, edits, lines, want, rec, now, seen, signer, history>>
  BY DEF Count
<1>4. CASE ok
  <2>1. pc' = [pc EXCEPT ![r] = "sign"] /\ UNCHANGED <<status, note>>
    BY <1>4 DEF Count
  <2>2. TypeOK' /\ LinesInv'
    BY <1>1, <1>2, <1>3, <2>1 DEF TypeOK, LinesInv, Labels, history
  <2>3. /\ Steps(r) /\ pc'[r] = "sign" /\ status'[r] = 0
        /\ rec'[r] = rec[r] /\ now'[r] = now[r]
    BY <1>1, <1>3, <2>1 DEF Steps, TypeOK, history
  <2>4. QED
    BY <1>1, <2>2, <2>3, Others DEF IInv, Deciding
<1>5. CASE ~ok
  <2>1. /\ pc' = [pc EXCEPT ![r] = "log"] /\ status' = [status EXCEPT ![r] = 429]
        /\ note' = [note EXCEPT ![r] = About(r, "deny", "rate")]
    BY <1>5 DEF Count, Decide
  <2>2. About(r, "deny", "rate") \in Body
    BY <1>1, Notes
  <2>3. TypeOK' /\ LinesInv'
    BY <1>1, <1>2, <1>3, <2>1, <2>2 DEF TypeOK, LinesInv, Labels, history
  <2>4. Steps(r) /\ pc'[r] = "log" /\ status'[r] = 429
    BY <1>1, <1>3, <2>1 DEF Steps, TypeOK, history
  <2>5. QED
    BY <1>1, <2>3, <2>4, Others DEF IInv, Deciding
<1>6. QED
  BY <1>4, <1>5

\* The key it signs with is one it could have found ever since it was sent.
LEMMA SignStep ==
  ASSUME IInv, NEW r \in Request, LoadKeyAndSign(r)
  PROVE  IInv'
<1>1. /\ TypeOK /\ FlowInv /\ WitnessInv /\ InFlight(r) /\ LinesInv /\ status[r] = 0
      /\ rec[r] \in grounds[r] /\ rec[r] \in Record /\ want[r].wellFormed
      /\ Evaluate(rec[r].terms, want[r], now[r]) = "allow"
  BY DEF IInv, FlowInv, LoadKeyAndSign, InFlight, Deciding, TypeOK
<1> DEFINE key == keys[want[r].key]
<1>2. key \in KeyNumber \cup {0} /\ (key # 0 => key \in held[r])
  <2>1. want[r] \in Wants /\ (key # 0 => key \in held[r])
    BY <1>1 DEF WitnessInv
  <2>2. QED
    BY <1>1, <2>1, ServerAssumption DEF TypeOK
<1>3. /\ signer' = [signer EXCEPT ![r] = key]
      /\ UNCHANGED <<world, lines, want, rec, now, seen, history>>
  BY DEF LoadKeyAndSign
<1>4. signer'[r] = key
  BY <1>1, <1>3 DEF TypeOK
<1>5. ASSUME NEW code \in {200, 404}, NEW entry \in Body, Decide(r, code, entry),
             code = 404 \/ key # 0
      PROVE  IInv'
  <2>1. /\ pc' = [pc EXCEPT ![r] = "log"] /\ status' = [status EXCEPT ![r] = code]
        /\ note' = [note EXCEPT ![r] = entry]
    BY <1>5 DEF Decide
  <2>2. TypeOK'
    <3>1. /\ signer' \in [Request -> KeyNumber \cup {0}] /\ pc' \in [Request -> Labels]
          /\ status' \in [Request -> {0, 200, 400, 401, 403, 404, 429}]
          /\ note' \in [Request -> Body]
      BY <1>1, <1>2, <1>3, <2>1 DEF TypeOK, Labels
    <3>2. \A q \in Request : pc'[q] \in {"log", "reply", "done"} => status'[q] # 0
      BY <1>1, <2>1 DEF TypeOK
    <3>3. QED
      BY <1>1, <1>3, <3>1, <3>2 DEF TypeOK, world, history
  <2>3. LinesInv'
    BY <1>1, <1>3 DEF LinesInv
  <2>4. Steps(r) /\ pc'[r] = "log" /\ status'[r] = code
    BY <1>1, <1>3, <2>1 DEF Steps, TypeOK, world, history
  <2>5. rec'[r] = rec[r] /\ now'[r] = now[r]
    BY <1>3
  <2>6. code = 200 => signer'[r] \in held[r]
    BY <1>2, <1>4, <1>5
  <2>7. QED
    BY <1>1, <2>2, <2>3, <2>4, <2>5, <2>6, Others DEF IInv, Deciding
<1>6. About(r, "sign", "-") \in Body /\ About(r, "deny", "unavailable") \in Body
  BY <1>1, Notes
<1>7. CASE key # 0
  <2>1. Decide(r, 200, About(r, "sign", "-"))
    BY <1>7 DEF LoadKeyAndSign
  <2>2. QED
    BY <1>5, <1>6, <1>7, <2>1
<1>8. CASE key = 0
  <2>1. PICK code \in {200, 404} : code = 404
    OBVIOUS
  <2>2. Decide(r, code, About(r, "deny", "unavailable"))
    BY <1>8, <2>1 DEF LoadKeyAndSign
  <2>3. QED
    BY <1>5, <1>6, <2>1, <2>2
<1>9. QED
  BY <1>7, <1>8

LEMMA AnswerStep ==
  ASSUME IInv, NEW r \in Request, Log(r) \/ LogFails(r) \/ Reply(r)
  PROVE  IInv'
<1>1. /\ TypeOK /\ InFlight(r) /\ LinesInv /\ ReleaseJustified
      /\ pc[r] \in {"log", "reply"} /\ status[r] # 0
  BY DEF IInv, Log, LogFails, Reply, InFlight, TypeOK
<1>2. PICK l \in {"reply", "done"} : pc' = [pc EXCEPT ![r] = l]
  BY DEF Log, LogFails, Reply
<1>3. /\ UNCHANGED <<world, handler, history>>
      /\ lines' \in {lines, Append(lines, Link(lines, note[r]))}
  BY DEF Log, LogFails, Reply
<1>4. LinesInv'
  <2>1. note[r] \in Body /\ lines \in Seq(Entry)
    BY <1>1 DEF TypeOK, LinesInv
  <2>2. Append(lines, Link(lines, note[r])) \in Seq(Entry)
    BY <2>1, LinkIsEntry
  <2>3. QED
    BY <1>3, <2>1, <2>2 DEF LinesInv
<1>5. \A i \in 1..Len(lines') : lines'[i] \in Entry
  BY <1>4 DEF LinesInv
<1>6. TypeOK'
  <2>1. pc' \in [Request -> Labels]
    BY <1>1, <1>2, <1>3 DEF TypeOK, Labels
  <2>2. \A q \in Request : pc'[q] \in {"log", "reply", "done"} => status[q] # 0
    BY <1>1, <1>2, <1>3 DEF TypeOK
  <2>3. QED
    BY <1>1, <1>2, <1>3, <1>5, <2>1, <2>2 DEF TypeOK, world, handler, history
<1>7. /\ Steps(r) /\ pc'[r] \in {"reply", "done"} /\ status' = status
      /\ rec' = rec /\ now' = now /\ signer' = signer
  BY <1>1, <1>2, <1>3 DEF Steps, TypeOK, world, handler, history
<1>8. QED
  BY <1>1, <1>4, <1>6, <1>7, Others DEF IInv, Deciding, ReleaseJustified

-----------------------------------------------------------------------------
(* Around the handler.                                                     *)

LEMMA OneOfRecords ==
  ASSUME NEW file \in [Name -> Record \cup {NoCaller}], NEW token
  PROVE  OneOf(Named(file, token)) \subseteq Record
BY DEF OneOf, Named

LEMMA ArriveStep ==
  ASSUME IInv, NEW r \in Request, NEW w \in Wants, Arrive(r, w)
  PROVE  IInv'
<1>1. /\ TypeOK /\ LinesInv /\ WitnessInv /\ FlowInv /\ ReleaseJustified
      /\ pc[r] = "unsent" /\ status[r] = 0
  BY DEF IInv, FlowInv, Arrive
<1>2. PICK found : found = IF readable THEN OneOf(Named(callers, w.token)) ELSE {}
  OBVIOUS
<1>3. PICK key : key = keys[w.key]
  OBVIOUS
<1>4. found \subseteq Record /\ key \in KeyNumber \cup {0}
  <2>0. callers \in [Name -> Record \cup {NoCaller}]
    BY <1>1 DEF TypeOK
  <2>1. OneOf(Named(callers, w.token)) \subseteq Record
    BY <2>0, OneOfRecords
  <2>2. w.key \in Key
    BY ServerAssumption
  <2>3. QED
    BY <1>1, <1>2, <1>3, <2>1, <2>2 DEF TypeOK
<1>5. /\ pc' = [pc EXCEPT ![r] = "authenticate"] /\ want' = [want EXCEPT ![r] = w]
      /\ grounds' = [grounds EXCEPT ![r] = found] /\ held' = [held EXCEPT ![r] = {key} \ {0}]
      /\ UNCHANGED <<world, lines, rec, now, seen, signer, status, note>>
  BY <1>2, <1>3 DEF Arrive
<1>6. TypeOK'
  <2>1. /\ grounds' \in [Request -> SUBSET Record] /\ want' \in [Request -> Wants \cup {NoCaller}]
        /\ pc' \in [Request -> Labels]
    BY <1>1, <1>4, <1>5 DEF TypeOK, Labels
  <2>2. held' \in [Request -> SUBSET KeyNumber]
    <3>1. {key} \ {0} \in SUBSET KeyNumber
      BY <1>4, ServerAssumption
    <3>2. QED
      BY <1>1, <1>5, <3>1 DEF TypeOK
  <2>3. \A q \in Request : pc'[q] \in {"log", "reply", "done"} => status[q] # 0
    BY <1>1, <1>5 DEF TypeOK
  <2>4. QED
    BY <1>1, <1>5, <2>1, <2>2, <2>3 DEF TypeOK, world
<1>7. LinesInv'
  BY <1>1, <1>5 DEF LinesInv
<1>8. \A q \in Request \ {r} : /\ pc'[q] = pc[q] /\ want'[q] = want[q]
                               /\ grounds'[q] = grounds[q] /\ held'[q] = held[q]
  BY <1>1, <1>5 DEF TypeOK
<1>9. pc'[r] = "authenticate" /\ want'[r] = w /\ grounds'[r] = found /\ held'[r] = {key} \ {0}
  BY <1>1, <1>5 DEF TypeOK
<1>10. WitnessInv'
  <2>1. \A q \in Request : OneOf(Named(callers, want[q].token))'
                           = OneOf(Named(callers, want'[q].token))
    BY <1>5 DEF world, OneOf, Named
  <2>2. UNCHANGED <<readable, keys>>
    BY <1>5 DEF world
  <2>3. ASSUME NEW q \in Request, InFlight(q)'
        PROVE  /\ want'[q] \in Wants
               /\ readable => OneOf(Named(callers, want'[q].token)) \subseteq grounds'[q]
               /\ keys[want'[q].key] # 0 => keys[want'[q].key] \in held'[q]
    <3>1. CASE q = r
      BY <1>2, <1>3, <1>9, <3>1
    <3>2. CASE q # r
      <4>1. InFlight(q)
        BY <1>8, <2>3, <3>2 DEF InFlight
      <4>2. QED
        BY <1>1, <1>8, <3>2, <4>1 DEF WitnessInv
    <3>3. QED
      BY <3>1, <3>2
  <2>4. QED
    BY <2>1, <2>2, <2>3 DEF WitnessInv
<1>11. FlowInv' /\ ReleaseJustified'
  <2>1. UNCHANGED <<rec, now, signer, status>>
    BY <1>5
  <2>2. FlowInv'
    BY <1>1, <1>8, <1>9, <2>1 DEF FlowInv, Deciding
  <2>3. ReleaseJustified'
    BY <1>1, <1>8, <2>1 DEF ReleaseJustified
  <2>4. QED
    BY <2>2, <2>3
<1>12. QED
  BY <1>6, <1>7, <1>10, <1>11 DEF IInv

\* Whatever an operator makes of the files, the histories take it in.
LEMMA EditStep ==
  ASSUME IInv, NEW file \in [Name -> Record \cup {NoCaller}], NEW ok \in BOOLEAN,
         NEW dir \in [Key -> KeyNumber \cup {0}],
         callers' = file, readable' = ok, keys' = dir, Witness(file, ok, dir),
         edits < MaxEdits, edits' = edits + 1,
         UNCHANGED <<clock, up, windows, lines, pc, handler>>
  PROVE  IInv'
<1>1. /\ TypeOK /\ LinesInv /\ WitnessInv /\ FlowInv /\ ReleaseJustified
      /\ UNCHANGED <<want, rec, now, seen, signer, status, note>>
  BY DEF IInv, handler
<1>2. \A q \in Request :
        grounds'[q] = IF InFlight(q) /\ ok
                      THEN grounds[q] \cup OneOf(Named(file, want[q].token)) ELSE grounds[q]
  BY DEF Witness
<1>3. \A q \in Request :
        held'[q] = IF InFlight(q) THEN held[q] \cup ({dir[want[q].key]} \ {0}) ELSE held[q]
  BY DEF Witness
<1>4. \A q \in Request : grounds[q] \subseteq grounds'[q] /\ held[q] \subseteq held'[q]
  BY <1>2, <1>3
<1>5. \A q \in Request : InFlight(q) => want[q] \in Wants /\ want[q].key \in Key
  BY <1>1, ServerAssumption DEF WitnessInv
<1>6. grounds' \in [Request -> SUBSET Record]
  <2>1. \A q \in Request : grounds'[q] \subseteq Record
    <3>1. \A q \in Request : grounds[q] \subseteq Record
      BY <1>1 DEF TypeOK
    <3>2. \A q \in Request : OneOf(Named(file, want[q].token)) \subseteq Record
      BY OneOfRecords
    <3>3. QED
      BY <1>2, <3>1, <3>2
  <2>2. QED
    BY <2>1 DEF Witness
<1>7. held' \in [Request -> SUBSET KeyNumber]
  <2>1. \A q \in Request : InFlight(q) => {dir[want[q].key]} \ {0} \subseteq KeyNumber
    BY <1>5, ServerAssumption
  <2>2. \A q \in Request : held'[q] \subseteq KeyNumber
    <3>1. \A q \in Request : held[q] \subseteq KeyNumber
      BY <1>1 DEF TypeOK
    <3>2. QED
      BY <1>3, <2>1, <3>1
  <2>3. QED
    BY <2>2 DEF Witness
<1>8. edits' \in 0..MaxEdits
  BY <1>1, ServerAssumption DEF TypeOK
<1>9. TypeOK' /\ LinesInv'
  BY <1>1, <1>6, <1>7, <1>8 DEF TypeOK, LinesInv
<1>10. WitnessInv'
  <2>1. \A q \in Request : OneOf(Named(callers, want[q].token))'
                           = OneOf(Named(file, want[q].token))
    BY <1>1 DEF OneOf, Named
  <2>2. \A q \in Request : InFlight(q)' => InFlight(q)
    BY DEF InFlight
  <2>3. QED
    BY <1>1, <1>2, <1>3, <1>5, <2>1, <2>2 DEF WitnessInv
<1>11. FlowInv' /\ ReleaseJustified'
  BY <1>1, <1>4 DEF FlowInv, ReleaseJustified
<1>12. QED
  BY <1>9, <1>10, <1>11 DEF IInv

\* The clock, and the end and the start of the daemon.
LEMMA DaemonStep ==
  ASSUME IInv, Tick \/ Die \/ Boot
  PROVE  IInv'
<1>1. /\ TypeOK /\ LinesInv /\ WitnessInv /\ FlowInv /\ ReleaseJustified
      /\ UNCHANGED <<callers, readable, keys, edits, lines, handler, history>>
  BY DEF IInv, Tick, Die, Boot
<1>2. UNCHANGED <<want, rec, now, seen, signer, status, note, grounds, held>>
  BY <1>1 DEF handler, history
<1>3. pc' \in [Request -> Labels] /\ \A q \in Request : pc'[q] = pc[q] \/ pc'[q] = "lost"
  BY <1>1 DEF Tick, Die, Boot, TypeOK, Labels
<1>4. clock' \in 0..MaxTime
  BY <1>1, ServerAssumption DEF Tick, Die, Boot, TypeOK
<1>5. windows' \in [Name -> Window]
  BY <1>1 DEF Tick, Die, Boot, TypeOK, NoWindow, Window
<1>6. up' \in BOOLEAN
  BY <1>1 DEF Tick, Die, Boot, TypeOK
<1>7. TypeOK' /\ LinesInv'
  <2>1. \A q \in Request : pc'[q] \in {"log", "reply", "done"} => status[q] # 0
    BY <1>1, <1>3 DEF TypeOK
  <2>2. QED
    BY <1>1, <1>2, <1>3, <1>4, <1>5, <1>6, <2>1 DEF TypeOK, LinesInv
<1>8. WitnessInv'
  <2>1. \A q \in Request : OneOf(Named(callers, want[q].token))'
                           = OneOf(Named(callers, want[q].token))
    BY <1>1, <1>2 DEF OneOf, Named
  <2>2. \A q \in Request : InFlight(q)' => InFlight(q)
    BY <1>3 DEF InFlight
  <2>3. QED
    BY <1>1, <1>2, <2>1, <2>2 DEF WitnessInv
<1>9. FlowInv' /\ ReleaseJustified'
  BY <1>1, <1>2, <1>3 DEF FlowInv, ReleaseJustified, Deciding
<1>10. QED
  BY <1>7, <1>8, <1>9 DEF IInv

LEMMA EnvironmentStep ==
  ASSUME IInv, Environment
  PROVE  IInv'
<1>1. TypeOK
  BY DEF IInv
<1>2. CASE Tick \/ Die \/ Boot
  BY <1>2, DaemonStep
<1>3. ASSUME NEW file \in [Name -> Record \cup {NoCaller}], NEW ok \in BOOLEAN,
             EditCallers(file, ok)
      PROVE  IInv'
  <2>1. keys \in [Key -> KeyNumber \cup {0}] /\ keys' = keys
    BY <1>1, <1>3 DEF EditCallers, TypeOK
  <2>2. /\ callers' = file /\ readable' = ok /\ Witness(file, ok, keys)
        /\ edits < MaxEdits /\ edits' = edits + 1
        /\ UNCHANGED <<clock, up, windows, lines, pc, handler>>
    BY <1>3 DEF EditCallers
  <2>3. QED
    BY <2>1, <2>2, EditStep
<1>4. ASSUME NEW dir \in [Key -> KeyNumber \cup {0}], EditKeys(dir)
      PROVE  IInv'
  <2>1. /\ callers \in [Name -> Record \cup {NoCaller}] /\ readable \in BOOLEAN
        /\ UNCHANGED <<callers, readable>>
    BY <1>1, <1>4 DEF EditKeys, TypeOK
  <2>2. /\ keys' = dir /\ Witness(callers, readable, dir)
        /\ edits < MaxEdits /\ edits' = edits + 1
        /\ UNCHANGED <<clock, up, windows, lines, pc, handler>>
    BY <1>4 DEF EditKeys
  <2>3. QED
    BY <2>1, <2>2, EditStep
<1>5. CASE SpoilFile
  BY <1>1, <1>3, <1>5 DEF SpoilFile, TypeOK
<1>6. ASSUME NEW n \in Name, DropCaller(n)
      PROVE  IInv'
  <2>1. [callers EXCEPT ![n] = NoCaller] \in [Name -> Record \cup {NoCaller}]
    BY <1>1 DEF TypeOK
  <2>2. QED
    BY <1>3, <1>6, <2>1 DEF DropCaller
<1>7. ASSUME NEW n \in Name, NEW t \in Token, NEW p \in Terms, PutCaller(n, t, p)
      PROVE  IInv'
  <2>1. [name |-> n, token |-> t, terms |-> p] \in Record
    BY DEF Record
  <2>2. [callers EXCEPT ![n] = [name |-> n, token |-> t, terms |-> p]]
          \in [Name -> Record \cup {NoCaller}]
    BY <1>1, <2>1 DEF TypeOK
  <2>3. QED
    BY <1>3, <1>7, <2>2 DEF PutCaller
<1>8. ASSUME NEW k \in Key, MakeKey(k)
      PROVE  IInv'
  <2>1. edits < MaxEdits
    BY <1>8 DEF MakeKey, EditKeys
  <2>2. edits + 2 \in KeyNumber
    BY <1>1, <2>1, ServerAssumption DEF TypeOK, KeyNumber
  <2>3. [keys EXCEPT ![k] = edits + 2] \in [Key -> KeyNumber \cup {0}]
    BY <1>1, <2>2 DEF TypeOK
  <2>4. QED
    BY <1>4, <1>8, <2>3 DEF MakeKey
<1>9. ASSUME NEW k \in Key, DropKey(k)
      PROVE  IInv'
  <2>1. [keys EXCEPT ![k] = 0] \in [Key -> KeyNumber \cup {0}]
    BY <1>1, ServerAssumption DEF TypeOK
  <2>2. QED
    BY <1>4, <1>9, <2>1 DEF DropKey
<1>10. QED
  BY <1>2, <1>5, <1>6, <1>7, <1>8, <1>9 DEF Environment

LEMMA HandleStep ==
  ASSUME IInv, NEW r \in Request, Handle(r)
  PROVE  IInv'
BY AuthenticateStep, ValidateStep, EvaluateStep, ReadHourStep, CountStep, SignStep,
   AnswerStep DEF Handle

LEMMA Inductive == IInv /\ [Next]_vars => IInv'
<1> SUFFICES ASSUME IInv, [Next]_vars PROVE IInv'
  OBVIOUS
<1>1. CASE UNCHANGED vars
  <2>1. \A q \in Request : OneOf(Named(callers, want[q].token))'
                           = OneOf(Named(callers, want[q].token))
    BY <1>1 DEF vars, world, handler, OneOf, Named
  <2>2. WitnessInv'
    BY <1>1, <2>1 DEF IInv, WitnessInv, InFlight, vars, world, handler, history
  <2>3. QED
    BY <1>1, <2>2 DEF IInv, TypeOK, LinesInv, FlowInv, ReleaseJustified, vars, world,
                      handler, history
<1>2. CASE Next
  BY <1>2, HandleStep, ArriveStep, EnvironmentStep DEF Next
<1>3. QED
  BY <1>1, <1>2

LEMMA AlwaysInv == Spec => []IInv
BY StartInv, Inductive, PTL DEF Spec

-----------------------------------------------------------------------------

\* No path through handleSign ends without an answer, and every variable keeps
\* its type.
THEOREM TypeCorrect == Spec => []TypeOK
<1>1. IInv => TypeOK
  BY DEF IInv
<1>2. QED
  BY <1>1, AlwaysInv, PTL

\* Whatever operators do to callers.json and to the key directory while handleSign
\* works, and however often the daemon is started again, it signs nothing but on
\* grounds that were there while the request was in flight.
THEOREM ReleaseJustifiedCorrect == Spec => []ReleaseJustified
<1>1. IInv => ReleaseJustified
  BY DEF IInv
<1>2. QED
  BY <1>1, AlwaysInv, PTL

-----------------------------------------------------------------------------
(* The entries.  A request's note is about it, or is Nobody's, so that the *)
(* entries of a request are the ones it wrote itself, in its one Log.      *)

Early == {"unsent", "authenticate"} \cup Deciding

Telling == {200, 403, 404, 429}

NoteInv ==
  \A r \in Request : IF status[r] \in Telling THEN note[r].digest = r ELSE note[r] = Nobody

EntryInv ==
  \A r \in Request :
    /\ pc[r] \in Early \cup {"log"} => EntriesOf(r) = {}
    /\ status[r] \notin Telling => EntriesOf(r) = {}
    /\ pc[r] \in {"reply", "done"} /\ status[r] \in Telling =>
         \E i \in EntriesOf(r) : EntriesOf(r) = {i} /\ lines[i].body = note[r]

TInv == IInv /\ NoteInv /\ EntryInv

\* What a step that writes no entry may do with a request.
Moves(q) ==
  \/ /\ status'[q] = status[q] /\ note'[q] = note[q]
     /\ \/ pc'[q] = pc[q] \/ pc'[q] = "lost"
        \/ pc[q] = "reply" /\ pc'[q] = "done"
        \/ pc[q] \in Early /\ pc'[q] \in Early
  \/ /\ pc[q] \in Early /\ status[q] = 0
     /\ \/ pc'[q] = "log" /\ status'[q] \in Telling /\ note'[q].digest = q
        \/ pc'[q] = "log" /\ status'[q] = 401 /\ note'[q] = Nobody
        \/ pc'[q] = "reply" /\ status'[q] = 400 /\ note'[q] = note[q]

LEMMA MovesKeep ==
  ASSUME TInv, lines' = lines, \A q \in Request : Moves(q)
  PROVE  NoteInv' /\ EntryInv'
<1>1. NoteInv'
  BY DEF TInv, NoteInv, Moves, Telling
<1>2. \A q \in Request : EntriesOf(q)' = EntriesOf(q)
  BY DEF EntriesOf
<1>3. ASSUME NEW q \in Request
      PROVE  /\ pc'[q] \in Early \cup {"log"} => EntriesOf(q) = {}
             /\ status'[q] \notin Telling => EntriesOf(q) = {}
             /\ pc'[q] \in {"reply", "done"} /\ status'[q] \in Telling =>
                  \E i \in EntriesOf(q) : EntriesOf(q) = {i} /\ lines[i].body = note'[q]
  <2>1. /\ pc[q] \in Early \cup {"log"} => EntriesOf(q) = {}
        /\ status[q] \notin Telling => EntriesOf(q) = {}
        /\ pc[q] \in {"reply", "done"} /\ status[q] \in Telling =>
             \E i \in EntriesOf(q) : EntriesOf(q) = {i} /\ lines[i].body = note[q]
    BY DEF TInv, EntryInv
  <2>2. CASE status'[q] = status[q] /\ note'[q] = note[q] /\ pc'[q] = pc[q]
    BY <2>1, <2>2
  <2>3. CASE status'[q] = status[q] /\ note'[q] = note[q] /\ pc'[q] = "lost"
    BY <2>1, <2>3 DEF Early, Deciding
  <2>4. CASE status'[q] = status[q] /\ note'[q] = note[q] /\ pc[q] = "reply" /\ pc'[q] = "done"
    BY <2>1, <2>4 DEF Early, Deciding
  <2>5. CASE status'[q] = status[q] /\ note'[q] = note[q] /\ pc[q] \in Early /\ pc'[q] \in Early
    BY <2>1, <2>5 DEF Early, Deciding
  <2>6. CASE pc[q] \in Early /\ (pc'[q] = "log" \/ status'[q] = 400)
    BY <2>1, <2>6 DEF Early, Deciding, Telling
  <2>7. QED
    BY <2>2, <2>3, <2>4, <2>5, <2>6 DEF Moves
<1>4. EntryInv'
  BY <1>2, <1>3 DEF EntryInv
<1>5. QED
  BY <1>1, <1>4

LEMMA HandlerMoves ==
  ASSUME TInv, NEW r \in Request,
         \/ Authenticate(r) \/ Validate(r) \/ EvaluatePolicy(r) \/ ReadHour(r)
         \/ Count(r) \/ LoadKeyAndSign(r) \/ Reply(r)
  PROVE  lines' = lines /\ \A q \in Request : Moves(q)
<1>1. lines' = lines
  BY DEF Authenticate, Validate, EvaluatePolicy, ReadHour, Count, LoadKeyAndSign, Reply
<1> SUFFICES \A q \in Request : Moves(q)
  BY <1>1
<1>2. /\ pc \in [Request -> Labels] /\ note \in [Request -> Body]
      /\ status \in [Request -> {0, 200, 400, 401, 403, 404, 429}]
  BY DEF TInv, IInv, TypeOK
<1>3. pc[r] \in Early => status[r] = 0
  BY DEF TInv, IInv, FlowInv, Early
<1>4. ASSUME NEW l \in Labels, pc' = [pc EXCEPT ![r] = l], status' = status, note' = note,
             (pc[r] \in Early /\ l \in Early) \/ (pc[r] = "reply" /\ l = "done")
      PROVE  \A q \in Request : Moves(q)
  BY <1>2, <1>4 DEF Moves
<1>5. ASSUME NEW code, NEW entry, Decide(r, code, entry), pc[r] \in Early,
             (code \in Telling /\ entry.digest = r) \/ (code = 401 /\ entry = Nobody)
      PROVE  \A q \in Request : Moves(q)
  <2>1. /\ pc' = [pc EXCEPT ![r] = "log"] /\ status' = [status EXCEPT ![r] = code]
        /\ note' = [note EXCEPT ![r] = entry]
    BY <1>5 DEF Decide
  <2>2. \A q \in Request \ {r} : Moves(q)
    BY <1>2, <2>1 DEF Moves
  <2>3. Moves(r)
    BY <1>2, <1>3, <1>5, <2>1 DEF Moves
  <2>4. QED
    BY <2>2, <2>3
<1>6. \A action, reason : About(r, action, reason).digest = r
  BY DEF About
<1>7. CASE Authenticate(r)
  <2>1. pc[r] = "authenticate" /\ pc[r] \in Early /\ "validate" \in Early /\ "validate" \in Labels
    BY <1>7 DEF Authenticate, Early, Deciding, Labels
  <2>2. CASE readable /\ Cardinality(Named(callers, want[r].token)) = 1
    <3>1. pc' = [pc EXCEPT ![r] = "validate"] /\ status' = status /\ note' = note
      BY <1>7, <2>2 DEF Authenticate
    <3>2. QED
      BY <1>4, <2>1, <3>1
  <2>3. CASE ~(readable /\ Cardinality(Named(callers, want[r].token)) = 1)
    <3>1. Decide(r, 401, Nobody)
      BY <1>7, <2>3 DEF Authenticate
    <3>2. QED
      BY <1>5, <2>1, <3>1
  <2>4. QED
    BY <2>2, <2>3
<1>8. CASE Validate(r)
  <2>1. pc[r] \in Early /\ "evaluate" \in Early /\ "evaluate" \in Labels
    BY <1>8 DEF Validate, Early, Deciding, Labels
  <2>2. CASE want[r].wellFormed
    <3>1. pc' = [pc EXCEPT ![r] = "evaluate"] /\ status' = status /\ note' = note
      BY <1>8, <2>2 DEF Validate
    <3>2. QED
      BY <1>4, <2>1, <3>1
  <2>3. CASE ~want[r].wellFormed
    <3>1. /\ pc' = [pc EXCEPT ![r] = "reply"] /\ status' = [status EXCEPT ![r] = 400]
          /\ note' = note
      BY <1>8, <2>3 DEF Validate
    <3>2. QED
      BY <1>2, <1>3, <2>1, <3>1 DEF Moves
  <2>4. QED
    BY <2>2, <2>3
<1>9. CASE EvaluatePolicy(r)
  <2>1. PICK reason : reason = Evaluate(rec[r].terms, want[r], clock)
    OBVIOUS
  <2>2. pc[r] \in Early /\ "clock" \in Early /\ "clock" \in Labels
    BY <1>9 DEF EvaluatePolicy, Early, Deciding, Labels
  <2>3. CASE reason = "allow"
    <3>1. pc' = [pc EXCEPT ![r] = "clock"] /\ status' = status /\ note' = note
      BY <1>9, <2>1, <2>3 DEF EvaluatePolicy
    <3>2. QED
      BY <1>4, <2>2, <3>1
  <2>4. CASE reason # "allow"
    <3>1. Decide(r, 403, About(r, "deny", reason))
      BY <1>9, <2>1, <2>4 DEF EvaluatePolicy
    <3>2. QED
      BY <1>5, <1>6, <2>2, <3>1 DEF Telling
  <2>5. QED
    BY <2>3, <2>4
<1>10. CASE ReadHour(r)
  <2>1. pc[r] \in Early /\ {"sign", "count"} \subseteq Early \cap Labels
    BY <1>10 DEF ReadHour, Early, Deciding, Labels
  <2>2. PICK l \in {"sign", "count"} : pc' = [pc EXCEPT ![r] = l]
    BY <1>10 DEF ReadHour
  <2>3. status' = status /\ note' = note
    BY <1>10 DEF ReadHour
  <2>4. QED
    BY <1>4, <2>1, <2>2, <2>3
<1>11. CASE Count(r)
  <2>1. pc[r] \in Early /\ "sign" \in Early /\ "sign" \in Labels
    BY <1>11 DEF Count, Early, Deciding, Labels
  <2>2. \/ pc' = [pc EXCEPT ![r] = "sign"] /\ status' = status /\ note' = note
        \/ Decide(r, 429, About(r, "deny", "rate"))
    BY <1>11 DEF Count
  <2>3. QED
    BY <1>4, <1>5, <1>6, <2>1, <2>2 DEF Telling
<1>12. CASE LoadKeyAndSign(r)
  <2>1. pc[r] \in Early
    BY <1>12 DEF LoadKeyAndSign, Early, Deciding
  <2>2. \/ Decide(r, 200, About(r, "sign", "-"))
        \/ Decide(r, 404, About(r, "deny", "unavailable"))
    BY <1>12 DEF LoadKeyAndSign
  <2>3. QED
    BY <1>5, <1>6, <2>1, <2>2 DEF Telling
<1>13. CASE Reply(r)
  <2>1. /\ pc[r] = "reply" /\ pc' = [pc EXCEPT ![r] = "done"] /\ "done" \in Labels
        /\ status' = status /\ note' = note
    BY <1>13 DEF Reply, handler, Labels
  <2>2. QED
    BY <1>4, <2>1
<1>14. QED
  BY <1>7, <1>8, <1>9, <1>10, <1>11, <1>12, <1>13

\* The entry a request writes is its first, and no one else's.
LEMMA LogStep ==
  ASSUME TInv, NEW r \in Request, Log(r)
  PROVE  NoteInv' /\ EntryInv'
<1>1. /\ lines \in Seq(Entry) /\ note \in [Request -> Body] /\ pc \in [Request -> Labels]
      /\ pc[r] = "log" /\ pc' = [pc EXCEPT ![r] = "reply"]
      /\ lines' = Append(lines, Link(lines, note[r]))
      /\ status' = status /\ note' = note
  BY DEF TInv, IInv, TypeOK, LinesInv, Log, handler
<1>2. NoteInv'
  BY <1>1 DEF TInv, NoteInv
<1>3. PICK last : last = Len(lines) + 1
  OBVIOUS
<1>4. /\ last \in Nat /\ Len(lines') = last /\ last \notin 1..Len(lines)
      /\ 1..last = 1..Len(lines) \cup {last}
      /\ \A i \in 1..Len(lines) : lines'[i] = lines[i]
      /\ lines'[last] = Link(lines, note[r])
  <2>1. Len(lines) \in Nat
    BY <1>1
  <2>2. Append(lines, Link(lines, note[r])) \in Seq(Entry)
    BY <1>1, LinkIsEntry
  <2>3. QED
    BY <1>1, <1>3, <2>1, <2>2
<1>5. lines'[last].body = note[r]
  BY <1>4 DEF Link
<1>6. \A q \in Request : EntriesOf(q)' =
        IF note[r].digest = q THEN EntriesOf(q) \cup {last} ELSE EntriesOf(q)
  BY <1>4, <1>5 DEF EntriesOf
<1>7. \A q \in Request : note[r].digest = q => q = r /\ status[r] \in Telling
  BY ServerAssumption DEF TInv, NoteInv, Nobody
<1>8. status[r] \in Telling => note[r].digest = r
  BY DEF TInv, NoteInv
<1>9. EntriesOf(r) = {} /\ (status[r] \in Telling => EntriesOf(r)' = {last})
  <2>1. EntriesOf(r) = {}
    BY <1>1 DEF TInv, EntryInv
  <2>2. QED
    BY <1>6, <1>8, <2>1
<1>10. ASSUME NEW q \in Request
       PROVE  /\ pc'[q] \in Early \cup {"log"} => EntriesOf(q)' = {}
              /\ status'[q] \notin Telling => EntriesOf(q)' = {}
              /\ pc'[q] \in {"reply", "done"} /\ status'[q] \in Telling =>
                   \E i \in EntriesOf(q)' : EntriesOf(q)' = {i} /\ lines'[i].body = note'[q]
  <2>1. CASE q = r
    <3>1. pc'[r] = "reply"
      BY <1>1
    <3>2. status[r] \notin Telling => EntriesOf(r)' = {}
      BY <1>6, <1>7, <1>9
    <3>3. QED
      BY <1>1, <1>5, <1>9, <2>1, <3>1, <3>2 DEF Early, Deciding
  <2>2. CASE q # r
    <3>1. EntriesOf(q)' = EntriesOf(q) /\ pc'[q] = pc[q]
      BY <1>1, <1>6, <1>7, <2>2
    <3>2. \A i \in EntriesOf(q) : lines'[i] = lines[i]
      BY <1>4 DEF EntriesOf
    <3>3. QED
      BY <1>1, <3>1, <3>2 DEF TInv, EntryInv
  <2>3. QED
    BY <2>1, <2>2
<1>11. EntryInv'
  BY <1>10 DEF EntryInv
<1>12. QED
  BY <1>2, <1>11

LEMMA TInductive ==
  ASSUME AppendMayFail = FALSE, TInv, [Next]_vars
  PROVE  TInv'
<1>1. IInv'
  BY Inductive DEF TInv
<1>2. /\ pc \in [Request -> Labels] /\ \A q \in Request : pc[q] \in Early => status[q] = 0
  BY DEF TInv, IInv, TypeOK, FlowInv, Early
<1>3. ASSUME Environment \/ UNCHANGED vars
      PROVE  lines' = lines /\ \A q \in Request : Moves(q)
  <2>1. lines' = lines /\ status' = status /\ note' = note
    BY <1>3 DEF Environment, Tick, Die, Boot, SpoilFile, DropCaller, PutCaller, EditCallers,
                MakeKey, DropKey, EditKeys, handler, vars
  <2>2. \A q \in Request : pc'[q] = pc[q] \/ pc'[q] = "lost"
    BY <1>3 DEF Environment, Tick, Die, Boot, SpoilFile, DropCaller, PutCaller, EditCallers,
                MakeKey, DropKey, EditKeys, vars
  <2>3. QED
    BY <2>1, <2>2 DEF Moves
<1>4. ASSUME NEW r \in Request, NEW w \in Wants, Arrive(r, w)
      PROVE  lines' = lines /\ \A q \in Request : Moves(q)
  BY <1>2, <1>4 DEF Arrive, Moves, Early
<1>5. ASSUME NEW r \in Request, Handle(r)
      PROVE  NoteInv' /\ EntryInv'
  <2>1. ~LogFails(r)
    BY DEF LogFails
  <2>2. QED
    BY <1>5, <2>1, HandlerMoves, MovesKeep, LogStep DEF Handle
<1>6. NoteInv' /\ EntryInv'
  BY <1>3, <1>4, <1>5, MovesKeep DEF Next
<1>7. QED
  BY <1>1, <1>6 DEF TInv

\* An audit log that takes every entry holds one entry for every answer, a grant or
\* a denial, with what was answered, before it is answered; and no other entry but
\* those of requests lost with the daemon.
THEOREM LogTellsAnswersCorrect ==
  ASSUME AppendMayFail = FALSE
  PROVE  Spec => []LogTellsAnswers
<1>1. Init => TInv
  <2>1. ASSUME Init PROVE NoteInv /\ EntryInv
    <3>1. lines = <<>> /\ \A q \in Request : /\ pc[q] = "unsent" /\ status[q] = 0
                                            /\ note[q] = Nobody
      BY <2>1 DEF Init
    <3>2. \A q \in Request : EntriesOf(q) = {}
      BY <3>1 DEF EntriesOf
    <3>3. QED
      BY <3>1, <3>2 DEF NoteInv, EntryInv, Telling
  <2>2. QED
    BY <2>1, StartInv DEF TInv
<1>2. TInv /\ [Next]_vars => TInv'
  BY TInductive
<1>3. TInv => LogTellsAnswers
  <2> SUFFICES ASSUME TInv PROVE LogTellsAnswers
    OBVIOUS
  <2>1. \A q \in Request : pc[q] \in Early \cup {"log", "reply", "done", "lost"}
    BY DEF TInv, IInv, TypeOK, Labels, Early, Deciding
  <2>2. QED
    BY <2>1 DEF TInv, EntryInv, LogTellsAnswers, Telling
<1>4. QED
  BY <1>1, <1>2, <1>3, PTL DEF Spec

-----------------------------------------------------------------------------
(* The handlers as DecisionLog sees them.  Up to the entry a request is    *)
(* open, whatever step its handler is at; logging is the decision, and a   *)
(* malformed request is decided where it is found to be.  ToldInv says     *)
(* that what a handler is about to log tells what it is about to answer.   *)

Open == Early \cup {"log"}

ToldInv ==
  \A r \in Request : pc[r] = "log" =>
    /\ status[r] \in Decisions!Codes \ {400}
    /\ Decisions!Tells(note[r], r, status[r])

DInv == IInv /\ ToldInv

\* What a request may do on its way to an entry: a request is told of by the
\* entry it has just chosen, or has the one it chose before.
Tellable(q) ==
  pc'[q] = "log" =>
    \/ pc[q] = "log" /\ status'[q] = status[q] /\ note'[q] = note[q]
    \/ status'[q] \in Decisions!Codes \ {400} /\ Decisions!Tells(note'[q], q, status'[q])

LEMMA TellableKeeps ==
  ASSUME ToldInv, \A q \in Request : Tellable(q)
  PROVE  ToldInv'
<1> SUFFICES ASSUME NEW q \in Request, pc'[q] = "log"
             PROVE  /\ status'[q] \in Decisions!Codes \ {400}
                    /\ Decisions!Tells(note'[q], q, status'[q])
  BY DEF ToldInv, Decisions!Tells, Decisions!Codes
<1>1. CASE pc[q] = "log" /\ status'[q] = status[q] /\ note'[q] = note[q]
  BY <1>1 DEF ToldInv
<1>2. QED
  BY <1>1 DEF Tellable

\* The entries handleSign and authed choose tell the statuses they go with.
LEMMA Choices ==
  ASSUME NEW r
  PROVE  /\ Decisions!Tells(Nobody, r, 401)
         /\ Decisions!Tells(About(r, "sign", "-"), r, 200)
         /\ \A reason : /\ Decisions!Tells(About(r, "deny", reason), r, 403)
                        /\ Decisions!Tells(About(r, "deny", reason), r, 404)
                        /\ Decisions!Tells(About(r, "deny", reason), r, 429)
BY DEF Decisions!Tells, Nobody, About

\* A step of the handler of r that changes nothing but where r is, and perhaps
\* what it has chosen to log.
Shift(r, from, to) ==
  /\ pc[r] = from /\ pc' = [pc EXCEPT ![r] = to]
  /\ lines' = lines /\ status' = status /\ note' = note

Choice(r, from, code, entry) ==
  /\ pc[r] = from /\ pc' = [pc EXCEPT ![r] = "log"]
  /\ status' = [status EXCEPT ![r] = code] /\ note' = [note EXCEPT ![r] = entry]
  /\ code \in Decisions!Codes \ {400} /\ Decisions!Tells(entry, r, code)
  /\ lines' = lines

\* Each step of a handler up to the one that logs or turns away.
LEMMA DecidingSteps ==
  ASSUME NEW r \in Request,
         \/ Authenticate(r) \/ (Validate(r) /\ want[r].wellFormed)
         \/ EvaluatePolicy(r) \/ ReadHour(r) \/ Count(r) \/ LoadKeyAndSign(r)
  PROVE  \E from \in Early :
           \/ \E to \in Deciding : Shift(r, from, to)
           \/ \E code, entry : Choice(r, from, code, entry)
<1>1. /\ {"authenticate", "validate", "evaluate", "clock", "count", "sign"} \subseteq Early
      /\ {"validate", "evaluate", "clock", "count", "sign"} \subseteq Deciding
  BY DEF Early, Deciding
<1>2. {200, 401, 403, 404, 429} \subseteq Decisions!Codes \ {400}
  BY DEF Decisions!Codes
<1>3. CASE Authenticate(r)
  <2>1. CASE readable /\ Cardinality(Named(callers, want[r].token)) = 1
    <3>1. Shift(r, "authenticate", "validate")
      BY <1>3, <2>1 DEF Authenticate, Shift
    <3>2. QED
      BY <1>1, <3>1
  <2>2. CASE ~(readable /\ Cardinality(Named(callers, want[r].token)) = 1)
    <3>1. Choice(r, "authenticate", 401, Nobody)
      BY <1>2, <1>3, <2>2, Choices DEF Authenticate, Decide, Choice
    <3>2. QED
      BY <1>1, <3>1
  <2>3. QED
    BY <2>1, <2>2
<1>4. CASE Validate(r) /\ want[r].wellFormed
  <2>1. Shift(r, "validate", "evaluate")
    BY <1>4 DEF Validate, Shift
  <2>2. QED
    BY <1>1, <2>1
<1>5. CASE EvaluatePolicy(r)
  <2>1. PICK reason : reason = Evaluate(rec[r].terms, want[r], clock)
    OBVIOUS
  <2>2. CASE reason = "allow"
    <3>1. Shift(r, "evaluate", "clock")
      BY <1>5, <2>1, <2>2 DEF EvaluatePolicy, Shift
    <3>2. QED
      BY <1>1, <3>1
  <2>3. CASE reason # "allow"
    <3>1. Choice(r, "evaluate", 403, About(r, "deny", reason))
      BY <1>2, <1>5, <2>1, <2>3, Choices DEF EvaluatePolicy, Decide, Choice
    <3>2. QED
      BY <1>1, <3>1
  <2>4. QED
    BY <2>2, <2>3
<1>6. CASE ReadHour(r)
  <2>1. Shift(r, "clock", "sign") \/ Shift(r, "clock", "count")
    BY <1>6 DEF ReadHour, Shift
  <2>2. QED
    BY <1>1, <2>1
<1>7. CASE Count(r)
  <2>1. \/ Shift(r, "count", "sign")
        \/ Choice(r, "count", 429, About(r, "deny", "rate"))
    BY <1>2, <1>7, Choices DEF Count, Decide, Shift, Choice
  <2>2. QED
    BY <1>1, <2>1
<1>8. CASE LoadKeyAndSign(r)
  <2>1. pc[r] = "sign" /\ lines' = lines
    BY <1>8 DEF LoadKeyAndSign
  <2>2. \/ Decide(r, 200, About(r, "sign", "-"))
        \/ Decide(r, 404, About(r, "deny", "unavailable"))
    BY <1>8 DEF LoadKeyAndSign
  <2>3. \/ Choice(r, "sign", 200, About(r, "sign", "-"))
        \/ Choice(r, "sign", 404, About(r, "deny", "unavailable"))
    BY <1>2, <2>1, <2>2, Choices DEF Decide, Choice
  <2>4. QED
    BY <1>1, <2>3
<1>9. QED
  BY <1>3, <1>4, <1>5, <1>6, <1>7, <1>8

LEMMA ToldStep == DInv /\ [Next]_vars => DInv'
<1> SUFFICES ASSUME DInv, [Next]_vars, \A q \in Request : Tellable(q) PROVE DInv'
  <2> SUFFICES ASSUME DInv, [Next]_vars PROVE \A q \in Request : Tellable(q)
    OBVIOUS
  <2>1. /\ pc \in [Request -> Labels] /\ note \in [Request -> Body]
        /\ status \in [Request -> {0, 200, 400, 401, 403, 404, 429}]
    BY DEF DInv, IInv, TypeOK
  <2>2. "log" \notin Early
    BY DEF Early, Deciding
  <2>3. ASSUME NEW r \in Request, NEW to, to # "log", pc' = [pc EXCEPT ![r] = to],
               \A q \in Request \ {r} : status'[q] = status[q] /\ note'[q] = note[q]
        PROVE  \A q \in Request : Tellable(q)
    BY <2>1, <2>3 DEF Tellable
  <2>4. ASSUME Environment \/ UNCHANGED vars PROVE \A q \in Request : Tellable(q)
    <3>1. status' = status /\ note' = note
      BY <2>4 DEF Environment, Tick, Die, Boot, SpoilFile, DropCaller, PutCaller, EditCallers,
                  MakeKey, DropKey, EditKeys, handler, vars
    <3>2. \A q \in Request : pc'[q] = pc[q] \/ pc'[q] = "lost"
      BY <2>4 DEF Environment, Tick, Die, Boot, SpoilFile, DropCaller, PutCaller, EditCallers,
                  MakeKey, DropKey, EditKeys, vars
    <3>3. QED
      BY <3>1, <3>2 DEF Tellable
  <2>5. ASSUME NEW r \in Request, NEW w \in Wants, Arrive(r, w)
        PROVE  \A q \in Request : Tellable(q)
    BY <2>3, <2>5 DEF Arrive
  <2>6. ASSUME NEW r \in Request, Handle(r) PROVE \A q \in Request : Tellable(q)
    <3>1. CASE Log(r) \/ LogFails(r) \/ Reply(r)
      <4>1. status' = status /\ note' = note
        BY <3>1 DEF Log, LogFails, Reply, handler
      <4>2. pc' = [pc EXCEPT ![r] = "reply"] \/ pc' = [pc EXCEPT ![r] = "done"]
        BY <3>1 DEF Log, LogFails, Reply
      <4>3. QED
        BY <2>3, <4>1, <4>2
    <3>2. CASE Validate(r) /\ ~want[r].wellFormed
      <4>1. /\ pc' = [pc EXCEPT ![r] = "reply"] /\ note' = note
            /\ status' = [status EXCEPT ![r] = 400]
        BY <3>2 DEF Validate
      <4>2. \A q \in Request \ {r} : status'[q] = status[q] /\ note'[q] = note[q]
        BY <2>1, <4>1
      <4>3. QED
        BY <2>3, <4>1, <4>2
    <3>3. CASE \E from, to \in Early : Shift(r, from, to)
      BY <2>2, <2>3, <3>3 DEF Shift
    <3>4. CASE \E from, code, entry : Choice(r, from, code, entry)
      <4>1. PICK from, code, entry : Choice(r, from, code, entry)
        BY <3>4
      <4>2. /\ pc' = [pc EXCEPT ![r] = "log"]
            /\ status' = [status EXCEPT ![r] = code] /\ note' = [note EXCEPT ![r] = entry]
            /\ code \in Decisions!Codes \ {400} /\ Decisions!Tells(entry, r, code)
        BY <4>1 DEF Choice
      <4>3. status'[r] = code /\ note'[r] = entry
        BY <2>1, <4>2
      <4>4. Tellable(r)
        BY <4>2, <4>3 DEF Tellable
      <4>5. \A q \in Request \ {r} : Tellable(q)
        BY <2>1, <4>2 DEF Tellable
      <4>6. QED
        BY <4>4, <4>5
    <3>5. CASE \/ Authenticate(r) \/ (Validate(r) /\ want[r].wellFormed)
               \/ EvaluatePolicy(r) \/ ReadHour(r) \/ Count(r) \/ LoadKeyAndSign(r)
      <4>1. PICK from \in Early : \/ \E to \in Deciding : Shift(r, from, to)
                                \/ \E code, entry : Choice(r, from, code, entry)
        BY <3>5, DecidingSteps
      <4>2. QED
        BY <3>3, <3>4, <4>1 DEF Early
    <3>6. CASE Validate(r)
      BY <3>2, <3>5, <3>6, Zenon
    <3>7. QED
      BY <2>6, <3>1, <3>5, <3>6, Zenon DEF Handle
  <2>7. QED
    BY <2>4, <2>5, <2>6 DEF Next
<1>1. QED
  BY Inductive, TellableKeeps DEF DInv

\* The stage of a request whose handler is at l.
StageAt(l) ==
  IF l \in {"unsent", "lost"} THEN l
  ELSE IF l = "done" THEN "answered"
  ELSE IF l = "reply" THEN "decided" ELSE "open"

GoesTo(r, l) ==
  /\ pc' = [pc EXCEPT ![r] = l]
  /\ \A q \in Request \ {r} : status'[q] = status[q]

\* A handler's step on r changes the stage and the verdict of r alone.
LEMMA MapStep ==
  ASSUME IInv, NEW r \in Request, NEW l, GoesTo(r, l)
  PROVE  /\ Stage' = [Stage EXCEPT ![r] = StageAt(l)]
         /\ l \in {"reply", "done"} => Verdict' = [Verdict EXCEPT ![r] = status'[r]]
         /\ l \notin {"reply", "done"} => Verdict' = [Verdict EXCEPT ![r] = 0]
<1>1. /\ pc'[r] = l
      /\ \A q \in Request \ {r} : pc'[q] = pc[q] /\ status'[q] = status[q]
  BY DEF IInv, TypeOK, GoesTo
<1>2. Stage' = [Stage EXCEPT ![r] = StageAt(l)]
  BY <1>1 DEF Stage, StageAt
<1>3. ASSUME l \in {"reply", "done"} PROVE Verdict' = [Verdict EXCEPT ![r] = status'[r]]
  BY <1>1, <1>3 DEF Verdict
<1>4. ASSUME l \notin {"reply", "done"} PROVE Verdict' = [Verdict EXCEPT ![r] = 0]
  BY <1>1, <1>4 DEF Verdict
<1>5. QED
  BY <1>2, <1>3, <1>4

LEMMA SameExcept ==
  ASSUME NEW S, NEW f, f = [x \in S |-> f[x]], NEW r \in S, NEW v, f[r] = v
  PROVE  [f EXCEPT ![r] = v] = f
OBVIOUS

LEMMA SeqOf ==
  ASSUME NEW S, NEW n \in Nat, NEW f \in [1..n -> S]
  PROVE  f \in Seq(S) /\ Len(f) = n
<1>1. f \in Seq(S)
  BY SeqDef
<1>2. Len(f) \in Nat /\ 1..Len(f) = 1..n
  BY <1>1, LenProperties
<1>3. QED
  BY <1>1, <1>2

LEMMA SaidIsSeq ==
  ASSUME NEW file \in Seq(Entry)
  PROVE  /\ [i \in 1..Len(file) |-> file[i].body] \in Seq(Body)
         /\ Len([i \in 1..Len(file) |-> file[i].body]) = Len(file)
<1>1. Len(file) \in Nat /\ \A i \in 1..Len(file) : file[i].body \in Body
  <2>1. Len(file) \in Nat /\ \A i \in 1..Len(file) : file[i] \in Entry
    OBVIOUS
  <2>2. QED
    BY <2>1 DEF Entry
<1>2. [i \in 1..Len(file) |-> file[i].body] \in [1..Len(file) -> Body]
  BY <1>1
<1>3. QED
  BY <1>1, <1>2, SeqOf

\* The log of the daemon grows as that of DecisionLog.
LEMMA SaidGrows ==
  ASSUME LinesInv, NEW b \in Body, lines' = Append(lines, Link(lines, b))
  PROVE  Said' = Append(Said, b)
<1>1. PICK n : n = Len(lines)
  OBVIOUS
<1>2. n \in Nat /\ lines \in Seq(Entry) /\ lines' \in Seq(Entry)
  BY <1>1, LinkIsEntry DEF LinesInv
<1>3. /\ Len(lines') = n + 1
      /\ \A i \in 1..n : lines'[i] = lines[i]
      /\ lines'[n + 1].body = b
  <2>1. Append(lines, Link(lines, b)) \in Seq(Entry) /\ Link(lines, b).body = b
    BY <1>2 DEF Link
  <2>2. QED
    BY <1>1, <1>2, <2>1
<1>4. Said \in Seq(Body) /\ Len(Said) = n /\ Said' \in Seq(Body) /\ Len(Said') = n + 1
  BY <1>1, <1>2, <1>3, SaidIsSeq DEF Said
<1>5. /\ Append(Said, b) \in Seq(Body) /\ Len(Append(Said, b)) = n + 1
      /\ \A i \in 1..n : Append(Said, b)[i] = Said[i]
      /\ Append(Said, b)[n + 1] = b
  BY <1>4, AppendProperties
<1>6. /\ \A i \in 1..n : Said[i] = lines[i].body
      /\ \A i \in 1..(n + 1) : Said'[i] = lines'[i].body
  BY <1>1, <1>3 DEF Said
<1>7. \A i \in 1..(n + 1) : i \in 1..n \/ i = n + 1
  BY <1>2
<1>8. n + 1 \in 1..(n + 1) /\ \A i \in 1..n : i \in 1..(n + 1)
  BY <1>2
<1>9. \A i \in 1..(n + 1) : Said'[i] = Append(Said, b)[i]
  BY <1>3, <1>5, <1>6, <1>7, <1>8
<1>10. QED
  BY <1>4, <1>5, <1>9, SeqEqual

\* Seen from outside, a handler decides in one step, and no one else does anything
\* but send, get an answer or go down.
LEMMA RefineStep == DInv /\ [Next]_vars => [Decisions!Next]_(Decisions!vars)
<1> SUFFICES ASSUME DInv, [Next]_vars PROVE [Decisions!Next]_(Decisions!vars)
  OBVIOUS
<1>1. /\ IInv /\ LinesInv /\ pc \in [Request -> Labels] /\ note \in [Request -> Body]
      /\ status \in [Request -> {0, 200, 400, 401, 403, 404, 429}]
  BY DEF DInv, IInv, TypeOK
<1>2. "log" \notin Early /\ Early \cap {"reply", "done", "lost"} = {}
  BY DEF Early, Deciding
<1>3. Stage = [r \in Request |-> Stage[r]] /\ Verdict = [r \in Request |-> Verdict[r]]
  BY DEF Stage, Verdict
<1>4. ASSUME Stage' = Stage, Verdict' = Verdict, Said' = Said
      PROVE  [Decisions!Next]_(Decisions!vars)
  BY <1>4 DEF Decisions!vars
<1>5. ASSUME lines' = lines PROVE Said' = Said
  BY <1>5 DEF Said
<1>6. ASSUME NEW r \in Request, NEW from \in Open \ {"unsent"}, pc[r] = from,
             NEW to \in Open \ {"unsent"}, GoesTo(r, to), lines' = lines
      PROVE  [Decisions!Next]_(Decisions!vars)
  <2>1. from \notin {"unsent", "reply", "done", "lost"} /\ to \notin {"unsent", "reply", "done", "lost"}
    BY <1>2 DEF Open
  <2>2. Stage[r] = "open" /\ Verdict[r] = 0
    BY <1>6, <2>1 DEF Stage, Verdict
  <2>3. Stage' = [Stage EXCEPT ![r] = "open"] /\ Verdict' = [Verdict EXCEPT ![r] = 0]
    <3>1. StageAt(to) = "open" /\ to \notin {"reply", "done"}
      BY <2>1 DEF StageAt
    <3>2. QED
      BY <1>1, <1>6, <3>1, MapStep
  <2>4. Stage' = Stage /\ Verdict' = Verdict
    BY <1>3, <2>2, <2>3, SameExcept
  <2>5. QED
    BY <1>4, <1>5, <1>6, <2>4
<1>7. ASSUME NEW r \in Request, Handle(r) PROVE [Decisions!Next]_(Decisions!vars)
  <2>1. CASE \/ Authenticate(r) \/ (Validate(r) /\ want[r].wellFormed)
             \/ EvaluatePolicy(r) \/ ReadHour(r) \/ Count(r) \/ LoadKeyAndSign(r)
    <3>1. PICK from \in Early : \/ \E to \in Deciding : Shift(r, from, to)
                                \/ \E code, entry : Choice(r, from, code, entry)
      BY <2>1, DecidingSteps
    <3>2. from = pc[r] /\ from # "unsent" /\ "log" \in Open
      BY <2>1, <3>1 DEF Shift, Choice, Authenticate, Validate, EvaluatePolicy, ReadHour, Count,
                        LoadKeyAndSign, Open
    <3>3. PICK to \in Deciding \cup {"log"} : pc' = [pc EXCEPT ![r] = to]
      BY <3>1 DEF Shift, Choice
    <3>4. lines' = lines /\ GoesTo(r, to)
      <4>1. CASE \E l : Shift(r, from, l)
        BY <3>3, <4>1 DEF Shift, GoesTo
      <4>2. CASE \E code, entry : Choice(r, from, code, entry)
        <5>1. PICK code : status' = [status EXCEPT ![r] = code] /\ lines' = lines
          BY <4>2 DEF Choice
        <5>2. QED
          BY <1>1, <3>3, <5>1 DEF GoesTo
      <4>3. QED
        BY <3>1, <4>1, <4>2
    <3>5. to \in Open \ {"unsent"} /\ from \in Open \ {"unsent"}
      BY <3>2 DEF Open, Early, Deciding
    <3>6. QED
      BY <1>6, <3>2, <3>4, <3>5
  <2>2. CASE Validate(r) /\ ~want[r].wellFormed
    <3>1. /\ pc[r] = "validate" /\ pc' = [pc EXCEPT ![r] = "reply"] /\ lines' = lines
          /\ status' = [status EXCEPT ![r] = 400]
      BY <2>2 DEF Validate
    <3>2. Stage[r] = "open"
      BY <3>1 DEF Stage
    <3>3. Stage' = [Stage EXCEPT ![r] = "decided"] /\ Verdict' = [Verdict EXCEPT ![r] = 400]
      <4>1. StageAt("reply") = "decided" /\ status'[r] = 400
        BY <1>1, <3>1 DEF StageAt
      <4>2. GoesTo(r, "reply")
        BY <1>1, <3>1 DEF GoesTo
      <4>3. QED
        BY <1>1, <4>1, <4>2, MapStep
    <3>4. Decisions!Decide(r)
      BY <1>5, <3>1, <3>2, <3>3 DEF Decisions!Decide, Decisions!Record, Decisions!Codes
    <3>5. QED
      BY <3>4 DEF Decisions!Next
  <2>3. CASE Log(r) \/ LogFails(r)
    <3>1. /\ pc[r] = "log" /\ pc' = [pc EXCEPT ![r] = "reply"] /\ status' = status
      BY <2>3 DEF Log, LogFails, handler
    <3>2. Stage[r] = "open"
      BY <3>1 DEF Stage
    <3>3. /\ Stage' = [Stage EXCEPT ![r] = "decided"]
          /\ Verdict' = [Verdict EXCEPT ![r] = status[r]]
      <4>1. StageAt("reply") = "decided" /\ GoesTo(r, "reply")
        BY <3>1 DEF StageAt, GoesTo
      <4>2. QED
        BY <1>1, <3>1, <4>1, MapStep
    <3>4. /\ status[r] \in Decisions!Codes \ {400} /\ note[r] \in Body
          /\ Decisions!Tells(note[r], r, status[r])
      BY <1>1, <3>1 DEF DInv, ToldInv
    <3>5. Said' = Append(Said, note[r]) \/ (AppendMayFail /\ Said' = Said)
      <4>1. CASE Log(r)
        <5>1. lines' = Append(lines, Link(lines, note[r]))
          BY <4>1 DEF Log
        <5>2. QED
          BY <1>1, <3>4, <5>1, SaidGrows
      <4>2. CASE LogFails(r)
        BY <1>5, <4>2 DEF LogFails
      <4>3. QED
        BY <2>3, <4>1, <4>2
    <3>6. Decisions!Record(r, status[r])
      BY <3>4, <3>5 DEF Decisions!Record
    <3>7. Decisions!Decide(r)
      BY <3>2, <3>3, <3>4, <3>6 DEF Decisions!Decide
    <3>8. QED
      BY <3>7 DEF Decisions!Next
  <2>4. CASE Reply(r)
    <3>1. /\ pc[r] = "reply" /\ pc' = [pc EXCEPT ![r] = "done"] /\ lines' = lines
          /\ status' = status
      BY <2>4 DEF Reply, handler
    <3>2. Stage[r] = "decided" /\ Verdict[r] = status[r]
      BY <3>1 DEF Stage, Verdict
    <3>3. /\ Stage' = [Stage EXCEPT ![r] = "answered"]
          /\ Verdict' = [Verdict EXCEPT ![r] = status[r]]
      <4>1. StageAt("done") = "answered" /\ GoesTo(r, "done")
        BY <3>1 DEF StageAt, GoesTo
      <4>2. QED
        BY <1>1, <3>1, <4>1, MapStep
    <3>4. Verdict' = Verdict
      BY <1>3, <3>2, <3>3, SameExcept
    <3>5. Decisions!Answer(r)
      BY <1>5, <3>1, <3>2, <3>3, <3>4 DEF Decisions!Answer
    <3>6. QED
      BY <3>5 DEF Decisions!Next
  <2>5. CASE Validate(r)
    BY <2>1, <2>2, <2>5, Zenon
  <2>6. QED
    BY <1>7, <2>1, <2>3, <2>4, <2>5, Zenon DEF Handle
<1>8. ASSUME NEW r \in Request, NEW w \in Wants, Arrive(r, w)
      PROVE  [Decisions!Next]_(Decisions!vars)
  <2>1. /\ pc[r] = "unsent" /\ pc' = [pc EXCEPT ![r] = "authenticate"] /\ lines' = lines
        /\ status' = status
    BY <1>8 DEF Arrive
  <2>2. Stage[r] = "unsent" /\ Verdict[r] = 0
    BY <2>1 DEF Stage, Verdict
  <2>3. Stage' = [Stage EXCEPT ![r] = "open"] /\ Verdict' = [Verdict EXCEPT ![r] = 0]
    <3>1. StageAt("authenticate") = "open" /\ GoesTo(r, "authenticate")
      BY <2>1 DEF StageAt, GoesTo
    <3>2. QED
      BY <1>1, <3>1, MapStep
  <2>4. Verdict' = Verdict
    BY <1>3, <2>2, <2>3, SameExcept
  <2>5. Decisions!Submit(r)
    BY <1>5, <2>1, <2>2, <2>3, <2>4 DEF Decisions!Submit
  <2>6. QED
    BY <2>5 DEF Decisions!Next
<1>9. ASSUME Die PROVE [Decisions!Next]_(Decisions!vars)
  <2>1. /\ pc' = [r \in Request |-> IF InFlight(r) THEN "lost" ELSE pc[r]]
        /\ lines' = lines /\ status' = status
    BY <1>9 DEF Die, handler
  <2>2. \A r \in Request : InFlight(r) <=> Stage[r] \in {"open", "decided"}
    BY DEF Stage, InFlight
  <2>3. Stage' = [r \in Request |-> IF Stage[r] \in {"open", "decided"} THEN "lost" ELSE Stage[r]]
    <3>1. \A r \in Request : Stage'[r] = IF InFlight(r) THEN "lost" ELSE Stage[r]
      BY <2>1 DEF Stage
    <3>2. Stage' = [r \in Request |-> Stage'[r]]
      BY DEF Stage
    <3>3. QED
      BY <2>2, <3>1, <3>2
  <2>4. Verdict' = [r \in Request |-> IF Stage[r] = "decided" THEN 0 ELSE Verdict[r]]
    <3>1. \A r \in Request : Stage[r] = "decided" <=> pc[r] = "reply"
      BY DEF Stage
    <3>2. \A r \in Request : Verdict'[r] = IF pc[r] = "reply" THEN 0 ELSE Verdict[r]
      BY <2>1 DEF Verdict, InFlight
    <3>3. Verdict' = [r \in Request |-> Verdict'[r]]
      BY DEF Verdict
    <3>4. QED
      BY <3>1, <3>2, <3>3
  <2>5. Decisions!Crash
    BY <1>5, <2>1, <2>3, <2>4 DEF Decisions!Crash
  <2>6. QED
    BY <2>5 DEF Decisions!Next
<1>10. ASSUME UNCHANGED <<pc, status, lines>> PROVE [Decisions!Next]_(Decisions!vars)
  BY <1>4, <1>5, <1>10 DEF Stage, Verdict
<1>11. ASSUME Environment, ~Die PROVE UNCHANGED <<pc, status, lines>>
  BY <1>11 DEF Environment, Tick, Boot, SpoilFile, DropCaller, PutCaller, EditCallers,
               MakeKey, DropKey, EditKeys, handler
<1>12. QED
  BY <1>7, <1>8, <1>9, <1>10, <1>11 DEF Next, vars, handler

\* Whatever path a request takes through authed and handleSign, and whatever the
\* other requests and the operators do meanwhile, the daemon decides it at once:
\* one status, and, unless that is a 400, one entry that tells it, in the order of
\* the decisions (or none where Append failed).
THEOREM DecidesAtOnceCorrect == Spec => DecidesAtOnce
<1>1. Init => DInv
  BY StartInv DEF DInv, ToldInv, Init
<1>2. Init => Decisions!Init
  <2> SUFFICES ASSUME Init PROVE Decisions!Init
    OBVIOUS
  <2>1. \A r \in Request : pc[r] = "unsent"
    BY DEF Init
  <2>2. Said = <<>>
    BY DEF Init, Said
  <2>3. QED
    BY <2>1, <2>2 DEF Decisions!Init, Stage, Verdict
<1>3. QED
  BY <1>1, <1>2, ToldStep, RefineStep, PTL DEF Spec, DecidesAtOnce, Decisions!Spec
=============================================================================
