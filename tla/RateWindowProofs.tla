-------------------------- MODULE RateWindowProofs --------------------------
(***************************************************************************)
(* HourlyBound for any callers, handlers, limits and any number of hours   *)
(* and restarts.  Its strengthening counts the slots granted since the     *)
(* hour began in terms of the window that is open now: whenever that       *)
(* window is lost, at most Limit slots of it go unaccounted for, and what  *)
(* loses it is a late request or a restart.  DeniedForReason follows from  *)
(* the converse: the open window has no slots but granted ones.            *)
(***************************************************************************)
EXTENDS RateWindow, TLAPS

\* The slots of the open window that count for the hour that runs.
Open(c) == IF windows[c].hour = hour THEN windows[c].count ELSE 0

SlotsInv ==
  \A c \in Caller : Limit[c] > 0 =>
    /\ windows[c].count <= Limit[c]
    /\ granted[c] <= Limit[c] * (late[c] + restarts) + late[c] + Open(c)

IInv == TypeOK /\ SlotsInv

-----------------------------------------------------------------------------

LEMMA TimesNext ==
  ASSUME NEW a \in Nat, NEW b \in Nat
  PROVE  a * b \in Nat /\ a * (b + 1) = a * b + a
OBVIOUS

LEMMA TypeStep == TypeOK /\ [Next]_vars => TypeOK'
<1> SUFFICES ASSUME TypeOK, [Next]_vars PROVE TypeOK'
  OBVIOUS
<1> USE RateAssumption DEF TypeOK, Window, NoWindow
<1>1. ASSUME NEW h \in Handler, NEW c \in Caller, Enter(h, c) PROVE TypeOK'
  BY <1>1 DEF Enter
<1>2. ASSUME NEW h \in Handler, ReadClock(h) PROVE TypeOK'
  <2>1. CASE Limit[caller[h]] = 0
    BY <1>2, <2>1 DEF ReadClock
  <2>2. CASE Limit[caller[h]] # 0
    <3>1. seen' = [seen EXCEPT ![h] = hour] /\ hour \in Nat /\ hour' = hour
      BY <1>2, <2>2 DEF ReadClock
    <3>2. seen' \in [Handler -> Nat] /\ \A k \in Handler : seen'[k] <= hour'
      BY <3>1
    <3>3. QED
      BY <1>2, <2>2, <3>2 DEF ReadClock
  <2>3. QED
    BY <2>1, <2>2
<1>3. ASSUME NEW h \in Handler, Count(h) PROVE TypeOK'
  <2> DEFINE c == caller[h]
             win == Current(windows[c], seen[h])
             new == IF HasSlot(win, Limit[c]) THEN TakeSlotOf(win) ELSE win
  <2>1. win \in Window /\ win.hour = seen[h]
    BY DEF Current
  <2>2. new \in Window /\ new.hour = seen[h]
    BY <2>1 DEF TakeSlotOf
  <2>3. windows' = [windows EXCEPT ![c] = new]
    BY <1>3 DEF Count
  <2>4. windows' \in [Caller -> Window] /\ \A d \in Caller : windows'[d].hour <= hour
    BY <2>2, <2>3
  <2>5. granted' \in [Caller -> Nat] /\ late' \in [Caller -> Nat]
    BY <1>3 DEF Count
  <2>6. QED
    BY <1>3, <2>4, <2>5 DEF Count
<1>4. ASSUME NEW h \in Handler, Leave(h) PROVE TypeOK'
  BY <1>4 DEF Leave
<1>5. CASE Tick
  BY <1>5 DEF Tick
<1>6. CASE Restart
  BY <1>6 DEF Restart
<1>7. CASE UNCHANGED vars
  BY <1>7 DEF vars
<1>8. QED
  BY <1>1, <1>2, <1>3, <1>4, <1>5, <1>6, <1>7 DEF Next

LEMMA SlotsStep == IInv /\ [Next]_vars => SlotsInv'
<1> SUFFICES ASSUME IInv, [Next]_vars PROVE SlotsInv'
  OBVIOUS
<1> USE RateAssumption DEF IInv
<1>1. ASSUME NEW h \in Handler,
             (\E c \in Caller : Enter(h, c)) \/ ReadClock(h) \/ Leave(h)
      PROVE  SlotsInv'
  BY <1>1 DEF Enter, ReadClock, Leave, SlotsInv, Open
<1>2. ASSUME NEW h \in Handler, Count(h) PROVE SlotsInv'
  <2> SUFFICES ASSUME NEW c \in Caller, Limit[c] > 0
               PROVE  /\ windows'[c].count <= Limit[c]
                      /\ granted'[c] <= Limit[c] * (late'[c] + restarts') + late'[c]
                                        + Open(c)'
    BY DEF SlotsInv
  <2>1. CASE c # caller[h]
    BY <1>2, <2>1 DEF Count, SlotsInv, Open, TypeOK
  <2>2. CASE c = caller[h]
    <3> DEFINE old == windows[c]
               win == Current(old, seen[h])
               new == IF HasSlot(win, Limit[c]) THEN TakeSlotOf(win) ELSE win
               g == IF HasSlot(win, Limit[c]) THEN 1 ELSE 0
    <3>1. /\ old \in Window /\ Limit[c] \in Nat /\ late[c] \in Nat
          /\ granted[c] \in Nat /\ restarts \in Nat /\ hour \in Nat
          /\ seen[h] \in Nat /\ old.count <= Limit[c]
          /\ granted[c] <= Limit[c] * (late[c] + restarts) + late[c] + Open(c)
      BY DEF TypeOK, SlotsInv
    <3>2. /\ windows'[c] = new /\ hour' = hour /\ restarts' = restarts
          /\ granted'[c] = granted[c] + g
          /\ late'[c] = IF seen[h] # hour THEN late[c] + 1 ELSE late[c]
      BY <1>2, <2>2, <3>1 DEF Count, TypeOK
    <3>3. /\ new.hour = seen[h] /\ new.count = win.count + g
          /\ win.count = (IF old.hour = seen[h] THEN old.count ELSE 0)
          /\ new.count <= Limit[c] /\ g \in {0, 1} /\ new.count \in Nat
      BY <3>1 DEF Current, HasSlot, TakeSlotOf, Window
    <3>4. CASE seen[h] = hour
      <4>1. Open(c) = win.count /\ Open(c)' = win.count + g
        BY <3>2, <3>3, <3>4 DEF Open
      <4>2. Limit[c] * (late[c] + restarts) \in Nat /\ win.count \in Nat
        BY <3>1, <3>3 DEF Window
      <4>3. late'[c] = late[c]
        BY <3>2, <3>4
      <4>4. QED
        BY <3>1, <3>2, <3>3, <4>1, <4>2, <4>3
    <3>5. CASE seen[h] # hour
      <4>1. Open(c) <= Limit[c] /\ Open(c) \in Nat /\ Open(c)' = 0
        BY <3>1, <3>2, <3>3, <3>5 DEF Open, Window
      <4>2. /\ Limit[c] * (late[c] + restarts) \in Nat
            /\ Limit[c] * (late[c] + restarts + 1)
                 = Limit[c] * (late[c] + restarts) + Limit[c]
        BY <3>1, TimesNext
      <4>3. late'[c] = late[c] + 1 /\ late'[c] + restarts' = late[c] + restarts + 1
        BY <3>1, <3>2, <3>5
      <4>4. granted[c] + g <= Limit[c] * (late[c] + restarts) + Limit[c] + late[c] + 1
        BY <3>1, <3>3, <4>1, <4>2
      <4>5. granted[c] + g <= Limit[c] * (late[c] + restarts + 1) + (late[c] + 1)
        BY <3>1, <4>2, <4>4
      <4>6. QED
        BY <3>1, <3>2, <3>3, <4>1, <4>2, <4>3, <4>5
    <3>6. QED
      BY <3>4, <3>5
  <2>3. QED
    BY <2>1, <2>2
<1>3. CASE Tick
  <2>1. ASSUME NEW c \in Caller
        PROVE  granted'[c] = 0 /\ late'[c] = 0 /\ restarts' = 0 /\ Open(c)' = 0
    BY <1>3 DEF Tick, TypeOK, Open, Window
  <2>2. QED
    BY <1>3, <2>1 DEF Tick, SlotsInv, TypeOK
<1>4. CASE Restart
  <2> SUFFICES ASSUME NEW c \in Caller, Limit[c] > 0
               PROVE  /\ windows'[c].count <= Limit[c]
                      /\ granted'[c] <= Limit[c] * (late'[c] + restarts') + late'[c]
                                        + Open(c)'
    BY DEF SlotsInv
  <2>1. /\ Limit[c] \in Nat /\ late[c] \in Nat /\ granted[c] \in Nat
        /\ restarts \in Nat /\ Open(c) \in Nat /\ Open(c) <= Limit[c]
        /\ granted[c] <= Limit[c] * (late[c] + restarts) + late[c] + Open(c)
    BY DEF TypeOK, SlotsInv, Open, Window
  <2>2. /\ Limit[c] * (late[c] + restarts) \in Nat
        /\ Limit[c] * (late[c] + restarts + 1)
             = Limit[c] * (late[c] + restarts) + Limit[c]
    BY <2>1, TimesNext
  <2>3. /\ granted' = granted /\ late' = late /\ windows'[c].count = 0
        /\ Open(c)' = 0 /\ late[c] + restarts' = late[c] + restarts + 1
    BY <1>4, <2>1 DEF Restart, NoWindow, TypeOK, Open
  <2>4. granted[c] <= Limit[c] * (late[c] + restarts + 1) + late[c]
    BY <2>1, <2>2
  <2>5. QED
    BY <2>1, <2>3, <2>4
<1>5. CASE UNCHANGED vars
  BY <1>5 DEF vars, SlotsInv, Open
<1>6. QED
  BY <1>1, <1>2, <1>3, <1>4, <1>5 DEF Next

LEMMA Inductive == Spec => []IInv
<1>1. Init => IInv
  <2>1. Init => TypeOK
    BY RateAssumption DEF Init, TypeOK, Window, NoWindow
  <2>2. Init => SlotsInv
    BY RateAssumption DEF Init, SlotsInv, Open, NoWindow
  <2>3. QED
    BY <2>1, <2>2 DEF IInv
<1>2. IInv /\ [Next]_vars => IInv'
  BY TypeStep, SlotsStep DEF IInv
<1>3. QED
  BY <1>1, <1>2, PTL DEF Spec

\* Every variable keeps its type; no request has read, and no window is of, an hour
\* that has not begun (server.go:214-220).
THEOREM TypeCorrect == Spec => []TypeOK
<1>1. IInv => TypeOK
  BY DEF IInv
<1>2. QED
  BY <1>1, Inductive, PTL

\* What allowRate keeps of "signatures per hour" (server.go:208-227): a caller
\* gets its limit once an hour, and at most its limit and one slot more for each
\* request that is counted in another hour than it read, and its limit more for
\* each restart of the daemon.
THEOREM HourlyBoundCorrect == Spec => []HourlyBound
<1>1. ASSUME IInv PROVE HourlyBound
  <2> SUFFICES ASSUME NEW c \in Caller, Limit[c] > 0
               PROVE  granted[c] <= Limit[c] * (1 + late[c] + restarts) + late[c]
    BY DEF HourlyBound
  <2>1. /\ Limit[c] \in Nat /\ late[c] \in Nat /\ granted[c] \in Nat
        /\ restarts \in Nat /\ Open(c) \in Nat /\ Open(c) <= Limit[c]
        /\ granted[c] <= Limit[c] * (late[c] + restarts) + late[c] + Open(c)
    BY <1>1, RateAssumption DEF IInv, TypeOK, SlotsInv, Open, Window
  <2>2. /\ Limit[c] * (late[c] + restarts) \in Nat
        /\ Limit[c] * (late[c] + restarts + 1)
             = Limit[c] * (late[c] + restarts) + Limit[c]
    BY <2>1, TimesNext
  <2>3. 1 + late[c] + restarts = late[c] + restarts + 1
    BY <2>1
  <2>4. QED
    BY <2>1, <2>2, <2>3
<1>2. QED
  BY <1>1, Inductive, PTL

-----------------------------------------------------------------------------

\* The window that is open now has no slots taken but those of this hour.
GrantedInv == \A c \in Caller : Open(c) <= granted[c]

LEMMA GrantedStep == TypeOK /\ GrantedInv /\ [Next]_vars => GrantedInv'
<1> SUFFICES ASSUME TypeOK, GrantedInv, [Next]_vars PROVE GrantedInv'
  OBVIOUS
<1> USE RateAssumption
<1>1. ASSUME NEW h \in Handler,
             (\E c \in Caller : Enter(h, c)) \/ ReadClock(h) \/ Leave(h)
      PROVE  GrantedInv'
  BY <1>1 DEF Enter, ReadClock, Leave, GrantedInv, Open
<1>2. ASSUME NEW h \in Handler, Count(h) PROVE GrantedInv'
  <2> SUFFICES ASSUME NEW c \in Caller PROVE Open(c)' <= granted'[c]
    BY DEF GrantedInv
  <2>1. CASE c # caller[h]
    BY <1>2, <2>1 DEF Count, GrantedInv, Open, TypeOK
  <2>2. CASE c = caller[h]
    <3> DEFINE win == Current(windows[c], seen[h])
               ok == HasSlot(win, Limit[c])
               new == IF ok THEN TakeSlotOf(win) ELSE win
               g == IF ok THEN 1 ELSE 0
    <3>1. /\ windows[c] \in Window /\ granted[c] \in Nat /\ hour \in Nat /\ seen[h] \in Nat
          /\ Open(c) <= granted[c]
      BY DEF TypeOK, GrantedInv
    <3>2. windows'[c] = new /\ hour' = hour /\ granted'[c] = granted[c] + g
      BY <1>2, <2>2, <3>1 DEF Count, TypeOK
    <3>3. /\ new.hour = seen[h] /\ new.count = win.count + g /\ win.count \in Nat
          /\ win.count = (IF windows[c].hour = seen[h] THEN windows[c].count ELSE 0)
      BY <3>1 DEF Current, TakeSlotOf, Window
    <3>4. CASE seen[h] = hour
      BY <3>1, <3>2, <3>3, <3>4 DEF Open
    <3>5. CASE seen[h] # hour
      BY <3>1, <3>2, <3>3, <3>5 DEF Open
    <3>6. QED
      BY <3>4, <3>5
  <2>3. QED
    BY <2>1, <2>2
<1>3. CASE Tick
  <2>1. ASSUME NEW c \in Caller PROVE granted'[c] = 0 /\ Open(c)' = 0
    BY <1>3 DEF Tick, TypeOK, Open, Window
  <2>2. QED
    BY <2>1 DEF GrantedInv
<1>4. CASE Restart
  <2>1. ASSUME NEW c \in Caller PROVE granted'[c] \in Nat /\ Open(c)' = 0
    BY <1>4 DEF Restart, NoWindow, TypeOK, Open
  <2>2. QED
    BY <2>1 DEF GrantedInv
<1>5. CASE UNCHANGED vars
  BY <1>5 DEF vars, GrantedInv, Open
<1>6. QED
  BY <1>1, <1>2, <1>3, <1>4, <1>5 DEF Next

LEMMA GrantedInvariant == Spec => []GrantedInv
<1>1. Init => GrantedInv
  BY DEF Init, GrantedInv, Open, NoWindow
<1>2. QED
  BY <1>1, GrantedStep, TypeCorrect, PTL DEF Spec

\* Only Count turns a request away.
LEMMA DeniedByCount ==
  ASSUME TypeOK, Next, NEW h \in Handler, pc[h] = "count", pc'[h] = "denied"
  PROVE  Count(h)
<1>1. ~Tick
  BY DEF Tick
<1>2. ~Restart
  BY DEF Restart
<1>3. PICK k \in Handler : (\E c \in Caller : Enter(k, c)) \/ ReadClock(k) \/ Count(k) \/ Leave(k)
  BY <1>1, <1>2 DEF Next
<1>4. ~\E c \in Caller : Enter(k, c)
  BY DEF Enter, TypeOK
<1>5. ~ReadClock(k)
  BY DEF ReadClock, TypeOK
<1>6. ~Leave(k)
  BY DEF Leave, TypeOK
<1>7. k = h
  BY <1>3, <1>4, <1>5, <1>6 DEF Count, TypeOK
<1>8. QED
  BY <1>3, <1>4, <1>5, <1>6, <1>7

\* Nobody is turned away early (server.go:218-224): a request counted in its own hour
\* is denied only after its caller got all the slots of that hour, whatever requests
\* were late and however often the daemon was restarted.
THEOREM DeniedForReasonCorrect == Spec => DeniedForReason
<1> DEFINE Denied(h) == pc[h] = "count" /\ pc'[h] = "denied" /\ seen[h] = hour
<1>1. ASSUME TypeOK, GrantedInv, [Next]_vars, NEW h \in Handler, Denied(h)
      PROVE  granted[caller[h]] >= Limit[caller[h]]
  <2> DEFINE c == caller[h]
             win == Current(windows[c], seen[h])
  <2>1. Next
    BY <1>1 DEF vars
  <2>2. Count(h)
    BY <1>1, <2>1, DeniedByCount
  <2>3. /\ c \in Caller /\ Limit[c] \in Nat /\ granted[c] \in Nat /\ windows[c] \in Window
        /\ Open(c) <= granted[c] /\ seen[h] = hour /\ hour \in Nat
    BY <1>1, RateAssumption DEF TypeOK, GrantedInv
  <2>4. ~HasSlot(win, Limit[c])
    BY <1>1, <2>2 DEF Count, TypeOK
  <2>5. win.count = Open(c) /\ win.count \in Nat
    BY <2>3 DEF Current, Open, Window
  <2>6. QED
    BY <2>3, <2>4, <2>5 DEF HasSlot
<1>2. TypeOK /\ GrantedInv /\ [Next]_vars
        => [\A h \in Handler : Denied(h) => granted[caller[h]] >= Limit[caller[h]]]_vars
  BY <1>1
<1>3. QED
  BY <1>2, TypeCorrect, GrantedInvariant, PTL DEF Spec, DeniedForReason
=============================================================================
