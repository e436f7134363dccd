----------------------------- MODULE RateWindow -----------------------------
(***************************************************************************)
(* Server.allowRate under concurrent requests, a running clock and daemon  *)
(* restarts.  The clock is read before s.mu is taken, so the hour a        *)
(* request is counted in may be over when it is counted.                   *)
(***************************************************************************)
EXTENDS RateSlots

CONSTANTS
  Caller,
  Handler,      \* request goroutines
  Limit,        \* RatePerHour of each caller; 0 is no limit
  MaxHour,      \* bound: the clock stops at this hour
  MaxRestarts   \* bound: restarts of the daemon in one hour

ASSUME RateAssumption ==
  Limit \in [Caller -> Nat] /\ MaxHour \in Nat /\ MaxRestarts \in Nat

VARIABLES
  hour,      \* the clock, in whole hours
  windows,   \* Server.windows
  pc,        \* per handler: where it is in allowRate, or its answer
  caller,    \* per handler: the caller it serves
  seen,      \* per handler: the hour it read
  granted,   \* history: slots granted to a caller since the hour began
  late,      \* history: requests of a caller counted since the hour began
             \* that had read the clock in an earlier hour
  restarts   \* history: restarts since the hour began

vars == <<hour, windows, pc, caller, seen, granted, late, restarts>>

Init ==
  /\ hour = 0
  /\ windows = [c \in Caller |-> NoWindow]
  /\ pc = [h \in Handler |-> "idle"]
  /\ caller \in [Handler -> Caller]
  /\ seen = [h \in Handler |-> 0]
  /\ granted = [c \in Caller |-> 0]
  /\ late = [c \in Caller |-> 0]
  /\ restarts = 0

\* handleSign calls allowRate for an authenticated caller whose policy allowed
\* the request.
Enter(h, c) ==
  /\ pc[h] = "idle"
  /\ pc' = [pc EXCEPT ![h] = "clock"]
  /\ caller' = [caller EXCEPT ![h] = c]
  /\ UNCHANGED <<hour, windows, seen, granted, late, restarts>>

\* Mutant: the hour is rounded up.
ReadClockRoundedUp(h) ==
  /\ pc[h] = "clock"
  /\ IF Limit[caller[h]] = 0
     THEN pc' = [pc EXCEPT ![h] = "granted"] /\ UNCHANGED seen
     ELSE pc' = [pc EXCEPT ![h] = "count"] /\ seen' = [seen EXCEPT ![h] = hour + 1]
  /\ UNCHANGED <<hour, windows, caller, granted, late, restarts>>

\* limit <= 0 is an early return; any other caller has the clock read, outside
\* the lock.
ReadClock(h) ==
  /\ pc[h] = "clock"
  /\ IF Limit[caller[h]] = 0
     THEN pc' = [pc EXCEPT ![h] = "granted"] /\ UNCHANGED seen
     ELSE pc' = [pc EXCEPT ![h] = "count"] /\ seen' = [seen EXCEPT ![h] = hour]
  /\ UNCHANGED <<hour, windows, caller, granted, late, restarts>>

\* Everything under s.mu.
Count(h) ==
  LET c == caller[h]
      win == Current(windows[c], seen[h])
      ok == HasSlot(win, Limit[c]) IN
  /\ pc[h] = "count"
  /\ windows' = [windows EXCEPT ![c] = IF ok THEN TakeSlotOf(win) ELSE win]
  /\ pc' = [pc EXCEPT ![h] = IF ok THEN "granted" ELSE "denied"]
  /\ granted' = [granted EXCEPT ![c] = IF ok THEN @ + 1 ELSE @]
  /\ late' = [late EXCEPT ![c] = IF seen[h] # hour THEN @ + 1 ELSE @]
  /\ UNCHANGED <<hour, caller, seen, restarts>>

\* The handler goes on to sign, or to answer 429.
Leave(h) ==
  /\ pc[h] \in {"granted", "denied"}
  /\ pc' = [pc EXCEPT ![h] = "idle"]
  /\ UNCHANGED <<hour, windows, caller, seen, granted, late, restarts>>

Tick ==
  /\ hour < MaxHour
  /\ hour' = hour + 1
  /\ granted' = [c \in Caller |-> 0]
  /\ late' = [c \in Caller |-> 0]
  /\ restarts' = 0
  /\ UNCHANGED <<windows, pc, caller, seen>>

\* The daemon dies or is stopped and serve starts a new Server.
Restart ==
  /\ restarts < MaxRestarts
  /\ restarts' = restarts + 1
  /\ windows' = [c \in Caller |-> NoWindow]
  /\ pc' = [h \in Handler |-> "idle"]
  /\ UNCHANGED <<hour, caller, seen, granted, late>>

Next ==
  \/ \E h \in Handler :
       (\E c \in Caller : Enter(h, c)) \/ ReadClock(h) \/ Count(h) \/ Leave(h)
  \/ Tick \/ Restart

Spec == Init /\ [][Next]_vars

-----------------------------------------------------------------------------

\* A counted request has read an hour the clock has reached (server.go:214), and
\* no window is of a later one.
TypeOK ==
  /\ hour \in 0..MaxHour /\ restarts \in 0..MaxRestarts
  /\ windows \in [Caller -> Window]
  /\ pc \in [Handler -> {"idle", "clock", "count", "granted", "denied"}]
  /\ caller \in [Handler -> Caller] /\ seen \in [Handler -> Nat]
  /\ granted \in [Caller -> Nat] /\ late \in [Caller -> Nat]
  /\ \A h \in Handler : seen[h] <= hour
  /\ \A c \in Caller : windows[c].hour <= hour

\* "fixed hourly window" (server.go:208), "signatures per hour" (README.md:110), as far
\* as the code keeps it: only a request counted in another hour than it read, and a
\* restart, open the window of the hour again, each once.  So a caller gets its limit
\* once, and once more for each of them.
HourlyBound ==
  \A c \in Caller : Limit[c] > 0 =>
    granted[c] <= Limit[c] * (1 + late[c] + restarts) + late[c]

\* A request counted in its own hour is turned away only after its caller got
\* all the slots of that hour (server.go:218-224): no window outlives its hour,
\* no caller pays for another.
DeniedForReason ==
  [][\A h \in Handler :
       pc[h] = "count" /\ pc'[h] = "denied" /\ seen[h] = hour
         => granted[caller[h]] >= Limit[caller[h]]]_vars
=============================================================================
