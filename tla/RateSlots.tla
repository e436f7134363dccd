------------------------------ MODULE RateSlots ------------------------------
(***************************************************************************)
(* The rate window of one caller, as Server.allowRate keeps it: the hour   *)
(* it was opened for and the slots taken since.  A caller without an entry *)
(* in Server.windows has the window NoWindow, which is of no hour.         *)
(***************************************************************************)
EXTENDS Integers

NoWindow == [hour |-> -1, count |-> 0]

Window == [hour : Nat \cup {-1}, count : Nat]

\* Mutant: the window is opened once and never again.
CurrentForever(win, hour) ==
  IF win = NoWindow THEN [hour |-> hour, count |-> 0] ELSE win

\* The window a request that read the clock in this hour is counted in.
Current(win, hour) ==
  IF win.hour # hour THEN [hour |-> hour, count |-> 0] ELSE win

\* Mutant: > for >=.
HasSlotOffByOne(win, limit) == win.count <= limit

HasSlot(win, limit) == win.count < limit

TakeSlotOf(win) == [win EXCEPT !.count = @ + 1]
=============================================================================
