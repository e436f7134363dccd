----------------------------- MODULE CallerStore -----------------------------
(***************************************************************************)
(* What callers.json is to the people who run the booth: a table from      *)
(* caller names to tokens, changed by one registration or removal at a     *)
(* time.  A token is shown once its record is in force, and a removal is   *)
(* confirmed once its token is dead; a token is used for one               *)
(* registration and never again.  Nothing is promised once two commands    *)
(* have run at the same time.                                              *)
(***************************************************************************)
EXTENDS Integers

CONSTANTS Name, Token, NoToken

VARIABLES
  callers,   \* the token of each registered name
  used,      \* tokens that have been in the table
  shown,     \* tokens printed for the operator
  revoked,   \* tokens whose removal was confirmed
  lapsed     \* two commands have run at the same time

vars == <<callers, used, shown, revoked, lapsed>>

Live == {callers[n] : n \in Name} \ {NoToken}

Init ==
  /\ callers = [n \in Name |-> NoToken]
  /\ used = {} /\ shown = {} /\ revoked = {} /\ lapsed = FALSE

Register(n, k) ==
  /\ callers[n] = NoToken /\ k \notin used
  /\ callers' = [callers EXCEPT ![n] = k]
  /\ used' = used \cup {k}
  /\ UNCHANGED <<shown, revoked, lapsed>>

Show(k) ==
  /\ k \in Live \ shown
  /\ shown' = shown \cup {k}
  /\ UNCHANGED <<callers, used, revoked, lapsed>>

Remove(n) ==
  /\ callers[n] # NoToken
  /\ callers' = [callers EXCEPT ![n] = NoToken]
  /\ UNCHANGED <<used, shown, revoked, lapsed>>

Confirm(k) ==
  /\ k \in used \ Live
  /\ revoked' = revoked \cup {k}
  /\ UNCHANGED <<callers, used, shown, lapsed>>

Lapse == lapsed'

Next ==
  \/ Lapse
  \/ \E n \in Name : Remove(n) \/ \E k \in Token : Register(n, k)
  \/ \E k \in Token : Show(k) \/ Confirm(k)

Spec == Init /\ [][Next]_vars
=============================================================================
