----------------------------- MODULE DecisionLog -----------------------------
(***************************************************************************)
(* What the daemon promises of its answers and its audit log, without the  *)
(* handler's steps: each request is decided in one instant, and in that    *)
(* instant the log gains the one entry that tells the decision.  A request *)
(* that was turned away as malformed is not logged; a daemon that dies     *)
(* loses the requests it has not answered, decided or not.                 *)
(***************************************************************************)
EXTENDS Integers, Sequences

CONSTANTS
  Request,   \* sign requests
  Body,      \* what the log can say
  NoDigest,  \* the digest of an entry about nobody's request
  MayDrop    \* TRUE if an entry may be dropped

VARIABLES
  stage,     \* per request: how far it has come
  verdict,   \* per request: the status it was decided with, or 0
  book       \* what the log says, oldest first

vars == <<stage, verdict, book>>

Codes == {200, 400, 401, 403, 404, 429}

\* Entry b tells that r was answered with code.
Tells(b, r, code) ==
  /\ b.action = CASE code = 200 -> "sign" [] code = 401 -> "auth-reject" [] OTHER -> "deny"
  /\ b.digest = IF code = 401 THEN NoDigest ELSE r

Init ==
  /\ stage = [r \in Request |-> "unsent"]
  /\ verdict = [r \in Request |-> 0]
  /\ book = <<>>

Submit(r) ==
  /\ stage[r] = "unsent"
  /\ stage' = [stage EXCEPT ![r] = "open"]
  /\ UNCHANGED <<verdict, book>>

Record(r, code) ==
  \/ code # 400 /\ \E b \in Body : Tells(b, r, code) /\ book' = Append(book, b)
  \/ (code = 400 \/ MayDrop) /\ UNCHANGED book

Decide(r) ==
  /\ stage[r] = "open"
  /\ stage' = [stage EXCEPT ![r] = "decided"]
  /\ \E code \in Codes : verdict' = [verdict EXCEPT ![r] = code] /\ Record(r, code)

Answer(r) ==
  /\ stage[r] = "decided"
  /\ stage' = [stage EXCEPT ![r] = "answered"]
  /\ UNCHANGED <<verdict, book>>

Crash ==
  /\ stage' = [r \in Request |-> IF stage[r] \in {"open", "decided"} THEN "lost" ELSE stage[r]]
  /\ verdict' = [r \in Request |-> IF stage[r] = "decided" THEN 0 ELSE verdict[r]]
  /\ UNCHANGED book

Next ==
  \/ \E r \in Request : Submit(r) \/ Decide(r) \/ Answer(r)
  \/ Crash

Spec == Init /\ [][Next]_vars
=============================================================================
