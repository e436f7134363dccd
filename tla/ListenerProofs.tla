---------------------------- MODULE ListenerProofs ----------------------------
(***************************************************************************)
(* The socket file, for any number of processes and starts.                *)
(* What a daemon meets at the path depends on what the others are up to:   *)
(* SocketInv ties every socket to the step of its process, LoneInv says    *)
(* what there can be besides a daemon that started alone, and SoloInv what *)
(* there can be as long as no two have been starting at the same time.     *)
(***************************************************************************)
EXTENDS Listener, TLAPS

Past == {"remove", "bind", "listen", "chmod"}   \* the probe, or a stat that found nothing

SocketInv ==
  /\ \A p \in Proc : own[p] <= begun
  /\ \A p, q \in Proc : p # q /\ own[p] = own[q] => own[p] = Nothing
  /\ \A s \in Socket : s > begun => socket[s] = "none"
  /\ \A s \in Socket : socket[s] \in {"bound", "listening"} =>
       \E p \in Proc : own[p] = s /\ pc[p] \notin Down
  /\ \A p \in Proc : pc[p] \notin Down =>
       /\ own[p] \in Socket
       /\ socket[own[p]] = CASE pc[p] \in {"stat", "probe", "remove", "bind"} -> "none"
                             [] pc[p] = "listen" -> "bound"
                             [] OTHER -> "listening"

LoneInv ==
  \A p \in Proc : alone[p] =>
    /\ pc[p] \in Starting => \A q \in Proc \ {p} : pc[q] \in Down
    /\ pc[p] = "serving" => \A q \in Proc \ {p} : pc[q] \in Down \cup {"stat", "probe"}
    /\ pc[p] \in {"probe", "remove"} => path \in Socket /\ ~Answers
    /\ pc[p] = "bind" => path = Nothing
    /\ pc[p] \in {"listen", "chmod", "serving"} => path = own[p]

SoloInv ==
  overlapped \/
    /\ \A p, q \in Proc : pc[p] \in Starting /\ pc[q] \in Starting => p = q
    /\ \A p \in Proc : pc[p] \in {"serving", "unlink"} =>
         path = own[p] /\ \A q \in Proc \ {p} : pc[q] \notin Past \cup {"serving", "unlink"}
    /\ \A p \in Proc : pc[p] \in {"listen", "chmod"} => path = own[p]

IInv == TypeOK /\ SocketInv /\ LoneInv /\ SoloInv
-----------------------------------------------------------------------------

LEMMA TypeStep == IInv /\ [Next]_vars => TypeOK'
<1> SUFFICES ASSUME IInv, [Next]_vars PROVE TypeOK'
  OBVIOUS
<1> USE ListenerAssumption DEF IInv, TypeOK, SocketInv, Starting, Down, Socket, Nothing, Plain
<1>1. ASSUME NEW p \in Proc, Begin(p) PROVE TypeOK'
  <2>1. begun \in Nat /\ begun < MaxStarts /\ begun' = begun + 1
    BY <1>1 DEF Begin
  <2>2. own' \in [Proc -> Socket \cup {Nothing}] /\ begun' \in 0..MaxStarts
    BY <1>1, <2>1 DEF Begin
  <2>3. alone' \in [Proc -> BOOLEAN] /\ overlapped' \in BOOLEAN
    BY <1>1, Zenon DEF Begin
  <2>4. path' = path /\ socket' = socket /\ pc' = [pc EXCEPT ![p] = "stat"]
    BY <1>1 DEF Begin, Goto
  <2>5. \A q \in Proc : pc'[q] \in Down => pc[q] \in Down /\ own'[q] = own[q]
    BY <1>1, <2>4 DEF Begin
  <2>6. QED
    BY <2>2, <2>3, <2>4, <2>5
<1>2. ASSUME NEW p \in Proc, Stat(p) PROVE TypeOK'
  BY <1>2 DEF Stat, Goto, history
<1>3. ASSUME NEW p \in Proc, Probe(p) PROVE TypeOK'
  BY <1>3 DEF Probe, Goto, history, Answers
<1>4. ASSUME NEW p \in Proc, Remove(p) PROVE TypeOK'
  BY <1>4 DEF Remove, Goto, history
<1>5. ASSUME NEW p \in Proc, Bind(p) PROVE TypeOK'
  <2>1. CASE path = Nothing /\ path' = own[p] /\ socket' = [socket EXCEPT ![own[p]] = "bound"]
             /\ pc' = [pc EXCEPT ![p] = "listen"]
    <3>1. own[p] \in Socket /\ \A q \in Proc : pc[q] \in Down => own[q] # own[p]
      BY <1>5 DEF Bind
    <3>2. QED
      BY <1>5, <2>1, <3>1 DEF Bind, history
  <2>2. CASE pc' = [pc EXCEPT ![p] = "failed"] /\ UNCHANGED <<path, socket>>
    BY <1>5, <2>2 DEF Bind, history
  <2>3. QED
    BY <1>5, <2>1, <2>2 DEF Bind, Goto
<1>6. ASSUME NEW p \in Proc, Listen(p) PROVE TypeOK'
  BY <1>6 DEF Listen, Goto, history
<1>7. ASSUME NEW p \in Proc, Chmod(p) PROVE TypeOK'
  BY <1>7 DEF Chmod, Goto, history
<1>8. ASSUME NEW p \in Proc, Unlink(p) PROVE TypeOK'
  BY <1>8 DEF Unlink, Goto, history
<1>9. ASSUME NEW p \in Proc, Close(p) PROVE TypeOK'
  BY <1>9 DEF Close, Goto, history
<1>10. ASSUME NEW p \in Proc, Stop(p) PROVE TypeOK'
  BY <1>10 DEF Stop, Goto, history
<1>11. ASSUME NEW p \in Proc, Crash(p) PROVE TypeOK'
  BY <1>11 DEF Crash, Goto, history
<1>12. CASE UNCHANGED vars
  BY <1>12 DEF vars
<1>13. QED
  BY <1>1, <1>2, <1>3, <1>4, <1>5, <1>6, <1>7, <1>8, <1>9, <1>10, <1>11, <1>12 DEF Next, Proceed

LEMMA SocketStep == IInv /\ [Next]_vars => SocketInv'
<1> SUFFICES ASSUME IInv, [Next]_vars PROVE SocketInv'
  OBVIOUS
<1> USE ListenerAssumption DEF IInv, TypeOK, SocketInv, Starting, Down, Socket, Nothing, Plain
<1>1. ASSUME NEW p \in Proc, Begin(p) PROVE SocketInv'
  BY <1>1, SMTT(20) DEF Begin, Goto
<1>2. ASSUME NEW p \in Proc, Stat(p) PROVE SocketInv'
  BY <1>2 DEF Stat, Goto, history
<1>3. ASSUME NEW p \in Proc, Probe(p) PROVE SocketInv'
  BY <1>3 DEF Probe, Goto, history, Answers
<1>4. ASSUME NEW p \in Proc, Remove(p) PROVE SocketInv'
  BY <1>4 DEF Remove, Goto, history
<1>5. ASSUME NEW p \in Proc, Bind(p) PROVE SocketInv'
  BY <1>5 DEF Bind, Goto, history
<1>6. ASSUME NEW p \in Proc, Listen(p) PROVE SocketInv'
  BY <1>6 DEF Listen, Goto, history
<1>7. ASSUME NEW p \in Proc, Chmod(p) PROVE SocketInv'
  BY <1>7 DEF Chmod, Goto, history
<1>8. ASSUME NEW p \in Proc, Unlink(p) PROVE SocketInv'
  BY <1>8 DEF Unlink, Goto, history
<1>9. ASSUME NEW p \in Proc, Close(p) PROVE SocketInv'
  BY <1>9 DEF Close, Goto, history
<1>10. ASSUME NEW p \in Proc, Stop(p) PROVE SocketInv'
  BY <1>10 DEF Stop, Goto, history
<1>11. ASSUME NEW p \in Proc, Crash(p) PROVE SocketInv'
  BY <1>11 DEF Crash, Goto, history
<1>12. CASE UNCHANGED vars
  BY <1>12 DEF vars
<1>13. QED
  BY <1>1, <1>2, <1>3, <1>4, <1>5, <1>6, <1>7, <1>8, <1>9, <1>10, <1>11, <1>12 DEF Next, Proceed

LEMMA LoneStep == IInv /\ [Next]_vars => LoneInv'
<1> SUFFICES ASSUME IInv, [Next]_vars PROVE LoneInv'
  OBVIOUS
<1> USE ListenerAssumption DEF IInv, TypeOK, SocketInv, LoneInv, Starting, Down, Socket, Nothing, Plain
<1>1. ASSUME NEW p \in Proc, Begin(p) PROVE LoneInv'
  <2> DEFINE others == {q \in Proc : pc[q] \notin Down}
  <2>1. /\ path' = path /\ socket' = socket /\ pc' = [pc EXCEPT ![p] = "stat"]
        /\ pc[p] \in Down /\ own' = [own EXCEPT ![p] = begun + 1]
    BY <1>1 DEF Begin, Goto
  <2>2. \A q \in Proc : alone'[q] =
          (IF q = p THEN others = {} ELSE alone[q] /\ pc[q] \notin Starting)
    BY <1>1 DEF Begin
  <2> SUFFICES ASSUME NEW q \in Proc, alone'[q]
               PROVE  /\ pc'[q] \in Starting => \A r \in Proc \ {q} : pc'[r] \in Down
                      /\ pc'[q] = "serving" =>
                           \A r \in Proc \ {q} : pc'[r] \in Down \cup {"stat", "probe"}
                      /\ pc'[q] \in {"probe", "remove"} => path' \in Socket /\ ~Answers'
                      /\ pc'[q] = "bind" => path' = Nothing
                      /\ pc'[q] \in {"listen", "chmod", "serving"} => path' = own'[q]
    BY DEF LoneInv
  <2>3. CASE q = p
    <3>1. \A r \in Proc : pc[r] \in Down
      BY <2>2, <2>3
    <3>2. QED
      BY <2>1, <2>3, <3>1
  <2>4. CASE q # p
    <3>1. alone[q] /\ pc[q] \notin Starting
      BY <2>2, <2>4
    <3>2. pc'[q] = pc[q] /\ own'[q] = own[q]
      BY <2>1, <2>4
    <3>3. QED
      BY <2>1, <2>4, <3>1, <3>2
  <2>5. QED
    BY <2>3, <2>4
<1>2. ASSUME NEW p \in Proc, Stat(p) PROVE LoneInv'
  BY <1>2 DEF Stat, Goto, history, Answers
<1>3. ASSUME NEW p \in Proc, Probe(p) PROVE LoneInv'
  BY <1>3 DEF Probe, Goto, history, Answers
<1>4. ASSUME NEW p \in Proc, Remove(p) PROVE LoneInv'
  BY <1>4 DEF Remove, Goto, history, Answers
<1>5. ASSUME NEW p \in Proc, Bind(p) PROVE LoneInv'
  BY <1>5 DEF Bind, Goto, history, Answers
<1>6. ASSUME NEW p \in Proc, Listen(p) PROVE LoneInv'
  BY <1>6 DEF Listen, Goto, history, Answers
<1>7. ASSUME NEW p \in Proc, Chmod(p) PROVE LoneInv'
  BY <1>7 DEF Chmod, Goto, history, Answers
<1>8. ASSUME NEW p \in Proc, Unlink(p) PROVE LoneInv'
  BY <1>8 DEF Unlink, Goto, history, Answers
<1>9. ASSUME NEW p \in Proc, Close(p) PROVE LoneInv'
  BY <1>9 DEF Close, Goto, history, Answers
<1>10. ASSUME NEW p \in Proc, Stop(p) PROVE LoneInv'
  BY <1>10 DEF Stop, Goto, history, Answers
<1>11. ASSUME NEW p \in Proc, Crash(p) PROVE LoneInv'
  BY <1>11 DEF Crash, Goto, history, Answers
<1>12. CASE UNCHANGED vars
  BY <1>12 DEF vars, Answers
<1>13. QED
  BY <1>1, <1>2, <1>3, <1>4, <1>5, <1>6, <1>7, <1>8, <1>9, <1>10, <1>11, <1>12 DEF Next, Proceed

LEMMA SoloStep == IInv /\ [Next]_vars => SoloInv'
<1> SUFFICES ASSUME IInv, [Next]_vars PROVE SoloInv'
  OBVIOUS
<1> USE ListenerAssumption DEF IInv, TypeOK, SocketInv, SoloInv, Past, Starting, Down, Socket, Nothing, Plain
<1>1. ASSUME NEW p \in Proc, Begin(p) PROVE SoloInv'
  <2>1. /\ path' = path /\ pc' = [pc EXCEPT ![p] = "stat"] /\ pc[p] \in Down
        /\ own' = [own EXCEPT ![p] = begun + 1]
    BY <1>1 DEF Begin, Goto
  <2>2. overlapped' = (overlapped \/ \E q \in Proc : pc[q] \notin Down /\ pc[q] \in Starting)
    BY <1>1, Zenon DEF Begin
  <2>3. CASE overlapped'
    BY <2>3
  <2>4. CASE ~overlapped'
    <3>1. ~overlapped /\ \A q \in Proc : pc[q] \notin Starting
      BY <2>2, <2>4
    <3>2. QED
      BY <2>1, <3>1
  <2>5. QED
    BY <2>3, <2>4
<1>2. ASSUME NEW p \in Proc, Stat(p) PROVE SoloInv'
  BY <1>2 DEF Stat, Goto, history
<1>3. ASSUME NEW p \in Proc, Probe(p) PROVE SoloInv'
  BY <1>3 DEF Probe, Goto, history, Answers
<1>4. ASSUME NEW p \in Proc, Remove(p) PROVE SoloInv'
  BY <1>4 DEF Remove, Goto, history
<1>5. ASSUME NEW p \in Proc, Bind(p) PROVE SoloInv'
  <2>1. CASE overlapped
    BY <1>5, <2>1 DEF Bind, history
  <2>2. CASE ~overlapped /\ path = Nothing /\ path' = own[p] /\ pc' = [pc EXCEPT ![p] = "listen"]
    <3>1. own' = own /\ pc[p] = "bind"
      BY <1>5 DEF Bind
    <3>2. \A q \in Proc : q # p => pc[q] \notin Starting
      BY <2>2, <3>1
    <3>3. \A q \in Proc : pc[q] \notin {"serving", "unlink"}
      BY <2>2, <3>1
    <3>4. \A q \in Proc : q # p => pc'[q] = pc[q]
      BY <2>2
    <3>5. \A q \in Proc : q # p => pc'[q] \notin Starting \cup {"serving", "unlink"}
      BY <3>2, <3>3, <3>4
    <3>6. pc'[p] = "listen" /\ path' = own'[p]
      BY <2>2, <3>1
    <3>7. QED
      BY <3>5, <3>6
  <2>3. CASE ~overlapped /\ pc' = [pc EXCEPT ![p] = "failed"] /\ UNCHANGED <<path, socket>>
    BY <1>5, <2>3 DEF Bind, history
  <2>4. QED
    BY <1>5, <2>1, <2>2, <2>3 DEF Bind, Goto
<1>6. ASSUME NEW p \in Proc, Listen(p) PROVE SoloInv'
  BY <1>6 DEF Listen, Goto, history
<1>7. ASSUME NEW p \in Proc, Chmod(p) PROVE SoloInv'
  BY <1>7 DEF Chmod, Goto, history
<1>8. ASSUME NEW p \in Proc, Unlink(p) PROVE SoloInv'
  BY <1>8 DEF Unlink, Goto, history
<1>9. ASSUME NEW p \in Proc, Close(p) PROVE SoloInv'
  BY <1>9 DEF Close, Goto, history
<1>10. ASSUME NEW p \in Proc, Stop(p) PROVE SoloInv'
  BY <1>10 DEF Stop, Goto, history
<1>11. ASSUME NEW p \in Proc, Crash(p) PROVE SoloInv'
  BY <1>11 DEF Crash, Goto, history
<1>12. CASE UNCHANGED vars
  BY <1>12 DEF vars
<1>13. QED
  BY <1>1, <1>2, <1>3, <1>4, <1>5, <1>6, <1>7, <1>8, <1>9, <1>10, <1>11, <1>12 DEF Next, Proceed

LEMMA Inductive == Spec => []IInv
<1>1. Init => TypeOK /\ SocketInv
  <2> SUFFICES ASSUME Init PROVE TypeOK /\ SocketInv
    OBVIOUS
  <2>1. path \in Socket \cup {Nothing, Plain}
    BY DEF Init
  <2>2. socket \in [Socket -> {"none", "bound", "listening", "closed"}]
        /\ \A s \in Socket : socket[s] = "none"
    BY DEF Init
  <2>3. /\ pc \in [Proc -> Starting \cup Down \cup {"serving", "unlink", "close"}]
        /\ \A p \in Proc : pc[p] \in Down
    BY DEF Init, Down
  <2>4. own \in [Proc -> Socket \cup {Nothing}] /\ \A p \in Proc : own[p] = Nothing
    BY DEF Init
  <2>5. begun = 0 /\ begun \in 0..MaxStarts
    BY ListenerAssumption DEF Init
  <2>6. alone \in [Proc -> BOOLEAN] /\ overlapped \in BOOLEAN
    BY Zenon DEF Init
  <2>7. TypeOK
    BY <2>1, <2>2, <2>3, <2>4, <2>5, <2>6 DEF TypeOK
  <2>8. SocketInv
    BY <2>2, <2>3, <2>4, <2>5 DEF SocketInv, Nothing
  <2>9. QED
    BY <2>7, <2>8
<1>2. Init => LoneInv /\ SoloInv
  BY DEF Init, LoneInv, SoloInv, Starting
<1>3. IInv /\ [Next]_vars => IInv'
  BY TypeStep, SocketStep, LoneStep, SoloStep DEF IInv
<1>4. QED
  BY <1>1, <1>2, <1>3, PTL DEF Spec, IInv

\* Every variable keeps its type, and a process that has failed, stopped or died leaves no
\* socket open (serve.go:82-105).
THEOREM TypeCorrect == Spec => []TypeOK
<1>1. IInv => TypeOK
  BY DEF IInv
<1>2. QED
  BY <1>1, Inductive, PTL

\* As long as no two daemons start at the same time at most one serves, and its path is
\* its own (serve.go:80-93), whatever stops and dies.
THEOREM OneServesCorrect == Spec => []OneServes
<1>1. IInv => OneServes
  BY DEF IInv, SoloInv, SocketInv, OneServes, Reachable, Down
<1>2. QED
  BY <1>1, Inductive, PTL

\* A daemon that started while no other process was up keeps its path while it serves,
\* two overlapping starts included (serve.go:82-91).
THEOREM KeepsItsPathCorrect == Spec => []KeepsItsPath
<1>1. IInv => KeepsItsPath
  BY DEF IInv, LoneInv, SocketInv, KeepsItsPath, Reachable, Down
<1>2. QED
  BY <1>1, Inductive, PTL

\* A daemon that starts while no other process is up fails on nothing but a file that is
\* no socket (serve.go:80-102).
THEOREM LoneStartSucceedsCorrect == Spec => LoneStartSucceeds
<1> DEFINE Fine(p) == pc[p] \in Starting /\ pc'[p] \in {"failed", "unlink"} /\ alone[p] => path = Plain
<1>1. ASSUME IInv, [Next]_vars, NEW p \in Proc PROVE Fine(p)
  <2> SUFFICES ASSUME pc[p] \in Starting, pc'[p] \in {"failed", "unlink"}, alone[p]
               PROVE  path = Plain
    OBVIOUS
  <2> USE <1>1 DEF IInv, TypeOK, Starting, Down, Socket, Nothing, Plain
  <2>1. pc'[p] # pc[p]
    OBVIOUS
  <2>2. PICK q \in Proc : Begin(q) \/ Proceed(q) \/ Stop(q) \/ Crash(q)
    BY <2>1 DEF Next, vars
  <2>3. q = p
    BY <2>1, <2>2 DEF Begin, Proceed, Stop, Crash, Stat, Probe, Remove, Bind, Listen, Chmod,
                      Unlink, Close, Goto
  <2>4. Stat(p) \/ Probe(p) \/ Remove(p) \/ Bind(p) \/ Chmod(p)
    BY <2>2, <2>3 DEF Begin, Proceed, Stop, Crash, Listen, Unlink, Close, Goto
  <2>5. CASE Stat(p)
    BY <2>5 DEF Stat, Goto
  <2>6. CASE Probe(p)
    BY <2>6 DEF Probe, Goto, LoneInv
  <2>7. CASE Remove(p)
    BY <2>7 DEF Remove, Goto, LoneInv
  <2>8. CASE Bind(p)
    BY <2>8 DEF Bind, Goto, LoneInv
  <2>9. CASE Chmod(p)
    BY <2>9 DEF Chmod, Goto, LoneInv, SocketInv
  <2>10. QED
    BY <2>4, <2>5, <2>6, <2>7, <2>8, <2>9
<1>2. IInv /\ [Next]_vars => [\A p \in Proc : Fine(p)]_vars
  BY <1>1
<1>3. QED
  BY <1>2, Inductive, PTL DEF Spec, LoneStartSucceeds
=============================================================================
