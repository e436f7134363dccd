------------------------------- MODULE Listener -------------------------------
(***************************************************************************)
(* The socket file of signbooth serve.  A starting daemon stats the path,  *)
(* dials what it finds there, removes it if nobody answers, binds and      *)
(* listens; a stopping one unlinks the path and closes its socket.  The    *)
(* path is a name: each step acts on whatever it names at that moment.     *)
(* Daemons start, stop and die at any time.                                *)
(***************************************************************************)
EXTENDS Integers, FiniteSets

CONSTANTS
  Proc,       \* processes that run signbooth serve
  MaxStarts   \* bound: daemons started altogether

ASSUME ListenerAssumption == IsFiniteSet(Proc) /\ MaxStarts \in Nat

\* The n-th start binds socket n, if any.
Socket == 1..MaxStarts
Nothing == 0    \* the path names nothing
Plain == -1     \* ... or a file that is no socket

VARIABLES
  path,       \* what the path names
  socket,     \* per socket: not bound, bound, listening, or closed with its process
  pc,         \* per process: the step of serve it is about to take
  own,        \* per process: its socket
  begun,      \* history: daemons started so far
  alone,      \* history, per process: no other process was up while it started
  overlapped  \* history: two daemons were starting at the same time

vars == <<path, socket, pc, own, begun, alone, overlapped>>
history == <<begun, alone, overlapped>>

Starting == {"stat", "probe", "remove", "bind", "listen", "chmod"}
Down == {"down", "failed"}

Init ==
  /\ path \in {Nothing, Plain}
  /\ socket = [s \in Socket |-> "none"]
  /\ pc = [p \in Proc |-> "down"]
  /\ own = [p \in Proc |-> Nothing]
  /\ begun = 0 /\ alone = [p \in Proc |-> FALSE] /\ overlapped = FALSE

-----------------------------------------------------------------------------

Goto(p, step) == pc' = [pc EXCEPT ![p] = step]

\* serve has opened its booth and calls Listen.
Begin(p) ==
  LET others == {q \in Proc : pc[q] \notin Down} IN
  /\ pc[p] \in Down /\ begun < MaxStarts
  /\ Goto(p, "stat")
  /\ begun' = begun + 1
  /\ own' = [own EXCEPT ![p] = begun + 1]
  /\ alone' = [q \in Proc |->
       IF q = p THEN others = {} ELSE alone[q] /\ pc[q] \notin Starting]
  /\ overlapped' = (overlapped \/ \E q \in others : pc[q] \in Starting)
  /\ UNCHANGED <<path, socket>>

\* Mutant: a socket that is there is left to bind.
StatOnlyPlain(p) ==
  /\ pc[p] = "stat"
  /\ Goto(p, IF path = Plain THEN "failed" ELSE "bind")
  /\ UNCHANGED <<path, socket, own, history>>

\* os.Stat: nothing there, a file that is no socket (refused), or a socket.
Stat(p) ==
  /\ pc[p] = "stat"
  /\ Goto(p, CASE path = Nothing -> "bind" [] path = Plain -> "failed" [] OTHER -> "probe")
  /\ UNCHANGED <<path, socket, own, history>>

Answers == path \in Socket /\ socket[path] = "listening"

\* Mutant: the answer is not looked at.
ProbeIgnored(p) ==
  /\ pc[p] = "probe"
  /\ Goto(p, "remove")
  /\ UNCHANGED <<path, socket, own, history>>

\* net.DialTimeout: only a listening socket takes the connection.
Probe(p) ==
  /\ pc[p] = "probe"
  /\ Goto(p, IF Answers THEN "failed" ELSE "remove")
  /\ UNCHANGED <<path, socket, own, history>>

\* os.Remove unlinks the path; it is an error if that is gone.
Remove(p) ==
  /\ pc[p] = "remove"
  /\ Goto(p, IF path = Nothing THEN "failed" ELSE "bind")
  /\ path' = Nothing
  /\ UNCHANGED <<socket, own, history>>

\* net.Listen: bind makes the file, and fails if there is one; listen follows.
Bind(p) ==
  /\ pc[p] = "bind"
  /\ \/ /\ path = Nothing
        /\ path' = own[p] /\ socket' = [socket EXCEPT ![own[p]] = "bound"]
        /\ Goto(p, "listen")
     \/ path # Nothing /\ Goto(p, "failed") /\ UNCHANGED <<path, socket>>
  /\ UNCHANGED <<own, history>>

Listen(p) ==
  /\ pc[p] = "listen"
  /\ socket' = [socket EXCEPT ![own[p]] = "listening"]
  /\ Goto(p, "chmod")
  /\ UNCHANGED <<path, own, history>>

\* Mutant: the listener is not closed.
ChmodLeaks(p) ==
  /\ pc[p] = "chmod"
  /\ Goto(p, IF path = Nothing THEN "failed" ELSE "serving")
  /\ UNCHANGED <<path, socket, own, history>>

\* os.Chmod fails if the path is gone, and the listener is closed again.
Chmod(p) ==
  /\ pc[p] = "chmod"
  /\ Goto(p, IF path = Nothing THEN "unlink" ELSE "serving")
  /\ UNCHANGED <<path, socket, own, history>>

\* Mutant: the socket is closed before its file is unlinked.
StopClosing(p) ==
  /\ pc[p] = "serving"
  /\ Goto(p, "unlink")
  /\ socket' = [socket EXCEPT ![own[p]] = "closed"]
  /\ UNCHANGED <<path, own, history>>

\* SIGINT or SIGTERM: srv.Shutdown closes the listener; so does Serve, when it
\* returns with an error.
Stop(p) ==
  /\ pc[p] = "serving"
  /\ Goto(p, "unlink")
  /\ UNCHANGED <<path, socket, own, history>>

\* Closing a unix listener unlinks its path, whatever that names by now, ...
Unlink(p) ==
  /\ pc[p] = "unlink"
  /\ path' = Nothing
  /\ Goto(p, "close")
  /\ UNCHANGED <<socket, own, history>>

\* ... and then closes the socket.
Close(p) ==
  /\ pc[p] = "close"
  /\ socket' = [socket EXCEPT ![own[p]] = "closed"]
  /\ Goto(p, "down")
  /\ UNCHANGED <<path, own, history>>

\* The process is killed: its socket is closed, its file stays.
Crash(p) ==
  /\ pc[p] \notin Down
  /\ socket' = [socket EXCEPT ![own[p]] = "closed"]
  /\ Goto(p, "down")
  /\ UNCHANGED <<path, own, history>>

Proceed(p) ==
  \/ Stat(p) \/ Probe(p) \/ Remove(p) \/ Bind(p) \/ Listen(p) \/ Chmod(p)
  \/ Unlink(p) \/ Close(p)

Next == \E p \in Proc : Begin(p) \/ Proceed(p) \/ Stop(p) \/ Crash(p)

Spec == Init /\ [][Next]_vars

-----------------------------------------------------------------------------

\* Every variable has its type, and a process that is down has no socket open.
TypeOK ==
  /\ path \in Socket \cup {Nothing, Plain}
  /\ socket \in [Socket -> {"none", "bound", "listening", "closed"}]
  /\ pc \in [Proc -> Starting \cup Down \cup {"serving", "unlink", "close"}]
  /\ own \in [Proc -> Socket \cup {Nothing}]
  /\ begun \in 0..MaxStarts /\ alone \in [Proc -> BOOLEAN] /\ overlapped \in BOOLEAN
  /\ \A p \in Proc : pc[p] \in Down =>
       own[p] = Nothing \/ socket[own[p]] \in {"none", "closed"}

Reachable(p) == path = own[p] /\ socket[own[p]] = "listening"

\* "a live daemon still answers, so probe before removing" (serve.go:80-81): as long as
\* no two daemons start at the same time, whatever stops or dies, at most one serves and
\* clients reach it.
OneServes ==
  overlapped \/ \A p \in Proc : pc[p] = "serving" =>
    Reachable(p) /\ \A q \in Proc \ {p} : pc[q] # "serving"

\* A daemon that started while no other process was up stays reachable until it stops
\* or dies, whatever starts, stops and dies after it, two starts at once included
\* (serve.go:82-91).
KeepsItsPath == \A p \in Proc : alone[p] /\ pc[p] = "serving" => Reachable(p)

\* "A stale socket from a crashed daemon would block bind" (serve.go:80): it does not.
\* A daemon that starts while no other process is up fails only on a file that is no
\* socket, wherever earlier daemons died.
LoneStartSucceeds ==
  [][\A p \in Proc :
       pc[p] \in Starting /\ pc'[p] \in {"failed", "unlink"} /\ alone[p] => path = Plain]_vars
=============================================================================
