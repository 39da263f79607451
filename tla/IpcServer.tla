----------------------------- MODULE IpcServer -----------------------------
(***************************************************************************)
(* The control socket of the daemon: how a starting daemon claims its path *)
(* and a stopping one gives it up, and the thread that serves one client   *)
(* after the other with a timeout for every recv and send, a deadline for  *)
(* the request and one for its body.  Several daemons may be up at once: a *)
(* stopped (SIGSTOP) daemon does not keep the next one from starting.      *)
(*                                                                         *)
(* A request is a number of parts: its line, then its body.  What it asks  *)
(* for is in the constant Request.  IpcClients has the other end.          *)
(***************************************************************************)
EXTENDS Naturals, Sequences, FiniteSets, SequencesExt

CONSTANTS
  Daemons,
  Conns,         \* connections
  Request,       \* [conn -> [cmd, line, body, sends, good]]: parts of the line, parts
                 \*   announced for the body, parts really sent, is the config valid
  Strangers,     \* connections of processes outside the group "input"
  Deaf,          \* connections that never read their answer
  Scenarios,     \* [conns, daemons, crashes, throws]: what comes in one behaviour
  Backlog,       \* listen(fd, 8)
  RecvTimeout, SendTimeout, Deadline, BodyDeadline    \* in ticks

NoConn == "none"

ASSUME IpcAssumption ==
  /\ NoConn \notin Conns
  /\ Backlog \in Nat \ {0}
  /\ \A s \in Scenarios : s.conns \subseteq Conns /\ s.daemons \subseteq Daemons
  /\ \A n \in {RecvTimeout, SendTimeout, Deadline, BodyDeadline} : n \in Nat \ {0}
  /\ \A c \in Conns : Request[c].line \in Nat \ {0} /\ Request[c].body \in Nat /\ Request[c].sends \in Nat

Free == [kind |-> "none"]
SocketOf(d) == [kind |-> "sock", of |-> d]

VARIABLES
  path,     \* what the path of the socket holds
  main,     \* [daemon -> where its main thread is]
  claimed,  \* daemons whose ipc_sock_path_ is set
  fd,       \* [daemon -> "none", "bound", "listening", "shut"]
  backlog,  \* [daemon -> connections that wait]
  srv,      \* [daemon -> the IPC thread: where it is, its connection, parts taken,
            \*   ticks waited in this call, ticks since accept, at body start, the answer]
  conn,     \* [conn -> [at, buf, got]]: "new" (or "never"), "open", "closed" by the client or
            \*   "gone" (by the daemon); parts in the socket; the answer
  reload,   \* daemons with reload_flag_ set
  worker,   \* [daemon -> the save worker: "none", "poll", or "seen": it saw the queue
            \*   empty and did not see the stop]
  saveq,    \* [daemon -> the pushes that the one queued config stands for: itself and
            \*   those it made obsolete]
  saved,    \* pushes that are on disk, themselves or by what made them obsolete
  pushed,   \* history: configs accepted
  raced,    \* history: pushes that the stop caught between two looks
  acked,    \* history: accepted configs, and the daemon that said so
  crashes, throws   \* bounds: crashes and exceptions that may still come

ipc == <<path, main, claimed, fd, backlog, srv, conn, reload, worker, saveq, saved, pushed, raced, acked,
         crashes, throws>>
claim == <<path, claimed, fd>>
effects == <<reload, worker, saveq, saved, pushed, raced>>

NoThread == [at |-> "none", c |-> NoConn, n |-> 0, w |-> 0, t |-> 0, b |-> 0, say |-> "none"]
Idle == [NoThread EXCEPT !.at = "idle"]

ServerInit ==
  /\ path = Free /\ claimed = {} /\ fd = [d \in Daemons |-> "none"]
  /\ backlog = [d \in Daemons |-> << >>] /\ srv = [d \in Daemons |-> NoThread]
  /\ \E s \in Scenarios :
       /\ conn = [c \in Conns |-> [at |-> IF c \in s.conns THEN "new" ELSE "never", buf |-> 0, got |-> "none"]]
       /\ main = [d \in Daemons |-> IF d \in s.daemons THEN "off" ELSE "exited"]
       /\ crashes = s.crashes /\ throws = s.throws
  /\ reload = {} /\ worker = [d \in Daemons |-> "none"]
  /\ saveq = [d \in Daemons |-> {}] /\ saved = {} /\ pushed = {} /\ raced = {} /\ acked = {}

Go(d, pc) == main' = [main EXCEPT ![d] = pc]

\* Connections that end with the daemon's side.
Drop(cs, f) == [c \in Conns |-> IF c \in cs /\ f[c].at = "open" THEN [f[c] EXCEPT !.at = "gone", !.buf = 0] ELSE f[c]]

-----------------------------------------------------------------------------
(* start_ipc_server *)

\* The PID files let one daemon at a time come here or leave.
Alone(d) == \A e \in Daemons \ {d} : main[e] \in {"off", "up", "noipc", "exited"}

Start(d) ==
  /\ main[d] = "off" /\ Alone(d) /\ Go(d, "probe")
  /\ UNCHANGED <<claim, backlog, srv, conn, effects, acked, crashes, throws>>

\* Mutant: a path that is taken is cleared without a look.
Probe_blind(d) ==
  /\ main[d] = "probe"
  /\ Go(d, IF path = Free THEN "bind" ELSE "unlink")
  /\ UNCHANGED <<claim, backlog, srv, conn, effects, acked, crashes, throws>>

\* A path that is a socket is probed: a connection that is accepted, or waits to
\* be, belongs to a daemon that lives; a refused one to nobody.
Probe(d) ==
  /\ main[d] = "probe"
  /\ Go(d, IF path = Free THEN "bind"
           ELSE IF path.kind # "sock" \/ fd[path.of] = "listening" THEN "noipc"
           ELSE "unlink")
  /\ UNCHANGED <<claim, backlog, srv, conn, effects, acked, crashes, throws>>

Unlink(d) ==
  /\ main[d] = "unlink"
  /\ path' = Free /\ Go(d, "bind")
  /\ UNCHANGED <<claimed, fd, backlog, srv, conn, effects, acked, crashes, throws>>

\* bind fails when the path was taken meanwhile.
Bind(d) ==
  /\ main[d] = "bind"
  /\ IF path = Free
     THEN path' = SocketOf(d) /\ fd' = [fd EXCEPT ![d] = "bound"] /\ Go(d, "listen")
     ELSE Go(d, "noipc") /\ UNCHANGED <<path, fd>>
  /\ UNCHANGED <<claimed, backlog, srv, conn, effects, acked, crashes, throws>>

\* The path is claimed when everything has worked, and the thread starts.
Listen(d) ==
  /\ main[d] = "listen"
  /\ fd' = [fd EXCEPT ![d] = "listening"] /\ claimed' = claimed \cup {d}
  /\ srv' = [srv EXCEPT ![d] = Idle]
  /\ Go(d, "init")
  /\ UNCHANGED <<path, backlog, conn, effects, acked, crashes, throws>>

\* start() sets running_ and starts the save worker.
Up(d) ==
  /\ main[d] = "init" /\ Go(d, "up")
  /\ worker' = [worker EXCEPT ![d] = "poll"]
  /\ UNCHANGED <<claim, backlog, srv, conn, reload, saveq, saved, pushed, raced, acked, crashes, throws>>

-----------------------------------------------------------------------------
(* ipc_serve_loop and handle_ipc_client *)

Running(d) == main[d] \in {"up", "noipc"}            \* running_
Serving(d) == main[d] \in {"init", "up", "halt"}     \* ipc_running_
Serve(d, r) == srv' = [srv EXCEPT ![d] = r]
At(d, pc) == srv[d].at = pc

\* The next client is accepted; a stranger is closed unread.
Accept(d) ==
  /\ At(d, "idle") /\ Serving(d) /\ backlog[d] # << >>
  /\ LET c == Head(backlog[d]) IN
     IF c \in Strangers
     THEN conn' = Drop({c}, conn) /\ UNCHANGED srv
     ELSE Serve(d, [Idle EXCEPT !.at = "line", !.c = c]) /\ UNCHANGED conn
  /\ backlog' = [backlog EXCEPT ![d] = Tail(@)]
  /\ UNCHANGED <<claim, main, effects, acked, crashes, throws>>

Say(r, what) == [r EXCEPT !.at = "reply", !.say = what, !.n = 0, !.w = 0, !.b = 0]

\* Mutant: no deadline for the whole request.
Late_never(r) == FALSE

\* The clock is looked at before each recv.
Late(r) == r.t >= Deadline \/ (r.at = "body" /\ r.t - r.b >= BodyDeadline)

\* What a line or a body that does not come ends with.
GivesUp(r) == Say(r, IF r.at = "line" THEN "timeout" ELSE "incomplete")

\* The whole body is there.
Received(d, r) == r.n = Request[r.c].line + Request[r.c].body

\* After the line: the commands.
Dispatch(d, r) ==
  LET cmd == Request[r.c].cmd IN
  /\ reload' = IF cmd = "reload" THEN reload \cup {d} ELSE reload
  /\ Serve(d, IF cmd = "set_config" /\ Request[r.c].body > 0
              THEN [r EXCEPT !.at = "body", !.w = 0, !.b = r.t]
              ELSE Say(r, CASE cmd \in {"status", "ping", "reload", "latency", "set_active_app"} -> "ok"
                            [] cmd = "set_config" -> "refused"
                            [] OTHER -> "unknown"))
  /\ UNCHANGED <<worker, saveq, saved, pushed, raced>>

\* Mutant: running_ is not looked at.
PushBody_unguarded(d, r) ==
  IF Request[r.c].good THEN [r EXCEPT !.at = "queue", !.n = 0, !.w = 0, !.b = 0] ELSE Say(r, "refused")

\* After the body: push_config goes on with what it can parse while running_ is
\* set.  (That a push of what is applied already is not queued is in ConfigPush.)
PushBody(d, r) ==
  IF Request[r.c].good /\ Running(d)
  THEN [r EXCEPT !.at = "queue", !.n = 0, !.w = 0, !.b = 0] ELSE Say(r, "refused")

\* Then it queues the config in place of what is queued.
Enqueue(d) ==
  /\ At(d, "queue")
  /\ saveq' = [saveq EXCEPT ![d] = @ \cup {srv[d].c}]
  /\ pushed' = pushed \cup {srv[d].c}
  /\ Serve(d, Say(srv[d], "ok"))
  /\ UNCHANGED <<claim, main, backlog, conn, reload, worker, saved, raced, acked, crashes, throws>>

\* One turn of the two recv loops: the deadline, a part, or the client's end.
Receive(d) ==
  /\ srv[d].at \in {"line", "body"}
  /\ LET r == srv[d]
         more == [r EXCEPT !.n = @ + 1, !.w = 0]
     IN IF r.w = 0 /\ Late(r)
        THEN Serve(d, GivesUp(r)) /\ UNCHANGED effects
        ELSE \/ /\ conn[r.c].buf > r.n
                /\ IF r.at = "line" /\ more.n = Request[r.c].line THEN Dispatch(d, more)
                   ELSE IF r.at = "body" /\ Received(d, more) THEN Serve(d, PushBody(d, more)) /\ UNCHANGED effects
                   ELSE Serve(d, more) /\ UNCHANGED effects
             \/ /\ conn[r.c].buf = r.n /\ conn[r.c].at = "closed"
                /\ Serve(d, IF r.at = "line" THEN [r EXCEPT !.at = "close"] ELSE GivesUp(r))
                /\ UNCHANGED effects
  /\ UNCHANGED <<claim, main, backlog, conn, acked, crashes, throws>>

\* Mutant: recv waits without a timeout.
Wait_forever(d) == FALSE

\* A recv that finds nothing waits, until its timeout.
Wait(d) ==
  /\ srv[d].at \in {"line", "body"}
  /\ LET r == srv[d] IN
     /\ conn[r.c].buf = r.n /\ conn[r.c].at = "open" /\ ~(r.w = 0 /\ Late(r))
     /\ LET s == [r EXCEPT !.w = @ + 1, !.t = @ + 1] IN
        Serve(d, IF s.w = RecvTimeout THEN GivesUp(s) ELSE s)
  /\ UNCHANGED <<claim, main, backlog, conn, effects, acked, crashes, throws>>

\* The answer is sent: it is read, the client is gone, or it does not read a
\* long answer and the send times out.
Reply(d) ==
  /\ At(d, "reply")
  /\ LET r == srv[d]
         long == Request[r.c].cmd = "status" /\ r.say = "ok"
         stuck == long /\ r.c \in Deaf /\ conn[r.c].at = "open" /\ r.w < SendTimeout
     IN IF stuck
        THEN Serve(d, [r EXCEPT !.w = @ + 1, !.t = @ + 1]) /\ UNCHANGED <<conn, acked>>
        ELSE /\ Serve(d, [r EXCEPT !.at = "close"])
             /\ IF conn[r.c].at = "open" /\ ~(long /\ r.c \in Deaf)
                THEN /\ conn' = [conn EXCEPT ![r.c].got = r.say]
                     /\ acked' = IF r.say = "ok" THEN acked \cup {<<r.c, d>>} ELSE acked
                ELSE UNCHANGED <<conn, acked>>
  /\ UNCHANGED <<claim, main, backlog, effects, crashes, throws>>

Close(d) ==
  /\ At(d, "close")
  /\ conn' = Drop({srv[d].c}, conn)
  /\ Serve(d, Idle)
  /\ UNCHANGED <<claim, main, backlog, effects, acked, crashes, throws>>

\* An exception of one client is contained, and its connection closed.
ClientThrows(d) ==
  /\ srv[d].at \in {"line", "body"} /\ throws > 0 /\ throws' = throws - 1
  /\ Serve(d, [srv[d] EXCEPT !.at = "close"])
  /\ UNCHANGED <<claim, main, backlog, conn, effects, acked, crashes>>

\* The loop ends when it is told to; between two clients only.
ThreadEnds(d) ==
  /\ At(d, "idle") /\ ~Serving(d)
  /\ Serve(d, [Idle EXCEPT !.at = "out"])
  /\ UNCHANGED <<claim, main, backlog, conn, effects, acked, crashes, throws>>

-----------------------------------------------------------------------------
(* stop_ipc_server and the end of main *)

\* The socket is closed, and with it what waits there; the path is unlinked by
\* the one who has claimed it.
CloseSocket(d) ==
  /\ fd' = [fd EXCEPT ![d] = "none"]
  /\ conn' = Drop(Range(backlog[d]), conn) /\ backlog' = [backlog EXCEPT ![d] = << >>]
  /\ path' = IF d \in claimed THEN Free ELSE path
  /\ claimed' = claimed \ {d}

\* The thread itself fails: it stops the server without joining itself.
ThreadAborts(d) ==
  /\ At(d, "idle") /\ main[d] = "up" /\ throws > 0 /\ throws' = throws - 1
  /\ Serve(d, [Idle EXCEPT !.at = "out"])
  /\ CloseSocket(d)
  /\ Go(d, "noipc")
  /\ UNCHANGED <<effects, acked, crashes>>

\* A signal clears running_; main finds it so within a second, and the server
\* goes on for that time.  save_worker may be between its look at the queue, which
\* was empty then, and its look at running_.
Halt(d) ==
  /\ Running(d) /\ Alone(d) /\ Go(d, "halt")
  /\ \E w \in {"poll", "seen"} :
       /\ worker' = [worker EXCEPT ![d] = w]
       /\ raced' = raced \cup {c \in {srv[d].c} : At(d, "queue")} \cup {c \in saveq[d] : w = "seen"}
  /\ UNCHANGED <<claim, backlog, srv, conn, reload, saveq, saved, pushed, acked, crashes,
                 throws>>

\* main stops the server, also after a start() that failed: no more clients.
StopBegins(d) ==
  /\ main[d] \in {"init", "halt"} /\ Alone(d)
  /\ Go(d, "join") /\ fd' = [fd EXCEPT ![d] = IF @ = "listening" THEN "shut" ELSE @]
  /\ UNCHANGED <<path, claimed, backlog, srv, conn, effects, acked, crashes, throws>>

\* The thread is joined before the descriptor is closed and the path unlinked.
Join(d) ==
  /\ main[d] = "join" /\ srv[d].at \in {"none", "out"}
  /\ CloseSocket(d)
  /\ Go(d, "drain")
  /\ UNCHANGED <<srv, effects, acked, crashes, throws>>

\* stop() joins the save worker.
Exit(d) ==
  /\ main[d] = "drain" /\ worker[d] = "none" /\ Go(d, "exited")
  /\ UNCHANGED <<claim, backlog, srv, conn, effects, acked, crashes, throws>>

\* save_worker writes what is queued and ends when it has found the queue empty
\* and then running_ cleared, whatever the IPC thread does (a failed write is a
\* matter of ConfigPush).
Save(d) ==
  /\ \/ /\ worker[d] = "poll" /\ saveq[d] # {}
        /\ saved' = saved \cup saveq[d] /\ saveq' = [saveq EXCEPT ![d] = {}]
        /\ UNCHANGED worker
     \/ /\ worker[d] = "seen" \/ (worker[d] = "poll" /\ saveq[d] = {})
        /\ ~Running(d)
        /\ worker' = [worker EXCEPT ![d] = "none"] /\ UNCHANGED <<saveq, saved>>
  /\ UNCHANGED <<claim, main, backlog, srv, conn, reload, pushed, raced, acked, crashes, throws>>

\* The loop thread reloads the file.
Reload(d) ==
  /\ d \in reload /\ Running(d) /\ reload' = reload \ {d}
  /\ UNCHANGED <<claim, main, backlog, srv, conn, worker, saveq, saved, pushed, raced, acked, crashes,
                 throws>>

\* A crash leaves the path behind (external).
Crash(d) ==
  /\ main[d] \notin {"off", "exited"} /\ crashes > 0 /\ crashes' = crashes - 1
  /\ Go(d, "off")
  /\ fd' = [fd EXCEPT ![d] = "none"] /\ claimed' = claimed \ {d}
  /\ conn' = Drop(Range(backlog[d]) \cup {srv[d].c}, conn)
  /\ backlog' = [backlog EXCEPT ![d] = << >>] /\ srv' = [srv EXCEPT ![d] = NoThread]
  /\ worker' = [worker EXCEPT ![d] = "none"] /\ saveq' = [saveq EXCEPT ![d] = {}] /\ reload' = reload \ {d}
  /\ acked' = {a \in acked : a[2] # d}
  /\ UNCHANGED <<path, saved, pushed, raced, throws>>

Thread(d) == Accept(d) \/ Receive(d) \/ Enqueue(d) \/ Wait(d) \/ Reply(d) \/ Close(d) \/ ThreadEnds(d)
Main(d) == Probe(d) \/ Unlink(d) \/ Bind(d) \/ Listen(d) \/ Up(d) \/ Join(d) \/ Exit(d) \/ Save(d)

ServerNext ==
  \E d \in Daemons :
    \/ Thread(d) \/ Main(d) \/ Start(d) \/ Halt(d) \/ StopBegins(d) \/ Reload(d)
    \/ ClientThrows(d) \/ ThreadAborts(d) \/ Crash(d)
=============================================================================
