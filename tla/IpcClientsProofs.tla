-------------------------- MODULE IpcClientsProofs --------------------------
(***************************************************************************)
(* Proofs about the control socket for any number of daemons, clients and  *)
(* requests and any timeouts: the path leads to the daemon that serves, a  *)
(* client holds the server for a bounded time, what a client is told of    *)
(* its push is true, and an acknowledged push is saved when the daemon has *)
(* exited.                                                                 *)
(***************************************************************************)
EXTENDS IpcClients, TLAPS

-----------------------------------------------------------------------------
(* Types *)

Mains == {"off", "probe", "unlink", "bind", "listen", "init", "up", "noipc",
          "halt", "join", "drain", "exited"}
Answers == {"none", "ok", "refused", "incomplete", "timeout", "unknown"}
Errors == {"refused", "incomplete", "timeout", "unknown"}
Spots == {"none", "idle", "line", "body", "queue", "reply", "close", "out"}
Threads == [at : Spots, c : Conns \cup {NoConn}, n : Nat, w : Nat, t : Nat, b : Nat, say : Answers]
Ends == [at : {"never", "new", "open", "closed", "gone"}, buf : Nat, got : Answers]
Verdicts == {"none", "applied", "rejected", "silent", "reloaded", "signalled", "failed"}

SocketTypes ==
  /\ path = Free \/ path \in {SocketOf(d) : d \in Daemons}
  /\ claimed \subseteq Daemons
  /\ fd \in [Daemons -> {"none", "bound", "listening", "shut"}]
  /\ main \in [Daemons -> Mains]

ServiceTypes ==
  /\ backlog \in [Daemons -> Seq(Conns)]
  /\ srv \in [Daemons -> Threads]
  /\ conn \in [Conns -> Ends]

EffectTypes ==
  /\ reload \subseteq Daemons
  /\ worker \in [Daemons -> {"none", "poll", "seen"}]
  /\ saveq \in [Daemons -> SUBSET Pushers]
  /\ saved \subseteq Pushers /\ pushed \subseteq Pushers
  /\ verdict \in [Conns -> Verdicts]

-----------------------------------------------------------------------------
(* The path of the socket *)

\* Where a daemon starts or stops: the PID files let one be there at a time.
Busy == {"probe", "unlink", "bind", "listen", "init", "halt", "join", "drain"}

SocketInv ==
  /\ \A d, e \in Daemons : main[d] \in Busy /\ main[e] \in Busy => d = e
  /\ \A d \in Daemons :
       /\ d \in claimed <=> fd[d] \in {"listening", "shut"}
       /\ fd[d] # "none" => path = SocketOf(d)
       /\ fd[d] = "bound" <=> main[d] = "listen"
       /\ fd[d] = "listening" => main[d] \in {"init", "up", "halt"}
       /\ fd[d] = "shut" => main[d] = "join"
       /\ main[d] = "unlink" => \A e \in Daemons : path = SocketOf(e) => fd[e] = "none"

-----------------------------------------------------------------------------
(* The thread *)

\* The spots in which it has a client.
Serves == {"line", "body", "queue", "reply", "close"}

\* How long it has been at it.
Clock(r) ==
  /\ r.at \in {"line", "body"} =>
       /\ r.w <= RecvTimeout - 1 /\ r.t <= Deadline + RecvTimeout - 2
       /\ r.w > 0 => r.t <= Deadline - 1 + r.w
  /\ r.at = "queue" => r.t <= Deadline + RecvTimeout - 1
  /\ r.at = "reply" => r.w <= SendTimeout /\ r.t <= Deadline + RecvTimeout - 1 + r.w
  /\ r.t <= Deadline + RecvTimeout - 1 + SendTimeout

ClockInv == \A d \in Daemons : Clock(srv[d])

\* A client is in one place: in one queue, once, or served by one thread.
OnePlace ==
  /\ \A d \in Daemons : \A i, j \in DOMAIN backlog[d] : backlog[d][i] = backlog[d][j] => i = j
  /\ \A d, e \in Daemons : d # e => Range(backlog[d]) \cap Range(backlog[e]) = {}
  /\ \A d \in Daemons : srv[d].at \in Serves =>
       /\ srv[d].c \in Conns
       /\ \A e \in Daemons : srv[d].c \notin Range(backlog[e])
       /\ \A e \in Daemons : srv[e].at \in Serves /\ e # d => srv[e].c # srv[d].c
  /\ \A d \in Daemons : srv[d].at \notin Serves => srv[d].c = NoConn

\* A client that waits, or is served up to its answer, has no answer yet.
NoAnswerYet ==
  /\ \A d \in Daemons, c \in Conns :
       c \in Range(backlog[d]) =>
         conn[c].at \in {"open", "closed"} /\ conn[c].got = "none" /\ c \notin pushed
  /\ \A d \in Daemons :
       /\ srv[d].at \in Serves => conn[srv[d].c].at \in {"open", "closed"}
       /\ srv[d].at \in Serves \ {"close"} => conn[srv[d].c].got = "none"
       /\ srv[d].at \in {"line", "body", "queue"} => srv[d].c \notin pushed
  /\ \A c \in Conns : conn[c].at \in {"new", "never"} => conn[c].got = "none" /\ c \notin pushed

\* No part is taken that was not sent, and a push is whole.
Whole(c) == Request[c].sends >= Request[c].line + Request[c].body
PartsInv ==
  /\ \A c \in Conns : conn[c].buf <= Request[c].sends
  /\ \A d \in Daemons :
       /\ srv[d].at \in {"line", "body"} => srv[d].n <= Request[srv[d].c].sends
       /\ srv[d].at \in {"body", "queue"} => srv[d].c \in Pushers
       /\ srv[d].at = "queue" => Whole(srv[d].c)
  /\ \A c \in pushed : Whole(c)

\* The answer to a push says what became of it.
AnswerInv ==
  /\ \A d \in Daemons : srv[d].at = "reply" /\ srv[d].c \in Pushers =>
       (srv[d].say = "ok" <=> srv[d].c \in pushed)
  /\ \A d \in Daemons : srv[d].at = "reply" => srv[d].say # "none"
  /\ \A c \in Pushers : conn[c].got = "ok" => c \in pushed
  /\ \A c \in Conns : conn[c].got \in Errors => c \notin pushed

\* What the owner is told goes by the answer, or by the end without one.
VerdictInv ==
  \A c \in Conns :
    /\ verdict[c] # "none" => c \in Push /\ Over(c)
    /\ verdict[c] = "applied" => conn[c].got = "ok"
    /\ verdict[c] = "rejected" => conn[c].got \in Errors
    /\ conn[c].got \in {"refused", "incomplete"} => verdict[c] \in {"none", "rejected"}

-----------------------------------------------------------------------------
(* The save worker *)

\* Where a push of daemon d may be after it was accepted.
Kept(c, d) == c \in saved \cup saveq[d] \cup raced

SaveInv ==
  /\ \A d \in Daemons :
       /\ srv[d].at \in Serves => main[d] \in {"init", "up", "halt", "join"}
       /\ srv[d].at = "idle" => main[d] \in {"init", "up", "halt", "join"}
       /\ main[d] = "up" => worker[d] = "poll"
       /\ worker[d] # "poll" => saveq[d] \subseteq raced
       /\ srv[d].at = "queue" => main[d] = "up" \/ srv[d].c \in raced
       /\ srv[d].at = "reply" /\ srv[d].c \in Pushers /\ srv[d].say = "ok" => Kept(srv[d].c, d)
       /\ main[d] = "exited" => worker[d] = "none"
  /\ acked \subseteq Conns \X Daemons
  /\ \A d \in Daemons, c \in Pushers : <<c, d>> \in acked => Kept(c, d)

IpcTypes == SocketTypes /\ ServiceTypes /\ EffectTypes
IpcInv ==
  /\ IpcTypes /\ SocketInv /\ ClockInv /\ OnePlace /\ NoAnswerYet
  /\ PartsInv /\ AnswerInv /\ VerdictInv /\ SaveInv

-----------------------------------------------------------------------------
(* Lemmas about the operators *)

\* Two sockets are the same when they are of one daemon, and none is no socket.
LEMMA Sockets ==
  /\ \A d, e : SocketOf(d) = SocketOf(e) <=> d = e
  /\ \A d : SocketOf(d) # Free /\ SocketOf(d).of = d /\ SocketOf(d).kind = "sock"
BY DEF SocketOf, Free

\* The records of a thread without a client.
LEMMA Restful ==
  /\ NoThread \in Threads /\ NoThread.at = "none" /\ NoThread.t = 0 /\ NoThread.c = NoConn
  /\ Idle \in Threads /\ Idle.at = "idle" /\ Idle.t = 0 /\ Idle.w = 0 /\ Idle.n = 0 /\ Idle.c = NoConn
  /\ [Idle EXCEPT !.at = "out"] \in Threads /\ [Idle EXCEPT !.at = "out"].c = NoConn
  /\ [Idle EXCEPT !.at = "out"].at = "out" /\ [Idle EXCEPT !.at = "out"].t = 0
BY DEF NoThread, Idle, Threads, Spots, Answers

\* What Say puts into the record.
LEMMA SayFacts ==
  ASSUME NEW r \in Threads, NEW what \in Answers
  PROVE  /\ Say(r, what) \in Threads
         /\ Say(r, what).at = "reply" /\ Say(r, what).say = what /\ Say(r, what).c = r.c
         /\ Say(r, what).w = 0 /\ Say(r, what).t = r.t
BY DEF Say, Threads, Spots

\* The first of a queue without repetitions and the rest of it.
LEMMA QueueHead ==
  ASSUME NEW s \in Seq(Conns), s # <<>>
  PROVE  /\ Head(s) \in Conns /\ Tail(s) \in Seq(Conns) /\ Head(s) \in Range(s)
         /\ Range(Tail(s)) \subseteq Range(s)
         /\ (\A i, j \in DOMAIN s : s[i] = s[j] => i = j) =>
              /\ Head(s) \notin Range(Tail(s))
              /\ \A i, j \in DOMAIN Tail(s) : Tail(s)[i] = Tail(s)[j] => i = j
<1>1. /\ Head(s) = s[1] /\ 1 \in DOMAIN s /\ Tail(s) \in Seq(Conns)
      /\ \A i \in DOMAIN Tail(s) : i + 1 \in DOMAIN s /\ Tail(s)[i] = s[i + 1] /\ i \in Nat /\ i # 0
  OBVIOUS
<1>. QED
  BY <1>1 DEF Range

\* A queue with one more at its end.
LEMMA QueueAppend ==
  ASSUME NEW s \in Seq(Conns), NEW c \in Conns
  PROVE  /\ Append(s, c) \in Seq(Conns)
         /\ Range(Append(s, c)) = Range(s) \cup {c}
         /\ c \notin Range(s) /\ (\A i, j \in DOMAIN s : s[i] = s[j] => i = j) =>
              \A i, j \in DOMAIN Append(s, c) : Append(s, c)[i] = Append(s, c)[j] => i = j
<1>1. /\ DOMAIN Append(s, c) = 1..(Len(s) + 1) /\ DOMAIN s = 1..Len(s) /\ Len(s) \in Nat
      /\ \A i \in 1..Len(s) : Append(s, c)[i] = s[i]
      /\ Append(s, c)[Len(s) + 1] = c /\ Append(s, c) \in Seq(Conns)
  OBVIOUS
<1>2. \A i \in DOMAIN Append(s, c) : i \in DOMAIN s \/ i = Len(s) + 1
  BY <1>1
<1>3. Range(Append(s, c)) = Range(s) \cup {c}
  BY <1>1, <1>2 DEF Range
<1>. QED
  BY <1>1, <1>2, <1>3 DEF Range

\* The daemon's end of some connections goes.
LEMMA DropFacts ==
  ASSUME NEW f \in [Conns -> Ends], NEW cs
  PROVE  /\ Drop(cs, f) \in [Conns -> Ends]
         /\ \A c \in Conns :
              /\ Drop(cs, f)[c].got = f[c].got
              /\ Drop(cs, f)[c].buf = 0 \/ Drop(cs, f)[c].buf = f[c].buf
              /\ Drop(cs, f)[c].at = f[c].at \/ (f[c].at = "open" /\ Drop(cs, f)[c].at = "gone")
              /\ c \notin cs => Drop(cs, f)[c] = f[c]
<1>1. ASSUME NEW c \in Conns
      PROVE  /\ [f[c] EXCEPT !.at = "gone", !.buf = 0] \in Ends
             /\ [f[c] EXCEPT !.at = "gone", !.buf = 0].at = "gone"
             /\ [f[c] EXCEPT !.at = "gone", !.buf = 0].buf = 0
             /\ [f[c] EXCEPT !.at = "gone", !.buf = 0].got = f[c].got
  BY DEF Ends
<1>. QED
  BY <1>1 DEF Drop

-----------------------------------------------------------------------------
(* The path of the socket *)

Sock == SocketTypes /\ SocketInv
socket == <<path, main, claimed, fd>>

LEMMA SocketFrame ==
  ASSUME Sock, UNCHANGED socket
  PROVE  Sock'
BY DEF Sock, SocketTypes, SocketInv, socket

LEMMA SocketStep ==
  ASSUME Sock, NEW d \in Daemons,
         \/ Start(d) \/ Probe(d) \/ Unlink(d) \/ Bind(d) \/ Listen(d) \/ Up(d)
         \/ ThreadAborts(d) \/ Halt(d) \/ StopBegins(d) \/ Join(d) \/ Exit(d) \/ Crash(d)
  PROVE  Sock'
<1>. USE DEF Sock, SocketTypes, SocketInv, Mains, Busy, Go
<1>1. CASE Start(d)
  BY <1>1 DEF Start, Alone, claim
<1>2. CASE Probe(d)
  BY <1>2, Sockets DEF Probe, claim
<1>3. CASE Unlink(d)
  BY <1>3, Sockets DEF Unlink
<1>4. CASE Bind(d)
  BY <1>4, Sockets DEF Bind
<1>5. CASE Listen(d)
  BY <1>5 DEF Listen
<1>6. CASE Up(d)
  BY <1>6 DEF Up, claim
<1>7. CASE ThreadAborts(d)
  BY <1>7, Sockets DEF ThreadAborts, CloseSocket
<1>8. CASE Halt(d)
  BY <1>8 DEF Halt, Alone, Running, claim
<1>9. CASE StopBegins(d)
  BY <1>9 DEF StopBegins, Alone
<1>10. CASE Join(d)
  BY <1>10, Sockets DEF Join, CloseSocket
<1>11. CASE Exit(d)
  BY <1>11 DEF Exit, claim
<1>12. CASE Crash(d)
  BY <1>12 DEF Crash
<1>. QED
  BY <1>1, <1>2, <1>3, <1>4, <1>5, <1>6, <1>7, <1>8, <1>9, <1>10, <1>11, <1>12

\* The other steps leave the path, the descriptors and the main threads alone.
LEMMA SocketKept ==
  ASSUME Sock, [Next]_vars
  PROVE  Sock'
<1>1. ASSUME NEW d \in Daemons,
             \/ Accept(d) \/ Receive(d) \/ Enqueue(d) \/ Wait(d) \/ Reply(d) \/ Close(d)
             \/ ThreadEnds(d) \/ Save(d) \/ Reload(d) \/ ClientThrows(d)
      PROVE  UNCHANGED socket
  BY <1>1 DEF Accept, Receive, Enqueue, Wait, Reply, Close, ThreadEnds, Save, Reload, ClientThrows,
              claim, socket
<1>2. ASSUME NEW c \in Conns,
             Begin(c) \/ Send(c) \/ GiveUp(c) \/ Judge(c) \/ Reloaded(c) \/ Signal(c) \/ Show(c)
      PROVE  UNCHANGED socket
  BY <1>2 DEF Begin, Send, GiveUp, Judge, Reloaded, Signal, Show, others, ipc, socket
<1>3. CASE UNCHANGED vars
  BY <1>3, SocketFrame DEF vars, ipc, socket
<1>. QED
  BY <1>1, <1>2, <1>3, SocketFrame, SocketStep DEF Next, ServerNext, Thread, Main

LEMMA SocketInit == Init => Sock
BY DEF Init, ServerInit, Sock, SocketTypes, SocketInv, Mains, Busy

\* start_ipc_server and stop_ipc_server: while a daemon listens, the path leads to
\* its socket, whatever other daemons start, fail to start, stop, abort their
\* server or crash, as long as the PID files let one start or stop at a time.
THEOREM LiveSocketIsKept == Spec => []LiveSocketKept
<1>1. Spec => []Sock
  BY SocketInit, SocketKept, PTL DEF Spec
<1>2. Sock => LiveSocketKept
  BY DEF Sock, SocketInv, LiveSocketKept
<1>. QED
  BY <1>1, <1>2, PTL

-----------------------------------------------------------------------------
(* Steps that leave a part of the state alone *)

LEMMA ServiceFrame ==
  ASSUME IpcInv, UNCHANGED <<srv, backlog, conn, pushed>>
  PROVE  ServiceTypes' /\ ClockInv' /\ OnePlace' /\ NoAnswerYet' /\ PartsInv' /\ AnswerInv'
<1>1. ServiceTypes' /\ ClockInv' /\ OnePlace'
  BY DEF IpcInv, IpcTypes, ServiceTypes, ClockInv, OnePlace
<1>2. NoAnswerYet'
  BY DEF IpcInv, NoAnswerYet
<1>3. PartsInv' /\ AnswerInv'
  BY DEF IpcInv, PartsInv, AnswerInv
<1>. QED
  BY <1>1, <1>2, <1>3

LEMMA VerdictFrame ==
  ASSUME IpcInv, UNCHANGED <<conn, verdict>>
  PROVE  VerdictInv'
BY DEF IpcInv, VerdictInv, Over

LEMMA SaveFrame ==
  ASSUME IpcInv, UNCHANGED <<main, srv, worker, saveq, saved, raced, acked>>
  PROVE  SaveInv'
BY DEF IpcInv, SaveInv, Kept

\* The parts of the invariant in one place.
LEMMA Together ==
  ASSUME Sock', ServiceTypes', EffectTypes', ClockInv', OnePlace', NoAnswerYet', PartsInv',
         AnswerInv', VerdictInv', SaveInv'
  PROVE  IpcInv'
BY DEF Sock, IpcInv, IpcTypes

-----------------------------------------------------------------------------
(* The main thread and the save worker *)

\* Steps in which a daemon goes from one point of its start or stop to the next.
LEMMA MainKeeps ==
  ASSUME IpcInv, Sock', NEW d \in Daemons, UNCHANGED users,
         \/ Start(d) \/ Probe(d) \/ Unlink(d) \/ Bind(d) \/ Up(d) \/ StopBegins(d) \/ Exit(d)
  PROVE  IpcInv'
<1>1. UNCHANGED <<srv, backlog, conn, reload, saveq, saved, pushed, raced, acked, verdict>>
  BY DEF Start, Probe, Unlink, Bind, Up, StopBegins, Exit, effects, users
<1>2. PICK m \in Mains : main' = [main EXCEPT ![d] = m]
  BY DEF Start, Probe, Unlink, Bind, Up, StopBegins, Exit, Go, Mains
<1>3. \/ UNCHANGED worker /\ m # "up"
      \/ worker' = [worker EXCEPT ![d] = "poll"] /\ m = "up" /\ main[d] = "init"
  BY <1>2 DEF Start, Probe, Unlink, Bind, Up, StopBegins, Exit, Go, effects, IpcInv, IpcTypes, SocketTypes
<1>4. /\ m = "exited" => worker[d] = "none"
      /\ main[d] \in {"init", "halt"} => m \in {"up", "join"}
      /\ main[d] \notin {"up", "join"}
  BY <1>2 DEF Start, Probe, Unlink, Bind, Up, StopBegins, Exit, Go, IpcInv, IpcTypes, SocketTypes
<1>5. EffectTypes'
  BY <1>1, <1>3 DEF IpcInv, IpcTypes, EffectTypes
<1>6. SaveInv'
  BY <1>1, <1>2, <1>3, <1>4 DEF IpcInv, IpcTypes, SocketTypes, EffectTypes, SaveInv, Kept
<1>. QED
  BY <1>1, <1>5, <1>6, ServiceFrame, VerdictFrame, Together

\* The thread of the server starts, without a client.
LEMMA ListenKeeps ==
  ASSUME IpcInv, Sock', NEW d \in Daemons, UNCHANGED users, Listen(d)
  PROVE  IpcInv'
<1>1. /\ UNCHANGED <<backlog, conn, effects, acked, verdict>>
      /\ srv' = [srv EXCEPT ![d] = Idle] /\ main' = [main EXCEPT ![d] = "init"] /\ main[d] = "listen"
  BY DEF Listen, Go, users
<1>2. ServiceTypes' /\ EffectTypes'
  BY <1>1, Restful DEF IpcInv, IpcTypes, ServiceTypes, EffectTypes, effects
<1>3. ClockInv'
  BY <1>1, Restful, IpcAssumption DEF IpcInv, IpcTypes, ServiceTypes, ClockInv, Clock
<1>4. OnePlace' /\ NoAnswerYet'
  BY <1>1, Restful DEF IpcInv, IpcTypes, ServiceTypes, OnePlace, NoAnswerYet, Serves, effects
<1>5. PartsInv' /\ AnswerInv'
  BY <1>1, Restful DEF IpcInv, IpcTypes, ServiceTypes, PartsInv, AnswerInv, effects
<1>6. SaveInv'
  BY <1>1, Restful DEF IpcInv, IpcTypes, SocketTypes, ServiceTypes, SaveInv, Kept, Serves, effects
<1>. QED
  BY <1>1, <1>2, <1>3, <1>4, <1>5, <1>6, VerdictFrame, Together

\* A stop: what is queued then, or about to be, is saved or counted as raced.
LEMMA HaltKeeps ==
  ASSUME IpcInv, Sock', NEW d \in Daemons, UNCHANGED users, Halt(d)
  PROVE  IpcInv'
<1>1. /\ UNCHANGED <<srv, backlog, conn, reload, saveq, saved, pushed, acked, verdict>>
      /\ main' = [main EXCEPT ![d] = "halt"] /\ main[d] \in {"up", "noipc"}
  BY DEF Halt, Go, Running, users
<1>2. PICK w \in {"poll", "seen"} :
        /\ worker' = [worker EXCEPT ![d] = w]
        /\ raced' = raced \cup {c \in {srv[d].c} : At(d, "queue")} \cup {c \in saveq[d] : w = "seen"}
  BY DEF Halt
<1>3. EffectTypes'
  BY <1>1, <1>2 DEF IpcInv, IpcTypes, EffectTypes
<1>4. SaveInv'
  BY <1>1, <1>2 DEF IpcInv, IpcTypes, SocketTypes, EffectTypes, SaveInv, Kept, At
<1>. QED
  BY <1>1, <1>3, <1>4, ServiceFrame, VerdictFrame, Together

\* The save worker writes what is queued, or ends when nothing is left to lose.
LEMMA SaveKeeps ==
  ASSUME IpcInv, Sock', NEW d \in Daemons, UNCHANGED users, Save(d)
  PROVE  IpcInv'
<1>1. UNCHANGED <<main, srv, backlog, conn, reload, pushed, raced, acked, verdict>>
  BY DEF Save, users
<1>2. EffectTypes'
  BY <1>1 DEF IpcInv, IpcTypes, EffectTypes, Save
<1>3. SaveInv'
  BY <1>1 DEF IpcInv, IpcTypes, SocketTypes, EffectTypes, SaveInv, Kept, Save, Running
<1>. QED
  BY <1>1, <1>2, <1>3, ServiceFrame, VerdictFrame, Together

LEMMA ReloadKeeps ==
  ASSUME IpcInv, Sock', NEW d \in Daemons, UNCHANGED users, Reload(d)
  PROVE  IpcInv'
<1>1. UNCHANGED <<main, srv, backlog, conn, worker, saveq, saved, pushed, raced, acked, verdict>>
  BY DEF Reload, users
<1>2. EffectTypes'
  BY <1>1 DEF IpcInv, IpcTypes, EffectTypes, Reload
<1>. QED
  BY <1>1, <1>2, ServiceFrame, VerdictFrame, SaveFrame, Together

-----------------------------------------------------------------------------
(* Steps that close connections *)

\* The ends of some connections go, with the queue or the thread that held them.
LEMMA DropKeeps ==
  ASSUME IpcInv, NEW d \in Daemons, NEW cs, NEW q \in Seq(Conns), NEW r \in Threads,
         conn' = Drop(cs, conn), backlog' = [backlog EXCEPT ![d] = q], srv' = [srv EXCEPT ![d] = r],
         UNCHANGED <<pushed, verdict>>,
         q = backlog[d] \/ q = <<>>,
         r.at \notin Serves, r.c = NoConn, Clock(r),
         \A e \in Daemons : cs \cap Range(backlog[e]) # {} => e = d /\ q = <<>>,
         \A e \in Daemons \ {d} : srv[e].at \in Serves => srv[e].c \notin cs
  PROVE  ServiceTypes' /\ ClockInv' /\ OnePlace' /\ NoAnswerYet' /\ PartsInv' /\ AnswerInv' /\ VerdictInv'
<1>0. Range(<<>>) = {} /\ DOMAIN <<>> = {}
  BY DEF Range
<1>1. conn \in [Conns -> Ends] /\ srv \in [Daemons -> Threads] /\ backlog \in [Daemons -> Seq(Conns)]
  BY DEF IpcInv, IpcTypes, ServiceTypes
<1>2. /\ conn' \in [Conns -> Ends]
      /\ \A c \in Conns :
           /\ conn'[c].got = conn[c].got
           /\ conn'[c].buf = 0 \/ conn'[c].buf = conn[c].buf
           /\ conn'[c].at = conn[c].at \/ (conn[c].at = "open" /\ conn'[c].at = "gone")
           /\ c \notin cs => conn'[c] = conn[c]
  BY <1>1, DropFacts
<1>3. ServiceTypes'
  BY <1>1, <1>2 DEF ServiceTypes
<1>4. ClockInv'
  BY <1>1 DEF IpcInv, ClockInv
<1>5. OnePlace'
  BY <1>0, <1>1 DEF IpcInv, OnePlace
<1>6. NoAnswerYet'
  <2>1. ASSUME NEW e \in Daemons, NEW c \in Conns, c \in Range(backlog'[e])
        PROVE  conn'[c].at \in {"open", "closed"} /\ conn'[c].got = "none" /\ c \notin pushed'
    <3>1. c \in Range(backlog[e])
      BY <2>1, <1>0, <1>1
    <3>2. c \notin cs
      BY <2>1, <3>1, <1>0, <1>1
    <3>. QED
      BY <3>1, <3>2, <1>2 DEF IpcInv, NoAnswerYet
  <2>2. ASSUME NEW e \in Daemons
        PROVE  /\ srv'[e].at \in Serves => conn'[srv'[e].c].at \in {"open", "closed"}
               /\ srv'[e].at \in Serves \ {"close"} => conn'[srv'[e].c].got = "none"
               /\ srv'[e].at \in {"line", "body", "queue"} => srv'[e].c \notin pushed'
    BY <1>1, <1>2 DEF IpcInv, NoAnswerYet, OnePlace, Serves
  <2>3. \A c \in Conns : conn'[c].at \in {"new", "never"} => conn'[c].got = "none" /\ c \notin pushed'
    BY <1>2 DEF IpcInv, NoAnswerYet
  <2>. QED
    BY <2>1, <2>2, <2>3 DEF NoAnswerYet
<1>7. PartsInv'
  <2>1. \A c \in Conns : conn'[c].buf <= Request[c].sends
    <3>1. \A c \in Conns : conn[c].buf <= Request[c].sends /\ 0 <= Request[c].sends
      BY IpcAssumption DEF IpcInv, PartsInv
    <3>. QED
      BY <3>1, <1>2
  <2>2. \A e \in Daemons : srv'[e] = srv[e] \/ srv'[e].at \notin Serves
    BY <1>1
  <2>. QED
    BY <2>1, <2>2 DEF IpcInv, PartsInv, Serves
<1>8. AnswerInv'
  BY <1>1, <1>2 DEF IpcInv, AnswerInv, Serves, Pushers
<1>9. VerdictInv'
  BY <1>1, <1>2 DEF IpcInv, VerdictInv, Over
<1>. QED
  BY <1>3, <1>4, <1>5, <1>6, <1>7, <1>8, <1>9

\* The thread has been joined: what still waits is closed with the socket.
LEMMA JoinKeeps ==
  ASSUME IpcInv, Sock', NEW d \in Daemons, UNCHANGED users, Join(d)
  PROVE  IpcInv'
<1>1. /\ UNCHANGED <<srv, effects, acked, verdict>>
      /\ main' = [main EXCEPT ![d] = "drain"] /\ main[d] = "join" /\ srv[d].at \in {"none", "out"}
      /\ conn' = Drop(Range(backlog[d]), conn) /\ backlog' = [backlog EXCEPT ![d] = << >>]
  BY DEF Join, CloseSocket, Go, users
<1>. DEFINE r == srv[d]
<1>2. srv' = [srv EXCEPT ![d] = r] /\ r \in Threads
  BY <1>1 DEF IpcInv, IpcTypes, ServiceTypes
<1>3. ServiceTypes' /\ ClockInv' /\ OnePlace' /\ NoAnswerYet' /\ PartsInv' /\ AnswerInv' /\ VerdictInv'
  <2>1. << >> \in Seq(Conns) /\ r.at \notin Serves /\ r.c = NoConn /\ Clock(r)
    BY <1>1 DEF Serves, IpcInv, OnePlace, ClockInv
  <2>. HIDE DEF r
  <2>2. \A e \in Daemons : Range(backlog[d]) \cap Range(backlog[e]) # {} => e = d
    BY DEF IpcInv, OnePlace
  <2>3. \A e \in Daemons \ {d} : srv[e].at \in Serves => srv[e].c \notin Range(backlog[d])
    BY DEF IpcInv, OnePlace
  <2>4. /\ UNCHANGED <<pushed, verdict>>
        /\ conn' = Drop(Range(backlog[d]), conn) /\ backlog' = [backlog EXCEPT ![d] = << >>]
    BY <1>1 DEF effects
  <2>. QED
    BY <1>2, <2>1, <2>2, <2>3, <2>4, DropKeeps
<1>4. EffectTypes'
  BY <1>1 DEF IpcInv, IpcTypes, EffectTypes, effects
<1>5. SaveInv'
  BY <1>1 DEF IpcInv, IpcTypes, SocketTypes, SaveInv, Kept, Serves, effects
<1>. QED
  BY <1>3, <1>4, <1>5, Together

\* The thread gives up its server while it serves nobody.
LEMMA ThreadAbortsKeeps ==
  ASSUME IpcInv, Sock', NEW d \in Daemons, UNCHANGED users, ThreadAborts(d)
  PROVE  IpcInv'
<1>. DEFINE r == [Idle EXCEPT !.at = "out"]
<1>1. /\ UNCHANGED <<effects, acked, verdict>> /\ srv[d].at = "idle"
      /\ main' = [main EXCEPT ![d] = "noipc"] /\ main[d] = "up"
      /\ srv' = [srv EXCEPT ![d] = r]
      /\ conn' = Drop(Range(backlog[d]), conn) /\ backlog' = [backlog EXCEPT ![d] = << >>]
  BY DEF ThreadAborts, CloseSocket, Go, Serve, At, users
<1>2. r \in Threads /\ r.at = "out" /\ r.t = 0 /\ r.c = NoConn
  BY Restful
<1>. HIDE DEF r
<1>3. ServiceTypes' /\ ClockInv' /\ OnePlace' /\ NoAnswerYet' /\ PartsInv' /\ AnswerInv' /\ VerdictInv'
  <2>1. << >> \in Seq(Conns) /\ r.at \notin Serves /\ Clock(r) /\ UNCHANGED <<pushed, verdict>>
    BY <1>1, <1>2, IpcAssumption DEF Serves, Clock, effects
  <2>2. \A e \in Daemons : Range(backlog[d]) \cap Range(backlog[e]) # {} => e = d
    BY DEF IpcInv, OnePlace
  <2>3. \A e \in Daemons \ {d} : srv[e].at \in Serves => srv[e].c \notin Range(backlog[d])
    BY DEF IpcInv, OnePlace
  <2>. QED
    BY <1>1, <1>2, <2>1, <2>2, <2>3, DropKeeps
<1>4. EffectTypes'
  BY <1>1 DEF IpcInv, IpcTypes, EffectTypes, effects
<1>5. SaveInv'
  BY <1>1, <1>2 DEF IpcInv, IpcTypes, SocketTypes, ServiceTypes, SaveInv, Kept, Serves, effects
<1>. QED
  BY <1>3, <1>4, <1>5, Together

\* A crash takes the queue, the client and what was not saved; what this daemon
\* acknowledged counts no more.
LEMMA CrashKeeps ==
  ASSUME IpcInv, Sock', NEW d \in Daemons, UNCHANGED users, Crash(d)
  PROVE  IpcInv'
<1>1. /\ UNCHANGED <<saved, pushed, raced, verdict>>
      /\ main' = [main EXCEPT ![d] = "off"]
      /\ srv' = [srv EXCEPT ![d] = NoThread]
      /\ conn' = Drop(Range(backlog[d]) \cup {srv[d].c}, conn) /\ backlog' = [backlog EXCEPT ![d] = << >>]
      /\ worker' = [worker EXCEPT ![d] = "none"] /\ saveq' = [saveq EXCEPT ![d] = {}]
      /\ reload' = reload \ {d} /\ acked' = {a \in acked : a[2] # d}
  BY DEF Crash, Go, users
<1>2. ServiceTypes' /\ ClockInv' /\ OnePlace' /\ NoAnswerYet' /\ PartsInv' /\ AnswerInv' /\ VerdictInv'
  <2>1. << >> \in Seq(Conns) /\ NoThread.at \notin Serves /\ Clock(NoThread)
    BY Restful, IpcAssumption DEF Serves, Clock
  <2>2. srv[d].c = NoConn \/ srv[d].at \in Serves
    BY DEF IpcInv, OnePlace
  <2>3. ASSUME NEW e \in Daemons, (Range(backlog[d]) \cup {srv[d].c}) \cap Range(backlog[e]) # {}
        PROVE  e = d
    <3>1. Range(backlog[e]) \subseteq Conns
      BY DEF Range, IpcInv, IpcTypes, ServiceTypes
    <3>2. srv[d].c \notin Range(backlog[e])
      BY <2>2, <3>1, IpcAssumption DEF IpcInv, OnePlace
    <3>. QED
      BY <2>3, <3>2 DEF IpcInv, OnePlace
  <2>4. ASSUME NEW e \in Daemons \ {d}, srv[e].at \in Serves
        PROVE  srv[e].c \notin Range(backlog[d]) \cup {srv[d].c}
    BY <2>2, <2>4, IpcAssumption DEF IpcInv, OnePlace
  <2>. DEFINE cs == Range(backlog[d]) \cup {srv[d].c}
  <2>5. conn' = Drop(cs, conn)
    BY <1>1
  <2>. HIDE DEF cs
  <2>. QED
    BY <1>1, <2>1, <2>3, <2>4, <2>5, Restful, DropKeeps DEF cs
<1>3. EffectTypes'
  BY <1>1 DEF IpcInv, IpcTypes, EffectTypes
<1>4. SaveInv'
  BY <1>1, Restful DEF IpcInv, IpcTypes, SocketTypes, ServiceTypes, EffectTypes, SaveInv, Kept, Serves
<1>. QED
  BY <1>2, <1>3, <1>4, Together

\* The connection of a served client is closed.
LEMMA CloseKeeps ==
  ASSUME IpcInv, Sock', NEW d \in Daemons, UNCHANGED users, Close(d)
  PROVE  IpcInv'
<1>. DEFINE q == backlog[d]
           cs == {srv[d].c}
<1>1. /\ UNCHANGED <<main, effects, acked, verdict>>
      /\ srv[d].at = "close" /\ srv' = [srv EXCEPT ![d] = Idle]
      /\ conn' = Drop(cs, conn) /\ UNCHANGED backlog
  BY DEF Close, Serve, At, users
<1>2. ServiceTypes' /\ ClockInv' /\ OnePlace' /\ NoAnswerYet' /\ PartsInv' /\ AnswerInv' /\ VerdictInv'
  <2>1. Idle.at \notin Serves /\ Clock(Idle) /\ Idle.c = NoConn /\ Idle \in Threads
    BY Restful, IpcAssumption DEF Serves, Clock
  <2>2. q \in Seq(Conns) /\ backlog' = [backlog EXCEPT ![d] = q]
    BY <1>1 DEF IpcInv, IpcTypes, ServiceTypes
  <2>3. \A e \in Daemons : cs \cap Range(backlog[e]) = {}
    BY <1>1 DEF IpcInv, OnePlace, Serves
  <2>4. \A e \in Daemons \ {d} : srv[e].at \in Serves => srv[e].c \notin cs
    BY <1>1 DEF IpcInv, OnePlace, Serves
  <2>5. UNCHANGED <<pushed, verdict>> /\ srv' = [srv EXCEPT ![d] = Idle] /\ conn' = Drop(cs, conn)
        /\ q = backlog[d]
    BY <1>1 DEF effects
  <2>. HIDE DEF q, cs
  <2>. QED
    BY <2>1, <2>2, <2>3, <2>4, <2>5, DropKeeps
<1>3. EffectTypes'
  BY <1>1 DEF IpcInv, IpcTypes, EffectTypes, effects
<1>4. SaveInv'
  BY <1>1, Restful DEF IpcInv, IpcTypes, ServiceTypes, SaveInv, Kept, Serves, effects
<1>. QED
  BY <1>2, <1>3, <1>4, Together

-----------------------------------------------------------------------------
(* Steps of the thread with a client *)

\* A client is taken from the queue and served, or closed unread.
LEMMA AcceptKeeps ==
  ASSUME IpcInv, Sock', NEW d \in Daemons, UNCHANGED users, Accept(d)
  PROVE  IpcInv'
<1>. DEFINE c == Head(backlog[d])
           r == [Idle EXCEPT !.at = "line", !.c = c]
<1>1. /\ UNCHANGED <<main, effects, acked, verdict>> /\ srv[d].at = "idle" /\ backlog[d] # << >>
      /\ backlog' = [backlog EXCEPT ![d] = Tail(@)]
      /\ main[d] \in {"init", "up", "halt"}
      /\ \/ conn' = Drop({c}, conn) /\ UNCHANGED srv
         \/ srv' = [srv EXCEPT ![d] = r] /\ UNCHANGED conn
  BY DEF Accept, Serve, At, Serving, users
<1>2. conn \in [Conns -> Ends] /\ srv \in [Daemons -> Threads] /\ backlog \in [Daemons -> Seq(Conns)]
  BY DEF IpcInv, IpcTypes, ServiceTypes
<1>3. /\ c \in Conns /\ Tail(backlog[d]) \in Seq(Conns) /\ c \in Range(backlog[d])
      /\ Range(Tail(backlog[d])) \subseteq Range(backlog[d])
      /\ c \notin Range(Tail(backlog[d]))
      /\ \A i, j \in DOMAIN Tail(backlog[d]) : Tail(backlog[d])[i] = Tail(backlog[d])[j] => i = j
  BY <1>1, <1>2, QueueHead DEF IpcInv, OnePlace
<1>4. r \in Threads /\ r.at = "line" /\ r.c = c /\ r.n = 0 /\ r.w = 0 /\ r.t = 0
  BY <1>3 DEF Idle, NoThread, Threads, Spots, Answers
<1>. HIDE DEF c, r
<1>5. /\ conn' \in [Conns -> Ends]
      /\ \A b \in Conns :
           /\ conn'[b].got = conn[b].got
           /\ conn'[b].buf = 0 \/ conn'[b].buf = conn[b].buf
           /\ conn'[b].at = conn[b].at \/ (conn[b].at = "open" /\ conn'[b].at = "gone")
           /\ b # c => conn'[b] = conn[b]
  <2>1. CASE conn' = Drop({c}, conn)
    <3>. DEFINE cs == {c}
    <3>1. conn' = Drop(cs, conn) /\ \A b : b # c => b \notin cs
      BY <2>1
    <3>. HIDE DEF cs
    <3>. QED
      BY <3>1, <1>2, DropFacts
  <2>2. CASE conn' = conn
    BY <2>2, <1>2
  <2>. QED
    BY <2>1, <2>2, <1>1
<1>6. \A e \in Daemons : Range(backlog'[e]) \subseteq Range(backlog[e]) \ {c}
  BY <1>1, <1>2, <1>3 DEF IpcInv, OnePlace
<1>7. \A e \in Daemons : srv[e].at \in Serves => srv[e].c # c
  BY <1>3 DEF IpcInv, OnePlace
<1>8. conn[c].at \in {"open", "closed"} /\ conn[c].got = "none" /\ c \notin pushed
  BY <1>3 DEF IpcInv, NoAnswerYet
<1>9. \A e \in Daemons : srv'[e] = srv[e] \/ (e = d /\ srv'[e] = r /\ conn' = conn)
  BY <1>1, <1>2
<1>10. ServiceTypes' /\ EffectTypes'
  BY <1>1, <1>2, <1>3, <1>4, <1>5 DEF IpcInv, IpcTypes, EffectTypes, ServiceTypes, effects
<1>11. ClockInv'
  <2>1. Clock(r)
    BY <1>4, IpcAssumption DEF Clock
  <2>. QED
    BY <2>1, <1>9 DEF IpcInv, ClockInv
<1>12. OnePlace'
  <2>1. \A e \in Daemons : \A i, j \in DOMAIN backlog'[e] : backlog'[e][i] = backlog'[e][j] => i = j
    BY <1>1, <1>2, <1>3 DEF IpcInv, OnePlace
  <2>2. \A e, f \in Daemons : e # f => Range(backlog'[e]) \cap Range(backlog'[f]) = {}
    BY <1>6 DEF IpcInv, OnePlace
  <2>3. ASSUME NEW e \in Daemons, srv'[e].at \in Serves
        PROVE  /\ srv'[e].c \in Conns
               /\ \A f \in Daemons : srv'[e].c \notin Range(backlog'[f])
               /\ \A f \in Daemons : srv'[f].at \in Serves /\ f # e => srv'[f].c # srv'[e].c
    BY <2>3, <1>3, <1>4, <1>6, <1>7, <1>9 DEF IpcInv, OnePlace
  <2>4. \A e \in Daemons : srv'[e].at \notin Serves => srv'[e].c = NoConn
    BY <1>4, <1>9 DEF IpcInv, OnePlace, Serves
  <2>. QED
    BY <2>1, <2>2, <2>3, <2>4 DEF OnePlace
<1>13. NoAnswerYet'
  <2>1. pushed' = pushed
    BY <1>1 DEF effects
  <2>2. ASSUME NEW e \in Daemons, NEW b \in Conns, b \in Range(backlog'[e])
        PROVE  conn'[b].at \in {"open", "closed"} /\ conn'[b].got = "none" /\ b \notin pushed
    BY <2>2, <1>5, <1>6 DEF IpcInv, NoAnswerYet
  <2>3. ASSUME NEW e \in Daemons
        PROVE  /\ srv'[e].at \in Serves => conn'[srv'[e].c].at \in {"open", "closed"}
               /\ srv'[e].at \in Serves \ {"close"} => conn'[srv'[e].c].got = "none"
               /\ srv'[e].at \in {"line", "body", "queue"} => srv'[e].c \notin pushed
    <3>1. CASE srv'[e] = srv[e]
      BY <3>1, <1>5, <1>7 DEF IpcInv, NoAnswerYet, OnePlace, Serves
    <3>2. CASE srv'[e] = r /\ conn' = conn
      BY <3>2, <1>4, <1>8
    <3>. QED
      BY <3>1, <3>2, <1>9
  <2>4. \A b \in Conns : conn'[b].at \in {"new", "never"} => conn'[b].got = "none" /\ b \notin pushed
    BY <1>5 DEF IpcInv, NoAnswerYet
  <2>. QED
    BY <2>1, <2>2, <2>3, <2>4 DEF NoAnswerYet
<1>14. PartsInv'
  <2>1. \A b \in Conns : conn'[b].buf <= Request[b].sends
    <3>1. \A b \in Conns : conn[b].buf <= Request[b].sends /\ 0 <= Request[b].sends
      BY IpcAssumption DEF IpcInv, PartsInv
    <3>. QED
      BY <3>1, <1>5
  <2>2. r.n <= Request[r.c].sends
    BY <1>3, <1>4, IpcAssumption
  <2>. QED
    BY <2>1, <2>2, <1>1, <1>4, <1>9 DEF IpcInv, PartsInv, effects
<1>15. AnswerInv'
  BY <1>1, <1>4, <1>5, <1>9 DEF IpcInv, AnswerInv, Pushers, effects
<1>16. VerdictInv'
  BY <1>1, <1>5 DEF IpcInv, VerdictInv, Over
<1>17. SaveInv'
  BY <1>1, <1>4, <1>9 DEF IpcInv, SaveInv, Kept, Serves, effects
<1>. QED
  BY <1>10, <1>11, <1>12, <1>13, <1>14, <1>15, <1>16, <1>17, Together

\* The loop ends between two clients.
LEMMA ThreadEndsKeeps ==
  ASSUME IpcInv, Sock', NEW d \in Daemons, UNCHANGED users, ThreadEnds(d)
  PROVE  IpcInv'
<1>. DEFINE r == [Idle EXCEPT !.at = "out"]
<1>1. /\ UNCHANGED <<main, effects, acked, verdict, conn, backlog>>
      /\ srv[d].at = "idle" /\ srv' = [srv EXCEPT ![d] = r]
  BY DEF ThreadEnds, Serve, At, users
<1>2. r \in Threads /\ r.at = "out" /\ r.t = 0 /\ r.c = NoConn
  BY Restful
<1>. HIDE DEF r
<1>3. \A e \in Daemons : srv'[e] = srv[e] \/ srv'[e] = r
  BY <1>1 DEF IpcInv, IpcTypes, ServiceTypes
<1>4. ServiceTypes' /\ EffectTypes'
  BY <1>1, <1>2 DEF IpcInv, IpcTypes, EffectTypes, ServiceTypes, effects
<1>5. ClockInv'
  <2>1. Clock(r)
    BY <1>2, IpcAssumption DEF Clock
  <2>. QED
    BY <2>1, <1>3 DEF IpcInv, ClockInv
<1>6. OnePlace'
  <2>1. \A e \in Daemons : srv'[e].at \in Serves => srv'[e] = srv[e]
    BY <1>2, <1>3 DEF Serves
  <2>2. \A e \in Daemons : srv'[e].at \notin Serves => srv'[e].c = NoConn
    BY <1>2, <1>3 DEF IpcInv, OnePlace
  <2>. QED
    BY <1>1, <2>1, <2>2 DEF IpcInv, OnePlace
<1>7. NoAnswerYet' /\ PartsInv' /\ AnswerInv'
  <2>1. NoAnswerYet'
    BY <1>1, <1>2, <1>3 DEF IpcInv, NoAnswerYet, Serves, effects
  <2>2. PartsInv' /\ AnswerInv'
    BY <1>1, <1>2, <1>3 DEF IpcInv, PartsInv, AnswerInv, effects
  <2>. QED
    BY <2>1, <2>2
<1>8. SaveInv'
  BY <1>1, <1>2, <1>3 DEF IpcInv, SaveInv, Kept, Serves, effects
<1>. QED
  BY <1>1, <1>4, <1>5, <1>6, <1>7, <1>8, VerdictFrame, Together

\* What a turn of the recv loops may make of the record of the thread.
Legal(d, r) ==
  /\ r \in Threads /\ r.c = srv[d].c /\ r.at \in Serves /\ Clock(r)
  /\ r.at \in {"line", "body"} => r.n <= Request[r.c].sends
  /\ r.at = "body" => r.c \in Pushers
  /\ r.at = "queue" => r.c \in Pushers /\ Whole(r.c) /\ Running(d)
  /\ r.at = "reply" => r.say \in Errors \/ (r.say = "ok" /\ r.c \notin Pushers)

\* A turn of the recv loops keeps the invariant.
LEMMA TurnKeeps ==
  ASSUME IpcInv, Sock', NEW d \in Daemons, NEW r, Legal(d, r),
         srv[d].at \in {"line", "body"}, srv' = [srv EXCEPT ![d] = r], reload' \subseteq Daemons,
         UNCHANGED <<main, backlog, conn, worker, saveq, saved, pushed, raced, acked, verdict>>
  PROVE  IpcInv'
<1>1. \A e \in Daemons : srv'[e] = srv[e] \/ (e = d /\ srv'[e] = r)
  BY DEF IpcInv, IpcTypes, ServiceTypes
<1>2. srv[d].at \in Serves \ {"close"}
  BY DEF Serves
<1>3. ServiceTypes' /\ EffectTypes'
  BY DEF IpcInv, IpcTypes, ServiceTypes, EffectTypes, Legal
<1>4. ClockInv'
  BY <1>1 DEF IpcInv, ClockInv, Legal
<1>5. OnePlace'
  <2>1. ASSUME NEW e \in Daemons, srv'[e].at \in Serves
        PROVE  srv[e].at \in Serves /\ srv'[e].c = srv[e].c
    BY <2>1, <1>1, <1>2 DEF Legal
  <2>2. \A e \in Daemons : srv'[e].at \notin Serves => srv'[e].c = NoConn
    BY <1>1 DEF Legal, IpcInv, OnePlace
  <2>. QED
    BY <2>1, <2>2 DEF IpcInv, OnePlace
<1>6. NoAnswerYet'
  <2>1. ASSUME NEW e \in Daemons
        PROVE  /\ srv'[e].at \in Serves => conn[srv'[e].c].at \in {"open", "closed"}
               /\ srv'[e].at \in Serves \ {"close"} => conn[srv'[e].c].got = "none"
               /\ srv'[e].at \in {"line", "body", "queue"} => srv'[e].c \notin pushed
    BY <1>1, <1>2 DEF IpcInv, NoAnswerYet, Legal
  <2>. QED
    BY <2>1 DEF IpcInv, NoAnswerYet
<1>7. PartsInv'
  BY <1>1 DEF IpcInv, PartsInv, Legal
<1>8. AnswerInv'
  <2>1. srv[d].c \notin pushed
    BY DEF IpcInv, NoAnswerYet
  <2>. QED
    BY <2>1, <1>1 DEF IpcInv, AnswerInv, Legal, Errors
<1>9. SaveInv'
  <2>1. main[d] \in {"init", "up", "halt", "join"}
    BY <1>2 DEF IpcInv, SaveInv
  <2>. QED
    BY <2>1, <1>1 DEF IpcInv, SaveInv, Kept, Legal, Errors, Running, Serves
<1>. QED
  BY <1>3, <1>4, <1>5, <1>6, <1>7, <1>8, <1>9, VerdictFrame, Together

\* One turn of the two recv loops: the deadline, a part, or the client's end.
LEMMA ReceiveKeeps ==
  ASSUME IpcInv, Sock', NEW d \in Daemons, UNCHANGED users, Receive(d)
  PROVE  IpcInv'
<1>. DEFINE r == srv[d]
           more == [r EXCEPT !.n = @ + 1, !.w = 0]
<1>1. /\ r \in Threads /\ r.at \in {"line", "body"} /\ r.c \in Conns /\ Clock(r)
      /\ r.n <= Request[r.c].sends /\ (r.at = "body" => r.c \in Pushers)
      /\ conn[r.c].buf <= Request[r.c].sends /\ conn[r.c].buf \in Nat
      /\ Request[r.c].sends \in Nat /\ Request[r.c].line \in Nat /\ Request[r.c].body \in Nat
  <2>1. r \in Threads /\ r.at \in {"line", "body"}
    BY DEF Receive, IpcInv, IpcTypes, ServiceTypes
  <2>2. r.c \in Conns
    BY <2>1 DEF IpcInv, OnePlace, Serves
  <2>. QED
    BY <2>1, <2>2, IpcAssumption DEF IpcInv, IpcTypes, ServiceTypes, Ends, ClockInv, PartsInv
<1>2. UNCHANGED <<main, backlog, conn, acked, verdict>>
  BY DEF Receive, users
<1>3. more \in Threads /\ more.at = r.at /\ more.c = r.c /\ more.w = 0 /\ more.t = r.t /\ more.n = r.n + 1
      /\ r.n \in Nat /\ r.w \in Nat /\ r.t \in Nat
  <2>1. r \in [at : Spots, c : Conns \cup {NoConn}, n : Nat, w : Nat, t : Nat, b : Nat, say : Answers]
    BY <1>1 DEF Threads
  <2>. HIDE DEF r
  <2>2. r.n + 1 \in Nat /\ r.n \in Nat
    BY <2>1
  <2>3. more \in Threads
    BY <2>1, <2>2 DEF Threads
  <2>. QED
    BY <2>1, <2>2, <2>3
<1>4. /\ Deadline \in Nat /\ RecvTimeout \in Nat /\ SendTimeout \in Nat
      /\ Deadline # 0 /\ RecvTimeout # 0 /\ SendTimeout # 0
  BY IpcAssumption
<1>. HIDE DEF r, more
<1>5. \A x \in Threads, what \in Errors \cup {"ok"} :
        x.c = r.c /\ x.t <= Deadline + RecvTimeout - 1 /\ (what = "ok" => r.c \notin Pushers)
          => Legal(d, Say(x, what))
  <2>1. SUFFICES ASSUME NEW x \in Threads, NEW what \in Errors \cup {"ok"},
                        x.c = r.c, x.t <= Deadline + RecvTimeout - 1, what = "ok" => r.c \notin Pushers
                 PROVE  Legal(d, Say(x, what))
    OBVIOUS
  <2>2. /\ Say(x, what) \in Threads /\ Say(x, what).at = "reply" /\ Say(x, what).say = what
        /\ Say(x, what).c = r.c /\ Say(x, what).w = 0 /\ Say(x, what).t = x.t /\ x.t \in Nat
    BY <2>1, SayFacts DEF Threads, Answers, Errors
  <2>. QED
    BY <2>1, <2>2, <1>4 DEF Legal, r, Clock, Serves, Errors
<1>6. r.t <= Deadline + RecvTimeout - 1
  BY <1>1, <1>3, <1>4 DEF Clock
<1>7. Legal(d, GivesUp(r))
  BY <1>1, <1>5, <1>6 DEF GivesUp, Errors
<1>8. conn[r.c].buf > r.n => more.n <= Request[r.c].sends
  BY <1>1, <1>3
<1>9. Clock(more)
  BY <1>1, <1>3, <1>4 DEF Clock
<1>10. conn[r.c].buf > r.n => Legal(d, more)
  BY <1>1, <1>3, <1>8, <1>9 DEF Legal, r, Serves
<1>11. Legal(d, [r EXCEPT !.at = "close"])
  BY <1>1, <1>4, <1>6 DEF Legal, r, Threads, Spots, Serves, Clock
<1>12. CASE Serve(d, GivesUp(r)) /\ UNCHANGED effects
  BY <1>1, <1>2, <1>7, <1>12, TurnKeeps DEF Serve, effects, r, IpcInv, IpcTypes, EffectTypes
<1>13. CASE conn[r.c].buf > r.n /\ r.at = "line" /\ Dispatch(d, more)
  <2>. DEFINE cmd == Request[more.c].cmd
             body == [more EXCEPT !.at = "body", !.w = 0, !.b = more.t]
             answer == CASE cmd \in {"status", "ping", "reload", "latency", "set_active_app"} -> "ok"
                         [] cmd = "set_config" -> "refused"
                         [] OTHER -> "unknown"
  <2>1. /\ reload' = reload \/ reload' = reload \cup {d}
        /\ UNCHANGED <<worker, saveq, saved, pushed, raced>>
        /\ \/ cmd = "set_config" /\ srv' = [srv EXCEPT ![d] = body]
           \/ srv' = [srv EXCEPT ![d] = Say(more, answer)]
    BY <1>13 DEF Dispatch, Serve
  <2>2. answer \in Errors \cup {"ok"} /\ (answer = "ok" => r.c \notin Pushers)
    BY <1>3 DEF Errors, Pushers
  <2>3. reload' \subseteq Daemons
    BY <2>1 DEF IpcInv, IpcTypes, EffectTypes
  <2>4. CASE cmd = "set_config" /\ srv' = [srv EXCEPT ![d] = body]
    <3>1. /\ body \in Threads /\ body.at = "body" /\ body.c = r.c /\ body.w = 0 /\ body.t = r.t
          /\ body.n = more.n
      BY <1>3 DEF Threads, Spots
    <3>2. r.c \in Pushers
      BY <2>4, <1>1, <1>3 DEF Pushers
    <3>. HIDE DEF body
    <3>3. Clock(body)
      BY <3>1, <1>1, <1>3, <1>4 DEF Clock
    <3>4. Legal(d, body)
      BY <3>1, <3>2, <3>3, <1>8, <1>13 DEF Legal, r, Serves
    <3>. QED
      BY <3>4, <2>1, <2>3, <2>4, <1>1, <1>2, TurnKeeps DEF r
  <2>5. CASE srv' = [srv EXCEPT ![d] = Say(more, answer)]
    <3>. HIDE DEF answer
    <3>1. Legal(d, Say(more, answer))
      BY <2>2, <1>3, <1>5, <1>6
    <3>. QED
      BY <3>1, <2>1, <2>3, <2>5, <1>1, <1>2, TurnKeeps DEF r
  <2>. QED
    BY <2>1, <2>4, <2>5
<1>14. CASE conn[r.c].buf > r.n /\ r.at = "body" /\ Received(d, more)
            /\ Serve(d, PushBody(d, more)) /\ UNCHANGED effects
  <2>. DEFINE queue == [more EXCEPT !.at = "queue", !.n = 0, !.w = 0, !.b = 0]
  <2>1. Legal(d, Say(more, "refused"))
    BY <1>3, <1>5, <1>6 DEF Errors
  <2>2. Running(d) => Legal(d, queue)
    <3>1. queue \in Threads /\ queue.at = "queue" /\ queue.c = r.c /\ queue.t = r.t
      BY <1>3 DEF Threads, Spots
    <3>2. Whole(r.c) /\ r.c \in Pushers
      BY <1>1, <1>3, <1>8, <1>14 DEF Received, Whole
    <3>. HIDE DEF queue
    <3>3. Clock(queue)
      BY <3>1, <1>3, <1>4, <1>6 DEF Clock
    <3>. QED
      BY <3>1, <3>2, <3>3 DEF Legal, r, Serves
  <2>3. \/ srv' = [srv EXCEPT ![d] = Say(more, "refused")]
        \/ Running(d) /\ srv' = [srv EXCEPT ![d] = queue]
    BY <1>14 DEF PushBody, Serve
  <2>. HIDE DEF queue
  <2>. QED
    BY <2>1, <2>2, <2>3, <1>1, <1>2, <1>14, TurnKeeps DEF effects, r, IpcInv, IpcTypes, EffectTypes
<1>15. CASE conn[r.c].buf > r.n /\ Serve(d, more) /\ UNCHANGED effects
  BY <1>1, <1>2, <1>10, <1>15, TurnKeeps DEF Serve, effects, r, IpcInv, IpcTypes, EffectTypes
<1>16. CASE Serve(d, [r EXCEPT !.at = "close"]) /\ UNCHANGED effects
  BY <1>1, <1>2, <1>11, <1>16, TurnKeeps DEF Serve, effects, r, IpcInv, IpcTypes, EffectTypes
<1>. QED
  BY <1>12, <1>13, <1>14, <1>15, <1>16 DEF Receive, r, more

\* A recv that waits another tick, or times out.
LEMMA WaitKeeps ==
  ASSUME IpcInv, Sock', NEW d \in Daemons, UNCHANGED users, Wait(d)
  PROVE  IpcInv'
<1>. DEFINE r == srv[d]
           s == [r EXCEPT !.w = @ + 1, !.t = @ + 1]
<1>1. /\ r \in Threads /\ r.at \in {"line", "body"} /\ r.c \in Conns /\ Clock(r)
      /\ r.n <= Request[r.c].sends /\ (r.at = "body" => r.c \in Pushers)
  <2>1. r \in Threads /\ r.at \in {"line", "body"}
    BY DEF Wait, IpcInv, IpcTypes, ServiceTypes
  <2>2. r.c \in Conns
    BY <2>1 DEF IpcInv, OnePlace, Serves
  <2>. QED
    BY <2>1, <2>2 DEF IpcInv, ClockInv, PartsInv
<1>2. /\ UNCHANGED <<main, backlog, conn, effects, acked, verdict>>
      /\ ~(r.w = 0 /\ Late(r))
      /\ srv' = [srv EXCEPT ![d] = IF s.w = RecvTimeout THEN GivesUp(s) ELSE s]
  BY DEF Wait, Serve, users
<1>3. /\ s \in Threads /\ s.at = r.at /\ s.c = r.c /\ s.n = r.n /\ s.w = r.w + 1 /\ s.t = r.t + 1
      /\ r.w \in Nat /\ r.t \in Nat
  <2>1. r \in [at : Spots, c : Conns \cup {NoConn}, n : Nat, w : Nat, t : Nat, b : Nat, say : Answers]
    BY <1>1 DEF Threads
  <2>. HIDE DEF r
  <2>2. r.w + 1 \in Nat /\ r.t + 1 \in Nat /\ r.w \in Nat /\ r.t \in Nat
    BY <2>1
  <2>3. s \in Threads
    BY <2>1, <2>2 DEF Threads
  <2>. QED
    BY <2>1, <2>2, <2>3
<1>4. /\ Deadline \in Nat /\ RecvTimeout \in Nat /\ SendTimeout \in Nat
      /\ Deadline # 0 /\ RecvTimeout # 0 /\ SendTimeout # 0
  BY IpcAssumption
<1>. HIDE DEF r, s
<1>5. r.w = 0 => r.t < Deadline
  BY <1>2, <1>3, <1>4 DEF Late
<1>6. s.w <= RecvTimeout /\ s.t <= Deadline - 1 + s.w
  BY <1>1, <1>3, <1>4, <1>5 DEF Clock
<1>7. CASE s.w = RecvTimeout
  <2>. DEFINE what == IF s.at = "line" THEN "timeout" ELSE "incomplete"
  <2>1. what \in Errors /\ what \in Answers
    BY DEF Errors, Answers
  <2>. HIDE DEF what
  <2>2. /\ Say(s, what) \in Threads /\ Say(s, what).at = "reply" /\ Say(s, what).say = what
        /\ Say(s, what).c = r.c /\ Say(s, what).w = 0 /\ Say(s, what).t = s.t
    BY <2>1, <1>3, SayFacts
  <2>3. Clock(Say(s, what))
    BY <2>2, <1>3, <1>4, <1>6 DEF Clock
  <2>4. Legal(d, Say(s, what))
    BY <2>1, <2>2, <2>3 DEF Legal, r, Serves
  <2>5. srv' = [srv EXCEPT ![d] = Say(s, what)]
    BY <1>2, <1>7 DEF GivesUp, what
  <2>. QED
    BY <2>4, <2>5, <1>1, <1>2, TurnKeeps DEF effects, r, IpcInv, IpcTypes, EffectTypes
<1>8. CASE s.w # RecvTimeout
  <2>1. Clock(s)
    BY <1>8, <1>1, <1>3, <1>4, <1>6 DEF Clock
  <2>2. Legal(d, s)
    BY <2>1, <1>1, <1>3 DEF Legal, r, Serves
  <2>3. srv' = [srv EXCEPT ![d] = s]
    BY <1>2, <1>8
  <2>. QED
    BY <2>2, <2>3, <1>1, <1>2, TurnKeeps DEF effects, r, IpcInv, IpcTypes, EffectTypes
<1>. QED
  BY <1>7, <1>8

\* An exception of one client: its connection is closed next.
LEMMA ClientThrowsKeeps ==
  ASSUME IpcInv, Sock', NEW d \in Daemons, UNCHANGED users, ClientThrows(d)
  PROVE  IpcInv'
<1>. DEFINE r == srv[d]
           x == [r EXCEPT !.at = "close"]
<1>1. /\ r \in Threads /\ r.at \in {"line", "body"} /\ Clock(r)
      /\ UNCHANGED <<main, backlog, conn, effects, acked, verdict>>
      /\ srv' = [srv EXCEPT ![d] = x]
  BY DEF ClientThrows, Serve, users, IpcInv, IpcTypes, ServiceTypes, ClockInv
<1>2. x \in Threads /\ x.at = "close" /\ x.c = r.c /\ x.t = r.t /\ r.t \in Nat
  BY <1>1 DEF Threads, Spots
<1>. HIDE DEF r, x
<1>3. Legal(d, x)
  BY <1>1, <1>2 DEF Legal, r, Clock, Serves
<1>. QED
  BY <1>1, <1>3, TurnKeeps DEF effects, r, IpcInv, IpcTypes, EffectTypes

\* The push is queued, whole and for the first time.
LEMMA EnqueueKeeps ==
  ASSUME IpcInv, Sock', NEW d \in Daemons, UNCHANGED users, Enqueue(d)
  PROVE  IpcInv'
<1>. DEFINE c == srv[d].c
           r == Say(srv[d], "ok")
<1>1. /\ UNCHANGED <<main, backlog, conn, reload, worker, saved, raced, acked, verdict>>
      /\ srv[d].at = "queue" /\ srv' = [srv EXCEPT ![d] = r]
      /\ saveq' = [saveq EXCEPT ![d] = @ \cup {c}] /\ pushed' = pushed \cup {c}
  BY DEF Enqueue, Serve, At, users
<1>2. /\ srv[d] \in Threads /\ Clock(srv[d]) /\ c \in Pushers /\ Whole(c)
      /\ c \in Conns /\ conn[c].at \in {"open", "closed"} /\ conn[c].got = "none" /\ c \notin pushed
  BY <1>1 DEF IpcInv, IpcTypes, ServiceTypes, ClockInv, PartsInv, OnePlace, NoAnswerYet, Serves
<1>3. r \in Threads /\ r.at = "reply" /\ r.say = "ok" /\ r.c = c /\ r.w = 0 /\ r.t = srv[d].t
  BY <1>2, SayFacts DEF Answers
<1>4. \A e \in Daemons : (e # d /\ srv'[e] = srv[e]) \/ (e = d /\ srv'[e] = r)
  BY <1>1 DEF IpcInv, IpcTypes, ServiceTypes
<1>5. \A e \in Daemons : c \notin Range(backlog[e]) /\ (e # d /\ srv[e].at \in Serves => srv[e].c # c)
  BY <1>1 DEF IpcInv, OnePlace, Serves
<1>. HIDE DEF c, r
<1>6. ServiceTypes' /\ EffectTypes'
  BY <1>1, <1>2, <1>3 DEF IpcInv, IpcTypes, ServiceTypes, EffectTypes
<1>7. ClockInv'
  <2>1. Clock(r)
    BY <1>1, <1>2, <1>3, IpcAssumption DEF Clock, Threads
  <2>. QED
    BY <2>1, <1>4 DEF IpcInv, ClockInv
<1>8. OnePlace'
  <2>1. \A e \in Daemons : (srv'[e].at \in Serves <=> srv[e].at \in Serves) /\ srv'[e].c = srv[e].c
    BY <1>1, <1>3, <1>4 DEF Serves, c
  <2>. QED
    BY <2>1, <1>1 DEF IpcInv, OnePlace
<1>9. NoAnswerYet'
  <2>1. ASSUME NEW e \in Daemons
        PROVE  /\ srv'[e].at \in Serves => conn[srv'[e].c].at \in {"open", "closed"}
               /\ srv'[e].at \in Serves \ {"close"} => conn[srv'[e].c].got = "none"
               /\ srv'[e].at \in {"line", "body", "queue"} => srv'[e].c \notin pushed'
    <3>1. CASE e = d
      BY <3>1, <1>2, <1>3, <1>4
    <3>2. CASE e # d
      BY <3>2, <1>1, <1>4, <1>5 DEF IpcInv, NoAnswerYet, Serves
    <3>. QED
      BY <3>1, <3>2
  <2>2. \A e \in Daemons, b \in Conns : b \in Range(backlog[e]) => b \notin pushed'
    BY <1>1, <1>5 DEF IpcInv, NoAnswerYet
  <2>3. \A b \in Conns : conn[b].at \in {"new", "never"} => b \notin pushed'
    BY <1>1, <1>2 DEF IpcInv, NoAnswerYet
  <2>. QED
    BY <2>1, <2>2, <2>3, <1>1 DEF IpcInv, NoAnswerYet
<1>10. PartsInv'
  BY <1>1, <1>2, <1>3, <1>4 DEF IpcInv, PartsInv
<1>11. AnswerInv'
  <2>1. ASSUME NEW e \in Daemons, srv'[e].at = "reply", srv'[e].c \in Pushers
        PROVE  srv'[e].say = "ok" <=> srv'[e].c \in pushed'
    <3>1. CASE e = d
      BY <3>1, <1>1, <1>3, <1>4
    <3>2. CASE e # d
      BY <2>1, <3>2, <1>1, <1>4, <1>5 DEF IpcInv, AnswerInv, Serves
    <3>. QED
      BY <3>1, <3>2
  <2>2. \A e \in Daemons : srv'[e].at = "reply" => srv'[e].say # "none"
    BY <1>3, <1>4 DEF IpcInv, AnswerInv
  <2>. QED
    BY <2>1, <2>2, <1>1, <1>2 DEF IpcInv, AnswerInv, Errors
<1>12. SaveInv'
  <2>1. main[d] \in {"init", "up", "halt", "join"} /\ (main[d] = "up" \/ c \in raced)
        /\ (main[d] = "up" => worker[d] = "poll")
    BY <1>1 DEF IpcInv, SaveInv, Serves, c
  <2>2. saveq \in [Daemons -> SUBSET Pushers]
    BY DEF IpcInv, IpcTypes, EffectTypes
  <2>. DEFINE KeptNow(b, e) == b \in saved \cup saveq'[e] \cup raced
  <2>3. \A e \in Daemons : \A b : Kept(b, e) => KeptNow(b, e)
    BY <1>1, <2>2 DEF Kept
  <2>4. KeptNow(c, d)
    BY <1>1, <2>2 DEF Kept
  <2>5. ASSUME NEW e \in Daemons
        PROVE  /\ srv'[e].at \in Serves \cup {"idle"} => main[e] \in {"init", "up", "halt", "join"}
               /\ worker[e] # "poll" => saveq'[e] \subseteq raced
               /\ srv'[e].at = "queue" => main[e] = "up" \/ srv'[e].c \in raced
               /\ srv'[e].at = "reply" /\ srv'[e].c \in Pushers /\ srv'[e].say = "ok" => KeptNow(srv'[e].c, e)
    <3>1. CASE e = d
      BY <3>1, <1>1, <1>3, <1>4, <2>1, <2>2, <2>4 DEF IpcInv, SaveInv, Kept
    <3>2. CASE e # d
      BY <3>2, <1>1, <1>4, <2>2, <2>3 DEF IpcInv, SaveInv, Kept
    <3>. QED
      BY <3>1, <3>2
  <2>6. /\ acked' \subseteq Conns \X Daemons
        /\ \A e \in Daemons, b \in Pushers : <<b, e>> \in acked' => KeptNow(b, e)
    BY <1>1, <2>3 DEF IpcInv, SaveInv
  <2>. QED
    BY <2>5, <2>6, <1>1 DEF IpcInv, SaveInv, Kept
<1>. QED
  BY <1>1, <1>6, <1>7, <1>8, <1>9, <1>10, <1>11, <1>12, VerdictFrame, Together

\* The answer is sent, or does not get through.
LEMMA ReplyKeeps ==
  ASSUME IpcInv, Sock', NEW d \in Daemons, UNCHANGED users, Reply(d)
  PROVE  IpcInv'
<1>. DEFINE r == srv[d]
           x == [r EXCEPT !.w = @ + 1, !.t = @ + 1]
           y == [r EXCEPT !.at = "close"]
<1>1. /\ UNCHANGED <<main, backlog, effects, verdict>> /\ r.at = "reply"
      /\ \/ r.w < SendTimeout /\ srv' = [srv EXCEPT ![d] = x] /\ UNCHANGED <<conn, acked>>
         \/ srv' = [srv EXCEPT ![d] = y] /\ UNCHANGED <<conn, acked>>
         \/ /\ srv' = [srv EXCEPT ![d] = y] /\ conn[r.c].at = "open"
            /\ conn' = [conn EXCEPT ![r.c].got = r.say]
            /\ acked' = IF r.say = "ok" THEN acked \cup {<<r.c, d>>} ELSE acked
  BY DEF Reply, Serve, At, users
<1>2. /\ r \in Threads /\ Clock(r) /\ r.c \in Conns /\ r.say # "none"
      /\ conn[r.c].at \in {"open", "closed"} /\ conn[r.c].got = "none"
      /\ conn \in [Conns -> Ends] /\ srv \in [Daemons -> Threads]
  BY <1>1 DEF IpcInv, IpcTypes, ServiceTypes, ClockInv, OnePlace, NoAnswerYet, AnswerInv, Serves
<1>3. /\ x \in Threads /\ x.at = "reply" /\ x.c = r.c /\ x.say = r.say /\ x.w = r.w + 1 /\ x.t = r.t + 1
      /\ y \in Threads /\ y.at = "close" /\ y.c = r.c /\ y.t = r.t
      /\ r.w \in Nat /\ r.t \in Nat /\ r.say \in Answers
  <2>1. r \in [at : Spots, c : Conns \cup {NoConn}, n : Nat, w : Nat, t : Nat, b : Nat, say : Answers]
        /\ r.at = "reply"
    BY <1>1, <1>2 DEF Threads
  <2>. HIDE DEF r
  <2>2. r.w + 1 \in Nat /\ r.t + 1 \in Nat /\ r.w \in Nat /\ r.t \in Nat
    BY <2>1
  <2>3. x \in Threads /\ y \in Threads
    BY <2>1, <2>2 DEF Threads, Spots
  <2>. QED
    BY <2>1, <2>2, <2>3
<1>. HIDE DEF r, x, y
<1>4. \A e \in Daemons : (e # d /\ srv'[e] = srv[e]) \/ (e = d /\ (srv'[e] = y \/ (srv'[e] = x /\ conn' = conn)))
  BY <1>1, <1>2
<1>5. /\ conn' \in [Conns -> Ends]
      /\ \A b \in Conns :
           /\ conn'[b].at = conn[b].at /\ conn'[b].buf = conn[b].buf
           /\ \/ conn'[b].got = conn[b].got
              \/ b = r.c /\ conn'[b].got = r.say /\ conn[b].at = "open" /\ srv'[d] = y
  <2>1. CASE conn' = conn
    BY <2>1, <1>2
  <2>2. CASE conn' = [conn EXCEPT ![r.c].got = r.say] /\ conn[r.c].at = "open" /\ srv' = [srv EXCEPT ![d] = y]
    BY <2>2, <1>2, <1>3 DEF Ends
  <2>. QED
    BY <2>1, <2>2, <1>1
<1>6. \A e \in Daemons : r.c \notin Range(backlog[e]) /\ (e # d /\ srv[e].at \in Serves => srv[e].c # r.c)
  BY <1>1 DEF IpcInv, OnePlace, Serves, r
<1>7. ServiceTypes' /\ EffectTypes'
  BY <1>1, <1>2, <1>3, <1>5 DEF IpcInv, IpcTypes, ServiceTypes, EffectTypes, effects
<1>8. ClockInv'
  <2>1. Clock(y)
    BY <1>2, <1>3 DEF Clock
  <2>2. /\ Deadline \in Nat /\ RecvTimeout \in Nat /\ SendTimeout \in Nat
        /\ Deadline # 0 /\ RecvTimeout # 0 /\ SendTimeout # 0
    BY IpcAssumption
  <2>3. r.w < SendTimeout => Clock(x)
    BY <1>1, <1>2, <1>3, <2>2 DEF Clock
  <2>. QED
    BY <2>1, <2>3, <1>1, <1>2 DEF IpcInv, ClockInv
<1>9. OnePlace'
  <2>1. \A e \in Daemons : (srv'[e].at \in Serves <=> srv[e].at \in Serves) /\ srv'[e].c = srv[e].c
    BY <1>1, <1>3, <1>4 DEF Serves, r
  <2>. QED
    BY <2>1, <1>1 DEF IpcInv, OnePlace
<1>10. NoAnswerYet'
  <2>1. ASSUME NEW e \in Daemons
        PROVE  /\ srv'[e].at \in Serves => conn'[srv'[e].c].at \in {"open", "closed"}
               /\ srv'[e].at \in Serves \ {"close"} => conn'[srv'[e].c].got = "none"
               /\ srv'[e].at \in {"line", "body", "queue"} => srv'[e].c \notin pushed
    <3>1. CASE e = d
      BY <3>1, <1>2, <1>3, <1>4, <1>5
    <3>2. CASE e # d
      BY <3>2, <1>4, <1>5, <1>6 DEF IpcInv, NoAnswerYet, OnePlace, Serves
    <3>. QED
      BY <3>1, <3>2
  <2>2. ASSUME NEW e \in Daemons, NEW b \in Conns, b \in Range(backlog[e])
        PROVE  conn'[b].at \in {"open", "closed"} /\ conn'[b].got = "none" /\ b \notin pushed
    BY <2>2, <1>5, <1>6 DEF IpcInv, NoAnswerYet
  <2>3. \A b \in Conns : conn'[b].at \in {"new", "never"} => conn'[b].got = "none" /\ b \notin pushed
    BY <1>5 DEF IpcInv, NoAnswerYet
  <2>. QED
    BY <2>1, <2>2, <2>3, <1>1 DEF NoAnswerYet, effects
<1>11. PartsInv'
  <2>1. \A e \in Daemons : srv'[e] = srv[e] \/ srv'[e].at \in {"reply", "close"}
    BY <1>3, <1>4
  <2>. QED
    BY <2>1, <1>1, <1>5 DEF IpcInv, PartsInv, effects
<1>12. AnswerInv'
  <2>1. r.c \in Pushers => (r.say = "ok" <=> r.c \in pushed)
    BY <1>1 DEF IpcInv, AnswerInv, r
  <2>2. \A b \in Pushers : conn'[b].got = "ok" => b \in pushed
    BY <2>1, <1>5 DEF IpcInv, AnswerInv, Pushers
  <2>3. \A b \in Conns : conn'[b].got \in Errors => b \notin pushed
    BY <2>1, <1>5 DEF IpcInv, IpcTypes, EffectTypes, AnswerInv, Errors
  <2>4. ASSUME NEW e \in Daemons, srv'[e].at = "reply"
        PROVE  srv'[e].say # "none" /\ (srv'[e].c \in Pushers => (srv'[e].say = "ok" <=> srv'[e].c \in pushed))
    BY <2>1, <2>4, <1>2, <1>3, <1>4 DEF IpcInv, AnswerInv
  <2>. QED
    BY <2>2, <2>3, <2>4, <1>1 DEF AnswerInv, effects
<1>13. VerdictInv'
  <2>1. \A b \in Conns : conn'[b].got = conn[b].got \/ (verdict[b] = "none" /\ conn'[b].got # "none")
    BY <1>2, <1>5 DEF IpcInv, VerdictInv, Over
  <2>. QED
    BY <2>1, <1>1, <1>5 DEF IpcInv, VerdictInv, Over
<1>14. SaveInv'
  <2>1. r.c \in Pushers /\ r.say = "ok" => Kept(r.c, d)
    BY <1>1 DEF IpcInv, SaveInv, r
  <2>2. acked' \subseteq acked \cup {<<r.c, d>>} /\ (acked' # acked => r.say = "ok")
    BY <1>1
  <2>3. main[d] \in {"init", "up", "halt", "join"}
    BY <1>1 DEF IpcInv, SaveInv, Serves, r
  <2>4. /\ acked' \subseteq Conns \X Daemons
        /\ \A e \in Daemons, b \in Pushers : <<b, e>> \in acked' => Kept(b, e)
    BY <2>1, <2>2, <1>2 DEF IpcInv, SaveInv
  <2>5. ASSUME NEW e \in Daemons
        PROVE  /\ srv'[e].at \in Serves \cup {"idle"} => main[e] \in {"init", "up", "halt", "join"}
               /\ srv'[e].at = "queue" => main[e] = "up" \/ srv'[e].c \in raced
               /\ srv'[e].at = "reply" /\ srv'[e].c \in Pushers /\ srv'[e].say = "ok" => Kept(srv'[e].c, e)
    BY <2>1, <2>3, <1>3, <1>4 DEF IpcInv, SaveInv
  <2>. QED
    BY <2>4, <2>5, <1>1 DEF IpcInv, SaveInv, Kept, effects
<1>. QED
  BY <1>7, <1>8, <1>9, <1>10, <1>11, <1>12, <1>13, <1>14, Together

-----------------------------------------------------------------------------
(* The clients *)

\* A connection that is new goes to the end of one queue, or fails.
LEMMA BeginKeeps ==
  ASSUME IpcInv, Sock', NEW c \in Conns, Begin(c)
  PROVE  IpcInv'
<1>. DEFINE n == IF c \in Eager THEN Request[c].sends ELSE 0
           d == path.of
<1>1. /\ UNCHANGED <<main, srv, worker, saveq, saved, pushed, raced, acked, reload, verdict>>
      /\ conn[c].at = "new"
      /\ \/ /\ conn' = [conn EXCEPT ![c].at = "open", ![c].buf = n]
            /\ path.kind = "sock" /\ fd[d] = "listening"
            /\ backlog' = [backlog EXCEPT ![d] = Append(@, c)]
         \/ conn' = [conn EXCEPT ![c].at = "closed"] /\ UNCHANGED backlog
  BY DEF Begin, Turn, Connects, others
<1>2. conn \in [Conns -> Ends] /\ srv \in [Daemons -> Threads] /\ backlog \in [Daemons -> Seq(Conns)]
  BY DEF IpcInv, IpcTypes, ServiceTypes
<1>3. path.kind = "sock" => d \in Daemons
  BY Sockets DEF IpcInv, IpcTypes, SocketTypes, Free
<1>4. n \in Nat /\ n <= Request[c].sends
  BY IpcAssumption
<1>. HIDE DEF n, d
<1>5. /\ conn' \in [Conns -> Ends]
      /\ conn'[c].at \in {"open", "closed"} /\ conn'[c].got = conn[c].got
      /\ conn'[c].buf = n \/ conn'[c].buf = conn[c].buf
      /\ \A b \in Conns \ {c} : conn'[b] = conn[b]
  <2>1. CASE conn' = [conn EXCEPT ![c].at = "open", ![c].buf = n]
    BY <2>1, <1>2, <1>4 DEF Ends
  <2>2. CASE conn' = [conn EXCEPT ![c].at = "closed"]
    BY <2>2, <1>2 DEF Ends
  <2>. QED
    BY <2>1, <2>2, <1>1
<1>6. conn[c].got = "none" /\ c \notin pushed
      /\ (\A e \in Daemons : c \notin Range(backlog[e]) /\ (srv[e].at \in Serves => srv[e].c # c))
  BY <1>1 DEF IpcInv, NoAnswerYet
<1>7. /\ backlog' \in [Daemons -> Seq(Conns)]
      /\ \A e \in Daemons : \A i, j \in DOMAIN backlog'[e] : backlog'[e][i] = backlog'[e][j] => i = j
      /\ \/ \A e \in Daemons : Range(backlog'[e]) = Range(backlog[e])
         \/ /\ d \in Daemons /\ Range(backlog'[d]) = Range(backlog[d]) \cup {c}
            /\ \A e \in Daemons \ {d} : Range(backlog'[e]) = Range(backlog[e])
  <2>1. CASE UNCHANGED backlog
    BY <2>1, <1>2 DEF IpcInv, OnePlace
  <2>2. CASE path.kind = "sock" /\ backlog' = [backlog EXCEPT ![d] = Append(@, c)]
    <3>1. /\ Append(backlog[d], c) \in Seq(Conns)
          /\ Range(Append(backlog[d], c)) = Range(backlog[d]) \cup {c}
          /\ \A i, j \in DOMAIN Append(backlog[d], c) :
               Append(backlog[d], c)[i] = Append(backlog[d], c)[j] => i = j
      BY <2>2, <1>2, <1>3, <1>6, QueueAppend DEF IpcInv, OnePlace
    <3>. QED
      BY <2>2, <3>1, <1>2, <1>3 DEF IpcInv, OnePlace
  <2>. QED
    BY <2>1, <2>2, <1>1
<1>8. ServiceTypes' /\ EffectTypes' /\ ClockInv'
  BY <1>1, <1>2, <1>5, <1>7 DEF IpcInv, IpcTypes, ServiceTypes, EffectTypes, ClockInv
<1>9. OnePlace'
  <2>1. ASSUME NEW e \in Daemons, NEW f \in Daemons, e # f
        PROVE  Range(backlog'[e]) \cap Range(backlog'[f]) = {}
    <3>1. Range(backlog[e]) \cap Range(backlog[f]) = {} /\ c \notin Range(backlog[e]) \cup Range(backlog[f])
      BY <2>1, <1>6 DEF IpcInv, OnePlace
    <3>2. /\ Range(backlog'[e]) \subseteq Range(backlog[e]) \cup {c}
          /\ Range(backlog'[f]) \subseteq Range(backlog[f]) \cup {c}
          /\ Range(backlog'[e]) = Range(backlog[e]) \/ Range(backlog'[f]) = Range(backlog[f])
      <4>1. CASE \A g \in Daemons : Range(backlog'[g]) = Range(backlog[g])
        BY <4>1
      <4>2. CASE /\ d \in Daemons /\ Range(backlog'[d]) = Range(backlog[d]) \cup {c}
                 /\ \A g \in Daemons \ {d} : Range(backlog'[g]) = Range(backlog[g])
        <5>1. CASE e = d
          BY <4>2, <5>1, <2>1
        <5>2. CASE e # d
          BY <4>2, <5>2, <2>1
        <5>. QED
          BY <5>1, <5>2
      <4>. QED
        BY <4>1, <4>2, <1>7
    <3>. QED
      BY <3>1, <3>2
  <2>2. \A e \in Daemons : srv[e].at \in Serves => \A f \in Daemons : srv[e].c \notin Range(backlog'[f])
    BY <1>6, <1>7 DEF IpcInv, OnePlace
  <2>. QED
    BY <2>1, <2>2, <1>1, <1>7 DEF IpcInv, OnePlace
<1>10. NoAnswerYet'
  <2>1. ASSUME NEW e \in Daemons, NEW b \in Conns, b \in Range(backlog'[e])
        PROVE  conn'[b].at \in {"open", "closed"} /\ conn'[b].got = "none" /\ b \notin pushed
    <3>1. CASE b = c
      BY <3>1, <1>5, <1>6
    <3>2. CASE b # c
      <4>1. b \in Range(backlog[e])
        BY <2>1, <3>2, <1>7
      <4>. QED
        BY <3>2, <4>1, <1>5 DEF IpcInv, NoAnswerYet
    <3>. QED
      BY <3>1, <3>2
  <2>2. ASSUME NEW e \in Daemons, srv[e].at \in Serves
        PROVE  conn'[srv[e].c] = conn[srv[e].c]
    BY <2>2, <1>5, <1>6 DEF IpcInv, OnePlace
  <2>3. \A b \in Conns : conn'[b].at \in {"new", "never"} => conn'[b].got = "none" /\ b \notin pushed
    BY <1>5 DEF IpcInv, NoAnswerYet
  <2>. QED
    BY <2>1, <2>2, <2>3, <1>1 DEF IpcInv, NoAnswerYet, Serves
<1>11. PartsInv'
  BY <1>1, <1>4, <1>5 DEF IpcInv, PartsInv
<1>12. AnswerInv'
  BY <1>1, <1>5 DEF IpcInv, AnswerInv, Pushers
<1>13. VerdictInv'
  <2>1. verdict[c] = "none"
    BY <1>1, <1>6 DEF IpcInv, VerdictInv, Over
  <2>. QED
    BY <2>1, <1>1, <1>5 DEF IpcInv, VerdictInv, Over
<1>. QED
  BY <1>1, <1>8, <1>9, <1>10, <1>11, <1>12, <1>13, SaveFrame, Together

\* A client sends a part, or closes its end before it has an answer.
LEMMA ClientEndKeeps ==
  ASSUME IpcInv, Sock', NEW c \in Conns, Send(c) \/ GiveUp(c)
  PROVE  IpcInv'
<1>1. /\ UNCHANGED <<main, srv, worker, saveq, saved, pushed, raced, acked, reload, verdict, backlog>>
      /\ conn[c].at = "open"
      /\ \/ conn' = [conn EXCEPT ![c].buf = @ + 1] /\ conn[c].buf < Request[c].sends
         \/ conn' = [conn EXCEPT ![c].at = "closed"]
  BY DEF Send, GiveUp, others, users
<1>2. conn \in [Conns -> Ends] /\ conn[c].buf \in Nat /\ Request[c].sends \in Nat
  BY IpcAssumption DEF IpcInv, IpcTypes, ServiceTypes, Ends
<1>3. /\ conn' \in [Conns -> Ends] /\ conn'[c].got = conn[c].got
      /\ conn'[c].at \in {"open", "closed"}
      /\ conn'[c].buf = conn[c].buf \/ conn'[c].buf <= Request[c].sends
      /\ \A b \in Conns \ {c} : conn'[b] = conn[b]
  <2>1. CASE conn' = [conn EXCEPT ![c].buf = @ + 1] /\ conn[c].buf < Request[c].sends
    BY <2>1, <1>1, <1>2 DEF Ends
  <2>2. CASE conn' = [conn EXCEPT ![c].at = "closed"]
    BY <2>2, <1>2 DEF Ends
  <2>. QED
    BY <2>1, <2>2, <1>1
<1>4. ServiceTypes' /\ EffectTypes' /\ ClockInv' /\ OnePlace'
  BY <1>1, <1>3 DEF IpcInv, IpcTypes, ServiceTypes, EffectTypes, ClockInv, OnePlace
<1>5. NoAnswerYet'
  <2>1. \A b \in Conns :
          /\ conn[b].at \in {"open", "closed"} => conn'[b].at \in {"open", "closed"}
          /\ conn'[b].got = conn[b].got
          /\ conn'[b].at \in {"new", "never"} => conn[b].at \in {"new", "never"}
    BY <1>1, <1>3
  <2>2. \A e \in Daemons : srv[e].at \in Serves => srv[e].c \in Conns
    BY DEF IpcInv, OnePlace
  <2>. QED
    BY <1>1, <2>1, <2>2 DEF IpcInv, NoAnswerYet, Serves
<1>6. PartsInv'
  BY <1>1, <1>3 DEF IpcInv, PartsInv
<1>7. AnswerInv'
  BY <1>1, <1>3 DEF IpcInv, AnswerInv, Pushers
<1>8. VerdictInv'
  <2>1. \A b \in Conns : Over(b) => Over(b)'
    BY <1>1, <1>3 DEF Over
  <2>2. \A b \in Conns : conn'[b].got = conn[b].got
    BY <1>3
  <2>. QED
    BY <1>1, <2>1, <2>2 DEF IpcInv, VerdictInv
<1>. QED
  BY <1>1, <1>4, <1>5, <1>6, <1>7, <1>8, SaveFrame, Together

\* The owner of a push judges its end: by the answer, or by its absence.
LEMMA JudgeKeeps ==
  ASSUME IpcInv, Sock', NEW c \in Conns,
         Judge(c) \/ Reloaded(c) \/ Signal(c) \/ Show(c)
  PROVE  IpcInv'
<1>1. UNCHANGED <<main, srv, worker, saveq, saved, pushed, raced, acked, conn, backlog>>
  BY DEF Judge, Reloaded, Signal, Show, others, ipc
<1>2. conn[c].got \in Answers
  BY DEF IpcInv, IpcTypes, ServiceTypes, Ends
<1>3. \/ UNCHANGED verdict
      \/ /\ verdict' = [verdict EXCEPT ![c] = Verdict(c)]
         /\ c \in Push /\ verdict[c] = "none" /\ Over(c)
      \/ \E v \in {"reloaded", "signalled", "failed"} :
           verdict' = [verdict EXCEPT ![c] = v] /\ verdict[c] = "silent"
  BY DEF Judge, Reloaded, Signal, Show
<1>4. /\ Verdict(c) \in Verdicts
      /\ Verdict(c) = "applied" => conn[c].got = "ok"
      /\ Verdict(c) = "rejected" => conn[c].got \in Errors
      /\ conn[c].got \in {"refused", "incomplete"} => Verdict(c) = "rejected"
  BY <1>2 DEF Verdict, Verdicts, Errors, Answers
<1>5. EffectTypes'
  <2>1. reload' \subseteq Daemons
    BY DEF Judge, Reloaded, Signal, Show, ipc, IpcInv, IpcTypes, EffectTypes
  <2>2. verdict' \in [Conns -> Verdicts]
    BY <1>3, <1>4 DEF IpcInv, IpcTypes, EffectTypes, Verdicts
  <2>. QED
    BY <2>1, <2>2, <1>1 DEF IpcInv, IpcTypes, EffectTypes
<1>6. VerdictInv'
  <2>1. verdict \in [Conns -> Verdicts]
    BY DEF IpcInv, IpcTypes, EffectTypes
  <2>2. CASE UNCHANGED verdict
    BY <2>2, <1>1, VerdictFrame
  <2>3. CASE /\ verdict' = [verdict EXCEPT ![c] = Verdict(c)]
             /\ c \in Push /\ verdict[c] = "none" /\ Over(c)
    BY <2>1, <2>3, <1>1, <1>4 DEF IpcInv, VerdictInv, Over
  <2>4. ASSUME NEW v \in {"reloaded", "signalled", "failed"},
               verdict' = [verdict EXCEPT ![c] = v], verdict[c] = "silent"
        PROVE  VerdictInv'
    BY <2>1, <2>4, <1>1 DEF IpcInv, VerdictInv, Over
  <2>. QED
    BY <2>2, <2>3, <2>4, <1>3
<1>. QED
  BY <1>1, <1>5, <1>6, ServiceFrame, SaveFrame, Together

-----------------------------------------------------------------------------
(* The theorems *)

LEMMA IpcInvInit == Init => IpcInv
<1>. SUFFICES ASSUME Init PROVE IpcInv
  OBVIOUS
<1>1. PICK s \in Scenarios :
        /\ conn = [c \in Conns |-> [at |-> IF c \in s.conns THEN "new" ELSE "never", buf |-> 0, got |-> "none"]]
        /\ main = [d \in Daemons |-> IF d \in s.daemons THEN "off" ELSE "exited"]
  BY DEF Init, ServerInit
<1>2. /\ conn \in [Conns -> Ends]
      /\ \A c \in Conns : conn[c].at \in {"new", "never"} /\ conn[c].got = "none" /\ conn[c].buf = 0
  BY <1>1 DEF Ends, Answers
<1>3. /\ backlog = [d \in Daemons |-> << >>] /\ srv = [d \in Daemons |-> NoThread]
      /\ reload = {} /\ worker = [d \in Daemons |-> "none"]
      /\ saveq = [d \in Daemons |-> {}] /\ saved = {} /\ pushed = {} /\ raced = {} /\ acked = {}
      /\ verdict = [c \in Conns |-> "none"]
  BY DEF Init, ServerInit
<1>4. Sock
  BY SocketInit
<1>5. ServiceTypes /\ EffectTypes
  BY <1>2, <1>3, Restful DEF ServiceTypes, EffectTypes, Verdicts
<1>6. ClockInv
  <2>1. Clock(NoThread)
    BY Restful, IpcAssumption DEF Clock
  <2>. QED
    BY <2>1, <1>3 DEF ClockInv
<1>7. OnePlace /\ NoAnswerYet
  <2>1. Range(<<>>) = {} /\ DOMAIN <<>> = {}
    BY DEF Range
  <2>. QED
    BY <2>1, <1>2, <1>3, Restful DEF OnePlace, NoAnswerYet, Serves
<1>8. PartsInv /\ AnswerInv
  BY <1>2, <1>3, Restful, IpcAssumption DEF PartsInv, AnswerInv, Errors, Pushers
<1>9. VerdictInv
  BY <1>2, <1>3 DEF VerdictInv
<1>10. SaveInv
  BY <1>1, <1>3, Restful DEF SaveInv, Serves
<1>. QED
  BY <1>4, <1>5, <1>6, <1>7, <1>8, <1>9, <1>10 DEF Sock, IpcInv, IpcTypes

LEMMA IpcInvStep == IpcInv /\ [Next]_vars => IpcInv'
<1>. SUFFICES ASSUME IpcInv, [Next]_vars PROVE IpcInv'
  OBVIOUS
<1>1. Sock'
  BY SocketKept DEF Sock, IpcInv, IpcTypes
<1>2. ASSUME UNCHANGED users, NEW d \in Daemons, Thread(d) \/ ClientThrows(d) \/ ThreadAborts(d)
      PROVE  IpcInv'
  BY <1>1, <1>2, AcceptKeeps, ReceiveKeeps, EnqueueKeeps, WaitKeeps, ReplyKeeps, CloseKeeps,
     ThreadEndsKeeps, ClientThrowsKeeps, ThreadAbortsKeeps DEF Thread
<1>3. ASSUME UNCHANGED users, NEW d \in Daemons,
             Main(d) \/ Start(d) \/ Halt(d) \/ StopBegins(d) \/ Reload(d) \/ Crash(d)
      PROVE  IpcInv'
  BY <1>1, <1>3, MainKeeps, ListenKeeps, JoinKeeps, SaveKeeps, HaltKeeps, ReloadKeeps, CrashKeeps DEF Main
<1>4. ASSUME NEW c \in Conns,
             Begin(c) \/ Send(c) \/ GiveUp(c) \/ Judge(c) \/ Reloaded(c) \/ Signal(c) \/ Show(c)
      PROVE  IpcInv'
  BY <1>1, <1>4, BeginKeeps, ClientEndKeeps, JudgeKeeps
<1>5. CASE UNCHANGED vars
  <2>1. UNCHANGED <<main, srv, backlog, conn, reload, worker, saveq, saved, pushed, raced, acked, verdict>>
    BY <1>5 DEF vars, ipc, users
  <2>2. EffectTypes'
    BY <2>1 DEF IpcInv, IpcTypes, EffectTypes
  <2>. QED
    BY <1>1, <2>1, <2>2, ServiceFrame, VerdictFrame, SaveFrame, Together
<1>. QED
  BY <1>2, <1>3, <1>4, <1>5 DEF Next, ServerNext

LEMMA IpcInvAlways == Spec => []IpcInv
BY IpcInvInit, IpcInvStep, PTL DEF Spec

\* handle_ipc_client: however a client spreads its bytes and whatever it does not
\* read, it holds the serial server for at most the request deadline, one more
\* recv timeout and one send timeout, for any values of the three.
THEOREM ServiceIsBounded == Spec => []ServiceBounded
<1>1. IpcInv => ServiceBounded
  BY DEF IpcInv, ClockInv, Clock, ServiceBounded
<1>. QED
  BY <1>1, IpcInvAlways, PTL

\* daemon_apply_config and daemon_push_thread: what the user is told of a push is
\* what became of it at the daemons, under every order of answers, timeouts,
\* deaths of either side and crashes, for any number of clients and daemons.
THEOREM ClaimIsAlwaysHonest == Spec => []ClaimIsHonest
<1>1. IpcInv => ClaimIsHonest
  <2>. SUFFICES ASSUME IpcInv, NEW c \in Push
                PROVE  /\ verdict[c] = "applied" => c \in pushed
                       /\ c \in pushed => Request[c].sends >= Request[c].line + Request[c].body
                       /\ verdict[c] = "rejected" => c \notin pushed
                       /\ conn[c].got \in {"refused", "incomplete"} => verdict[c] \in {"none", "rejected"}
    BY DEF ClaimIsHonest
  <2>1. c \in Conns /\ c \in Pushers
    BY ClientsAssumption DEF Pushers
  <2>. QED
    BY <2>1 DEF IpcInv, VerdictInv, AnswerInv, PartsInv, Whole
<1>. QED
  BY <1>1, IpcInvAlways, PTL

\* push_config, save_worker and stop(): a push that a daemon acknowledged is on
\* disk when that daemon has exited, itself or through the one that replaced it,
\* except the ones that the stop meets in the two windows counted as raced.
THEOREM AckedIsAlwaysSaved == Spec => []AckedIsSaved
<1>1. IpcInv => AckedIsSaved
  <2>. SUFFICES ASSUME IpcInv PROVE AckedIsSaved
    OBVIOUS
  <2>1. TypeOK
    BY DEF IpcInv, IpcTypes, SocketTypes, ServiceTypes, EffectTypes, TypeOK, Range
  <2>2. ASSUME NEW c \in Pushers \ raced, NEW d \in Daemons, main[d] = "exited", <<c, d>> \in acked
        PROVE  c \in saved
    <3>1. c \in saved \cup saveq[d] \cup raced
      BY <2>2 DEF IpcInv, SaveInv, Kept
    <3>2. saveq[d] \subseteq raced
      BY <2>2 DEF IpcInv, SaveInv
    <3>. QED
      BY <2>2, <3>1, <3>2
  <2>. QED
    BY <2>1, <2>2 DEF AckedIsSaved
<1>. QED
  BY <1>1, IpcInvAlways, PTL
=============================================================================
