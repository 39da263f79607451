----------------------------- MODULE IpcClients -----------------------------
(***************************************************************************)
(* The clients of the control socket against IpcServer: the command line,  *)
(* which pushes a config, and falls back to a reload over a second         *)
(* connection and then to SIGHUP; the push threads of the GUI, one per     *)
(* save, whose results meet in one status line; and clients that are slow, *)
(* silent, deaf, or leave in the middle.                                   *)
(***************************************************************************)
EXTENDS IpcServer

CONSTANTS
  Cli,           \* connections with a push of the command line
  ReloadOf,      \* [Cli -> the connection of its reload]
  Gui,           \* the GUI's pushes, in the order of the saves
  Eager          \* connections that send all they have to send at once

Push == Cli \cup Range(Gui)
Reloads == Range(ReloadOf)

\* The command line and the GUI push with set_config and send what they have at once.
ASSUME ClientsAssumption ==
  /\ Push \cup Reloads \subseteq Eager /\ Push \subseteq Conns
  /\ \A c \in Push : Request[c].cmd = "set_config"

VARIABLES
  verdict,       \* [conn -> what its owner tells the user]: "none", "applied",
                 \*   "rejected", "reloaded" or "signalled" (the daemon was silent), "failed"
  pushGen,       \* push_gen: saves of the GUI
  shown,         \* the save whose result the status line shows
  handled        \* pushes whose result the GUI's main loop has seen

users == <<verdict, pushGen, shown, handled>>
vars == <<ipc, users>>

Init ==
  /\ ServerInit
  /\ verdict = [c \in Conns |-> "none"] /\ pushGen = 0 /\ shown = 0 /\ handled = {}

others == <<path, main, claimed, fd, srv, worker, saveq, saved, pushed, raced, acked, crashes,
            throws>>

GenOf(c) == CHOOSE g \in DOMAIN Gui : Gui[g] = c

-----------------------------------------------------------------------------
(* One connection: daemon_ipc_send and daemon_ipc_send_raw *)

\* When its owner comes to use a connection.
Turn(c) ==
  /\ conn[c].at = "new"
  /\ \A g \in DOMAIN Gui : Gui[g] = c => pushGen = g - 1
  /\ \A k \in Cli : ReloadOf[k] = c => verdict[k] = "silent"

Connects(c) ==
  path.kind = "sock" /\ fd[path.of] = "listening" /\ Len(backlog[path.of]) < Backlog

\* connect, then the loop that sends; a save of the GUI counts when its thread starts.
Begin(c) ==
  /\ Turn(c)
  /\ IF Connects(c)
     THEN /\ conn' = [conn EXCEPT ![c].at = "open", ![c].buf = IF c \in Eager THEN Request[c].sends ELSE 0]
          /\ backlog' = [backlog EXCEPT ![path.of] = Append(@, c)]
     ELSE conn' = [conn EXCEPT ![c].at = "closed"] /\ UNCHANGED backlog
  /\ pushGen' = IF c \in Range(Gui) THEN GenOf(c) ELSE pushGen
  /\ UNCHANGED <<others, reload, verdict, shown, handled>>

\* A client that is not Eager sends the next part, if the connection still stands.
Send(c) ==
  /\ conn[c].at = "open" /\ conn[c].buf < Request[c].sends
  /\ conn' = [conn EXCEPT ![c].buf = @ + 1]
  /\ UNCHANGED <<others, backlog, reload, users>>

\* The client's own timeout, or its death: what it has sent can still be read.
GiveUp(c) ==
  /\ conn[c].at = "open" /\ conn[c].got = "none"
  /\ conn' = [conn EXCEPT ![c].at = "closed"]
  /\ UNCHANGED <<others, backlog, reload, users>>

-----------------------------------------------------------------------------
(* daemon_apply_config, daemon_reload_via_any_path, daemon_push_thread *)

\* The answer is there, or none will come.
Over(c) == conn[c].got # "none" \/ conn[c].at \in {"closed", "gone"}

\* Mutant: everything that is not "ok" goes the way of an old daemon (before P156).
Verdict_falls_through(c) == IF conn[c].got = "ok" THEN "applied" ELSE "silent"

\* The command line takes any error for a refusal; the GUI only one to the push.
Verdict(c) ==
  CASE conn[c].got = "ok" -> "applied"
    [] conn[c].got \in {"refused", "incomplete"} -> "rejected"
    [] conn[c].got \in {"timeout", "unknown"} /\ c \in Cli -> "rejected"
    [] OTHER -> "silent"

Judge(c) ==
  /\ c \in Push /\ verdict[c] = "none" /\ Over(c)
  /\ verdict' = [verdict EXCEPT ![c] = Verdict(c)]
  /\ UNCHANGED <<ipc, pushGen, shown, handled>>

\* The reload of a command line that got no answer has been answered.
Reloaded(k) ==
  /\ k \in Cli /\ verdict[k] = "silent" /\ conn[ReloadOf[k]].got = "ok"
  /\ verdict' = [verdict EXCEPT ![k] = "reloaded"]
  /\ UNCHANGED <<ipc, pushGen, shown, handled>>

\* send_signal_to_daemon, daemon_send_signal: the daemon the PID files name.
Signal(c) ==
  /\ verdict[c] = "silent"
  /\ c \in Cli => Over(ReloadOf[c]) /\ conn[ReloadOf[c]].got # "ok"
  /\ \/ \E d \in Daemons :
          /\ main[d] \notin {"off", "exited"}
          /\ \/ reload' = reload \cup {d} /\ verdict' = [verdict EXCEPT ![c] = "signalled"]
             \/ UNCHANGED reload /\ verdict' = [verdict EXCEPT ![c] = "failed"]    \* EPERM
     \/ /\ \A d \in Daemons : main[d] \in {"off", "exited"}
        /\ UNCHANGED reload /\ verdict' = [verdict EXCEPT ![c] = "failed"]
  /\ UNCHANGED <<others, conn, backlog, pushGen, shown, handled>>

\* Mutant: the last result that comes in is shown.
Fresh_any(c) == TRUE

Fresh(c) == GenOf(c) = pushGen

\* The result of a push thread in the main loop: shown unless a newer save began.
Show(c) ==
  /\ c \in Range(Gui) \ handled /\ verdict[c] \notin {"none", "silent"}
  /\ handled' = handled \cup {c}
  /\ shown' = IF Fresh(c) THEN GenOf(c) ELSE shown
  /\ UNCHANGED <<ipc, verdict, pushGen>>

Client(c) == (c \in Eager /\ GiveUp(c)) \/ Judge(c) \/ Reloaded(c) \/ Signal(c) \/ Show(c)

Next ==
  \/ ServerNext /\ UNCHANGED users
  \/ \E c \in Conns : Begin(c) \/ Send(c) \/ GiveUp(c) \/ Judge(c) \/ Reloaded(c) \/ Signal(c) \/ Show(c)

\* The threads run (the work for a finite number of clients is finite, so one
\* condition is enough for all); nothing is assumed of when clients begin, or of
\* those that are not Eager.
Fairness ==
  /\ WF_vars((\E d \in Daemons : Thread(d) \/ Main(d)) /\ UNCHANGED users)
  /\ WF_vars(\E c \in Conns : Client(c))

Spec == Init /\ [][Next]_vars /\ Fairness

-----------------------------------------------------------------------------
(* Properties *)

\* Everyone who may push, also with a client of their own.
Pushers == {c \in Conns : Request[c].cmd = "set_config"}

\* Every variable has its type.
TypeOK ==
  /\ path = Free \/ path \in {SocketOf(d) : d \in Daemons}
  /\ claimed \subseteq Daemons /\ reload \subseteq Daemons /\ fd \in [Daemons -> {"none", "bound", "listening", "shut"}]
  /\ pushed \subseteq Pushers /\ saved \subseteq Pushers
  /\ \A d \in Daemons : Range(backlog[d]) \subseteq Conns /\ saveq[d] \subseteq Pushers

\* A push whose owner is told "applied" was taken by a daemon; one whose owner is
\* told "rejected" was not, by any; and a fallback is only for a push that got no
\* verdict on it (P156, ROUND4-FIX, daemon_apply_config and daemon_push_thread).
ClaimIsHonest ==
  \A c \in Push :
    /\ verdict[c] = "applied" => c \in pushed
    /\ c \in pushed => Request[c].sends >= Request[c].line + Request[c].body
    /\ verdict[c] = "rejected" => c \notin pushed
    /\ conn[c].got \in {"refused", "incomplete"} => verdict[c] \in {"none", "rejected"}

\* A push that a daemon has acknowledged is on disk when this daemon has exited,
\* itself or the one that made it obsolete: push_config accepts only while running_
\* is set, and save_worker ends only after that, though the server goes on until it
\* is joined (SAVE-1).  Left out are pushes that the stop meets between push_config's
\* look at running_ and its enqueue, or save_worker's look at the queue and that at
\* running_: those are lost.
AckedIsSaved ==
  /\ TypeOK
  /\ \A c \in Pushers \ raced, d \in Daemons : main[d] = "exited" /\ <<c, d>> \in acked => c \in saved

\* One client holds the serial server for at most the request deadline, one
\* more recv and the send of the answer, however it spreads its bytes.
ServiceBounded == \A d \in Daemons : srv[d].t <= Deadline + RecvTimeout - 1 + SendTimeout

\* As long as a daemon serves, the path leads to it: no start or stop of another
\* daemon takes it away (the probe of start_ipc_server, ipc_sock_path_ of stop).
LiveSocketKept == \A d \in Daemons : fd[d] = "listening" => path = SocketOf(d)

\* The status line of the GUI gets to the result of the newest save and stays
\* there: no thread of an older save writes over it (push_gen).
StatusIsNewest == (pushGen = Len(Gui)) ~> [](shown = Len(Gui))

\* The queue of clients that wait is emptied again and again, whatever the one
\* that is served does (slow, silent, deaf or gone), and a stop ends, with clients
\* being served and waiting (ipc_serve_loop, stop_ipc_server, stop).
EveryoneServed ==
  /\ []<>(\A d \in Daemons : backlog[d] = << >>)
  /\ []<>(\A d \in Daemons : main[d] \notin {"join", "drain"})
=============================================================================
