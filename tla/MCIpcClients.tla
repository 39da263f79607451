---------------------------- MODULE MCIpcClients ----------------------------
(* Two daemons, a push of the command line with its reload, two saves of the *)
(* GUI of which the second is invalid, a client that dribbles, one that does *)
(* not read, and one from outside the group.                                *)
EXTENDS IpcClients

MCConns == {"cli", "clir", "gui1", "gui2", "slow", "deaf", "out"}

Ask(cmd, line, body, sends, good) ==
  [cmd |-> cmd, line |-> line, body |-> body, sends |-> sends, good |-> good]

MCRequest ==
  [c \in MCConns |->
     CASE c = "cli" -> Ask("set_config", 1, 1, 2, TRUE)
       [] c = "clir" -> Ask("reload", 1, 0, 1, TRUE)
       [] c = "gui1" -> Ask("set_config", 1, 1, 2, TRUE)
       [] c = "gui2" -> Ask("set_config", 1, 1, 2, FALSE)
       [] c = "slow" -> Ask("set_config", 3, 2, 4, TRUE)
       [] OTHER -> Ask("status", 1, 0, 1, TRUE)]

\* A client that holds the server, and a push; two saves, two pushers; a second
\* daemon; failures.
MCScenarios ==
  {[conns |-> cs, daemons |-> {"d1"}, crashes |-> 0, throws |-> 0] :
     cs \in {{"cli", "clir", "deaf"}, {"gui1", "gui2"}, {"cli", "gui1"}, {"slow", "deaf"}, {"deaf", "out"}}}
  \cup {[conns |-> {"cli", "clir"}, daemons |-> {"d1", "d2"}, crashes |-> 0, throws |-> 0],
        [conns |-> {"gui1"}, daemons |-> {"d1", "d2"}, crashes |-> 1, throws |-> 0],
        [conns |-> {"cli", "clir"}, daemons |-> {"d1"}, crashes |-> 0, throws |-> 1]}

MCReloadOf == [k \in {"cli"} |-> "clir"]
MCGui == <<"gui1", "gui2">>
=============================================================================
