------------------------------ MODULE Listener ------------------------------
(***************************************************************************)
(* The main loops of the three servers (main.c of server, rtserver and     *)
(* mk5server): connections are accepted one after the other, and each is   *)
(* served by a forked child, whose death the SIGCHLD handler reap collects; *)
(* the realtime server serves it in the main loop itself, because the VSIB *)
(* board has one user.                                                     *)
(***************************************************************************)
EXTENDS Naturals, FiniteSets

CONSTANTS CLIENTS, SERVERS

VARIABLES
  server,      \* "forks" or "single"
  backlog,     \* connections that are not accepted yet
  client_fd,   \* the connection the main loop works on, or "none"
  step,        \* where the main loop is
  holders,     \* of each connection: the processes that have it open
  child,       \* of each connection: what its child does
  session_id,
  signal,      \* SIGCHLD is pending: one bit for any number of deaths
  reaping      \* the main process is in the handler

vars == <<server, backlog, client_fd, step, holders, child, session_id, signal, reaping>>

None == "none"
Main == "main"

Init ==
  /\ server \in SERVERS
  /\ backlog = {} /\ client_fd = None /\ step = "accept"
  /\ holders = [c \in CLIENTS |-> {}] /\ child = [c \in CLIENTS |-> None]
  /\ session_id = 0 /\ signal = FALSE /\ reaping = FALSE

Connect(c) ==
  /\ child[c] = None /\ holders[c] = {} /\ c \notin backlog
  /\ backlog' = backlog \cup {c}
  /\ UNCHANGED <<server, client_fd, step, holders, child, session_id, signal, reaping>>

\* The handler interrupts the main loop wherever it is.
accept(c) ==
  /\ step = "accept" /\ ~reaping /\ c \in backlog
  /\ backlog' = backlog \ {c}
  /\ client_fd' = c /\ holders' = [holders EXCEPT ![c] = {Main}]
  /\ step' = IF server = "forks" THEN "fork" ELSE "serve"
  /\ session_id' = IF server = "forks" THEN session_id ELSE session_id + 1
  /\ UNCHANGED <<server, child, signal, reaping>>

\* The child inherits whatever the parent has open.
fork ==
  /\ step = "fork" /\ ~reaping
  /\ child' = [child EXCEPT ![client_fd] = "runs"]
  /\ holders' = [d \in CLIENTS |-> IF Main \in holders[d] THEN holders[d] \cup {client_fd}
                                   ELSE holders[d]]
  /\ session_id' = session_id + 1
  /\ step' = "close"
  /\ UNCHANGED <<server, backlog, client_fd, signal, reaping>>

\* "continue", and client_fd stays open.
ForkFails ==
  /\ step = "fork" /\ ~reaping
  /\ step' = "accept" /\ client_fd' = None
  /\ UNCHANGED <<server, backlog, holders, child, session_id, signal, reaping>>

Closed(c) == holders[c] \ {Main}

\* The parent of the child, or the realtime server after client_handler.
close ==
  /\ step \in {"close", "served"} /\ ~reaping
  /\ holders' = [holders EXCEPT ![client_fd] = Closed(client_fd)]
  /\ step' = "accept" /\ client_fd' = None
  /\ UNCHANGED <<server, backlog, child, session_id, signal, reaping>>

\* client_handler returns, in the child or in the main loop.
client_handler(c) ==
  /\ child[c] = "runs"
  /\ child' = [child EXCEPT ![c] = "zombie"]
  /\ holders' = [d \in CLIENTS |-> holders[d] \ {c}]
  /\ signal' = TRUE
  /\ UNCHANGED <<server, backlog, client_fd, step, session_id, reaping>>

Serve ==
  /\ step = "serve"
  /\ step' = "served" /\ child' = [child EXCEPT ![client_fd] = "reaped"]
  /\ UNCHANGED <<server, backlog, client_fd, holders, session_id, signal, reaping>>

\* SIGCHLD is blocked while its handler runs; deaths meanwhile leave it pending.
EnterHandler ==
  /\ signal /\ ~reaping
  /\ signal' = FALSE /\ reaping' = TRUE
  /\ UNCHANGED <<server, backlog, client_fd, step, holders, child, session_id>>

Zombies == {c \in CLIENTS : child[c] = "zombie"}

\* Mutant: one waitpid for each signal.
AfterOne == FALSE

MoreDeaths == reaping

\* while (waitpid(-1, &status, WNOHANG) > 0)
waitpid(c) ==
  /\ reaping /\ child[c] = "zombie"
  /\ child' = [child EXCEPT ![c] = "reaped"]
  /\ reaping' = MoreDeaths
  /\ UNCHANGED <<server, backlog, client_fd, step, holders, session_id, signal>>

LeaveHandler ==
  /\ reaping /\ Zombies = {}
  /\ reaping' = FALSE
  /\ UNCHANGED <<server, backlog, client_fd, step, holders, child, session_id, signal>>

reap     == EnterHandler \/ (\E c \in CLIENTS : waitpid(c)) \/ LeaveHandler
MainLoop == (\E c \in CLIENTS : accept(c)) \/ fork \/ ForkFails \/ close

Next ==
  \/ \E c \in CLIENTS : Connect(c) \/ client_handler(c)
  \/ MainLoop \/ Serve \/ reap

Spec == Init /\ [][Next]_vars

\* The main process and the handler keep running; how long a session lasts is
\* up to its client.
Fairness == WF_vars(MainLoop) /\ WF_vars(reap)

-----------------------------------------------------------------------------
\* A session that is over leaves nothing behind: its child is reaped although
\* one SIGCHLD may stand for several deaths, and no process, the children that
\* were forked later included, keeps the connection open, so that the client
\* sees its end (main loop and reap in main.c).
SessionIsReleased ==
  \A c \in CLIENTS :
    child[c] \in {"zombie", "reaped"} ~> child[c] = "reaped" /\ holders[c] = {}
=============================================================================
