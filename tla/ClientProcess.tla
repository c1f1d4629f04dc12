--------------------------- MODULE ClientProcess ---------------------------
(***************************************************************************)
(* Client processes on one host: setup and cleanup (main.c, client.c), the *)
(* keepalive and listener threads (udp_handler.c, session_handler.c), the  *)
(* log file (logger.c) and the POSIX message queue to the dashboards       *)
(* (ipc_handler.c, scripts/dashboard.py).                                  *)
(*                                                                         *)
(* The queue has one name for the whole host and outlives its processes: a *)
(* client that is started, or a dashboard, opens the queue of that name or *)
(* creates it.  mq_unlink frees the name; who has the queue open keeps it. *)
(* A client runs once; what its dialogue with the server does is Dialogue. *)
(***************************************************************************)
EXTENDS Integers, Sequences, FiniteSets

CONSTANTS Clients,   \* client processes, one after or beside another
          Headless,  \* those that run in Docker and launch no dashboard
          MaxQueue,  \* messages a queue holds (MAX_MSG_COUNT)
          MaxMsgs,   \* bound: datagrams a client receives
          Categories, \* their categories, "bad" for one that has none
          MaxGen     \* bound: queues created under the name

ASSUME ClientAssumption ==
    /\ MaxQueue \in Nat \ {0} /\ MaxMsgs \in Nat /\ MaxGen \in Nat \ {0}
    /\ Headless \subseteq Clients
    /\ Categories \subseteq {"alert", "keepalive", "other", "bad"}

VARIABLES main,       \* where the main thread of each client is
          mq,         \* context->ipc_queue: the queue it has open, or 0
          listener,   \* udp_listener_thread_func
          keepalive,  \* keepalive_thread_func
          datagram,   \* the message the listener holds
          received,   \* datagrams received so far
          dashboard,  \* each client's dashboard: none, starting, open or ended
          showing,    \* the queue it reads, or 0
          name,       \* the queue under IPC_QUEUE_NAME, or 0
          queue       \* the messages of every queue created so far

\* Observers.
VARIABLES mixed,      \* two clients had the queue open, or one died without
                      \* cleanup or exit message, or a dashboard came too late
          foreign     \* before that, a dashboard showed another client's message

threadVars == <<listener, keepalive, datagram, received>>
queueVars == <<mq, name, queue>>
observerVars == <<mixed, foreign>>
dashboardVars == <<dashboard, showing>>
processVars == <<main, threadVars, dashboardVars, queueVars, observerVars>>

Alive(c) == main[c] \notin {"off", "exited", "killed"}
Quiet == "none"

\* While there are threads, the main thread tells whether context->udp_socket is
\* open and whether logger_close has freed pFile, which it does without log_mutex.
UdpOpen(c) == main[c] \in {"session", "cleanup"}
LogFreed(c) == main[c] = "return"

ClientInit ==
    /\ main = [c \in Clients |-> "off"] /\ mq = [c \in Clients |-> 0]
    /\ listener = [c \in Clients |-> "none"] /\ keepalive = [c \in Clients |-> "none"]
    /\ datagram = [c \in Clients |-> Quiet] /\ received = [c \in Clients |-> 0]
    /\ dashboard = [c \in Clients |-> "none"] /\ showing = [c \in Clients |-> 0]
    /\ name = 0 /\ queue = <<>>
    /\ mixed = FALSE /\ foreign = FALSE

-----------------------------------------------------------------------------
(* The message queue.                                                      *)

priority_check(category) ==
    CASE category = "exit" -> 3 [] category = "alert" -> 2
      [] category = "keepalive" -> 1 [] category = "bad" -> -1 [] OTHER -> 0

Message(category, c) == [category |-> category, from |-> c]

\* mq_send: behind the messages of the same or a higher priority.
Enqueue(q, m) ==
    LET before == {i \in DOMAIN q : priority_check(q[i].category) >= priority_check(m.category)}
        n == Cardinality(before)
    IN SubSeq(q, 1, n) \o <<m>> \o SubSeq(q, n + 1, Len(q))

\* mq_open with O_CREAT: the queue of that name, or a new one.
OpenQueue ==
    IF name = 0 THEN Len(queue) < MaxGen /\ queue' = Append(queue, <<>>) /\ name' = Len(queue) + 1
    ELSE UNCHANGED <<queue, name>>

\* The kernel drops a queue that has no name and that nobody has open.
Kept(q, names, opened) ==
    [g \in DOMAIN q |-> IF g \in names \cup opened THEN q[g] ELSE <<>>]
Open(f) == {f[c] : c \in Clients}

\* mq_send waits while the queue is full.
mq_send(c, category) ==
    /\ Len(queue[mq[c]]) < MaxQueue
    /\ queue' = [queue EXCEPT ![mq[c]] = Enqueue(@, Message(category, c))]

\* On a descriptor that is closed, or for a text without a category, nothing
\* is sent.
ipc_send_message(c, category) ==
    IF mq[c] = 0 \/ priority_check(category) < 0 THEN UNCHANGED queue
    ELSE mq_send(c, category)

-----------------------------------------------------------------------------
(* The main thread.                                                        *)

MainTo(c, pc) == main' = [main EXCEPT ![c] = pc]

\* parse_arguments and logger_init, without which main returns at once, and
\* setup_and_connect for tcp and for udp: an address works, or none does.
Setup(c) ==
    /\ main[c] = "off"
    /\ \E pc \in {"exited", "cleanup", "ipc"} : MainTo(c, pc)
    /\ UNCHANGED <<threadVars, dashboardVars, queueVars, observerVars>>

ipc_init(c) ==
    /\ main[c] = "ipc"
    /\ \/ /\ MainTo(c, "session")
          /\ OpenQueue
          /\ mq' = [mq EXCEPT ![c] = name']
          /\ mixed' = (mixed \/ \E d \in Clients \ {c} : Alive(d) /\ mq[d] # 0)
       \/ MainTo(c, "cleanup") /\ UNCHANGED <<queueVars, mixed>>
    /\ UNCHANGED <<threadVars, dashboardVars, foreign>>

\* session_start_aux_threads after a login, then launch_dashboard.  A thread
\* that cannot be created ends the session; a dashboard that cannot be
\* launched does not.
Login(c) ==
    /\ main[c] = "session" /\ keepalive[c] = "none"
    /\ \/ MainTo(c, "cleanup") /\ UNCHANGED <<listener, keepalive, dashboard>>
       \/ /\ keepalive' = [keepalive EXCEPT ![c] = "running"]
          /\ MainTo(c, "cleanup") /\ UNCHANGED <<listener, dashboard>>
       \/ /\ keepalive' = [keepalive EXCEPT ![c] = "running"]
          /\ listener' = [listener EXCEPT ![c] = "recv"]
          /\ \E launched \in {"none"} \cup (IF c \in Headless THEN {} ELSE {"starting"}) :
                dashboard' = [dashboard EXCEPT ![c] = launched]
          /\ UNCHANGED main
    /\ UNCHANGED <<datagram, received, showing, queueVars, observerVars>>

\* start_communication returns: end of input or a signal, `end`, an error, or
\* the server has closed.
EndSession(c) ==
    /\ main[c] = "session"
    /\ MainTo(c, "cleanup")
    /\ UNCHANGED <<threadVars, dashboardVars, queueVars, observerVars>>

\* client_cleanup, first part: both sockets are closed.
CloseSockets(c) ==
    /\ main[c] = "cleanup"
    /\ MainTo(c, IF mq[c] = 0 THEN "fclose" ELSE "ipc_exit")
    /\ UNCHANGED <<threadVars, dashboardVars, queueVars, observerVars>>

\* A mutant: the listener is joined before the queue is left.
JoinListener(c) ==
    /\ main[c] = "ipc_exit" /\ listener[c] \in {"none", "done"}
    /\ mq_send(c, "exit")
    /\ MainTo(c, "unlink")
    /\ UNCHANGED <<threadVars, dashboardVars, mq, name, observerVars>>

\* A mutant: the queue is not blocking, a message that finds it full is dropped.
ExitDropped(c) ==
    /\ main[c] = "ipc_exit"
    /\ \/ mq_send(c, "exit")
       \/ Len(queue[mq[c]]) = MaxQueue /\ UNCHANGED queue
    /\ MainTo(c, "unlink")
    /\ UNCHANGED <<threadVars, dashboardVars, mq, name, observerVars>>

\* ipc_exit, then the sleep that gives the dashboard time.
ipc_exit(c) ==
    /\ main[c] = "ipc_exit"
    /\ mq_send(c, "exit")
    /\ MainTo(c, "unlink")
    /\ UNCHANGED <<threadVars, dashboardVars, mq, name, observerVars>>

\* ipc_exit without memory for the message: nothing is sent.
ipc_exit_fails(c) ==
    /\ main[c] = "ipc_exit"
    /\ mixed' = TRUE
    /\ MainTo(c, "unlink")
    /\ UNCHANGED <<threadVars, dashboardVars, queueVars, foreign>>

\* A mutant: the name is not freed.
CloseOnly(c) ==
    /\ main[c] = "unlink"
    /\ mq' = [mq EXCEPT ![c] = 0]
    /\ MainTo(c, "fclose")
    /\ UNCHANGED <<threadVars, dashboardVars, name, queue, observerVars>>

\* mq_close and mq_unlink: the name is freed whoever's queue it now names.
Unlink(c) ==
    /\ main[c] = "unlink"
    /\ mq' = [mq EXCEPT ![c] = 0]
    /\ name' = 0
    /\ queue' = Kept(queue, {}, Open(mq') \cup Open(showing))
    /\ MainTo(c, "fclose")
    /\ UNCHANGED <<threadVars, dashboardVars, observerVars>>

\* logger_close: fclose here, pFile = NULL with the return.
logger_close(c) ==
    /\ main[c] = "fclose"
    /\ MainTo(c, "return")
    /\ UNCHANGED <<threadVars, dashboardVars, queueVars, observerVars>>

\* The process and its detached threads are gone.
Gone(c) ==
    /\ listener' = [listener EXCEPT ![c] = "none"]
    /\ keepalive' = [keepalive EXCEPT ![c] = "none"]
    /\ datagram' = [datagram EXCEPT ![c] = Quiet]
    /\ mq' = [mq EXCEPT ![c] = 0]
    /\ received' = [received EXCEPT ![c] = 0]
    /\ queue' = Kept(queue, {name}, Open(mq') \cup Open(showing))
    /\ UNCHANGED <<dashboardVars, name, foreign>>

Return(c) ==
    /\ main[c] = "return"
    /\ Gone(c) /\ MainTo(c, "exited") /\ UNCHANGED mixed

\* Killed from outside, or by what fclose(stdin) in signal_handler does to the
\* fgets it interrupts: no cleanup, the queue and its name stay.
Kill(c) ==
    /\ main[c] \in {"session", "ipc_exit"}
    /\ Gone(c) /\ MainTo(c, "killed")
    /\ mixed' = (mixed \/ mq[c] # 0)

-----------------------------------------------------------------------------
(* The threads, which log what they do.  Once the session has ended they   *)
(* find exit_requested set or not (it is set at the end of input, not by   *)
(* `end` or an error); otherwise an error of the socket ends them.         *)

\* A thread that is neither blocked nor done may be in logger_log, behind the
\* test of pFile.  Writing to a FILE that logger_close has freed is undefined:
\* the thread goes on, or the process ends.
WriteToFreed(c) ==
    /\ LogFreed(c) /\ (listener[c] \in {"recv", "send"} \/ keepalive[c] = "running")
    /\ Gone(c) /\ MainTo(c, "killed") /\ UNCHANGED mixed

ListenerAt(c, pc) ==
    /\ listener' = [listener EXCEPT ![c] = pc]
    /\ UNCHANGED <<main, keepalive, dashboardVars, mq, name, observerVars>>

\* recvfrom is called: it blocks, or fails on a socket that is closed.
ListenerCalls(c) ==
    /\ listener[c] = "recv"
    /\ ListenerAt(c, IF UdpOpen(c) THEN "blocked" ELSE "done")
    /\ UNCHANGED <<datagram, received, queue>>

\* A datagram arrives; a recvfrom already waiting outlives the close.
ListenerReceives(c) ==
    /\ listener[c] = "blocked" /\ received[c] < MaxMsgs
    /\ \E category \in Categories :
          datagram' = [datagram EXCEPT ![c] = category]
    /\ received' = [received EXCEPT ![c] = @ + 1]
    /\ ListenerAt(c, "send")
    /\ UNCHANGED queue

ListenerSends(c) ==
    /\ listener[c] = "send"
    /\ ipc_send_message(c, datagram[c])
    /\ datagram' = [datagram EXCEPT ![c] = Quiet]
    /\ \/ ListenerAt(c, "recv")
       \/ main[c] # "session" /\ ListenerAt(c, "done")
    /\ UNCHANGED received

\* The thread sends and sleeps until a send fails or an exit is requested.
KeepaliveEnds(c) ==
    /\ keepalive[c] = "running" /\ main[c] # "session"
    /\ keepalive' = [keepalive EXCEPT ![c] = "done"]
    /\ UNCHANGED <<main, listener, datagram, received, dashboardVars,
                   queueVars, observerVars>>

-----------------------------------------------------------------------------
(* The dashboard of scripts/dashboard.py, launched for one client.  One    *)
(* that opens the queue after its client has left it waits for ever on a   *)
(* queue of its own, or on the next client's.                              *)

DashboardOpens(c) ==
    /\ dashboard[c] = "starting"
    /\ OpenQueue
    /\ dashboard' = [dashboard EXCEPT ![c] = "open"]
    /\ showing' = [showing EXCEPT ![c] = name']
    /\ mixed' = (mixed \/ mq[c] # name')
    /\ UNCHANGED <<main, threadVars, mq, foreign>>

DashboardShows(c) ==
    /\ dashboard[c] = "open" /\ queue[showing[c]] # <<>>
    /\ LET g == showing[c]
           m == Head(queue[g])
       IN /\ foreign' = (foreign \/ (~mixed /\ m.from # c))
          /\ IF m.category = "exit"
             THEN /\ dashboard' = [dashboard EXCEPT ![c] = "ended"]
                  /\ showing' = [showing EXCEPT ![c] = 0]
             ELSE UNCHANGED dashboardVars
          /\ queue' = Kept([queue EXCEPT ![g] = Tail(@)], {name}, Open(mq) \cup Open(showing'))
    /\ UNCHANGED <<main, threadVars, mq, name, mixed>>

-----------------------------------------------------------------------------
MainStep(c) ==
    CloseSockets(c) \/ ipc_exit(c) \/ Unlink(c) \/ logger_close(c) \/ Return(c)

ListenerStep(c) == ListenerCalls(c) \/ ListenerSends(c)

ClientNext ==
    \E c \in Clients :
        \/ Setup(c) \/ ipc_init(c) \/ Login(c) \/ EndSession(c)
        \/ MainStep(c) \/ ipc_exit_fails(c) \/ Kill(c) \/ WriteToFreed(c)
        \/ ListenerStep(c) \/ ListenerReceives(c) \/ KeepaliveEnds(c)
        \/ DashboardOpens(c) \/ DashboardShows(c)

\* Main threads are scheduled and an open dashboard reads.  Nothing is assumed
\* of the user, the server, the network, the other threads or of a dashboard
\* that is starting.
Fairness ==
    \A c \in Clients :
        WF_processVars(MainStep(c)) /\ WF_processVars(DashboardShows(c))

ClientSpec == ClientInit /\ [][ClientNext]_processVars /\ Fairness

-----------------------------------------------------------------------------
(* Properties.                                                             *)

\* Clients that run one after the other on a host do not meet in the queue: a
\* dashboard shows the messages of its own client only, none that an earlier
\* client left behind (client_cleanup unlinks the queue).  It takes a client
\* that dies before its cleanup, two clients at a time, or a dashboard that
\* comes after its client has left, to mix them.
OwnMessages == ~foreign

\* The exit message of a client closes its dashboard, whatever waits in the
\* queue before it (ipc_exit, priority_check).  A headless client has none.
DashboardCloses ==
    \A c \in Clients \ Headless :
        (main[c] = "unlink" /\ dashboard[c] = "open") ~> (dashboard[c] = "ended" \/ mixed)

\* The queue is full and no dashboard reads it.
FullUnread(c) ==
    /\ main[c] = "ipc_exit" /\ Len(queue[mq[c]]) = MaxQueue
    /\ ~\E d \in Clients : dashboard[d] = "open" /\ showing[d] = mq[c]

\* client_cleanup ends, wherever the threads are, unless it waits for ever for
\* a place in a queue that nobody reads: the one case in which `end` does not
\* "close the client and the dashboard (if launched) cleanly" (REPORT).
CleanupEnds ==
    \A c \in Clients :
        (main[c] = "cleanup") ~> (~Alive(c) \/ [](FullUnread(c)))

=============================================================================
