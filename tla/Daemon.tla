------------------------------- MODULE Daemon -------------------------------
(***************************************************************************)
(* The daemon's main loop and handle_client (src/service/main.cpp), the    *)
(* listening socket, and its clients: the PAM module (src/pam/             *)
(* pam_linuxcampam.cpp), which waits for a limited time, and the command   *)
(* line tool (send_cmd of src/cli/main.cpp), which waits for ever.         *)
(*                                                                         *)
(* One thread accepts a connection, reads one request, handles it, sends   *)
(* the answer and closes; everybody else waits in the backlog.  Clients    *)
(* time out or are killed at any point, the daemon is told to stop or      *)
(* crashes at any point, and systemd starts it again.  Neither side asks   *)
(* the kernel not to raise SIGPIPE, so a send to a peer that has closed    *)
(* ends the sender.                                                        *)
(***************************************************************************)
EXTENDS Integers, Sequences

CONSTANTS
    PamClients,   \* processes that load the PAM module, one authentication each
    CliClients,   \* runs of the command line tool, one command each
    Capacity,     \* connections the kernel keeps for listen(BACKLOG)
    Timeout,      \* TIMEOUT_SEC, in ticks
    MayCrash,     \* the daemon may crash, or be killed, at any point
    NoClient      \* nobody is being served

Clients == PamClients \cup CliClients

ASSUME DaemonAssumption ==
    /\ PamClients \cap CliClients = {}
    /\ NoClient \notin Clients
    /\ Capacity \in Nat \ {0}
    /\ Timeout \in Nat \ {0}
    /\ MayCrash \in BOOLEAN

VARIABLES
    pc,         \* where the daemon's thread is
    running,    \* g_running
    told,       \* what was raised: nothing ("no"), a signal, or the SIGTERM of a "stop" of systemd
    hung,       \* the thread waits for the logger's mutex, which it holds itself
    queue,      \* connections nobody has accepted yet, in order
    serving,    \* the client whose connection handle_client has
    response,   \* the answer to be sent
    unread,     \* the clients whose request lies in their connection
    st,         \* the state of each client
    waited,     \* how long its present call to connect or read has lasted, 0 outside of one
    outcome,    \* what the client made of it
    granted     \* history: the PAM clients for whom the engine said yes

daemon  == <<pc, running, told, hung, queue, serving, response>>
clients == <<unread, st, waited, outcome, granted>>
vars    == <<pc, running, told, hung, queue, serving, response, unread, st, waited, outcome,
             granted>>

Queued    == {queue[i] : i \in DOMAIN queue}
Blocked   == {"connecting", "sent"}      \* in a call that a timeout ends
Ended     == {"done", "gone"}            \* done: with an outcome; gone: without

\* out, connecting (the backlog is full), connected, reset (connected to a daemon
\* that has since gone), sent, leaving (its read timed out, its socket is still
\* open), done, gone.
States   == {"out", "connecting", "connected", "reset", "sent", "leaving"} \cup Ended
Outcomes == {"none", "granted", "denied", "unavailable", "answered", "killed"}
Up       == {"select", "read", "handle", "send"}

Init ==
    /\ pc = "select"
    /\ running = TRUE
    /\ told = "no"
    /\ hung = FALSE
    /\ queue = <<>>
    /\ serving = NoClient
    /\ response = "error"
    /\ unread = {}
    /\ st = [c \in Clients |-> "out"]
    /\ waited = [c \in Clients |-> 0]
    /\ outcome = [c \in Clients |-> "none"]
    /\ granted = {}

-----------------------------------------------------------------------------
(* The clients.                                                             *)

Leave(c, s) ==
    /\ st' = [st EXCEPT ![c] = s]
    /\ waited' = [waited EXCEPT ![c] = 0]

End(c, o) ==
    /\ Leave(c, "done")
    /\ outcome' = [outcome EXCEPT ![c] = o]

\* connect: refused when nobody listens, blocks while the backlog is full.
Connect(c) ==
    /\ st[c] \in {"out", "connecting"}
    /\ \/ pc = "down" /\ End(c, "unavailable") /\ UNCHANGED queue
       \/ /\ pc # "down" /\ Len(queue) < Capacity
          /\ queue' = Append(queue, c)
          /\ Leave(c, "connected")
          /\ UNCHANGED outcome
       \/ /\ pc # "down" /\ Len(queue) >= Capacity /\ st[c] = "out"
          /\ st' = [st EXCEPT ![c] = "connecting"]
          /\ UNCHANGED <<queue, waited, outcome>>
    /\ UNCHANGED <<pc, running, told, hung, serving, response, unread, granted>>

\* send, then read.  On a connection that was reset the send raises SIGPIPE.
Send(c) ==
    /\ \/ /\ st[c] = "connected"
          /\ st' = [st EXCEPT ![c] = "sent"]
          /\ unread' = unread \cup {c}
          /\ UNCHANGED <<waited, outcome>>
       \/ st[c] = "reset" /\ End(c, "killed") /\ UNCHANGED unread
    /\ UNCHANGED <<daemon, granted>>

\* SO_SNDTIMEO ends the connect, SO_RCVTIMEO the read; the tool sets neither.
TimesOut(c) ==
    /\ c \in PamClients
    /\ waited[c] = Timeout
    /\ \/ st[c] = "connecting" /\ End(c, "unavailable")
       \/ /\ st[c] = "sent"
          /\ Leave(c, "leaving")
          /\ outcome' = [outcome EXCEPT ![c] = "denied"]
    /\ UNCHANGED <<daemon, unread, granted>>

\* ~SocketDescriptor closes the socket of an authentication that timed out.
Close(c) ==
    /\ st[c] = "leaving"
    /\ st' = [st EXCEPT ![c] = "done"]
    /\ UNCHANGED <<daemon, unread, waited, outcome, granted>>

\* The process of the client is killed, or the user interrupts it.
Interrupt(c) ==
    /\ st[c] \notin Ended \cup {"out"}
    /\ Leave(c, "gone")
    /\ UNCHANGED <<daemon, unread, outcome, granted>>

Tick ==
    /\ \E c \in PamClients : st[c] \in Blocked /\ waited[c] < Timeout
    /\ waited' = [c \in Clients |-> IF c \in PamClients /\ st[c] \in Blocked /\ waited[c] < Timeout
                                    THEN waited[c] + 1 ELSE waited[c]]
    /\ UNCHANGED <<daemon, unread, st, outcome, granted>>

-----------------------------------------------------------------------------
(* The daemon.                                                              *)

\* The process ends: the kernel closes the listening socket and all connections.
\* A client that waits for an answer reads an error.  The signals it had seen mean
\* nothing to the next process.
Die ==
    /\ pc' = "down"
    /\ running' = TRUE
    /\ told' = "no"
    /\ hung' = FALSE
    /\ queue' = <<>>
    /\ serving' = NoClient
    /\ unread' = {}
    /\ st' = [c \in Clients |-> CASE st[c] = "connected" -> "reset"
                                  [] st[c] = "sent"      -> "done"
                                  [] OTHER               -> st[c]]
    /\ outcome' = [c \in Clients |->
                     IF st[c] = "sent" THEN IF c \in PamClients THEN "denied" ELSE "unavailable"
                     ELSE outcome[c]]
    /\ waited' = [c \in Clients |-> IF st[c] = "sent" THEN 0 ELSE waited[c]]
    /\ UNCHANGED <<response, granted>>

\* systemd starts the daemon.  When init() fails main() returns and it is down again.
Boot ==
    /\ pc = "down"
    /\ pc' = "select"
    /\ UNCHANGED <<running, told, hung, queue, serving, response, clients>>

\* A bug to compare with: whoever is waiting is served before the loop ends.
AcceptAnyway ==
    /\ pc = "select" /\ ~hung /\ queue # <<>>
    /\ serving' = Head(queue)
    /\ queue' = Tail(queue)
    /\ pc' = "read"
    /\ UNCHANGED <<running, told, hung, response, clients>>

\* select reports the listening socket, accept takes the first connection.
Accept ==
    /\ pc = "select" /\ ~hung /\ running /\ queue # <<>>
    /\ serving' = Head(queue)
    /\ queue' = Tail(queue)
    /\ pc' = "read"
    /\ UNCHANGED <<running, told, hung, response, clients>>

\* A bug to compare with: a read that does not wait for the client.
ReadNow ==
    /\ pc = "read" /\ ~hung
    /\ \/ /\ serving \in unread
          /\ unread' = unread \ {serving}
          /\ pc' = "handle"
          /\ UNCHANGED serving
       \/ /\ serving \notin unread
          /\ serving' = NoClient
          /\ pc' = "select"
          /\ UNCHANGED unread
    /\ UNCHANGED <<running, told, hung, queue, response, st, waited, outcome, granted>>

\* Another: a client that has not sent its request yet is put off, to be served later.
ReadLater ==
    /\ pc = "read" /\ ~hung
    /\ \/ /\ serving \in unread
          /\ unread' = unread \ {serving}
          /\ pc' = "handle"
          /\ UNCHANGED <<serving, queue>>
       \/ /\ serving \notin unread
          /\ queue' = IF st[serving] \in Ended THEN queue ELSE Append(queue, serving)
          /\ serving' = NoClient
          /\ pc' = "select"
          /\ UNCHANGED unread
    /\ UNCHANGED <<running, told, hung, response, st, waited, outcome, granted>>

\* read returns the request, whether or not its client is still there, or nothing
\* when the client left before it sent one; until then it blocks.
Read ==
    /\ pc = "read" /\ ~hung
    /\ \/ /\ serving \in unread
          /\ unread' = unread \ {serving}
          /\ pc' = "handle"
          /\ UNCHANGED serving
       \/ /\ serving \notin unread /\ st[serving] \in Ended
          /\ serving' = NoClient
          /\ pc' = "select"
          /\ UNCHANGED unread
    /\ UNCHANGED <<running, told, hung, queue, response, st, waited, outcome, granted>>

\* A bug to compare with: a command that is not known gets no answer.
HandleWithoutDefault ==
    /\ pc = "handle" /\ ~hung
    /\ pc' = "send"
    /\ response' = IF serving \in PamClients THEN "denied" ELSE ""
    /\ UNCHANGED <<running, told, hung, queue, serving, clients>>

\* Another: a request that throws leaves the last response in place.
HandleKeepingResponse ==
    /\ pc = "handle" /\ ~hung
    /\ pc' = "send"
    /\ \/ UNCHANGED <<response, granted>>
       \/ serving \in CliClients /\ response' = "answered" /\ UNCHANGED granted
       \/ serving \in PamClients /\ response' = "denied" /\ UNCHANGED granted
       \/ /\ serving \in PamClients /\ response' = "granted"
          /\ granted' = granted \cup {serving}
    /\ UNCHANGED <<running, told, hung, queue, serving, unread, st, waited, outcome>>

\* The dispatch: a verdict of the engine for AUTH_REQUEST, a text for the other
\* commands, an error when the handler throws.  There is no limit on its duration.
Handle ==
    /\ pc = "handle" /\ ~hung
    /\ pc' = "send"
    /\ IF serving \in PamClients
       THEN /\ response' \in {"granted", "denied", "error"}
            /\ granted' = IF response' = "granted" THEN granted \cup {serving} ELSE granted
       ELSE response' = "answered" /\ UNCHANGED granted
    /\ UNCHANGED <<running, told, hung, queue, serving, unread, st, waited, outcome>>

\* The answer is sent and the connection closed.  The client reads it and ends;
\* one whose read has timed out ignores it; if it closed its end, SIGPIPE.
Respond ==
    /\ pc = "send" /\ ~hung
    /\ IF st[serving] \in Ended THEN Die
       ELSE /\ IF st[serving] = "sent"
               THEN End(serving, IF response = "error" THEN
                                    IF serving \in PamClients THEN "denied" ELSE "answered"
                                 ELSE response)
               ELSE UNCHANGED <<st, waited, outcome>>
            /\ pc' = "select"
            /\ serving' = NoClient
            /\ UNCHANGED <<running, told, hung, queue, response, unread, granted>>

\* Anybody may raise SIGINT or SIGTERM, once or more often; systemd does to stop the
\* service.  The handler stays installed.
Raised ==
    /\ pc \in Up
    /\ told' = "stop" \/ (told # "stop" /\ told' = "signal")
    /\ UNCHANGED <<pc, queue, serving, response, clients>>

\* signal_handler logs and clears g_running.
Signal == Raised /\ ~hung /\ running' = FALSE /\ UNCHANGED hung

\* The handler waits for the mutex of Logger::log when it interrupts the thread in
\* there, where the maintenance and the handlers are all along, or in the handler of
\* the other signal, which is also logging.  To a thread that hangs nothing happens.
SignalHangs == Raised /\ hung' = TRUE /\ UNCHANGED running

\* A bug to compare with: g_running is looked at only when nobody is waiting.
LeaveLoopWhenQuiet ==
    /\ pc = "select" /\ ~hung /\ ~running /\ queue = <<>>
    /\ Die

\* The loop ends: the listening socket is closed and unlinked, main() logs and returns.
\* For the clients, one that hangs there is one that is not started again.
LeaveLoop ==
    /\ pc = "select" /\ ~hung /\ ~running
    /\ Die

\* The daemon crashes, or is killed.
Crash == MayCrash /\ pc \in Up /\ Die

\* systemd kills a daemon that it has told to stop and that does not in time.
StopTimeout == pc \in Up /\ told = "stop" /\ Die

Serve == Accept \/ Read \/ Handle \/ Respond \/ LeaveLoop

Next ==
    \/ \E c \in Clients : Connect(c)
    \/ \E c \in Clients : Send(c)
    \/ \E c \in Clients : TimesOut(c)
    \/ \E c \in Clients : Close(c)
    \/ \E c \in Clients : Interrupt(c)
    \/ Tick
    \/ Boot
    \/ Accept
    \/ Read
    \/ Handle
    \/ Respond
    \/ Signal
    \/ SignalHangs
    \/ LeaveLoop
    \/ Crash
    \/ StopTimeout

Spec == Init /\ [][Next]_vars

\* The daemon's thread is scheduled and its handlers return; systemd kills what it has
\* told to stop; a blocked connect is woken up.  The process of a module is scheduled
\* and time passes.  Nothing makes a client come, or anybody but a module send what it
\* has connected for; nothing ends a hang, and nothing starts the daemon again.
Fairness ==
    /\ WF_vars(Serve)
    /\ WF_vars(StopTimeout)
    /\ \A c \in Clients : WF_vars(st[c] = "connecting" /\ Connect(c))
    /\ WF_vars(Tick)
    /\ \A c \in PamClients : WF_vars(Send(c)) /\ WF_vars(TimesOut(c)) /\ WF_vars(Close(c))

FairSpec == Spec /\ Fairness

-----------------------------------------------------------------------------
(* Properties.                                                              *)

\* The states the daemon, the socket and the clients can be in.
DaemonTypeOK ==
    /\ pc \in Up \cup {"down"}
    /\ running \in BOOLEAN /\ hung \in BOOLEAN /\ told \in {"no", "signal", "stop"}
    /\ queue \in Seq(Clients) /\ Len(queue) <= Capacity
    /\ serving \in Clients \cup {NoClient}
    /\ response \in {"granted", "denied", "error", "answered"}
    /\ unread \subseteq Clients
    /\ st \in [Clients -> States]
    /\ waited \in [Clients -> 0 .. Timeout]
    /\ outcome \in [Clients -> Outcomes]
    /\ granted \subseteq PamClients

\* No connection is lost: as long as a client waits for its answer or is about to
\* ask, its connection is in the backlog or being served, exactly once, and its
\* request is unread, being handled or answered next.  So every early return of
\* handle_client and every way to end the process closes what it must.
NoLostConnection ==
    /\ \A c \in Clients : st[c] \in {"connected", "sent"} => c \in Queued \cup {serving}
    /\ \A i, k \in DOMAIN queue : queue[i] = queue[k] => i = k
    /\ serving \notin Queued
    /\ serving = NoClient <=> pc \in {"select", "down"}
    /\ \A c \in Clients : st[c] = "sent" => (c \in unread <=> (c \in Queued \/ pc = "read"))
    /\ serving # NoClient /\ st[serving] = "connected" => pc = "read"

\* A client whose PAM module reports success is one for whom the engine said yes,
\* on the request it sent itself; answers do not reach another client, and none
\* outlives its request.
SuccessWasGranted ==
    \A c \in PamClients : outcome[c] = "granted" => c \in granted

\* The thread makes no progress by itself: it hangs, or it reads from somebody who has
\* connected and sends nothing; and systemd was not asked to stop it.
Stuck == told # "stop" /\ (hung \/ (pc = "read" /\ serving \notin unread))

\* An authentication ends, whatever the daemon does: it may hang, wait for ever for
\* another client, crash or never come back.  The tool, which has no timeouts, gets out
\* of its calls to connect and read as well, unless the daemon is stuck for good.
EveryClientEnds ==
    /\ \A c \in PamClients : st[c] # "out" ~> st[c] \in Ended
    /\ \A c \in CliClients :
          [](st[c] \in Blocked => <>(st[c] \notin Blocked \/ []Stuck))

\* A daemon that was told to stop stops, however many clients are waiting and however
\* many signals follow, unless it is stuck for good.
StopIsHonoured == [](told # "no" => <>(pc = "down" \/ []Stuck))

\* The steps the daemon's thread can still take once it has seen the signal.
StepsLeft ==
    CASE pc = "read" -> 4 [] pc = "handle" -> 3 [] pc = "send" -> 2
      [] pc = "select" -> 1

\* From the signal on the thread finishes the request it is at, if any, and takes no
\* other, however many signals follow: one of them may hang it where it is, but none
\* sets it back.
StopAdvances ==
    [][~running /\ pc \in Up =>
         pc' = "down" \/ (~running' /\ (pc' = pc \/ StepsLeft' < StepsLeft))]_vars

\* Who waits for the daemon, in the order of the connections, and what became of each.
Line == IF serving = NoClient THEN queue ELSE <<serving>> \o queue
Fate == [c \in Clients |-> IF st[c] = "gone" /\ outcome[c] = "none" THEN "gone" ELSE outcome[c]]

S == INSTANCE Service WITH open <- pc # "down", line <- Line, fate <- Fate

\* Sockets, blocking reads, timeouts, signals and restarts are one waiting line: first
\* come, first served, one client at a time, no outcome ever replaced, and the answer
\* each client gets is the engine's to the request it sent itself.
ImplementsService == S!Spec
=============================================================================
