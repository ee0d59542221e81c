--------------------------- MODULE Daemon_proofs ----------------------------
(***************************************************************************)
(* Proofs about Daemon for every number of clients, any backlog and any    *)
(* timeout of the module.                                                  *)
(*                                                                         *)
(* NoLostConnection is inductive only with Connected: a client that is in  *)
(* the backlog or served has come as far as its connection, so that a new  *)
(* connection is nobody's yet.  SuccessWasGranted needs GrantedIsMeant:    *)
(* an answer about to be sent is the engine's to the client being served.  *)
(*                                                                         *)
(* That Daemon implements Service needs ServiceInv besides: who can have   *)
(* an outcome, a reset connection or a verdict at each place of the line.  *)
(***************************************************************************)
EXTENDS Daemon, TLAPS

\* Whoever is in the backlog or served has connected; what lies unread was sent; and
\* an answer "granted" that is about to be sent is the engine's to this client.
Connected ==
    /\ \A c \in Queued \cup {serving} : c # NoClient => st[c] \notin {"out", "connecting"}
    /\ \A c \in unread : st[c] \notin {"out", "connecting", "connected"}

GrantedIsMeant ==
    pc = "send" /\ serving \in PamClients /\ response = "granted" => serving \in granted

Inv == DaemonTypeOK /\ NoLostConnection /\ Connected /\ SuccessWasGranted /\ GrantedIsMeant

-----------------------------------------------------------------------------
(* The backlog.                                                             *)

\* A connection more at the end of the backlog.
LEMMA QueuedAppend ==
    ASSUME NEW c \in Clients, queue \in Seq(Clients), queue' = Append(queue, c)
    PROVE  /\ queue' \in Seq(Clients)
           /\ Len(queue') = Len(queue) + 1
           /\ Queued' = Queued \cup {c}
           /\ (\A i, k \in DOMAIN queue : queue[i] = queue[k] => i = k) /\ c \notin Queued =>
                 \A i, k \in DOMAIN queue' : queue'[i] = queue'[k] => i = k
    <1> DEFINE n == Len(queue)
    <1>1. n \in Nat /\ DOMAIN queue = 1 .. n
        OBVIOUS
    <1>2. queue' \in Seq(Clients) /\ Len(queue') = n + 1 /\ DOMAIN queue' = 1 .. n + 1
        OBVIOUS
    <1>3. \A i \in 1 .. n : queue'[i] = queue[i]
        OBVIOUS
    <1>4. queue'[n + 1] = c
        OBVIOUS
    <1>5. Queued' = Queued \cup {c}
        <2>1. Queued' = {queue'[i] : i \in 1 .. n + 1}
            BY <1>2 DEF Queued
        <2>2. Queued = {queue[i] : i \in 1 .. n}
            BY <1>1 DEF Queued
        <2>3. 1 .. n + 1 = (1 .. n) \cup {n + 1}
            BY <1>1
        <2> QED
            BY <1>3, <1>4, <2>1, <2>2, <2>3
    <1>6. ASSUME \A i, k \in DOMAIN queue : queue[i] = queue[k] => i = k, c \notin Queued
          PROVE  \A i, k \in DOMAIN queue' : queue'[i] = queue'[k] => i = k
        <2>1. \A i \in 1 .. n : queue[i] # c
            BY <1>1, <1>6 DEF Queued
        <2> QED
            BY <1>1, <1>2, <1>3, <1>4, <1>6, <2>1
    <1> QED
        BY <1>2, <1>5, <1>6

\* The first connection leaves it.
LEMMA QueuedTail ==
    ASSUME queue \in Seq(Clients), queue # <<>>, queue' = Tail(queue)
    PROVE  /\ queue' \in Seq(Clients)
           /\ Len(queue') = Len(queue) - 1
           /\ Head(queue) \in Clients
           /\ Queued = Queued' \cup {Head(queue)}
           /\ (\A i, k \in DOMAIN queue : queue[i] = queue[k] => i = k) =>
                 /\ \A i, k \in DOMAIN queue' : queue'[i] = queue'[k] => i = k
                 /\ Head(queue) \notin Queued'
    <1> DEFINE n == Len(queue)
    <1>1. n \in Nat /\ n > 0 /\ DOMAIN queue = 1 .. n
        OBVIOUS
    <1>2. queue' \in Seq(Clients) /\ Len(queue') = n - 1 /\ DOMAIN queue' = 1 .. n - 1
        BY <1>1
    <1>3. \A i \in 1 .. n - 1 : queue'[i] = queue[i + 1]
        BY <1>1
    <1>4. Head(queue) = queue[1] /\ queue[1] \in Clients
        BY <1>1
    <1>5. Queued' = {queue[i + 1] : i \in 1 .. n - 1}
        BY <1>2, <1>3 DEF Queued
    <1>6. Queued = {queue[i] : i \in 1 .. n}
        BY <1>1 DEF Queued
    <1>7. Queued = Queued' \cup {Head(queue)}
        <2>1. ASSUME NEW i \in 1 .. n PROVE queue[i] \in Queued' \cup {queue[1]}
            <3>1. CASE i = 1
                BY <3>1
            <3>2. CASE i # 1
                <4>1. i - 1 \in 1 .. n - 1 /\ queue[i] = queue[(i - 1) + 1]
                    BY <1>1, <3>2
                <4> QED
                    BY <1>5, <4>1
            <3> QED
                BY <3>1, <3>2
        <2>2. ASSUME NEW i \in 1 .. n - 1 PROVE queue[i + 1] \in Queued
            <3>1. i + 1 \in 1 .. n
                BY <1>1
            <3> QED
                BY <1>6, <3>1
        <2>3. queue[1] \in Queued
            BY <1>1, <1>6
        <2> QED
            BY <1>4, <1>5, <1>6, <2>1, <2>2, <2>3
    <1>8. ASSUME \A i, k \in DOMAIN queue : queue[i] = queue[k] => i = k
          PROVE  /\ \A i, k \in DOMAIN queue' : queue'[i] = queue'[k] => i = k
                 /\ Head(queue) \notin Queued'
        <2>1. ASSUME NEW i \in 1 .. n - 1, NEW k \in 1 .. n - 1, queue'[i] = queue'[k]
              PROVE  i = k
            <3>1. i + 1 \in 1 .. n /\ k + 1 \in 1 .. n /\ queue[i + 1] = queue[k + 1]
                BY <1>1, <1>3, <2>1
            <3> QED
                BY <1>1, <1>8, <3>1
        <2>2. ASSUME NEW i \in 1 .. n - 1 PROVE queue[i + 1] # queue[1]
            <3>1. i + 1 \in 1 .. n /\ 1 \in 1 .. n /\ i + 1 # 1
                BY <1>1
            <3> QED
                BY <1>1, <1>8, <3>1
        <2> QED
            BY <1>2, <1>4, <1>5, <2>1, <2>2
    <1> QED
        BY <1>2, <1>4, <1>7, <1>8

-----------------------------------------------------------------------------
(* The inductive invariant.                                                 *)

\* A client has not waited at first.
LEMMA NoWait == 0 \in 0 .. Timeout
    BY DaemonAssumption DEF DaemonAssumption

\* The daemon starts with an empty backlog and serves nobody.
LEMMA InvInit == Init => Inv
<1> SUFFICES ASSUME Init PROVE Inv
    OBVIOUS
<1>1. DaemonTypeOK
  <2>1. waited \in [Clients -> 0 .. Timeout]
      BY NoWait DEF Init
  <2>2. queue \in Seq(Clients) /\ Len(queue) <= Capacity
      BY DaemonAssumption DEF DaemonAssumption, Init
  <2>3. st \in [Clients -> States] /\ outcome \in [Clients -> Outcomes]
      BY DEF Init, States, Outcomes
  <2> QED
      BY <2>1, <2>2, <2>3, Zenon DEF Init, DaemonTypeOK, Up
<1>2. Queued = {}
    BY DEF Init, Queued
<1>3. NoLostConnection
    BY <1>2 DEF Init, NoLostConnection
<1>4. Connected
    BY <1>2 DEF Init, Connected
<1>5. SuccessWasGranted /\ GrantedIsMeant
    BY DEF Init, SuccessWasGranted, GrantedIsMeant, Clients
<1> QED
    BY <1>1, <1>3, <1>4, <1>5 DEF Inv

\* The types.  What needs the rest of the invariant: the client that is answered is
\* one, and the backlog grows only below its capacity.
LEMMA DieTypes == DaemonTypeOK /\ Die => DaemonTypeOK'
<1> SUFFICES ASSUME DaemonTypeOK, Die PROVE DaemonTypeOK'
    OBVIOUS
<1>1. st' \in [Clients -> States]
    BY DEF Die, DaemonTypeOK, States, Ended
<1>2. outcome' \in [Clients -> Outcomes]
    BY DEF Die, DaemonTypeOK, Outcomes
<1>3. queue' \in Seq(Clients) /\ Len(queue') <= Capacity
    BY DaemonAssumption DEF DaemonAssumption, Die
<1>4. waited' \in [Clients -> 0 .. Timeout]
    BY NoWait DEF Die, DaemonTypeOK
<1> QED
    BY <1>1, <1>2, <1>3, <1>4 DEF Die, DaemonTypeOK

\* Every step keeps the types; only Connect and Accept change the backlog.
LEMMA TypeStep == Inv /\ [Next]_vars => DaemonTypeOK'
<1> SUFFICES ASSUME Inv, [Next]_vars PROVE DaemonTypeOK'
    OBVIOUS
<1> USE DaemonAssumption DEF DaemonAssumption, Inv
<1>1. ASSUME NEW c \in Clients, Connect(c) PROVE DaemonTypeOK'
  <2>1. queue' \in Seq(Clients) /\ Len(queue') <= Capacity
    <3>1. CASE UNCHANGED queue
        BY <3>1 DEF DaemonTypeOK
    <3>2. CASE queue' = Append(queue, c) /\ Len(queue) < Capacity
        BY <3>2 DEF DaemonTypeOK
    <3> QED
        BY <1>1, <3>1, <3>2 DEF Connect
  <2>2. /\ st' \in [Clients -> States]
        /\ outcome' \in [Clients -> Outcomes]
        /\ waited' \in [Clients -> 0 .. Timeout]
    <3>1. CASE End(c, "unavailable")
        BY <3>1, NoWait DEF End, Leave, DaemonTypeOK, States, Ended, Outcomes
    <3>2. CASE Leave(c, "connected") /\ UNCHANGED outcome
        BY <3>2, NoWait DEF DaemonTypeOK, States, Leave
    <3>3. CASE st' = [st EXCEPT ![c] = "connecting"] /\ UNCHANGED <<waited, outcome>>
        BY <3>3 DEF DaemonTypeOK, States
    <3> QED
        BY <1>1, <3>1, <3>2, <3>3 DEF Connect
  <2> QED
      BY <1>1, <2>1, <2>2 DEF Connect, DaemonTypeOK
<1>2. ASSUME NEW c \in Clients, Send(c) PROVE DaemonTypeOK'
  <2>1. st' \in [Clients -> States]
      BY <1>2 DEF Send, End, Leave, DaemonTypeOK, States, Ended
  <2>2. outcome' \in [Clients -> Outcomes]
      BY <1>2 DEF Send, End, Leave, DaemonTypeOK, Outcomes
  <2>3. waited' \in [Clients -> 0 .. Timeout] /\ unread' \subseteq Clients
      BY <1>2, NoWait DEF Send, End, Leave, DaemonTypeOK
  <2> QED
      BY <1>2, <2>1, <2>2, <2>3 DEF Send, daemon, DaemonTypeOK
<1>3. ASSUME NEW c \in Clients, TimesOut(c) \/ Close(c) \/ Interrupt(c) PROVE DaemonTypeOK'
    BY <1>3, NoWait
    DEF TimesOut, Close, Interrupt, End, Leave, daemon, DaemonTypeOK, States, Ended, Outcomes
<1>4. CASE Tick
  <2>1. waited' \in [Clients -> 0 .. Timeout]
    <3>1. ASSUME NEW c \in Clients PROVE waited'[c] \in 0 .. Timeout
        BY <1>4 DEF Tick, DaemonTypeOK
    <3> QED
        BY <1>4, <3>1 DEF Tick
  <2> QED
      BY <1>4, <2>1 DEF Tick, daemon, DaemonTypeOK
<1>5. CASE Boot \/ Read \/ Signal \/ SignalHangs
    BY <1>5 DEF Boot, Read, Signal, SignalHangs, Raised, clients, DaemonTypeOK, Up
<1>6. CASE Accept
  <2>1. queue \in Seq(Clients) /\ queue # <<>> /\ queue' = Tail(queue) /\ Len(queue) \in Nat
      BY <1>6 DEF Accept, DaemonTypeOK
  <2>2. queue' \in Seq(Clients) /\ Len(queue') = Len(queue) - 1 /\ Head(queue) \in Clients
      BY <2>1, QueuedTail
  <2>3. Len(queue') <= Capacity
      BY <2>1, <2>2 DEF DaemonTypeOK
  <2> QED
      BY <1>6, <2>2, <2>3 DEF Accept, clients, DaemonTypeOK, Up
<1>7. CASE Handle
  <2>1. serving \in Clients
      BY <1>7 DEF Handle, NoLostConnection, DaemonTypeOK
  <2>2. granted' \subseteq PamClients /\ response' \in {"granted", "denied", "error", "answered"}
      BY <1>7, <2>1 DEF Handle, DaemonTypeOK
  <2> QED
      BY <1>7, <2>2 DEF Handle, DaemonTypeOK, Up
<1>8. CASE Respond
  <2>1. CASE Die
      BY <2>1, DieTypes
  <2>2. CASE ~(st[serving] \in Ended)
    <3>1. /\ st' \in [Clients -> States]
          /\ outcome' \in [Clients -> Outcomes]
          /\ waited' \in [Clients -> 0 .. Timeout]
      <4>1. CASE UNCHANGED <<st, waited, outcome>>
          BY <4>1 DEF DaemonTypeOK
      <4>2. CASE \E o \in Outcomes : End(serving, o)
        <5>1. PICK o \in Outcomes : End(serving, o)
            BY <4>2
        <5>2. outcome' \in [Clients -> Outcomes]
            BY <5>1 DEF End, Leave, DaemonTypeOK
        <5>3. st' \in [Clients -> States]
            BY <5>1 DEF End, Leave, DaemonTypeOK, States, Ended
        <5>4. waited' \in [Clients -> 0 .. Timeout]
            BY <5>1, NoWait DEF End, Leave, DaemonTypeOK
        <5> QED
            BY <5>2, <5>3, <5>4
      <4>3. (IF response = "error" THEN IF serving \in PamClients THEN "denied" ELSE "answered"
             ELSE response) \in Outcomes
          BY DEF DaemonTypeOK, Outcomes
      <4> QED
          BY <1>8, <2>2, <4>1, <4>2, <4>3 DEF Respond
    <3> QED
        BY <1>8, <2>2, <3>1 DEF Respond, DaemonTypeOK, Up
  <2> QED
      BY <1>8, <2>1, <2>2 DEF Respond
<1>9. CASE LeaveLoop \/ Crash \/ StopTimeout
    BY <1>9, DieTypes DEF LeaveLoop, Crash, StopTimeout
<1>10. CASE UNCHANGED vars
    BY <1>10 DEF vars, DaemonTypeOK
<1> QED
    BY <1>1, <1>2, <1>3, <1>4, <1>5, <1>6, <1>7, <1>8, <1>9, <1>10 DEF Next

\* The connections.
ConnInv == NoLostConnection /\ Connected

\* The end of the process closes every connection at once.
LEMMA DieConnections == DaemonTypeOK /\ Die => ConnInv'
<1> SUFFICES ASSUME DaemonTypeOK, Die PROVE ConnInv'
    OBVIOUS
<1>1. queue' = <<>> /\ Queued' = {} /\ serving' = NoClient /\ unread' = {} /\ pc' = "down"
    BY DEF Die, Queued
<1>2. \A c \in Clients : st'[c] \notin {"connected", "sent"}
    BY DEF Die, DaemonTypeOK, States, Ended
<1>3. NoClient \notin Clients
    BY DaemonAssumption DEF DaemonAssumption
<1> QED
    BY <1>1, <1>2, <1>3 DEF ConnInv, NoLostConnection, Connected

\* A step of one client that leaves the backlog, the daemon and what is unread alone,
\* and after which the client is not in a state that needs a connection.
LEMMA ClientSteps ==
    ASSUME Inv, NEW c \in Clients, UNCHANGED <<pc, queue, serving, unread>>,
           \/ UNCHANGED st
           \/ /\ \E s \in {"reset", "leaving"} \cup Ended : st' = [st EXCEPT ![c] = s]
           \/ st[c] \in {"out", "connecting"} /\ st' = [st EXCEPT ![c] = "connecting"]
    PROVE  ConnInv'
<1>1. Queued' = Queued
    BY DEF Queued
<1>2. st \in [Clients -> States]
    BY DEF Inv, DaemonTypeOK
<1>3. \A d \in Clients : st'[d] = st[d] \/ d = c
    BY <1>2
<1>4. CASE UNCHANGED st
    BY <1>1, <1>4 DEF Inv, ConnInv, NoLostConnection, Connected
<1>5. CASE \E s \in {"reset", "leaving"} \cup Ended : st' = [st EXCEPT ![c] = s]
  <2>1. st'[c] \notin {"out", "connecting", "connected", "sent"}
      BY <1>2, <1>5 DEF Ended
  <2>2. NoLostConnection'
      BY <1>1, <1>3, <2>1 DEF Inv, NoLostConnection, DaemonTypeOK
  <2>3. Connected'
      BY <1>1, <1>3, <2>1 DEF Inv, Connected, DaemonTypeOK, Queued
  <2> QED
      BY <2>2, <2>3 DEF ConnInv
<1>6. CASE st[c] \in {"out", "connecting"} /\ st' = [st EXCEPT ![c] = "connecting"]
  <2>1. st'[c] = "connecting" /\ c \notin Queued \cup {serving} \cup unread
      BY <1>2, <1>6, DaemonAssumption DEF DaemonAssumption, Inv, Connected
  <2>2. NoLostConnection'
      BY <1>1, <1>3, <2>1 DEF Inv, NoLostConnection, DaemonTypeOK
  <2>3. Connected'
      BY <1>1, <1>3, <2>1 DEF Inv, Connected, DaemonTypeOK, Queued
  <2> QED
      BY <2>2, <2>3 DEF ConnInv
<1> QED
    BY <1>4, <1>5, <1>6

\* Every other step opens, moves or closes one connection.
LEMMA ConnectionsStep == Inv /\ [Next]_vars => ConnInv'
<1> SUFFICES ASSUME Inv, [Next]_vars PROVE ConnInv'
    OBVIOUS
<1> USE DEF Inv
<1>a. NoClient \notin Clients
    BY DaemonAssumption DEF DaemonAssumption
<1>b. st \in [Clients -> States]
    BY DEF DaemonTypeOK
<1>1. ASSUME NEW c \in Clients, Connect(c) PROVE ConnInv'
  <2>1. CASE UNCHANGED queue
    <3>1. \/ st' = [st EXCEPT ![c] = "done"]
          \/ st[c] \in {"out", "connecting"} /\ st' = [st EXCEPT ![c] = "connecting"]
        BY <1>1, <2>1 DEF Connect, End, Leave, DaemonTypeOK
    <3>2. UNCHANGED <<pc, serving, unread>>
        BY <1>1 DEF Connect
    <3> QED
        BY <2>1, <3>1, <3>2, ClientSteps DEF Ended
  <2>2. CASE /\ pc # "down" /\ queue' = Append(queue, c)
             /\ st' = [st EXCEPT ![c] = "connected"]
    <3>1. c \notin Queued \cup {serving} \cup unread
        BY <1>1, <1>a DEF Connect, Connected
    <3>2. /\ Queued' = Queued \cup {c}
          /\ \A i, k \in DOMAIN queue' : queue'[i] = queue'[k] => i = k
        BY <2>2, <3>1, QueuedAppend DEF DaemonTypeOK, NoLostConnection
    <3>3. UNCHANGED <<pc, serving, unread>>
        BY <1>1 DEF Connect
    <3>4. st'[c] = "connected" /\ \A d \in Clients : d # c => st'[d] = st[d]
        BY <1>b, <2>2
    <3>5. NoLostConnection'
        BY <3>1, <3>2, <3>3, <3>4 DEF NoLostConnection, DaemonTypeOK
    <3>6. Queued \subseteq Clients
        BY DEF Queued, DaemonTypeOK
    <3>7. Connected'
        BY <3>1, <3>2, <3>3, <3>4, <3>6 DEF Connected, DaemonTypeOK
    <3> QED
        BY <3>5, <3>7 DEF ConnInv
  <2> QED
      BY <1>1, <2>1, <2>2 DEF Connect, Leave
<1>2. ASSUME NEW c \in Clients, Send(c) PROVE ConnInv'
  <2>1. CASE st[c] = "connected" /\ st' = [st EXCEPT ![c] = "sent"] /\ unread' = unread \cup {c}
    <3>1. UNCHANGED <<pc, queue, serving>> /\ Queued' = Queued
        BY <1>2 DEF Send, daemon, Queued
    <3>2. st'[c] = "sent" /\ \A d \in Clients : d # c => st'[d] = st[d]
        BY <1>b, <2>1
    <3>3. c \in Queued \/ (serving = c /\ pc = "read")
        BY <1>a, <2>1 DEF NoLostConnection
    <3>4. NoLostConnection'
        BY <2>1, <3>1, <3>2, <3>3 DEF NoLostConnection, DaemonTypeOK
    <3>5. Queued \subseteq Clients
        BY DEF Queued, DaemonTypeOK
    <3>6. Connected'
        BY <2>1, <3>1, <3>2, <3>5 DEF Connected, DaemonTypeOK
    <3> QED
        BY <3>4, <3>6 DEF ConnInv
  <2>2. CASE st' = [st EXCEPT ![c] = "done"] /\ UNCHANGED unread
    <3>1. UNCHANGED <<pc, queue, serving, unread>>
        BY <1>2, <2>2 DEF Send, daemon
    <3> QED
        BY <2>2, <3>1, ClientSteps DEF Ended
  <2> QED
      BY <1>2, <2>1, <2>2 DEF Send, End, Leave
<1>3. ASSUME NEW c \in Clients, TimesOut(c) \/ Close(c) \/ Interrupt(c) PROVE ConnInv'
  <2>1. UNCHANGED <<pc, queue, serving, unread>>
      BY <1>3 DEF TimesOut, Close, Interrupt, daemon
  <2>2. \E s \in {"reset", "leaving"} \cup Ended : st' = [st EXCEPT ![c] = s]
      BY <1>3 DEF TimesOut, Close, Interrupt, End, Leave, Ended
  <2> QED
      BY <2>1, <2>2, ClientSteps
<1>4. CASE Tick \/ UNCHANGED vars
  <2>1. UNCHANGED <<pc, queue, serving, unread, st>> /\ Queued' = Queued
      BY <1>4 DEF Tick, daemon, vars, Queued
  <2> QED
      BY <2>1 DEF ConnInv, NoLostConnection, Connected
<1>5. CASE Boot
  <2>1. UNCHANGED <<queue, serving, unread, st>> /\ Queued' = Queued
      BY <1>5 DEF Boot, clients, Queued
  <2> QED
      BY <1>5, <2>1 DEF Boot, ConnInv, NoLostConnection, Connected
<1>6. CASE Accept
  <2>1. queue \in Seq(Clients) /\ queue # <<>> /\ queue' = Tail(queue)
      BY <1>6 DEF Accept, DaemonTypeOK
  <2>2. /\ Queued = Queued' \cup {Head(queue)}
        /\ Head(queue) \in Clients \ Queued'
        /\ \A i, k \in DOMAIN queue' : queue'[i] = queue'[k] => i = k
      BY <2>1, QueuedTail DEF NoLostConnection
  <2>3. /\ serving = NoClient /\ serving' = Head(queue)
        /\ pc = "select" /\ pc' = "read" /\ UNCHANGED <<unread, st>>
      BY <1>6 DEF Accept, clients, NoLostConnection
  <2>4. NoLostConnection'
      BY <1>a, <2>2, <2>3 DEF NoLostConnection
  <2>5. Connected'
      BY <2>2, <2>3 DEF Connected
  <2> QED
      BY <2>4, <2>5 DEF ConnInv
<1>7. CASE Read
  <2>1. UNCHANGED <<queue, st>> /\ Queued' = Queued /\ pc = "read" /\ serving \in Clients
      BY <1>7 DEF Read, Queued, NoLostConnection, DaemonTypeOK
  <2>2. CASE /\ serving \in unread /\ unread' = unread \ {serving}
             /\ pc' = "handle" /\ UNCHANGED serving
    <3>1. st[serving] # "connected"
        BY <2>2 DEF Connected
    <3>2. NoLostConnection'
        BY <2>1, <2>2, <3>1 DEF NoLostConnection
    <3>3. Connected'
        BY <2>1, <2>2 DEF Connected
    <3> QED
        BY <3>2, <3>3 DEF ConnInv
  <2>3. CASE /\ serving \notin unread /\ st[serving] \in Ended
             /\ serving' = NoClient /\ pc' = "select" /\ UNCHANGED unread
    <3>1. NoLostConnection'
      <4>1. \A c \in Clients : st[c] \in {"connected", "sent"} => c \in Queued
          BY <2>3 DEF NoLostConnection, Ended
      <4>2. NoClient \notin Queued
          BY <1>a DEF Queued, DaemonTypeOK
      <4> QED
          BY <2>1, <2>3, <4>1, <4>2 DEF NoLostConnection
    <3>2. Connected'
        BY <2>1, <2>3 DEF Connected
    <3> QED
        BY <3>1, <3>2 DEF ConnInv
  <2> QED
      BY <1>7, <2>2, <2>3 DEF Read
<1>8. CASE Handle \/ Signal \/ SignalHangs
  <2>1. UNCHANGED <<queue, serving, unread, st>> /\ Queued' = Queued
      BY <1>8 DEF Handle, Signal, SignalHangs, Raised, clients, Queued
  <2>2. /\ pc \notin {"select", "down"} => pc' \notin {"select", "down"}
        /\ pc \in {"select", "down"} => pc' = pc
        /\ pc = "read" <=> pc' = "read"
      BY <1>8 DEF Handle, Signal, SignalHangs, Raised
  <2> QED
      BY <2>1, <2>2 DEF ConnInv, NoLostConnection, Connected
<1>9. CASE Respond
  <2>1. CASE Die
      BY <2>1, DieConnections
  <2>2. CASE ~(st[serving] \in Ended)
    <3>1. UNCHANGED <<queue, unread>> /\ Queued' = Queued
        BY <1>9, <2>2 DEF Respond, Queued
    <3>2. pc = "send" /\ pc' = "select" /\ serving' = NoClient /\ serving \in Clients
        BY <1>9, <2>2 DEF Respond, NoLostConnection, DaemonTypeOK
    <3>3. /\ st'[serving] \notin {"out", "connecting", "connected", "sent"}
          /\ \A d \in Clients : d # serving => st'[d] = st[d]
        BY <1>9, <1>a, <1>b, <2>2, <3>2 DEF Respond, End, Leave, NoLostConnection, Connected
    <3>4. NoClient \notin Queued
        BY <1>a DEF Queued, DaemonTypeOK
    <3>5. NoLostConnection'
        BY <1>a, <3>1, <3>2, <3>3, <3>4 DEF NoLostConnection
    <3>6. Queued \subseteq Clients
        BY DEF Queued, DaemonTypeOK
    <3>7. Connected'
        BY <3>1, <3>2, <3>3, <3>6 DEF Connected, DaemonTypeOK
    <3> QED
        BY <3>5, <3>7 DEF ConnInv
  <2> QED
      BY <1>9, <2>1, <2>2 DEF Respond
<1>10. CASE LeaveLoop \/ Crash \/ StopTimeout
    BY <1>10, DieConnections DEF LeaveLoop, Crash, StopTimeout
<1> QED
    BY <1>1, <1>2, <1>3, <1>4, <1>5, <1>6, <1>7, <1>8, <1>9, <1>10 DEF Next

\* The answers.  The engine says yes to the client it is asked about, and that client is
\* still the one being served when the answer is sent.
LEMMA AnswersStep == Inv /\ [Next]_vars => SuccessWasGranted' /\ GrantedIsMeant'
<1> SUFFICES ASSUME Inv, [Next]_vars PROVE SuccessWasGranted' /\ GrantedIsMeant'
    OBVIOUS
<1> USE DEF Inv
<1>b. outcome \in [Clients -> Outcomes] /\ PamClients \subseteq Clients
    BY DEF DaemonTypeOK, Clients
<1>0. ASSUME UNCHANGED granted, pc' # "send" \/ UNCHANGED <<pc, serving, response>>,
             \A c \in PamClients : outcome'[c] = "granted" => outcome[c] = "granted"
      PROVE  SuccessWasGranted' /\ GrantedIsMeant'
    BY <1>0 DEF SuccessWasGranted, GrantedIsMeant
<1>1. ASSUME NEW c \in Clients, Connect(c) \/ Send(c) \/ TimesOut(c) \/ Close(c) \/ Interrupt(c)
      PROVE  SuccessWasGranted' /\ GrantedIsMeant'
  <2>1. UNCHANGED <<pc, serving, response, granted>>
      BY <1>1 DEF Connect, Send, TimesOut, Close, Interrupt, daemon
  <2>2. UNCHANGED outcome \/ \E o \in {"unavailable", "killed", "denied"} : outcome' = [outcome EXCEPT ![c] = o]
      BY <1>1 DEF Connect, Send, TimesOut, Close, Interrupt, End, Leave
  <2> QED
      BY <1>0, <1>b, <2>1, <2>2
<1>2. CASE Tick \/ UNCHANGED vars \/ Boot \/ Accept \/ Read \/ Signal \/ SignalHangs
    BY <1>0, <1>2 DEF Tick, vars, Boot, Accept, Read, Signal, SignalHangs, Raised, daemon, clients
<1>3. ASSUME Die PROVE SuccessWasGranted' /\ GrantedIsMeant'
    BY <1>0, <1>3, <1>b DEF Die
<1>4. CASE Handle
    BY <1>4 DEF Handle, SuccessWasGranted, GrantedIsMeant
<1>5. CASE Respond /\ ~(st[serving] \in Ended)
  <2>1. pc' = "select" /\ UNCHANGED granted /\ serving \in Clients
      BY <1>5 DEF Respond, NoLostConnection, DaemonTypeOK
  <2>2. ASSUME NEW c \in PamClients, outcome'[c] = "granted" PROVE c \in granted
    <3>1. CASE outcome[c] = "granted"
        BY <3>1 DEF SuccessWasGranted
    <3>2. CASE outcome[c] # "granted"
      <4>1. c = serving /\ response = "granted"
          BY <1>5, <1>b, <2>1, <2>2, <3>2 DEF Respond, End, Leave
      <4> QED
          BY <1>5, <4>1 DEF Respond, GrantedIsMeant
    <3> QED
        BY <3>1, <3>2
  <2> QED
      BY <2>1, <2>2 DEF SuccessWasGranted, GrantedIsMeant
<1> QED
    BY <1>1, <1>2, <1>3, <1>4, <1>5 DEF Next, Respond, LeaveLoop, Crash, StopTimeout

\* Inv is an invariant.
LEMMA Invariance == Spec => []Inv
<1>1. Inv /\ [Next]_vars => Inv'
    BY TypeStep, ConnectionsStep, AnswersStep DEF Inv, ConnInv
<1> QED
    BY InvInit, <1>1, PTL DEF Spec

-----------------------------------------------------------------------------
(* Service.  The line is the served client and the backlog behind it; its   *)
(* front moves only where a connection is closed.                           *)

\* A client more behind them.
LEMMA AppendBehind ==
    ASSUME NEW T, NEW s \in T, NEW q \in Seq(T), NEW c \in T
    PROVE  <<s>> \o Append(q, c) = Append(<<s>> \o q, c)
<1> DEFINE f == <<s>> \o Append(q, c)
           g == Append(<<s>> \o q, c)
<1>1. f \in Seq(T) /\ g \in Seq(T) /\ Len(f) = Len(q) + 2 /\ Len(g) = Len(q) + 2
    OBVIOUS
<1>2. ASSUME NEW i \in 1 .. Len(q) + 2 PROVE f[i] = g[i]
    BY <1>2
<1> QED
    BY <1>1, <1>2

\* The first of a line, served, with the rest behind it is the line.
LEMMA FrontServed ==
    ASSUME NEW T, NEW q \in Seq(T), q # <<>>
    PROVE  <<Head(q)>> \o Tail(q) = q
<1> DEFINE f == <<Head(q)>> \o Tail(q)
<1>1. f \in Seq(T) /\ Len(f) = Len(q)
    OBVIOUS
<1>2. ASSUME NEW i \in 1 .. Len(q) PROVE f[i] = q[i]
    BY <1>2
<1> QED
    BY <1>1, <1>2

\* The places of the line.
LEMMA LineParts ==
    ASSUME DaemonTypeOK
    PROVE  /\ serving = NoClient => Line = queue /\ S!InLine = Queued
           /\ serving # NoClient =>
                 /\ Line # <<>> /\ Head(Line) = serving /\ Tail(Line) = queue
                 /\ S!InLine = {serving} \cup Queued
<1>1. queue \in Seq(Clients)
    BY DEF DaemonTypeOK
<1>2. CASE serving = NoClient
  <2>1. Line = queue
      BY <1>2 DEF Line
  <2> QED
      BY <1>2, <2>1 DEF S!InLine, Queued
<1>3. CASE serving # NoClient
  <2>1. serving \in Clients
      BY <1>3 DEF DaemonTypeOK
  <2>2. Line = <<serving>> \o queue
      BY <1>3 DEF Line
  <2>3. Line \in Seq(Clients) /\ Len(Line) = Len(queue) + 1 /\ DOMAIN Line = 1 .. Len(queue) + 1
      BY <1>1, <2>1, <2>2
  <2>4. Line[1] = serving /\ \A i \in 1 .. Len(queue) : Line[i + 1] = queue[i]
      BY <1>1, <2>1, <2>2
  <2>5. /\ Tail(Line) \in Seq(Clients) /\ Len(Tail(Line)) = Len(queue)
        /\ \A i \in 1 .. Len(queue) : Tail(Line)[i] = queue[i]
      BY <1>1, <2>3, <2>4
  <2>6. Tail(Line) = queue
      BY <1>1, <2>5
  <2>7. ASSUME NEW x
        PROVE  (\E i \in DOMAIN Line : Line[i] = x) <=> x = serving \/ \E i \in DOMAIN queue : queue[i] = x
    <3>1. ASSUME NEW i \in DOMAIN Line, Line[i] = x PROVE x = serving \/ \E k \in DOMAIN queue : queue[k] = x
      <4>1. CASE i = 1
          BY <2>4, <3>1, <4>1
      <4>2. CASE i # 1
        <5>1. i - 1 \in 1 .. Len(queue) /\ Line[(i - 1) + 1] = queue[i - 1] /\ (i - 1) + 1 = i
            BY <1>1, <2>3, <2>4, <3>1, <4>2
        <5> QED
            BY <3>1, <5>1
      <4> QED
          BY <4>1, <4>2
    <3>2. 1 \in DOMAIN Line /\ Line[1] = serving
        BY <1>1, <2>3, <2>4
    <3>3. ASSUME NEW k \in DOMAIN queue PROVE k + 1 \in DOMAIN Line /\ Line[k + 1] = queue[k]
        BY <1>1, <2>3, <2>4, <3>3
    <3> QED
        BY <3>1, <3>2, <3>3
  <2>8. Line # <<>> /\ Head(Line) = serving
      BY <1>1, <2>3, <2>4
  <2>9. S!InLine = {serving} \cup Queued
    <3>1. \A x : x \in S!InLine <=> \E i \in DOMAIN Line : Line[i] = x
        BY DEF S!InLine
    <3>2. \A x : x \in Queued <=> \E i \in DOMAIN queue : queue[i] = x
        BY DEF Queued
    <3> QED
        BY <2>7, <3>1, <3>2
  <2> QED
      BY <1>3, <2>6, <2>8, <2>9
<1> QED
    BY <1>2, <1>3

\* An outcome goes with the end of a client, or with its leaving.
OutcomesInv ==
    \A c \in Clients : st[c] # "gone" => (outcome[c] = "none" <=> st[c] \notin {"leaving", "done"})

\* A connection that was reset is not in the line, and nothing is when the daemon is down.
ClosedInv ==
    /\ \A c \in Clients : st[c] = "reset" => c \notin Queued \cup {serving}
    /\ pc = "down" => queue = <<>>

\* Nobody has a verdict before its turn, and the answer about to be sent is the verdict.
VerdictInv ==
    /\ \A c \in granted : /\ st[c] \notin {"out", "connecting"}
                          /\ c \notin Queued
                          /\ c = serving => pc = "send"
    /\ pc = "send" /\ serving \in PamClients =>
          response # "answered" /\ (serving \in granted <=> response = "granted")
    /\ pc = "send" /\ serving \in CliClients => response = "answered"

ServiceInv == OutcomesInv /\ ClosedInv /\ VerdictInv

\* Nobody has an outcome, a reset connection or a verdict at first.
LEMMA ServiceInvInit == Init => ServiceInv
<1> SUFFICES ASSUME Init PROVE ServiceInv
    OBVIOUS
<1>1. OutcomesInv
    BY DEF Init, OutcomesInv
<1>2. ClosedInv
    BY DEF Init, ClosedInv
<1>3. VerdictInv
    BY DEF Init, VerdictInv
<1> QED
    BY <1>1, <1>2, <1>3 DEF ServiceInv

\* A client gets its outcome when it ends, and a module also when its read times out.
LEMMA OutcomesStep == Inv /\ OutcomesInv /\ [Next]_vars => OutcomesInv'
<1> SUFFICES ASSUME Inv, OutcomesInv, [Next]_vars PROVE OutcomesInv'
    OBVIOUS
<1>a. st \in [Clients -> States] /\ outcome \in [Clients -> Outcomes]
    BY DEF Inv, DaemonTypeOK
<1>0. ASSUME NEW c \in Clients, NEW o, o # "none", End(c, o) PROVE OutcomesInv'
    BY <1>a, <1>0 DEF End, Leave, OutcomesInv
<1>1. ASSUME NEW c \in Clients, Connect(c) PROVE OutcomesInv'
  <2>1. CASE End(c, "unavailable")
      BY <1>0, <2>1
  <2>2. CASE UNCHANGED outcome /\ \E s \in {"connecting", "connected"} : st' = [st EXCEPT ![c] = s]
      BY <1>1, <1>a, <2>2 DEF Connect, OutcomesInv, Leave
  <2> QED
      BY <1>1, <2>1, <2>2 DEF Connect, Leave
<1>2. ASSUME NEW c \in Clients, Send(c) PROVE OutcomesInv'
  <2>1. CASE End(c, "killed")
      BY <1>0, <2>1
  <2>2. CASE st[c] = "connected" /\ st' = [st EXCEPT ![c] = "sent"] /\ UNCHANGED outcome
      BY <1>a, <2>2 DEF OutcomesInv
  <2> QED
      BY <1>2, <2>1, <2>2 DEF Send
<1>3. ASSUME NEW c \in Clients, TimesOut(c) PROVE OutcomesInv'
  <2>1. CASE End(c, "unavailable")
      BY <1>0, <2>1
  <2>2. CASE st' = [st EXCEPT ![c] = "leaving"] /\ outcome' = [outcome EXCEPT ![c] = "denied"]
      BY <1>a, <2>2 DEF OutcomesInv
  <2> QED
      BY <1>3, <2>1, <2>2 DEF TimesOut, Leave
<1>4. ASSUME NEW c \in Clients, Close(c) \/ Interrupt(c) PROVE OutcomesInv'
    BY <1>a, <1>4 DEF Close, Interrupt, Ended, OutcomesInv, Leave
<1>5. CASE Die
  <2>1. ASSUME NEW c \in Clients, st'[c] # "gone"
        PROVE  outcome'[c] = "none" <=> st'[c] \notin {"leaving", "done"}
    <3>1. CASE st[c] = "sent"
        BY <1>5, <3>1 DEF Die
    <3>2. CASE st[c] = "connected"
        BY <1>5, <3>2 DEF Die, OutcomesInv
    <3>3. CASE st[c] \notin {"connected", "sent"}
        BY <1>5, <2>1, <3>3 DEF Die, OutcomesInv
    <3> QED
        BY <3>1, <3>2, <3>3
  <2> QED
      BY <2>1 DEF OutcomesInv
<1>6. CASE UNCHANGED <<st, outcome>>
    BY <1>6 DEF OutcomesInv
<1>7. CASE Respond
  <2>1. CASE End(serving, IF response = "error" THEN
                             IF serving \in PamClients THEN "denied" ELSE "answered"
                          ELSE response)
    <3>1. serving \in Clients
        BY <1>7 DEF Respond, Inv, NoLostConnection, DaemonTypeOK
    <3>2. (IF response = "error" THEN IF serving \in PamClients THEN "denied" ELSE "answered"
           ELSE response) # "none"
        BY DEF Inv, DaemonTypeOK
    <3> QED
        BY <1>0, <2>1, <3>1, <3>2
  <2> QED
      BY <1>5, <1>6, <1>7, <2>1 DEF Respond
<1>8. CASE Tick \/ Boot \/ Accept \/ Read \/ Handle \/ Signal \/ SignalHangs \/ UNCHANGED vars
    BY <1>6, <1>8 DEF Tick, Boot, Accept, Read, Handle, Signal, SignalHangs, Raised, vars, clients
<1> QED
    BY <1>1, <1>2, <1>3, <1>4, <1>5, <1>7, <1>8 DEF Next, LeaveLoop, Crash, StopTimeout

\* Connections are reset only with the whole line, and their clients do not come back.
LEMMA ClosedStep == Inv /\ ClosedInv /\ [Next]_vars => ClosedInv'
<1> SUFFICES ASSUME Inv, ClosedInv, [Next]_vars PROVE ClosedInv'
    OBVIOUS
<1>a. st \in [Clients -> States] /\ queue \in Seq(Clients)
    BY DEF Inv, DaemonTypeOK
<1>b. NoClient \notin Clients
    BY DaemonAssumption DEF DaemonAssumption
<1>0. ASSUME UNCHANGED <<pc, queue, serving>>, \A c \in Clients : st'[c] = "reset" => st[c] = "reset"
      PROVE  ClosedInv'
    BY <1>0 DEF ClosedInv, Queued
<1>1. ASSUME NEW c \in Clients, Connect(c) PROVE ClosedInv'
  <2>1. CASE UNCHANGED queue
    <3>1. \E s \in {"done", "connected", "connecting"} : st' = [st EXCEPT ![c] = s]
        BY <1>1 DEF Connect, End, Leave
    <3> QED
        BY <1>0, <1>1, <1>a, <2>1, <3>1 DEF Connect
  <2>2. CASE pc # "down" /\ queue' = Append(queue, c) /\ st' = [st EXCEPT ![c] = "connected"]
    <3>1. Queued' = Queued \cup {c}
        BY <1>a, <2>2, QueuedAppend
    <3> QED
        BY <1>1, <1>a, <2>2, <3>1 DEF Connect, ClosedInv
  <2> QED
      BY <1>1, <2>1, <2>2 DEF Connect, Leave
<1>2. ASSUME NEW c \in Clients, Send(c) \/ TimesOut(c) \/ Close(c) \/ Interrupt(c) PROVE ClosedInv'
  <2>1. \E s \in {"sent", "leaving", "done", "gone"} : st' = [st EXCEPT ![c] = s]
      BY <1>2 DEF Send, TimesOut, Close, Interrupt, End, Leave
  <2>2. UNCHANGED <<pc, queue, serving>>
      BY <1>2 DEF Send, TimesOut, Close, Interrupt, daemon
  <2> QED
      BY <1>0, <1>a, <2>1, <2>2
<1>3. CASE Die
  <2>1. queue' = <<>> /\ Queued' = {} /\ serving' = NoClient
      BY <1>3 DEF Die, Queued
  <2> QED
      BY <1>b, <2>1 DEF ClosedInv
<1>4. CASE Accept
  <2>1. Queued = Queued' \cup {serving'} /\ pc' = "read" /\ UNCHANGED st
      BY <1>4, <1>a, QueuedTail DEF Accept, clients
  <2> QED
      BY <2>1 DEF ClosedInv
<1>5. CASE Respond /\ ~(st[serving] \in Ended)
  <2>1. UNCHANGED queue /\ serving' = NoClient /\ pc' = "select" /\ Queued' = Queued
      BY <1>5 DEF Respond, Queued
  <2>2. \A c \in Clients : st'[c] = "reset" => st[c] = "reset"
      BY <1>5, <1>a DEF Respond, End, Leave
  <2> QED
      BY <1>b, <2>1, <2>2 DEF ClosedInv
<1>6. CASE Read \/ Handle \/ Signal \/ SignalHangs \/ Boot
  <2>1. UNCHANGED <<queue, st>> /\ Queued' = Queued /\ (serving' = serving \/ serving' = NoClient)
      BY <1>6 DEF Read, Handle, Signal, SignalHangs, Raised, Boot, clients, Queued
  <2>2. pc' # "down"
      BY <1>6 DEF Read, Handle, Signal, SignalHangs, Raised, Boot, Up
  <2> QED
      BY <1>b, <2>1, <2>2 DEF ClosedInv
<1>7. CASE Tick \/ UNCHANGED vars
    BY <1>0, <1>7 DEF Tick, daemon, vars
<1> QED
    BY <1>1, <1>2, <1>3, <1>4, <1>5, <1>6, <1>7 DEF Next, Respond, LeaveLoop, Crash, StopTimeout

\* The engine decides about the client being served, once, and the answer says what it
\* decided.
LEMMA VerdictStep == Inv /\ VerdictInv /\ [Next]_vars => VerdictInv'
<1> SUFFICES ASSUME Inv, VerdictInv, [Next]_vars PROVE VerdictInv'
    OBVIOUS
<1>a. st \in [Clients -> States] /\ queue \in Seq(Clients) /\ granted \subseteq Clients
    BY DEF Inv, DaemonTypeOK, Clients
<1>b. NoClient \notin Clients /\ PamClients \subseteq Clients /\ CliClients \subseteq Clients
    BY DaemonAssumption DEF DaemonAssumption, Clients
<1>0. ASSUME UNCHANGED <<pc, serving, response, granted, queue>>,
             \A c \in Clients : st[c] \notin {"out", "connecting"} => st'[c] \notin {"out", "connecting"}
      PROVE  VerdictInv'
    BY <1>a, <1>0 DEF VerdictInv, Queued
<1>1. ASSUME NEW c \in Clients, Connect(c) PROVE VerdictInv'
  <2>1. CASE UNCHANGED queue
    <3>1. \/ \E s \in {"done", "connected"} : st' = [st EXCEPT ![c] = s]
          \/ st[c] = "out" /\ st' = [st EXCEPT ![c] = "connecting"]
        BY <1>1 DEF Connect, End, Leave
    <3> QED
        BY <1>0, <1>1, <1>a, <2>1, <3>1 DEF Connect
  <2>2. CASE queue' = Append(queue, c) /\ st' = [st EXCEPT ![c] = "connected"]
    <3>1. Queued' = Queued \cup {c}
        BY <1>a, <2>2, QueuedAppend
    <3>2. c \notin granted
        BY <1>1 DEF Connect, VerdictInv
    <3>3. UNCHANGED <<pc, serving, response, granted>>
        BY <1>1 DEF Connect
    <3> QED
        BY <1>a, <2>2, <3>1, <3>2, <3>3 DEF VerdictInv
  <2> QED
      BY <1>1, <2>1, <2>2 DEF Connect, Leave
<1>2. ASSUME NEW c \in Clients, Send(c) \/ TimesOut(c) \/ Close(c) \/ Interrupt(c) PROVE VerdictInv'
  <2>1. \E s \in {"sent", "leaving", "done", "gone"} : st' = [st EXCEPT ![c] = s]
      BY <1>2 DEF Send, TimesOut, Close, Interrupt, End, Leave
  <2>2. UNCHANGED <<pc, serving, response, granted, queue>>
      BY <1>2 DEF Send, TimesOut, Close, Interrupt, daemon
  <2> QED
      BY <1>0, <1>a, <2>1, <2>2
<1>3. CASE Die
  <2>1. Queued' = {} /\ serving' = NoClient /\ pc' = "down" /\ UNCHANGED granted
      BY <1>3 DEF Die, Queued
  <2>2. \A c \in Clients : st[c] \notin {"out", "connecting"} => st'[c] \notin {"out", "connecting"}
      BY <1>3 DEF Die
  <2> QED
      BY <1>a, <1>b, <2>1, <2>2 DEF VerdictInv
<1>4. CASE Accept
  <2>1. Queued = Queued' \cup {serving'} /\ pc' = "read" /\ UNCHANGED <<st, granted>>
      BY <1>4, <1>a, QueuedTail DEF Accept, clients
  <2> QED
      BY <2>1 DEF VerdictInv
<1>5. CASE Respond /\ ~(st[serving] \in Ended)
  <2>1. Queued' = Queued /\ serving' = NoClient /\ pc' = "select" /\ UNCHANGED granted
      BY <1>5 DEF Respond, Queued
  <2>2. \A c \in Clients : st[c] \notin {"out", "connecting"} => st'[c] \notin {"out", "connecting"}
      BY <1>5, <1>a DEF Respond, End, Leave
  <2> QED
      BY <1>a, <1>b, <2>1, <2>2 DEF VerdictInv
<1>6. CASE Handle
  <2>1. serving \in Clients /\ serving \notin Queued
      BY <1>6 DEF Handle, Inv, NoLostConnection, DaemonTypeOK
  <2>2. serving \notin granted /\ st[serving] \notin {"out", "connecting"}
      BY <1>6, <1>b, <2>1 DEF Handle, VerdictInv, Inv, Connected
  <2>3. pc' = "send" /\ UNCHANGED <<serving, st>> /\ Queued' = Queued
      BY <1>6 DEF Handle, Queued
  <2>4. CASE serving \in PamClients
    <3>1. /\ response' \in {"granted", "denied", "error"}
          /\ granted' = IF response' = "granted" THEN granted \cup {serving} ELSE granted
        BY <1>6, <2>4 DEF Handle
    <3>2. serving \notin CliClients
        BY <2>4, DaemonAssumption DEF DaemonAssumption
    <3> QED
        BY <2>1, <2>2, <2>3, <3>1, <3>2 DEF VerdictInv
  <2>5. CASE serving \notin PamClients
    <3>1. response' = "answered" /\ UNCHANGED granted
        BY <1>6, <2>5 DEF Handle
    <3> QED
        BY <2>1, <2>2, <2>3, <2>5, <3>1 DEF VerdictInv
  <2> QED
      BY <2>4, <2>5
<1>7. CASE Read \/ Signal \/ SignalHangs \/ Boot
  <2>1. UNCHANGED <<queue, st, granted>> /\ Queued' = Queued /\ (serving' = serving \/ serving' = NoClient)
      BY <1>7 DEF Read, Signal, SignalHangs, Raised, Boot, clients, Queued
  <2>2. pc' # "send" \/ UNCHANGED <<pc, serving, response>>
      BY <1>7 DEF Read, Signal, SignalHangs, Raised, Boot
  <2>3. pc = "send" => UNCHANGED pc
      BY <1>7 DEF Read, Signal, SignalHangs, Raised, Boot
  <2> QED
      BY <1>a, <1>b, <2>1, <2>2, <2>3 DEF VerdictInv
<1>8. CASE Tick \/ UNCHANGED vars
    BY <1>0, <1>8 DEF Tick, daemon, vars
<1> QED
    BY <1>1, <1>2, <1>3, <1>4, <1>5, <1>6, <1>7, <1>8 DEF Next, Respond, LeaveLoop, Crash, StopTimeout

\* ServiceInv is an invariant.
LEMMA ServiceInvariance == Spec => []ServiceInv
<1>1. Inv /\ ServiceInv /\ [Next]_vars => ServiceInv'
    BY OutcomesStep, ClosedStep, VerdictStep DEF ServiceInv
<1> QED
    BY ServiceInvInit, Invariance, <1>1, PTL DEF Spec

-----------------------------------------------------------------------------
(* Every step of Daemon is one of Service, or none.                         *)

\* Who is undecided in Service.
LEMMA WhoIsUndecided ==
    ASSUME OutcomesInv
    PROVE  /\ S!Undecided \subseteq Clients
           /\ \A c \in Clients : c \in S!Undecided <=> st[c] \notin {"leaving", "done", "gone"}
<1>1. ASSUME NEW c \in Clients PROVE Fate[c] = "none" <=> st[c] \notin {"leaving", "done", "gone"}
  <2>1. CASE st[c] = "gone"
      BY <2>1 DEF Fate
  <2>2. CASE st[c] # "gone"
      BY <2>2 DEF Fate, OutcomesInv
  <2> QED
      BY <2>1, <2>2
<1> QED
    BY <1>1 DEF S!Undecided, S!Clients, Clients

\* A client that gets an outcome, in both modules.
LEMMA Decides ==
    ASSUME Inv, OutcomesInv, NEW c \in Clients, st[c] \notin {"leaving", "done", "gone"},
           NEW o, outcome' = [outcome EXCEPT ![c] = o],
           NEW x \in {"done", "leaving"}, st' = [st EXCEPT ![c] = x]
    PROVE  S!Decide(c, o)
<1>1. c \in S!Undecided
    BY WhoIsUndecided
<1>2. st \in [Clients -> States] /\ outcome \in [Clients -> Outcomes]
    BY DEF Inv, DaemonTypeOK
<1>3. ASSUME NEW d \in Clients PROVE Fate'[d] = [Fate EXCEPT ![c] = o][d]
  <2>1. CASE d = c
      BY <1>2, <2>1 DEF Fate
  <2>2. CASE d # c
      BY <1>2, <2>2 DEF Fate
  <2> QED
      BY <2>1, <2>2
<1>4. Fate' = [Fate EXCEPT ![c] = o]
    BY <1>3 DEF Fate
<1> QED
    BY <1>1, <1>4 DEF S!Decide

\* Steps that Service does not see.
Unseen == UNCHANGED <<pc # "down", Line, Fate, granted>>

\* A client that goes on without an outcome.
LEMMA GoesOn ==
    ASSUME Inv, NEW c \in Clients, st[c] # "gone", NEW x, x # "gone",
           st' = [st EXCEPT ![c] = x], UNCHANGED outcome
    PROVE  UNCHANGED Fate
<1>1. st \in [Clients -> States]
    BY DEF Inv, DaemonTypeOK
<1>2. ASSUME NEW d \in Clients PROVE Fate'[d] = Fate[d]
  <2>1. CASE d = c
      BY <1>1, <2>1 DEF Fate
  <2>2. CASE d # c
      BY <1>1, <2>2 DEF Fate
  <2> QED
      BY <2>1, <2>2
<1> QED
    BY <1>2 DEF Fate

\* A connection is a new last place; a refusal is an outcome; to be blocked is neither.
LEMMA ConnectServes ==
    ASSUME Inv, ServiceInv, NEW c \in Clients, Connect(c)
    PROVE  S!Join(c) \/ S!GiveUp(c) \/ Unseen
<1> USE DEF Inv, ServiceInv
<1>a. UNCHANGED <<pc, serving, granted>> /\ st[c] \in {"out", "connecting"}
    BY DEF Connect
<1>b. c \in S!Undecided
    BY <1>a, WhoIsUndecided
<1>1. CASE pc = "down" /\ End(c, "unavailable") /\ UNCHANGED queue
  <2>1. S!Decide(c, "unavailable")
      BY <1>1, <1>a, Decides DEF End, Leave
  <2>2. UNCHANGED Line
      BY <1>1, <1>a DEF Line
  <2>3. ((pc # "down")' = (pc # "down")) /\ ~(pc # "down")
      BY <1>1, <1>a
  <2> QED
      BY <1>a, <2>1, <2>2, <2>3 DEF S!GiveUp
<1>2. CASE /\ pc # "down" /\ queue' = Append(queue, c)
           /\ st' = [st EXCEPT ![c] = "connected"] /\ UNCHANGED outcome
  <2>1. UNCHANGED Fate
      BY <1>2, <1>a, GoesOn
  <2>2. Line' = Append(Line, c)
    <3>1. queue \in Seq(Clients) /\ serving \in Clients \cup {NoClient}
        BY DEF DaemonTypeOK
    <3>2. CASE serving = NoClient
        BY <1>2, <1>a, <3>2 DEF Line
    <3>3. CASE serving # NoClient
      <4>1. <<serving>> \o Append(queue, c) = Append(<<serving>> \o queue, c)
          BY <3>1, <3>3, AppendBehind
      <4> QED
          BY <1>2, <1>a, <3>3, <4>1 DEF Line
    <3> QED
        BY <3>2, <3>3
  <2>3. c \notin S!InLine
    <3>1. c \notin Queued /\ c # serving
        BY <1>a, DaemonAssumption DEF DaemonAssumption, Connected
    <3> QED
        BY <3>1, LineParts
  <2>4. ((pc # "down")' = (pc # "down")) /\ pc # "down"
      BY <1>2, <1>a
  <2> QED
      BY <1>a, <1>b, <2>1, <2>2, <2>3, <2>4 DEF S!Join
<1>3. CASE UNCHANGED <<queue, outcome>> /\ st' = [st EXCEPT ![c] = "connecting"]
  <2>1. UNCHANGED Fate
      BY <1>3, <1>a, GoesOn
  <2> QED
      BY <1>3, <1>a, <2>1 DEF Unseen, Line
<1> QED
    BY <1>1, <1>2, <1>3 DEF Connect, Leave

\* The other steps of a client: it goes on, gives up, or leaves.
LEMMA ClientServes ==
    ASSUME Inv, ServiceInv, NEW c \in Clients, Send(c) \/ TimesOut(c) \/ Close(c) \/ Interrupt(c)
    PROVE  S!GiveUp(c) \/ Unseen
<1> USE DEF Inv, ServiceInv
<1>a. UNCHANGED <<pc, serving, queue, granted>>
    BY DEF Send, TimesOut, Close, Interrupt, daemon
<1>b. UNCHANGED Line /\ (pc # "down")' = (pc # "down")
    BY <1>a DEF Line
<1>0. ASSUME UNCHANGED Fate PROVE Unseen
    BY <1>0, <1>a, <1>b DEF Unseen
<1>1. CASE Send(c)
  <2>1. CASE st[c] = "connected" /\ st' = [st EXCEPT ![c] = "sent"] /\ UNCHANGED outcome
      BY <1>0, <2>1, GoesOn
  <2>2. CASE st[c] = "reset" /\ End(c, "killed")
    <3>1. S!Decide(c, "killed")
        BY <2>2, Decides DEF End, Leave
    <3>2. c \notin S!InLine
      <4>1. c \notin Queued /\ c # serving
          BY <2>2 DEF ClosedInv
      <4> QED
          BY <4>1, LineParts
    <3> QED
        BY <1>a, <1>b, <3>1, <3>2 DEF S!GiveUp
  <2> QED
      BY <1>1, <2>1, <2>2 DEF Send
<1>2. CASE TimesOut(c)
  <2>1. c \in PamClients
      BY <1>2 DEF TimesOut
  <2>2. S!Decide(c, "unavailable") \/ S!Decide(c, "denied")
    <3>1. CASE st[c] = "connecting" /\ End(c, "unavailable")
        BY <3>1, Decides DEF End, Leave
    <3>2. CASE /\ st[c] = "sent" /\ st' = [st EXCEPT ![c] = "leaving"]
               /\ outcome' = [outcome EXCEPT ![c] = "denied"]
        BY <3>2, Decides
    <3> QED
        BY <1>2, <3>1, <3>2 DEF TimesOut, Leave
  <2> QED
      BY <1>a, <1>b, <2>1, <2>2 DEF S!GiveUp
<1>3. CASE Close(c)
    BY <1>0, <1>3, GoesOn DEF Close
<1>4. CASE Interrupt(c)
  <2>1. st[c] \notin {"done", "gone"} /\ st' = [st EXCEPT ![c] = "gone"] /\ UNCHANGED outcome
      BY <1>4 DEF Interrupt, Ended, Leave
  <2>2. st \in [Clients -> States]
      BY DEF DaemonTypeOK
  <2>3. \A d \in Clients : d # c => Fate'[d] = Fate[d]
      BY <2>1, <2>2 DEF Fate
  <2>4. CASE st[c] = "leaving"
    <3>1. outcome[c] # "none"
        BY <2>4 DEF OutcomesInv
    <3>2. Fate'[c] = Fate[c]
        BY <2>1, <2>2, <2>4, <3>1 DEF Fate
    <3>3. UNCHANGED Fate
        BY <2>3, <3>2 DEF Fate
    <3> QED
        BY <1>0, <3>3
  <2>5. CASE st[c] # "leaving"
    <3>1. c \in S!Undecided
        BY <2>1, <2>5, WhoIsUndecided
    <3>2. outcome[c] = "none"
        BY <2>1, <2>5 DEF OutcomesInv
    <3>3. Fate'[c] = "gone"
        BY <2>1, <2>2, <3>2 DEF Fate
    <3>4. Fate' = [Fate EXCEPT ![c] = "gone"]
        BY <2>3, <3>3 DEF Fate
    <3>5. S!Decide(c, "gone")
        BY <3>1, <3>4 DEF S!Decide
    <3> QED
        BY <1>a, <1>b, <3>5 DEF S!GiveUp
  <2> QED
      BY <2>4, <2>5
<1> QED
    BY <1>1, <1>2, <1>3, <1>4

\* The end of the process ends the line; those whose read fails learn it.
LEMMA DieServes ==
    ASSUME Inv, ServiceInv, Die
    PROVE  S!Stop
<1> USE DEF Inv, ServiceInv
<1> DEFINE losers == {c \in Clients : st[c] = "sent"}
<1>1. losers \in SUBSET (S!InLine \cap S!Undecided)
  <2>1. ASSUME NEW c \in losers PROVE c \in S!InLine /\ c \in S!Undecided
    <3>1. c \in Queued \cup {serving} /\ c # NoClient
        BY DaemonAssumption DEF DaemonAssumption, NoLostConnection
    <3>2. c \in S!InLine
        BY <3>1, LineParts
    <3>3. c \in S!Undecided
        BY WhoIsUndecided
    <3> QED
        BY <3>2, <3>3
  <2> QED
      BY <2>1
<1>2. Fate' = [c \in Clients |-> IF c \notin losers THEN Fate[c]
                                ELSE IF c \in PamClients THEN "denied" ELSE "unavailable"]
  <2>1. ASSUME NEW c \in Clients
        PROVE  Fate'[c] = IF c \notin losers THEN Fate[c]
                          ELSE IF c \in PamClients THEN "denied" ELSE "unavailable"
    <3>1. CASE st[c] = "sent"
        BY <3>1 DEF Die, Fate
    <3>2. CASE st[c] = "connected"
        BY <3>2 DEF Die, Fate
    <3>3. CASE st[c] \notin {"sent", "connected"}
        BY <3>3 DEF Die, Fate
    <3> QED
        BY <3>1, <3>2, <3>3
  <2> QED
      BY <2>1 DEF Fate
<1>3. Line' = <<>> /\ (pc # "down")' = FALSE /\ UNCHANGED granted
  <2>1. Line' = <<>>
      BY DEF Die, Line
  <2>2. ~(pc # "down")'
      BY DEF Die
  <2> QED
      BY <2>1, <2>2 DEF Die
<1> QED
    BY <1>1, <1>2, <1>3 DEF S!Stop, S!Clients, Clients

\* To accept moves the front from the backlog to the thread: the line is the same.
LEMMA AcceptServes ==
    ASSUME Inv, Accept
    PROVE  Unseen
<1>1. queue \in Seq(Clients) /\ queue # <<>> /\ Head(queue) \in Clients
    BY QueuedTail DEF Inv, DaemonTypeOK, Accept
<1>2. serving = NoClient /\ serving' = Head(queue) /\ serving' # NoClient /\ queue' = Tail(queue)
    BY <1>1, DaemonAssumption DEF DaemonAssumption, Inv, NoLostConnection, Accept
<1>3. <<Head(queue)>> \o Tail(queue) = queue
    BY <1>1, FrontServed
<1>4. UNCHANGED Line
    BY <1>2, <1>3 DEF Line
<1>5. UNCHANGED <<Fate, granted>>
    BY DEF Accept, clients, Fate
<1>6. (pc # "down")' = (pc # "down")
    BY DEF Accept
<1> QED
    BY <1>4, <1>5, <1>6 DEF Unseen

\* To read moves nothing, unless the client has left: then the front is gone.
LEMMA ReadServes ==
    ASSUME Inv, ServiceInv, Read
    PROVE  S!Answer \/ Unseen
<1> USE DEF Inv, ServiceInv
<1>1. serving \in Clients /\ serving # NoClient
    BY DaemonAssumption DEF DaemonAssumption, Read, NoLostConnection, DaemonTypeOK
<1>2. (pc # "down")' = (pc # "down") /\ UNCHANGED <<queue, Fate, granted>>
    BY DEF Read, Fate
<1>3. CASE UNCHANGED serving
    BY <1>2, <1>3 DEF Unseen, Line
<1>4. CASE serving' = NoClient /\ st[serving] \in Ended
  <2>1. Line # <<>> /\ Head(Line) = serving /\ Line' = Tail(Line)
    <3>1. Line' = queue
        BY <1>2, <1>4 DEF Line
    <3> QED
        BY <1>1, <3>1, LineParts
  <2>2. serving \notin S!Undecided
      BY <1>1, <1>4, WhoIsUndecided DEF Ended
  <2> QED
      BY <1>2, <2>1, <2>2 DEF S!Answer
<1> QED
    BY <1>3, <1>4 DEF Read

\* The engine's yes.
LEMMA HandleServes ==
    ASSUME Inv, ServiceInv, Handle
    PROVE  S!Grant \/ Unseen
<1> USE DEF Inv, ServiceInv
<1>1. serving \in Clients /\ serving # NoClient
    BY DaemonAssumption DEF DaemonAssumption, Handle, NoLostConnection, DaemonTypeOK
<1>2. (pc # "down")' = (pc # "down") /\ UNCHANGED <<Line, Fate>>
    BY DEF Handle, Line, Fate
<1>3. CASE UNCHANGED granted
    BY <1>2, <1>3 DEF Unseen
<1>4. CASE serving \in PamClients /\ granted' = granted \cup {serving}
  <2>1. serving \notin granted
      BY DEF Handle, VerdictInv
  <2>2. Line # <<>> /\ Head(Line) = serving
      BY <1>1, LineParts
  <2> QED
      BY <1>2, <1>4, <2>1, <2>2 DEF S!Grant
<1> QED
    BY <1>3, <1>4 DEF Handle

\* The answer: the front leaves with the engine's verdict, if it still waits for it.
LEMMA RespondServes ==
    ASSUME Inv, ServiceInv, Respond, ~(st[serving] \in Ended)
    PROVE  S!Answer
<1> USE DEF Inv, ServiceInv
<1>1. serving \in Clients /\ serving # NoClient
    BY DaemonAssumption DEF DaemonAssumption, Respond, NoLostConnection, DaemonTypeOK
<1>2. UNCHANGED <<queue, granted>> /\ serving' = NoClient /\ pc = "send"
    BY DEF Respond
<1>3. (pc # "down")' = (pc # "down")
    BY DEF Respond
<1>4. Line # <<>> /\ Head(Line) = serving /\ Line' = Tail(Line)
  <2>1. Line' = queue
      BY <1>2 DEF Line
  <2> QED
      BY <1>1, <2>1, LineParts
<1>5. CASE st[serving] = "sent"
  <2> DEFINE o == IF response = "error" THEN IF serving \in PamClients THEN "denied" ELSE "answered"
                  ELSE response
  <2>1. End(serving, o)
      BY <1>5 DEF Respond
  <2>2. S!Decide(serving, o)
      BY <1>1, <1>5, <2>1, Decides DEF End, Leave
  <2>3. o = S!Verdict(serving)
    <3>1. CASE serving \in CliClients
        BY <1>2, <3>1 DEF S!Verdict, VerdictInv
    <3>2. CASE serving \notin CliClients
      <4>1. serving \in PamClients
          BY <1>1, <3>2 DEF Clients
      <4>2. response \in {"granted", "denied", "error"} /\ (serving \in granted <=> response = "granted")
          BY <1>2, <4>1 DEF VerdictInv, DaemonTypeOK
      <4> QED
          BY <3>2, <4>1, <4>2 DEF S!Verdict
    <3> QED
        BY <3>1, <3>2
  <2> QED
      BY <1>2, <1>3, <1>4, <2>2, <2>3 DEF S!Answer
<1>6. CASE st[serving] # "sent"
  <2>1. UNCHANGED <<st, outcome>>
      BY <1>6 DEF Respond
  <2>2. UNCHANGED Fate
      BY <2>1 DEF Fate
  <2>3. st[serving] = "leaving"
    <3>1. st[serving] \notin {"out", "connecting", "connected", "reset"}
        BY <1>1, <1>2 DEF Connected, NoLostConnection, ClosedInv
    <3> QED
        BY <1>1, <1>6, <3>1 DEF DaemonTypeOK, States
  <2>4. serving \notin S!Undecided
      BY <1>1, <2>3, WhoIsUndecided
  <2> QED
      BY <1>2, <1>3, <1>4, <2>2, <2>4 DEF S!Answer
<1> QED
    BY <1>5, <1>6

\* The daemon is started again.
LEMMA BootServes ==
    ASSUME Boot
    PROVE  S!Start
<1>1. (pc # "down")' = TRUE /\ ~(pc # "down")
  <2>1. (pc # "down")' /\ ~(pc # "down")
      BY DEF Boot
  <2> QED
      BY <2>1
<1>2. UNCHANGED <<Line, Fate, granted>>
    BY DEF Boot, clients, Line, Fate
<1> QED
    BY <1>1, <1>2 DEF S!Start

\* Every step of the daemon and its clients is a step of Service or is not seen there.
LEMMA StepServes ==
    ASSUME Inv, ServiceInv, [Next]_vars
    PROVE  S!Next \/ Unseen
<1>a. S!Clients = Clients
    BY DEF S!Clients, Clients
<1>1. ASSUME NEW c \in Clients, S!Join(c) \/ S!GiveUp(c) PROVE S!Next
    BY <1>1, <1>a DEF S!Next
<1>2. ASSUME NEW c \in Clients, Connect(c) PROVE S!Next \/ Unseen
    BY <1>1, <1>2, ConnectServes
<1>3. ASSUME NEW c \in Clients, Send(c) \/ TimesOut(c) \/ Close(c) \/ Interrupt(c)
      PROVE  S!Next \/ Unseen
    BY <1>1, <1>3, ClientServes
<1>4. CASE Tick \/ UNCHANGED vars
  <2>1. UNCHANGED <<Line, Fate, granted>>
      BY <1>4 DEF Tick, vars, daemon, clients, Line, Fate
  <2>2. (pc # "down")' = (pc # "down")
      BY <1>4 DEF Tick, vars, daemon
  <2> QED
      BY <2>1, <2>2 DEF Unseen
<1>5. CASE Signal \/ SignalHangs
  <2>1. UNCHANGED <<Line, Fate, granted>>
      BY <1>5 DEF Signal, SignalHangs, Raised, clients, Line, Fate
  <2>2. (pc # "down")' = (pc # "down")
      BY <1>5 DEF Signal, SignalHangs, Raised, Up
  <2> QED
      BY <2>1, <2>2 DEF Unseen
<1>6. CASE Die
    BY <1>6, DieServes DEF S!Next
<1>7. CASE Accept
    BY <1>7, AcceptServes
<1>8. CASE Read
    BY <1>8, ReadServes DEF S!Next
<1>9. CASE Handle
    BY <1>9, HandleServes DEF S!Next
<1>10. CASE Respond /\ ~(st[serving] \in Ended)
    BY <1>10, RespondServes DEF S!Next
<1>11. CASE Boot
    BY <1>11, BootServes DEF S!Next
<1> QED
    BY <1>2, <1>3, <1>4, <1>5, <1>6, <1>7, <1>8, <1>9, <1>10, <1>11
    DEF Next, Respond, LeaveLoop, Crash, StopTimeout

-----------------------------------------------------------------------------
(* The theorems.                                                            *)

\* The daemon, its sockets and its clients keep their states, and the backlog its
\* capacity (src/service/main.cpp, src/pam/pam_linuxcampam.cpp).
THEOREM DaemonTypes == Spec => []DaemonTypeOK
<1>1. Inv => DaemonTypeOK
    BY DEF Inv
<1> QED
    BY <1>1, Invariance, PTL

\* Every way out of handle_client, of the loop and of the process closes what it must,
\* and no connection is served twice (src/service/main.cpp).
THEOREM ConnectionsHeld == Spec => []NoLostConnection
<1>1. Inv => NoLostConnection
    BY DEF Inv
<1> QED
    BY <1>1, Invariance, PTL

\* The module reports success only to the client the engine said yes to
\* (pam_sm_authenticate and the dispatch of handle_client).
THEOREM SuccessIsGranted == Spec => []SuccessWasGranted
<1>1. Inv => SuccessWasGranted
    BY DEF Inv
<1> QED
    BY <1>1, Invariance, PTL

\* The thread finishes its request and takes no other, and no second signal sets it back
\* (the condition of the loop in main, and signal_handler).
THEOREM StopIsPrompt == Spec => StopAdvances
<1> DEFINE Finishes ==
        ~running /\ pc \in Up =>
          pc' = "down" \/ (~running' /\ (pc' = pc \/ StepsLeft' < StepsLeft))
<1>1. ASSUME [Next]_vars, ~running, pc \in Up
      PROVE  pc' = "down" \/ (~running' /\ (pc' = pc \/ StepsLeft' < StepsLeft))
  <2>1. ASSUME NEW c \in Clients,
               Connect(c) \/ Send(c) \/ TimesOut(c) \/ Close(c) \/ Interrupt(c)
        PROVE  UNCHANGED <<pc, running>>
      BY <2>1 DEF Connect, Send, TimesOut, Close, Interrupt, daemon
  <2>2. CASE Tick \/ UNCHANGED vars
      BY <1>1, <2>2 DEF Tick, daemon, vars
  <2>3. CASE Signal \/ SignalHangs
      BY <1>1, <2>3 DEF Signal, SignalHangs, Raised
  <2>4. CASE Boot \/ Accept
      BY <1>1, <2>4 DEF Boot, Accept, Up
  <2>5. CASE Read \/ Handle
      BY <1>1, <2>5 DEF Read, Handle, StepsLeft
  <2>6. CASE Die
      BY <2>6 DEF Die
  <2>7. CASE Respond /\ ~(st[serving] \in Ended)
      BY <1>1, <2>7 DEF Respond, StepsLeft
  <2> QED
      BY <1>1, <2>1, <2>2, <2>3, <2>4, <2>5, <2>6, <2>7
      DEF Next, Respond, LeaveLoop, Crash, StopTimeout
<1>2. [Next]_vars => [Finishes]_vars
    BY <1>1
<1> HIDE DEF Finishes
<1>3. Spec => [][Finishes]_vars
    BY <1>2, PTL DEF Spec
<1> QED
    BY <1>3, PTL DEF StopAdvances, Finishes

\* Whatever the sockets, the reads, the timeouts, the signals and the restarts do, the
\* clients see one waiting line (main and handle_client of src/service/main.cpp).
THEOREM ServiceRefinement == Spec => ImplementsService
<1>1. Init => S!Init
  <2> SUFFICES ASSUME Init PROVE S!Init
      OBVIOUS
  <2>1. Line = <<>> /\ granted = {}
      BY DEF Init, Line
  <2>2. Fate = [c \in Clients |-> "none"]
      BY DEF Init, Fate
  <2>3. (pc # "down") = TRUE
      BY DEF Init
  <2> QED
      BY <2>1, <2>2, <2>3 DEF S!Init, S!Clients, Clients
<1>2. Inv /\ ServiceInv /\ [Next]_vars => [S!Next]_<<pc # "down", Line, Fate, granted>>
    BY StepServes DEF Unseen
<1> QED
    BY <1>1, <1>2, Invariance, ServiceInvariance, PTL DEF Spec, S!Spec, ImplementsService
=============================================================================
