------------------------------ MODULE Service -------------------------------
(***************************************************************************)
(* What the daemon promises its clients, without sockets, reads, requests  *)
(* and signals: one line in which everybody waits, served from its front,  *)
(* one answer for each, and a verdict that belongs to the client it was    *)
(* given for.  A module may give up waiting, the tool does not; whoever    *)
(* has an outcome keeps it.  When the service stops, those in line are     *)
(* turned away, or not even told.                                          *)
(***************************************************************************)
EXTENDS Sequences

CONSTANTS
    PamClients,   \* those who ask for an authentication
    CliClients    \* those who ask for anything else

VARIABLES
    open,       \* the service takes new clients
    line,       \* the clients in the order in which they came, the one served first
    fate,       \* what became of each client
    granted     \* the clients for whom the engine said yes

Clients   == PamClients \cup CliClients
InLine    == {line[i] : i \in DOMAIN line}
Undecided == {c \in Clients : fate[c] = "none"}

Init ==
    /\ open = TRUE
    /\ line = <<>>
    /\ fate = [c \in Clients |-> "none"]
    /\ granted = {}

Decide(c, o) == c \in Undecided /\ fate' = [fate EXCEPT ![c] = o]

\* A new client takes the last place.
Join(c) ==
    /\ open /\ c \in Undecided \ InLine
    /\ line' = Append(line, c)
    /\ UNCHANGED <<open, fate, granted>>

\* The end of a client without an answer: a module that has waited long enough,
\* anybody who finds the service closed or is cut off by its end, and anybody who
\* simply leaves.
GiveUp(c) ==
    /\ \/ c \in PamClients /\ \E o \in {"denied", "unavailable"} : Decide(c, o)
       \/ ~open /\ Decide(c, "unavailable")
       \/ c \notin InLine /\ Decide(c, "killed")
       \/ Decide(c, "gone")
    /\ UNCHANGED <<open, line, granted>>

\* The engine says yes to the client at the front, once.
Grant ==
    /\ line # <<>> /\ Head(line) \in PamClients \ granted
    /\ granted' = granted \cup {Head(line)}
    /\ UNCHANGED <<open, line, fate>>

Verdict(c) ==
    IF c \in CliClients THEN "answered" ELSE IF c \in granted THEN "granted" ELSE "denied"

\* The client at the front leaves the line, with its answer if it is still there.
Answer ==
    /\ line # <<>>
    /\ line' = Tail(line)
    /\ \/ Decide(Head(line), Verdict(Head(line)))
       \/ Head(line) \notin Undecided /\ UNCHANGED fate
    /\ UNCHANGED <<open, granted>>

\* The service ends; some of those in line learn it.
Stop ==
    /\ open' = FALSE
    /\ line' = <<>>
    /\ \E told \in SUBSET (InLine \cap Undecided) :
          fate' = [c \in Clients |-> IF c \notin told THEN fate[c]
                                     ELSE IF c \in PamClients THEN "denied" ELSE "unavailable"]
    /\ UNCHANGED granted

Start == ~open /\ open' = TRUE /\ UNCHANGED <<line, fate, granted>>

Next ==
    \/ \E c \in Clients : Join(c) \/ GiveUp(c)
    \/ Grant
    \/ Answer
    \/ Stop
    \/ Start

Spec == Init /\ [][Next]_<<open, line, fate, granted>>
=============================================================================
