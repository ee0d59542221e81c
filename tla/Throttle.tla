------------------------------ MODULE Throttle ------------------------------
(***************************************************************************)
(* What the lockout of AuthEngine promises, without its representation.    *)
(* The engine keeps an ever growing failure counter and an absolute        *)
(* deadline for each user; the promise is a finite one: every user has     *)
(* Attempts tokens, a failure takes one, a failure that finds one token or *)
(* none makes the user wait Duration ticks, and only a success or a        *)
(* restart of the daemon gives the tokens back.  After the wait there is   *)
(* no new token, so the next failure makes the user wait again.            *)
(***************************************************************************)
EXTENDS Integers

CONSTANTS
    Users,      \* the users of the daemon
    Attempts,   \* lockout_attempts
    Duration    \* lockout_duration_sec, in ticks

VARIABLES
    tokens,     \* failures left before the next wait, for each user
    wait        \* ticks for which the user is still refused

Full  == [u \in Users |-> Attempts]
Ready == [u \in Users |-> 0]

Init == tokens = Full /\ wait = Ready

\* A verification of u that ran to its end failed.
Fail(u) ==
    /\ wait[u] = 0
    /\ tokens' = [tokens EXCEPT ![u] = IF @ > 0 THEN @ - 1 ELSE 0]
    /\ wait'   = [wait EXCEPT ![u] = IF tokens[u] <= 1 THEN Duration ELSE 0]

\* A verification of u succeeded.
Succeed(u) ==
    /\ wait[u] = 0
    /\ tokens' = [tokens EXCEPT ![u] = Attempts]
    /\ UNCHANGED wait

\* One tick goes by for everybody.
Pass ==
    /\ wait' = [u \in Users |-> IF wait[u] > 0 THEN wait[u] - 1 ELSE 0]
    /\ UNCHANGED tokens

\* The daemon was restarted: the lockout is kept in memory only.
Forget == tokens' = Full /\ wait' = Ready

Next == Pass \/ Forget \/ \E u \in Users : Fail(u) \/ Succeed(u)

Spec == Init /\ [][Next]_<<tokens, wait>>
=============================================================================
