------------------------------ MODULE Keyring -------------------------------
(***************************************************************************)
(* pam_sm_open_session and try_unlock_keyring of the PAM module            *)
(* (src/pam/pam_linuxcampam.cpp): the process that opens the session forks *)
(* a helper, writes the password and a newline to its standard input, and  *)
(* waits for it in steps of one second; a helper that has not ended by     *)
(* then is sent SIGTERM, a second later SIGKILL, and reaped.  In TPM mode  *)
(* there is no pipe.                                                       *)
(*                                                                         *)
(* The helper is an external program and runs concurrently: it may fail to *)
(* start, read all of its input or some of it, close it, end, hang or      *)
(* ignore SIGTERM.  The module lives in a process it does not know: whether *)
(* SIGPIPE is ignored there, or SIGCHLD, is that process's choice.         *)
(***************************************************************************)
EXTENDS Integers

CONSTANTS
    Length,     \* strlen(authtok), in units a single write may stop between
    PipeSize,   \* what the pipe holds before a write blocks, in the same units
    Steps       \* KEYRING_TIMEOUT_S

\* A password of PAM is far shorter than a pipe is long.
ASSUME KeyringAssumption ==
    /\ Length \in Nat
    /\ PipeSize \in Nat
    /\ Length < PipeSize
    /\ Steps \in Nat \ {0}

VARIABLES
    env,          \* the module's argument, the host's signals, the kind of helper
    pc,           \* where the host is in try_unlock_keyring
    fds,          \* the ends of the pipe the host has open
    written,      \* how much of the password it has written
    waited,       \* how many seconds it has waited
    child,        \* the helper's process
    stdin,        \* it has its end of the pipe open
    pipe,         \* what is in the pipe of the password ...
    line,         \* ... and whether the newline is
    got,          \* what the helper has read of the password
    ended,        \* it has read the newline
    sent,         \* the signals it was sent
    reused,       \* the helper's pid names another process by now
    stray,        \* history: a signal was sent to that process
    interrupted   \* history: the last waitpid was interrupted by a signal

host   == <<pc, fds, written, waited, stray, interrupted>>
helper == <<child, stdin, got, ended>>
vars   == <<env, pc, fds, written, waited, child, stdin, pipe, line, got, ended, sent,
            reused, stray, interrupted>>

\* prompt: the helper does what it can do within a second, and ends once it has
\* read its input to the end, not before.
Environments == [tpm: BOOLEAN, sigpipe: {"default", "ignored"},
                 sigchld: {"default", "ignored"}, prompt: BOOLEAN]

Alive    == child \in {"forked", "running"}
Readable == child = "forked" \/ (child = "running" /\ stdin)
AtEnd    == env.tpm \/ (pipe = 0 /\ ~line /\ "w" \notin fds)

Init ==
    /\ env \in Environments
    /\ pc = "start"
    /\ fds = {}
    /\ written = 0
    /\ waited = 0
    /\ child = "none"
    /\ stdin = FALSE
    /\ pipe = 0
    /\ line = FALSE
    /\ got = 0
    /\ ended = FALSE
    /\ sent = {}
    /\ reused = FALSE
    /\ stray = FALSE
    /\ interrupted = FALSE

-----------------------------------------------------------------------------
(* The host.                                                                *)

\* No executable script, no PAM_AUTHTOK or no pipe: the session opens without.
OpenSession ==
    /\ pc = "start"
    /\ \/ pc' = "opened" /\ UNCHANGED fds
       \/ pc' = "fork" /\ fds' = IF env.tpm THEN {} ELSE {"r", "w"}
    /\ UNCHANGED <<env, written, waited, helper, pipe, line, sent, reused, stray, interrupted>>

Fork ==
    /\ pc = "fork"
    /\ \/ pc' = "opened" /\ fds' = {} /\ UNCHANGED child
       \/ /\ pc' = IF env.tpm THEN "wait" ELSE "write"
          /\ fds' = fds \ {"r"}
          /\ child' = "forked"
    /\ UNCHANGED <<env, written, waited, stdin, pipe, line, got, ended, sent, reused, stray,
                   interrupted>>

\* A write to a pipe nobody can read: SIGPIPE, whose default ends the host, or an
\* error.
BrokenPipe(next, open) ==
    /\ ~Readable
    /\ IF env.sigpipe = "default" THEN pc' = "dead" /\ fds' = {}
       ELSE pc' = next /\ fds' = open
    /\ UNCHANGED <<written, pipe, line>>

\* A bug to compare with: what a short write left over is not written.
WriteOnce ==
    /\ pc = "write"
    /\ \/ \E n \in 0 .. Length - written :
            /\ Readable /\ pipe + n <= PipeSize
            /\ pc' = "newline"
            /\ written' = written + n
            /\ pipe' = pipe + n
            /\ UNCHANGED <<fds, line>>
       \/ BrokenPipe("newline", fds)
    /\ UNCHANGED <<env, waited, helper, sent, reused, stray, interrupted>>

\* write() takes some of what is left of the password and blocks on a full pipe.
Write ==
    /\ pc = "write"
    /\ \/ written = Length /\ pc' = "newline" /\ UNCHANGED <<fds, written, pipe, line>>
       \/ \E n \in 1 .. Length - written :
            /\ Readable /\ pipe + n <= PipeSize
            /\ written' = written + n
            /\ pipe' = pipe + n
            /\ UNCHANGED <<pc, fds, line>>
       \/ written < Length /\ BrokenPipe("newline", fds)
    /\ UNCHANGED <<env, waited, helper, sent, reused, stray, interrupted>>

\* A bug to compare with: the pipe is left open, so the helper sees no end of it.
NewlineKeepingPipe ==
    /\ pc = "newline"
    /\ \/ /\ Readable /\ pipe < PipeSize
          /\ pc' = "wait"
          /\ line' = TRUE
          /\ UNCHANGED <<written, pipe, fds>>
       \/ BrokenPipe("wait", fds)
    /\ UNCHANGED <<env, waited, helper, sent, reused, stray, interrupted>>

\* The newline, and the end of the pipe.
Newline ==
    /\ pc = "newline"
    /\ \/ /\ Readable /\ pipe < PipeSize
          /\ pc' = "wait"
          /\ fds' = {}
          /\ line' = TRUE
          /\ UNCHANGED <<written, pipe>>
       \/ BrokenPipe("wait", {})
    /\ UNCHANGED <<env, waited, helper, sent, reused, stray, interrupted>>

\* A helper that ends becomes a zombie until the host waits for it, unless the
\* host ignores SIGCHLD: then its pid is free at once.
Ends == /\ child' = IF env.sigchld = "ignored" THEN "gone" ELSE "zombie"
        /\ stdin' = FALSE

\* What a prompt helper can do it has done before a second is over.
HelperBusy == child = "forked" \/ (child = "running" /\ (pipe > 0 \/ line \/ AtEnd))
Sleep      == ~(env.prompt /\ HelperBusy)

\* waitpid returns the helper, or an error when there is no such child.
Reaped == child \in {"zombie", "gone"} /\ child' = "gone" /\ pc' = "opened"

\* A bug to compare with: one look too many.
LookOnceMore ==
    /\ pc = "wait" /\ waited <= Steps
    /\ \/ Reaped /\ UNCHANGED waited
       \/ Alive /\ Sleep /\ waited' = waited + 1 /\ UNCHANGED <<pc, child>>
    /\ UNCHANGED <<env, fds, written, stdin, pipe, line, got, ended, sent, reused, stray,
                   interrupted>>

\* waitpid with WNOHANG, then a second of sleep that no signal cuts short.
Look ==
    /\ pc = "wait" /\ waited < Steps
    /\ \/ Reaped /\ UNCHANGED waited
       \/ Alive /\ Sleep /\ waited' = waited + 1 /\ UNCHANGED <<pc, child>>
    /\ UNCHANGED <<env, fds, written, stdin, pipe, line, got, ended, sent, reused, stray,
                   interrupted>>

Kill(signal) ==
    /\ sent' = IF Alive THEN sent \cup {signal} ELSE sent
    /\ stray' = (stray \/ (child = "gone" /\ reused))

\* A bug to compare with: a last look, whose result is ignored, before the signals.
GiveUpAfterReaping ==
    /\ pc = "wait" /\ waited = Steps
    /\ pc' = "term"
    /\ child' = IF child = "zombie" THEN "gone" ELSE child
    /\ Kill("TERM")
    /\ UNCHANGED <<env, fds, written, waited, stdin, got, ended, pipe, line, reused, interrupted>>

\* Another: after SIGTERM the helper is given the whole time again.
GiveUpAgain ==
    /\ pc = "wait" /\ waited = Steps
    /\ waited' = 0
    /\ Kill("TERM")
    /\ UNCHANGED <<env, pc, fds, written, helper, pipe, line, reused, interrupted>>

\* The time is up.
GiveUp ==
    /\ pc = "wait" /\ waited = Steps
    /\ pc' = "term"
    /\ Kill("TERM")
    /\ UNCHANGED <<env, fds, written, waited, helper, pipe, line, reused, interrupted>>

\* Bugs to compare with: the helper is not waited for after SIGKILL; or it is sent
\* SIGTERM a second time.
KillHardAndReturn ==
    /\ pc = "term" /\ Sleep
    /\ pc' = "opened"
    /\ Kill("KILL")
    /\ UNCHANGED <<env, fds, written, waited, helper, pipe, line, reused, interrupted>>

KillGently ==
    /\ pc = "term" /\ Sleep
    /\ pc' = "reap"
    /\ Kill("TERM")
    /\ UNCHANGED <<env, fds, written, waited, helper, pipe, line, reused, interrupted>>

\* A second after SIGTERM.
KillHard ==
    /\ pc = "term" /\ Sleep
    /\ pc' = "reap"
    /\ Kill("KILL")
    /\ UNCHANGED <<env, fds, written, waited, helper, pipe, line, reused, interrupted>>

\* The last waitpid blocks until the helper has ended ...
Reap ==
    /\ pc = "reap"
    /\ Reaped
    /\ UNCHANGED <<env, fds, written, waited, stdin, pipe, line, got, ended, sent, reused, stray,
                   interrupted>>

\* ... unless a signal handler of the host interrupts it.
ReapInterrupted ==
    /\ pc = "reap"
    /\ pc' = "opened"
    /\ interrupted' = TRUE
    /\ UNCHANGED <<env, fds, written, waited, helper, pipe, line, sent, reused, stray>>

-----------------------------------------------------------------------------
(* The helper.                                                              *)

\* The child makes the pipe its standard input and becomes the script, or fails.
SetUp ==
    /\ child = "forked"
    /\ \/ child' = "running" /\ stdin' = ~env.tpm
       \/ Ends
    /\ UNCHANGED <<env, host, pipe, line, got, ended, sent, reused>>

HelperReads ==
    /\ child = "running" /\ stdin
    /\ \/ pipe > 0 /\ pipe' = pipe - 1 /\ got' = got + 1 /\ UNCHANGED <<line, ended>>
       \/ pipe = 0 /\ line /\ line' = FALSE /\ ended' = TRUE /\ UNCHANGED <<pipe, got>>
    /\ UNCHANGED <<env, host, child, stdin, sent, reused>>

HelperCloses ==
    /\ child = "running" /\ stdin /\ ~env.prompt
    /\ stdin' = FALSE
    /\ UNCHANGED <<env, host, child, pipe, line, got, ended, sent, reused>>

HelperExits ==
    /\ child = "running"
    /\ env.prompt => AtEnd
    /\ Ends
    /\ UNCHANGED <<env, host, pipe, line, got, ended, sent, reused>>

\* SIGTERM may be ignored, SIGKILL may not.
HelperKilled ==
    /\ Alive
    /\ sent # {}
    /\ Ends
    /\ UNCHANGED <<env, host, pipe, line, got, ended, sent, reused>>

\* The kernel gives the pid of a process that is gone to another one.
ReusePid ==
    /\ child = "gone"
    /\ ~reused
    /\ reused' = TRUE
    /\ UNCHANGED <<env, host, helper, pipe, line, sent>>

HostStep   == OpenSession \/ Fork \/ Write \/ Newline \/ Look \/ GiveUp \/ KillHard \/ Reap
HelperStep == SetUp \/ HelperReads \/ HelperExits

Next ==
    \/ OpenSession
    \/ Fork
    \/ Write
    \/ Newline
    \/ Look
    \/ GiveUp
    \/ KillHard
    \/ Reap
    \/ ReapInterrupted
    \/ SetUp
    \/ HelperReads
    \/ HelperCloses
    \/ HelperExits
    \/ HelperKilled
    \/ ReusePid

Spec == Init /\ [][Next]_vars

\* The host is scheduled, and nothing need interrupt it; a prompt helper is, too;
\* the kernel ends a process that was sent SIGKILL.  Nothing else is asked.
FairSpec ==
    /\ Spec
    /\ WF_vars(HostStep)
    /\ WF_vars(env.prompt /\ HelperStep)
    /\ WF_vars("KILL" \in sent /\ HelperKilled)

-----------------------------------------------------------------------------
(* Properties.                                                              *)

\* The states of the two processes and the pipe.  What was written is in the pipe
\* or was read from it.
KeyringTypeOK ==
    /\ env \in Environments
    /\ pc \in {"start", "fork", "write", "newline", "wait", "term", "reap", "opened", "dead"}
    /\ fds \subseteq {"r", "w"}
    /\ written \in 0 .. Length
    /\ waited \in 0 .. Steps
    /\ child \in {"none", "forked", "running", "zombie", "gone"}
    /\ pipe \in 0 .. Length
    /\ got \in 0 .. Length
    /\ pipe + got = written
    /\ stdin \in BOOLEAN /\ line \in BOOLEAN /\ ended \in BOOLEAN
    /\ sent \subseteq {"TERM", "KILL"}
    /\ reused \in BOOLEAN /\ stray \in BOOLEAN /\ interrupted \in BOOLEAN

\* A helper that has read a line has read the whole password, however the writes
\* were cut and whatever became of the pipe meanwhile.
WholePassword == ended => got = Length

\* When the session is open the host holds no end of the pipe and no zombie, on
\* every path: a failed fork, a broken pipe, a helper that ended between the last
\* look and the signals, one that had to be killed.
ResourcesReturned ==
    pc = "opened" /\ ~interrupted => fds = {} /\ child \in {"none", "gone"}

\* SIGTERM and SIGKILL never reach a process that is not the helper: its pid is not
\* free until the host has waited for it.  (A host that ignores SIGCHLD gives it up.)
OnlyHelperSignalled == stray => env.sigchld = "ignored"

\* A helper that ends when it has read its input is not killed: the host closes the
\* pipe before it waits, and sees the end of the helper in time.
PromptIsSpared == env.prompt => sent = {}

\* The session opens whatever the helper does, unless SIGPIPE ends the host.
SessionOpens == <>(pc = "opened" \/ (pc = "dead" /\ env.sigpipe = "default"))

\* The steps the host can still take: at most one write for each part of the password,
\* one look a second, and what lies between and behind them.
StepsLeft ==
    CASE pc = "start"           -> Length + Steps + 7
      [] pc = "fork"            -> Length + Steps + 6
      [] pc = "write"           -> Length - written + Steps + 5
      [] pc = "newline"         -> Steps + 4
      [] pc = "wait"            -> Steps - waited + 3
      [] pc = "term"            -> 2
      [] pc = "reap"            -> 1
      [] pc \in {"opened", "dead"} -> 0

\* Whatever the helper does, the login is held up by no more than that: every step of
\* the host comes nearer to the end, and no step of the helper takes it back.
DelayIsBounded == [][StepsLeft' \in Nat /\ (UNCHANGED host \/ StepsLeft' < StepsLeft)]_vars
=============================================================================
