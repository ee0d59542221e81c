--------------------------- MODULE Keyring_proofs ---------------------------
(***************************************************************************)
(* Proofs about Keyring for a password of any length that fits the pipe    *)
(* and any number of seconds to wait.                                      *)
(*                                                                         *)
(* Sound has one part for each property: Holdings, what the host has open  *)
(* at each point; PidHeld, that the pid of the helper stays its own until  *)
(* it is waited for; LineIsLast, that a pipe without a reader never gets   *)
(* one again; NoWaiting, that a prompt helper has ended before the host    *)
(* sleeps.                                                                 *)
(***************************************************************************)
EXTENDS Keyring, TLAPS

-----------------------------------------------------------------------------
(* The inductive invariant.                                                 *)

\* What the host holds at each point of try_unlock_keyring.
Holdings ==
    /\ pc = "start" \/ (pc = "fork" /\ env.tpm) => fds = {}
    /\ pc \in {"start", "fork"} => child = "none"
    /\ pc \in {"wait", "term", "reap"} => fds = {}
    /\ ResourcesReturned

\* The pid of the helper is free only after the host has waited for it, which ends
\* the call, or if the host ignores SIGCHLD.
PidHeld ==
    /\ child = "gone" /\ pc # "opened" => env.sigchld = "ignored"
    /\ OnlyHelperSignalled

\* The newline follows the whole password, or nobody is there to read it.
LineIsLast ==
    /\ pc = "newline" => written = Length \/ ~Readable
    /\ line \/ ended => written = Length
    /\ WholePassword

\* A prompt helper has ended before the host has slept once.
NoWaiting == env.prompt => waited = 0 /\ sent = {} /\ pc \notin {"term", "reap"}

Sound == KeyringTypeOK /\ Holdings /\ PidHeld /\ LineIsLast /\ NoWaiting

\* Before the session there is no helper and no pipe.
LEMMA SoundInit == Init => Sound
<1> SUFFICES ASSUME Init PROVE Sound
    OBVIOUS
<1>1. KeyringTypeOK
  <2>1. 0 \in 0 .. Length /\ 0 \in 0 .. Steps
      BY KeyringAssumption DEF KeyringAssumption
  <2>2. pipe + got = written
      BY DEF Init
  <2> QED
      BY <2>1, <2>2, Zenon DEF Init, KeyringTypeOK
<1>2. Holdings /\ PidHeld /\ NoWaiting
    BY DEF Init, Holdings, ResourcesReturned, PidHeld, OnlyHelperSignalled, NoWaiting
<1>3. LineIsLast
    BY DEF Init, LineIsLast, WholePassword
<1> QED
    BY <1>1, <1>2, <1>3 DEF Sound

-----------------------------------------------------------------------------
(* The steps, one part of the invariant after the other.                    *)

\* Every step of host and helper keeps the types.
LEMMA TypeStep == Sound /\ [Next]_vars => KeyringTypeOK'
<1> SUFFICES ASSUME Sound, [Next]_vars PROVE KeyringTypeOK'
    OBVIOUS
<1> USE KeyringAssumption DEF KeyringAssumption, Sound, KeyringTypeOK, host, helper
<1>1. CASE OpenSession BY <1>1 DEF OpenSession
<1>2. CASE Fork BY <1>2 DEF Fork
<1>3. CASE Write
  <2>1. /\ pc' \in {"write", "newline", "dead"} /\ fds' \subseteq {"r", "w"} /\ line' = line
        /\ UNCHANGED <<env, waited, child, stdin, got, ended, sent, reused, stray, interrupted>>
      BY <1>3 DEF Write, BrokenPipe
  <2>2. written' \in 0 .. Length /\ pipe' \in 0 .. Length /\ pipe' + got = written'
    <3>1. CASE UNCHANGED <<written, pipe>>
        BY <3>1
    <3>2. CASE \E n \in 1 .. Length - written : written' = written + n /\ pipe' = pipe + n
        BY <3>2
    <3> QED
        BY <1>3, <3>1, <3>2 DEF Write, BrokenPipe
  <2> QED
      BY <2>1, <2>2
<1>4. CASE Newline BY <1>4 DEF Newline, BrokenPipe
<1>5. CASE Look BY <1>5 DEF Look, Reaped
<1>6. CASE GiveUp BY <1>6 DEF GiveUp, Kill
<1>7. CASE KillHard BY <1>7 DEF KillHard, Kill
<1>8. CASE Reap BY <1>8 DEF Reap, Reaped
<1>9. CASE ReapInterrupted BY <1>9 DEF ReapInterrupted
<1>10. CASE SetUp BY <1>10 DEF SetUp, Ends
<1>11. CASE HelperReads
  <2>1. CASE pipe > 0 /\ pipe' = pipe - 1 /\ got' = got + 1
      BY <1>11, <2>1 DEF HelperReads
  <2>2. CASE UNCHANGED <<pipe, got>>
      BY <1>11, <2>2 DEF HelperReads
  <2> QED
      BY <1>11, <2>1, <2>2 DEF HelperReads
<1>12. CASE HelperCloses \/ ReusePid BY <1>12 DEF HelperCloses, ReusePid
<1>13. CASE HelperExits \/ HelperKilled BY <1>13 DEF HelperExits, HelperKilled, Ends
<1>14. CASE UNCHANGED vars BY <1>14 DEF vars
<1> QED
    BY <1>1, <1>2, <1>3, <1>4, <1>5, <1>6, <1>7, <1>8, <1>9, <1>10, <1>11, <1>12, <1>13, <1>14
    DEF Next

\* Every step of the host that leaves the call has closed the pipe and waited for
\* the helper; the helper comes to life only at the fork.
LEMMA HoldingsStep == Sound /\ [Next]_vars => Holdings'
<1> SUFFICES ASSUME Sound, [Next]_vars PROVE Holdings'
    OBVIOUS
<1> USE DEF Sound, KeyringTypeOK, Holdings, ResourcesReturned, host, helper
<1>1. CASE OpenSession \/ Fork BY <1>1 DEF OpenSession, Fork
<1>2. CASE Write \/ Newline BY <1>2 DEF Write, Newline, BrokenPipe
<1>3. CASE Look \/ Reap BY <1>3 DEF Look, Reap, Reaped
<1>4. CASE GiveUp \/ KillHard BY <1>4 DEF GiveUp, KillHard
<1>5. CASE ReapInterrupted BY <1>5 DEF ReapInterrupted
<1>6. CASE SetUp \/ HelperExits \/ HelperKilled
    BY <1>6 DEF SetUp, HelperExits, HelperKilled, Ends, Alive
<1>7. CASE HelperReads \/ HelperCloses \/ ReusePid
    BY <1>7 DEF HelperReads, HelperCloses, ReusePid
<1>8. CASE UNCHANGED vars BY <1>8 DEF vars
<1> QED
    BY <1>1, <1>2, <1>3, <1>4, <1>5, <1>6, <1>7, <1>8 DEF Next

\* While the host may still signal, the helper is its child or a zombie of its own.
LEMMA PidStep == Sound /\ [Next]_vars => PidHeld'
<1> SUFFICES ASSUME Sound, [Next]_vars PROVE PidHeld'
    OBVIOUS
<1> USE DEF Sound, KeyringTypeOK, Environments, Holdings, ResourcesReturned, PidHeld,
            OnlyHelperSignalled, host, helper
<1>1. CASE OpenSession \/ Fork BY <1>1 DEF OpenSession, Fork
<1>2. CASE Write \/ Newline BY <1>2 DEF Write, Newline, BrokenPipe
<1>3. CASE Look \/ Reap BY <1>3 DEF Look, Reap, Reaped, Alive
<1>4. CASE GiveUp \/ KillHard BY <1>4 DEF GiveUp, KillHard, Kill
<1>5. CASE ReapInterrupted BY <1>5 DEF ReapInterrupted
<1>6. CASE SetUp \/ HelperExits \/ HelperKilled
    BY <1>6 DEF SetUp, HelperExits, HelperKilled, Ends, Alive
<1>7. CASE HelperReads \/ HelperCloses \/ ReusePid
    BY <1>7 DEF HelperReads, HelperCloses, ReusePid
<1>8. CASE UNCHANGED vars BY <1>8 DEF vars
<1> QED
    BY <1>1, <1>2, <1>3, <1>4, <1>5, <1>6, <1>7, <1>8 DEF Next

\* A pipe that has lost its reader never gets it back, so a password that was given
\* up is not followed by a newline anybody reads.
LEMMA LineStep == Sound /\ [Next]_vars => LineIsLast'
<1> SUFFICES ASSUME Sound, [Next]_vars PROVE LineIsLast'
    OBVIOUS
<1> USE KeyringAssumption
    DEF KeyringAssumption, Sound, KeyringTypeOK, Holdings, LineIsLast, WholePassword, Readable,
        host, helper
<1>1. CASE OpenSession \/ Fork BY <1>1 DEF OpenSession, Fork
<1>2. CASE Write BY <1>2 DEF Write, BrokenPipe
<1>3. CASE Newline BY <1>3 DEF Newline, BrokenPipe
<1>4. CASE Look \/ Reap BY <1>4 DEF Look, Reap, Reaped
<1>5. CASE GiveUp \/ KillHard BY <1>5 DEF GiveUp, KillHard
<1>6. CASE ReapInterrupted BY <1>6 DEF ReapInterrupted
<1>7. CASE SetUp \/ HelperExits \/ HelperKilled
    BY <1>7 DEF SetUp, HelperExits, HelperKilled, Ends, Alive
<1>8. CASE HelperReads BY <1>8 DEF HelperReads
<1>9. CASE HelperCloses \/ ReusePid BY <1>9 DEF HelperCloses, ReusePid
<1>10. CASE UNCHANGED vars BY <1>10 DEF vars
<1> QED
    BY <1>1, <1>2, <1>3, <1>4, <1>5, <1>6, <1>7, <1>8, <1>9, <1>10 DEF Next

\* While a prompt helper lives it has input to read or the end of it to see: the
\* pipe was closed before the first look.
LEMMA WaitingStep == Sound /\ [Next]_vars => NoWaiting'
<1> SUFFICES ASSUME Sound, [Next]_vars PROVE NoWaiting'
    OBVIOUS
<1> USE KeyringAssumption DEF KeyringAssumption, Sound, KeyringTypeOK, Holdings, NoWaiting, host, helper
<1>1. CASE OpenSession \/ Fork BY <1>1 DEF OpenSession, Fork
<1>2. CASE Write \/ Newline BY <1>2 DEF Write, Newline, BrokenPipe
<1>3. CASE Look
  <2>1. env.prompt => ~(Alive /\ Sleep)
      BY <1>3 DEF Look, Alive, Sleep, HelperBusy, AtEnd
  <2> QED
      BY <1>3, <2>1 DEF Look, Reaped
<1>4. CASE Reap \/ ReapInterrupted BY <1>4 DEF Reap, Reaped, ReapInterrupted
<1>5. CASE GiveUp \/ KillHard BY <1>5 DEF GiveUp, KillHard
<1>6. CASE SetUp \/ HelperExits \/ HelperKilled
    BY <1>6 DEF SetUp, HelperExits, HelperKilled
<1>7. CASE HelperReads \/ HelperCloses \/ ReusePid
    BY <1>7 DEF HelperReads, HelperCloses, ReusePid
<1>8. CASE UNCHANGED vars BY <1>8 DEF vars
<1> QED
    BY <1>1, <1>2, <1>3, <1>4, <1>5, <1>6, <1>7, <1>8 DEF Next

\* Sound is an invariant.
LEMMA AlwaysSound == Spec => []Sound
<1>1. Sound /\ [Next]_vars => Sound'
    BY TypeStep, HoldingsStep, PidStep, LineStep, WaitingStep DEF Sound
<1> QED
    BY SoundInit, <1>1, PTL DEF Spec

-----------------------------------------------------------------------------
(* The results.                                                             *)

\* The host, the helper and the pipe stay in their states, and what was written is
\* in the pipe or was read from it.
THEOREM KeyringTypes == Spec => []KeyringTypeOK
<1>1. Sound => KeyringTypeOK
    BY DEF Sound
<1> QED
    BY <1>1, AlwaysSound, PTL

\* A helper that has read a line has read the whole password (the write loop of
\* try_unlock_keyring).
THEOREM PasswordIsWhole == Spec => []WholePassword
<1>1. Sound => WholePassword
    BY DEF Sound, LineIsLast
<1> QED
    BY <1>1, AlwaysSound, PTL

\* No way out of try_unlock_keyring leaves an end of the pipe or a zombie.
THEOREM NothingLeftOver == Spec => []ResourcesReturned
<1>1. Sound => ResourcesReturned
    BY DEF Sound, Holdings
<1> QED
    BY <1>1, AlwaysSound, PTL

\* The two signals reach the helper or nobody.
THEOREM SignalsReachHelper == Spec => []OnlyHelperSignalled
<1>1. Sound => OnlyHelperSignalled
    BY DEF Sound, PidHeld
<1> QED
    BY <1>1, AlwaysSound, PTL

\* A helper that ends when its input does is never signalled.
THEOREM PromptNotKilled == Spec => []PromptIsSpared
<1>1. Sound => PromptIsSpared
    BY DEF Sound, NoWaiting, PromptIsSpared
<1> QED
    BY <1>1, AlwaysSound, PTL

\* Every step of the host comes nearer to the end of the call.
LEMMA HostComesNearer ==
    ASSUME Sound, [Next]_vars
    PROVE  StepsLeft' \in Nat /\ (UNCHANGED host \/ StepsLeft' < StepsLeft)
<1> USE KeyringAssumption DEF KeyringAssumption, Sound, KeyringTypeOK
<1>0. StepsLeft' \in Nat
  <2>1. KeyringTypeOK'
      BY TypeStep
  <2> QED
      BY <2>1 DEF StepsLeft
<1>1. CASE OpenSession \/ Fork
    BY <1>1 DEF OpenSession, Fork, StepsLeft
<1>2. CASE Write
    BY <1>2 DEF Write, BrokenPipe, StepsLeft
<1>3. CASE Newline
    BY <1>3 DEF Newline, BrokenPipe, StepsLeft
<1>4. CASE Look
    BY <1>4 DEF Look, Reaped, StepsLeft
<1>5. CASE GiveUp \/ KillHard
    BY <1>5 DEF GiveUp, KillHard, StepsLeft
<1>6. CASE Reap \/ ReapInterrupted
    BY <1>6 DEF Reap, Reaped, ReapInterrupted, StepsLeft
<1>7. CASE SetUp \/ HelperReads \/ HelperCloses \/ HelperExits \/ HelperKilled
    BY <1>0, <1>7 DEF SetUp, HelperReads, HelperCloses, HelperExits, HelperKilled, host
<1>8. CASE ReusePid \/ UNCHANGED vars
    BY <1>0, <1>8 DEF ReusePid, vars, host
<1> QED
    BY <1>0, <1>1, <1>2, <1>3, <1>4, <1>5, <1>6, <1>7, <1>8 DEF Next

\* try_unlock_keyring holds up the login by a bounded number of steps.
THEOREM LoginIsNotHeldUp == Spec => DelayIsBounded
<1>1. Sound /\ [Next]_vars =>
        [StepsLeft' \in Nat /\ (UNCHANGED host \/ StepsLeft' < StepsLeft)]_vars
    BY HostComesNearer
<1> QED
    BY <1>1, AlwaysSound, PTL DEF Spec, DelayIsBounded
=============================================================================
