----------------------------- MODULE AuthEngine -----------------------------
(***************************************************************************)
(* The daemon's AuthEngine (src/service/auth_engine.cpp): the verification *)
(* loop over the cameras under the three policies, the lockout table, and  *)
(* the life cycle of the two neural networks (detector and recognizer),    *)
(* which are loaded at start, unloaded when idle and reloaded on demand.   *)
(*                                                                         *)
(* The daemon handles one request at a time.  A request is a sequence of   *)
(* steps (its prologue, one step per camera, its end) and time passes      *)
(* between any two of them; the process may die and be started again at    *)
(* any point.  What a camera and the user's file yield is input: an        *)
(* element of Observations chosen for each camera of a verification.       *)
(***************************************************************************)
EXTENDS Integers

CONSTANTS
    Users,            \* valid user names
    NCams,            \* cameras, in the order of config.camera_defs
    Configs,          \* the configurations a start may read
    LockoutAttempts,  \* lockout_attempts; 0 disables the lockout
    LockoutDuration,  \* lockout_duration_sec, in ticks
    KeepAlive,        \* model_keep_alive_sec, in seconds
    TicksPerSecond,   \* resolution of the steady clock
    MaxTime,          \* bound: the clock stops here
    MaxFailed         \* bound: no verification starts after so many failures

Cams     == 1 .. NCams
Policies == {"STRICT_ALL", "LENIENT_ANY", "ADAPTIVE"}

\* policy, the cameras with mandatory=true, those with min_brightness > 0
Configurations == [policy: Policies, mandatory: SUBSET Cams, floor: SUBSET Cams]

ASSUME EngineAssumption ==
    /\ NCams \in Nat
    /\ Configs \subseteq Configurations
    /\ Configs # {}
    /\ LockoutAttempts \in Nat
    /\ LockoutDuration \in Nat
    /\ KeepAlive \in Nat
    /\ TicksPerSecond \in Nat \ {0}
    /\ MaxTime \in Nat
    /\ MaxFailed \in Nat

(***************************************************************************)
(* What one camera of a verification yields: no frame, a frame darker than *)
(* the camera's floor, a frame of a camera for whose type the user's file  *)
(* has no embedding, no face, a face below the threshold for all stored    *)
(* embeddings, a face that reaches it for one of them, an exception (of    *)
(* OpenCV, or of the JSON library on an entry of another type).            *)
(***************************************************************************)
Observations == {"empty", "dark", "untaught", "noface", "mismatch", "match", "throws"}
Unseen == [c \in Cams |-> "unseen"]

Idle == [op |-> "idle"]

VARIABLES
    now,             \* std::chrono::steady_clock::now()
    alive,           \* the daemon process runs
    config,          \* the Configuration read by init()
    detector,        \* detector is not null
    recognizer,      \* recognizer is not null
    lastActivity,    \* last_activity_
    failedAttempts,  \* lockout_map_[u].failed_attempts
    lockoutUntil,    \* lockout_map_[u].lockout_until, {} being time 0
    req,             \* the request being handled and the locals of its handler
    verdict,         \* what the last verification answered
    seen,            \* history: what its cameras yielded
    since,           \* history: when failedAttempts[u] was last reset
    usedAt           \* history: when a request was last given the models

models  == <<detector, recognizer, lastActivity, usedAt>>
lockout == <<failedAttempts, lockoutUntil, since>>
vars == <<now, alive, config, models, lockout, req, verdict, seen>>

-----------------------------------------------------------------------------
(* The state a started process has: init() has loaded both networks.       *)

Forgotten ==
    /\ failedAttempts' = [u \in Users |-> 0]
    /\ lockoutUntil' = [u \in Users |-> 0]
    /\ since' = [u \in Users |-> now]

Init ==
    /\ now = 0
    /\ alive = TRUE
    /\ config \in Configs
    /\ detector = TRUE
    /\ recognizer = TRUE
    /\ lastActivity = now
    /\ failedAttempts = [u \in Users |-> 0]
    /\ lockoutUntil = [u \in Users |-> 0]
    /\ req = Idle
    /\ verdict = "none"
    /\ seen = Unseen
    /\ since = [u \in Users |-> now]
    /\ usedAt = now

\* The process ends (a signal, a crash): everything it held in memory is gone.
Die ==
    /\ alive' = FALSE
    /\ detector' = FALSE
    /\ recognizer' = FALSE
    /\ Forgotten
    /\ req' = Idle
    /\ verdict' = "none"
    /\ seen' = Unseen
    /\ UNCHANGED <<now, config, lastActivity, usedAt>>

ProcessDies == alive /\ Die

\* systemd starts the daemon again.  init() reads the configuration and loads
\* the networks; when that fails main() returns 1 and the process is not up.
Start ==
    /\ ~alive
    /\ alive' = TRUE
    /\ config' \in Configs
    /\ detector' = TRUE
    /\ recognizer' = TRUE
    /\ lastActivity' = now
    /\ usedAt' = now
    /\ UNCHANGED <<now, lockout, req, verdict, seen>>

-----------------------------------------------------------------------------
(* The networks.                                                            *)

\* loadModels, called with no detector: the two networks are created one after
\* the other, and when the second creation throws the first is kept.
LoadModels(ok) ==
    IF ok
    THEN detector' = TRUE /\ recognizer' = TRUE /\ lastActivity' = now
    ELSE detector' \in BOOLEAN /\ UNCHANGED <<recognizer, lastActivity>>

EnsureModelsLoadedIgnoringFailure(ok) ==
    /\ usedAt' = now
    /\ ok = TRUE
    /\ IF ~detector
       THEN \E loaded \in BOOLEAN : LoadModels(loaded)
       ELSE lastActivity' = now /\ UNCHANGED <<detector, recognizer>>

EnsureModelsLoadedNoRefresh(ok) ==
    /\ usedAt' = IF ok THEN now ELSE usedAt
    /\ IF ~detector
       THEN LoadModels(ok)
       ELSE ok = TRUE /\ UNCHANGED <<detector, recognizer, lastActivity>>

\* ensureModelsLoaded returns ok: it looks at the detector only.
EnsureModelsLoaded(ok) ==
    /\ usedAt' = IF ok THEN now ELSE usedAt
    /\ IF ~detector
       THEN LoadModels(ok)
       ELSE ok = TRUE /\ lastActivity' = now /\ UNCHANGED <<detector, recognizer>>

\* performMaintenance, called when no client came for a second.  The elapsed
\* time is truncated to whole seconds before it is compared.
Maintenance ==
    /\ alive
    /\ req = Idle
    /\ KeepAlive > 0 /\ detector
    /\ (now - lastActivity) \div TicksPerSecond > KeepAlive
    /\ detector' = FALSE
    /\ recognizer' = FALSE
    /\ UNCHANGED <<now, alive, config, lastActivity, usedAt, lockout, req, verdict, seen>>
-----------------------------------------------------------------------------
(* The lockout table.                                                       *)

NeverLockedOut(u) == FALSE

IsUserLockedOut(u) == LockoutAttempts > 0 /\ now < lockoutUntil[u]

\* A bug to compare with: the deadline is set by the failure that reaches the
\* limit and by no later one.
RecordAuthAttemptOnce(u, success) ==
    IF success
    THEN /\ failedAttempts' = [failedAttempts EXCEPT ![u] = 0]
         /\ lockoutUntil' = [lockoutUntil EXCEPT ![u] = 0]
         /\ since' = [since EXCEPT ![u] = now]
    ELSE LET failed == failedAttempts[u] + 1 IN
         /\ failedAttempts' = [failedAttempts EXCEPT ![u] = failed]
         /\ lockoutUntil' =
              [lockoutUntil EXCEPT ![u] = IF failed = LockoutAttempts
                                          THEN now + LockoutDuration ELSE @]
         /\ UNCHANGED since

\* Another: the counter starts again when the user is locked out.
RecordAuthAttemptAndReset(u, success) ==
    IF success
    THEN /\ failedAttempts' = [failedAttempts EXCEPT ![u] = 0]
         /\ lockoutUntil' = [lockoutUntil EXCEPT ![u] = 0]
         /\ since' = [since EXCEPT ![u] = now]
    ELSE LET limit == failedAttempts[u] + 1 >= LockoutAttempts IN
         /\ failedAttempts' = [failedAttempts EXCEPT ![u] = IF limit THEN 0 ELSE @ + 1]
         /\ lockoutUntil' =
              [lockoutUntil EXCEPT ![u] = IF limit THEN now + LockoutDuration ELSE @]
         /\ UNCHANGED since

RecordAuthAttempt(u, success) ==
    IF LockoutAttempts = 0
    THEN UNCHANGED lockout
    ELSE IF success
    THEN /\ failedAttempts' = [failedAttempts EXCEPT ![u] = 0]
         /\ lockoutUntil' = [lockoutUntil EXCEPT ![u] = 0]
         /\ since' = [since EXCEPT ![u] = now]
    ELSE LET failed == failedAttempts[u] + 1 IN
         /\ failedAttempts' = [failedAttempts EXCEPT ![u] = failed]
         /\ lockoutUntil' =
              [lockoutUntil EXCEPT ![u] = IF failed >= LockoutAttempts
                                          THEN now + LockoutDuration ELSE @]
         /\ UNCHANGED since

-----------------------------------------------------------------------------
(* verifyUserCore.                                                          *)

\* A bug to compare with: the cameras are counted from zero.
VerifyingFromZero(u) == [op |-> "verify", user |-> u, cam |-> 0,
                         participants |-> 0, successes |-> 0, failures |-> 0]

Verifying(u) == [op |-> "verify", user |-> u, cam |-> 1,
                 participants |-> 0, successes |-> 0, failures |-> 0]

\* The prologue of a verification: the networks, the user name, the lockout and
\* the user's file are checked in this order.  readable: the name is valid and
\* the file exists and parses (an exception of the parser also denies).
VerifyRequest(u) ==
    /\ alive
    /\ req = Idle
    /\ failedAttempts[u] < MaxFailed
    /\ \E loaded, readable \in BOOLEAN :
         /\ EnsureModelsLoaded(loaded)
         /\ IF loaded /\ readable /\ ~IsUserLockedOut(u)
            THEN req' = Verifying(u) /\ verdict' = "none"
            ELSE req' = req /\ verdict' = "denied"
    /\ seen' = Unseen
    /\ UNCHANGED <<now, alive, config, lockout>>

Recognized(o)   == o \in {"mismatch", "match"}
Participates(o) == o \notin {"empty", "dark"}

\* A bug to compare with: only the strict policy returns early.
StrictOnlyAborts(c, o) ==
    \/ o = "throws"
    \/ o = "empty" /\ config.policy = "STRICT_ALL"

\* The camera makes the whole verification return, whatever the others say.  An
\* exception is caught by handle_client, which answers "ERROR Exception".
Aborts(c, o) ==
    \/ o = "throws"
    \/ o = "empty" /\ config.policy = "STRICT_ALL"
    \/ ~Participates(o) /\ config.policy = "ADAPTIVE" /\ c \in config.mandatory

Deny == req' = Idle /\ verdict' = "denied"

\* One iteration of the loop over active_cameras.  Without a recognizer the
\* first face found dereferences a null pointer.
VerifyCamera(o) ==
    /\ req.op = "verify"
    /\ req.cam <= NCams
    /\ o = "dark" => req.cam \in config.floor
    /\ IF Recognized(o) /\ ~recognizer
       THEN Die
       ELSE /\ seen' = [seen EXCEPT ![req.cam] = o]
            /\ IF Aborts(req.cam, o)
               THEN Deny
               ELSE /\ req' = [req EXCEPT
                         !.cam = @ + 1,
                         !.participants = IF Participates(o) THEN @ + 1 ELSE @,
                         !.successes = IF o = "match" THEN @ + 1 ELSE @,
                         !.failures =
                            IF Participates(o) /\ o # "match" THEN @ + 1 ELSE @]
                    /\ UNCHANGED verdict
            /\ UNCHANGED <<now, alive, config, models, lockout>>

AnyMatch == req.successes > 0

AuthOk ==
    IF config.policy = "STRICT_ALL"
    THEN req.failures = 0 /\ req.successes > 0
    ELSE req.successes > 0

\* A bug to compare with: only a verification with a success or a face that
\* does not match reaches the lockout table.
FinishVerifyQuietly ==
    /\ req.op = "verify"
    /\ req.cam > NCams
    /\ req' = Idle
    /\ verdict' = IF AuthOk THEN "granted" ELSE "denied"
    /\ IF \E c \in Cams : Recognized(seen[c])
       THEN RecordAuthAttempt(req.user, AuthOk) ELSE UNCHANGED lockout
    /\ UNCHANGED <<now, alive, config, models, seen>>

\* After the loop.  With no participant the attempt is denied but not recorded.
FinishVerify ==
    /\ req.op = "verify"
    /\ req.cam > NCams
    /\ req' = Idle
    /\ IF req.participants = 0
       THEN verdict' = "denied" /\ UNCHANGED lockout
       ELSE /\ verdict' = IF AuthOk THEN "granted" ELSE "denied"
            /\ RecordAuthAttempt(req.user, AuthOk)
    /\ UNCHANGED <<now, alive, config, models, seen>>

-----------------------------------------------------------------------------
(* enrollUser, trainUser and testCameraAndAuth: what they do to the engine   *)
(* (what they do to the user's file is modelled in UserStore).               *)

CaptureOps == {"enroll", "train", "probe"}

\* admitted: valid user name and, to train, a readable file.
CaptureRequest(op) ==
    /\ alive
    /\ req = Idle
    /\ \E loaded, admitted \in BOOLEAN :
         /\ EnsureModelsLoaded(loaded)
         /\ req' = IF loaded /\ (admitted \/ op = "probe") THEN [op |-> op, cam |-> 1] ELSE req
    /\ UNCHANGED <<now, alive, config, lockout, verdict, seen>>

\* What a camera of such a request gives: no frame, no face, one, several faces,
\* an exception.
Captures == {"empty", "noface", "one", "many", "throws"}

\* Enrolment returns unless it sees exactly one face, training goes on with the
\* next camera, a probe runs the detector only and catches what it throws.
CaptureAborts(op, o) ==
    \/ op = "enroll" /\ o # "one"
    \/ op = "train" /\ o = "throws"

CaptureCamera(o) ==
    /\ req.op \in CaptureOps
    /\ req.cam <= NCams
    /\ IF req.op # "probe" /\ o \in {"one", "many"} /\ ~recognizer
       THEN Die
       ELSE /\ req' = IF CaptureAborts(req.op, o) THEN Idle ELSE [req EXCEPT !.cam = @ + 1]
            /\ UNCHANGED <<now, alive, config, models, lockout, verdict, seen>>

FinishCapture ==
    /\ req.op \in CaptureOps
    /\ req.cam > NCams
    /\ req' = Idle
    /\ UNCHANGED <<now, alive, config, models, lockout, verdict, seen>>

-----------------------------------------------------------------------------
Tick ==
    /\ now < MaxTime
    /\ now' = now + 1
    /\ UNCHANGED <<alive, config, models, lockout, req, verdict, seen>>

Next ==
    \/ \E u \in Users : VerifyRequest(u)
    \/ \E o \in Observations : VerifyCamera(o)
    \/ FinishVerify
    \/ \E op \in CaptureOps : CaptureRequest(op)
    \/ \E o \in Captures : CaptureCamera(o)
    \/ FinishCapture
    \/ Maintenance
    \/ ProcessDies
    \/ Start
    \/ Tick

Spec == Init /\ [][Next]_vars

-----------------------------------------------------------------------------
(* Properties.                                                              *)

Verifications ==
    [op: {"verify"}, user: Users, cam: 1 .. NCams + 1,
     participants: 0 .. NCams, successes: 0 .. NCams, failures: 0 .. NCams]
CaptureRequests == [op: CaptureOps, cam: 1 .. NCams + 1]

\* The states the engine can be in.  The counters of a verification never exceed
\* the number of cameras, and nothing is dated later than now.
TypeOK ==
    /\ now \in 0 .. MaxTime
    /\ alive \in BOOLEAN
    /\ config \in Configs
    /\ detector \in BOOLEAN
    /\ recognizer \in BOOLEAN
    /\ lastActivity \in 0 .. now
    /\ usedAt \in 0 .. now
    /\ failedAttempts \in [Users -> 0 .. MaxFailed]
    /\ lockoutUntil \in [Users -> 0 .. MaxTime + LockoutDuration]
    /\ since \in [Users -> 0 .. now]
    /\ req \in {Idle} \cup Verifications \cup CaptureRequests
    /\ verdict \in {"none", "granted", "denied"}
    /\ seen \in [Cams -> Observations \cup {"unseen"}]

\* What the policies mean, over what all the cameras yielded and not over the
\* counters of the loop: some camera matched; under strict every camera gave a
\* frame and none that was bright enough failed to match; under adaptive every
\* mandatory camera gave a bright enough frame.
PolicyGrants ==
    /\ \E c \in Cams : seen[c] = "match"
    /\ \A c \in Cams : seen[c] # "throws"
    /\ config.policy = "STRICT_ALL" => \A c \in Cams : seen[c] \in {"match", "dark"}
    /\ config.policy = "ADAPTIVE" =>
         \A c \in config.mandatory : seen[c] \notin {"unseen", "empty", "dark"}

\* The loop of verifyUserCore, with its early returns, skipped cameras and three
\* counters, answers AUTH_SUCCESS exactly when the policy grants.
VerdictMatchesPolicy == verdict # "none" => (verdict = "granted" <=> PolicyGrants)

\* However the failures and the passing of time interleave, after the first
\* LockoutAttempts failures each further one cost the user a whole
\* LockoutDuration since the counter was last reset (recordAuthAttempt).
RateLimit ==
    LockoutAttempts > 0 =>
      \A u \in Users : failedAttempts[u] > LockoutAttempts =>
        (failedAttempts[u] - LockoutAttempts) * LockoutDuration <= now - since[u]

\* isUserLockedOut is tested before the cameras are read and the verdict is
\* reached much later; still no verdict is reached while the user is locked out.
NoVerdictWhileLockedOut ==
    [][req.op = "verify" /\ verdict' = "granted" =>
         LockoutAttempts = 0 \/ lockoutUntil[req.user] <= now]_vars

\* An attempt in which no camera made the handler return early is counted,
\* whatever it yielded, unless no camera took part (the exits of verifyUserCore
\* before recordAuthAttempt).
EvaluatedAttemptsAreCounted ==
    [][ \A u \in Users :
          /\ LockoutAttempts > 0
          /\ req.op = "verify" /\ req.user = u
          /\ verdict' = "denied"
          /\ failedAttempts'[u] # failedAttempts[u] + 1
          => \/ \E c \in Cams : Aborts(c, seen'[c])
             \/ \A c \in Cams : ~Participates(seen'[c]) ]_vars

\* While any request runs, the detector it uses is loaded (ensureModelsLoaded
\* against performMaintenance and a failing loadModels).
DetectorHeld == req # Idle => detector

\* A request that got the networks keeps them loaded for the next ones, for more than
\* KeepAlive seconds (model_keep_alive_sec, performMaintenance).
KeptAlive ==
    [][alive' /\ detector /\ ~detector' => now - usedAt > KeepAlive * TicksPerSecond]_vars

-----------------------------------------------------------------------------
(* The engine implements the throttle.                                      *)

TokensLeft == [u \in Users |-> IF failedAttempts[u] < LockoutAttempts
                               THEN LockoutAttempts - failedAttempts[u] ELSE 0]
WaitLeft   == [u \in Users |-> IF now < lockoutUntil[u] THEN lockoutUntil[u] - now ELSE 0]

T == INSTANCE Throttle WITH Attempts <- LockoutAttempts, Duration <- LockoutDuration,
                            tokens <- TokensLeft, wait <- WaitLeft

\* The counter and the deadline of each user behave as the tokens and the wait
\* of Throttle: nothing but a success or a restart gives attempts back, nothing
\* but time ends a lockout, no failure goes unpunished once the limit is reached.
ImplementsThrottle == T!Spec
=============================================================================
