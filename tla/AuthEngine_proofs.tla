------------------------- MODULE AuthEngine_proofs --------------------------
(***************************************************************************)
(* Proofs about AuthEngine for every number of cameras and users, every    *)
(* set of configurations and all parameters of the lockout.                *)
(*                                                                         *)
(* TypeOK is not inductive: the counters of the loop are bounded only      *)
(* because they do not run ahead of the camera index.  Typed adds that.    *)
(* Each safety property has its own strengthening, proved inductive on top *)
(* of Typed: LoopInv relates the counters to what the cameras yielded,     *)
(* LockInv relates the running verification to the lockout table, RateInv  *)
(* relates deadlines, counters and the clock.                              *)
(***************************************************************************)
EXTENDS AuthEngine, TLAPS

\* While a verification runs, its counters are behind its camera index and its
\* user has not reached the bound on failures.
LoopBounds ==
    req.op = "verify" =>
      /\ req.participants < req.cam
      /\ req.successes < req.cam
      /\ req.failures < req.cam
      /\ failedAttempts[req.user] < MaxFailed

Typed == TypeOK /\ LoopBounds

USE EngineAssumption DEF EngineAssumption

\* A request is one of three kinds of record, told apart by op.
LEMMA ReqCases ==
    ASSUME TypeOK
    PROVE  /\ req.op = "idle" <=> req = Idle
           /\ req.op = "verify" <=> req \in Verifications
           /\ req.op \in CaptureOps <=> req \in CaptureRequests
BY DEF TypeOK, Idle, Verifications, CaptureRequests, CaptureOps

\* Losing the process keeps the types.
LEMMA TypedDie == TypeOK /\ Die => Typed'
<1> SUFFICES ASSUME TypeOK, Die PROVE Typed'
  OBVIOUS
<1>1. TypeOK'
  <2>1. /\ alive' \in BOOLEAN /\ detector' \in BOOLEAN /\ recognizer' \in BOOLEAN
    BY DEF Die
  <2>2. /\ now' \in 0 .. MaxTime /\ lastActivity' \in 0 .. now' /\ usedAt' \in 0 .. now'
    BY DEF Die, TypeOK
  <2>3. /\ failedAttempts' \in [Users -> 0 .. MaxFailed]
        /\ lockoutUntil' \in [Users -> 0 .. MaxTime + LockoutDuration]
        /\ since' \in [Users -> 0 .. now']
    BY DEF Die, Forgotten, TypeOK
  <2>4. config' \in Configs /\ req' = Idle /\ verdict' = "none"
    BY DEF Die, TypeOK
  <2>5. seen' \in [Cams -> Observations \cup {"unseen"}]
    BY DEF Die, Unseen
  <2> QED BY <2>1, <2>2, <2>3, <2>4, <2>5 DEF TypeOK
<1>2. req'.op = "idle"
  BY DEF Die, Idle
<1> QED BY <1>1, <1>2 DEF Typed, LoopBounds

\* Loading the networks, or failing to, keeps the types of their state.
LEMMA TypedModels ==
    ASSUME TypeOK, NEW ok \in BOOLEAN, EnsureModelsLoaded(ok), UNCHANGED now
    PROVE  /\ detector' \in BOOLEAN /\ recognizer' \in BOOLEAN
           /\ lastActivity' \in 0 .. now /\ usedAt' \in 0 .. now
           /\ ok => detector'
<1>1. now \in 0 .. MaxTime /\ usedAt' \in 0 .. now
  BY DEF TypeOK, EnsureModelsLoaded
<1>2. CASE ~detector
  BY <1>1, <1>2 DEF TypeOK, EnsureModelsLoaded, LoadModels
<1>3. CASE detector
  <2>1. ok /\ lastActivity' = now /\ detector' = detector /\ recognizer' = recognizer
    BY <1>3 DEF EnsureModelsLoaded
  <2> QED BY <1>1, <1>3, <2>1 DEF TypeOK
<1> QED BY <1>2, <1>3

\* A verification that starts has its counters behind its camera.
LEMMA TypedVerifyRequest == \A u \in Users : Typed /\ VerifyRequest(u) => Typed'
<1> SUFFICES ASSUME NEW u \in Users, Typed, VerifyRequest(u) PROVE Typed'
  OBVIOUS
<1> USE DEF Typed
<1>1. PICK loaded \in BOOLEAN, readable \in BOOLEAN :
         /\ EnsureModelsLoaded(loaded)
         /\ IF loaded /\ readable /\ ~IsUserLockedOut(u)
            THEN req' = Verifying(u) /\ verdict' = "none"
            ELSE req' = req /\ verdict' = "denied"
  BY DEF VerifyRequest
<1>2. /\ req = Idle /\ failedAttempts[u] < MaxFailed /\ seen' = Unseen
      /\ UNCHANGED <<now, alive, config, failedAttempts, lockoutUntil, since>>
  BY DEF VerifyRequest, lockout
<1>3. /\ detector' \in BOOLEAN /\ recognizer' \in BOOLEAN
      /\ lastActivity' \in 0 .. now /\ usedAt' \in 0 .. now
  BY <1>1, <1>2, TypedModels
<1>4. CASE req' = Verifying(u)
  <2>1. req' \in Verifications
    BY <1>4 DEF Verifying, Verifications
  <2>2. TypeOK'
    BY <1>1, <1>2, <1>3, <2>1 DEF TypeOK, Unseen
  <2>3. LoopBounds'
    BY <1>2, <1>4 DEF LoopBounds, Verifying
  <2> QED BY <2>2, <2>3
<1>5. CASE req' = req
  <2>1. TypeOK'
    BY <1>1, <1>2, <1>3, <1>5 DEF TypeOK, Unseen
  <2>2. LoopBounds'
    BY <1>2, <1>5 DEF LoopBounds, Idle
  <2> QED BY <2>1, <2>2
<1> QED BY <1>1, <1>4, <1>5

\* One iteration of the loop moves the index and each counter by at most one.
LEMMA VerifyCameraNext ==
    ASSUME Typed, NEW o \in Observations, VerifyCamera(o), ~(Recognized(o) /\ ~recognizer)
    PROVE  /\ req \in Verifications /\ req.cam \in Cams
           /\ seen' = [seen EXCEPT ![req.cam] = o]
           /\ UNCHANGED <<now, alive, config, models, lockout>>
           /\ \/ Aborts(req.cam, o) /\ req' = Idle /\ verdict' = "denied"
              \/ /\ ~Aborts(req.cam, o)
                 /\ req' \in Verifications
                 /\ req'.user = req.user
                 /\ req'.cam = req.cam + 1
                 /\ req'.participants = req.participants + (IF Participates(o) THEN 1 ELSE 0)
                 /\ req'.successes = req.successes + (IF o = "match" THEN 1 ELSE 0)
                 /\ req'.failures =
                      req.failures + (IF Participates(o) /\ o # "match" THEN 1 ELSE 0)
                 /\ verdict' = verdict
<1>1. req \in Verifications /\ req.cam \in Cams
  BY ReqCases DEF Typed, VerifyCamera, Verifications, Cams
<1>2. seen' = [seen EXCEPT ![req.cam] = o] /\ UNCHANGED <<now, alive, config, models, lockout>>
  BY DEF VerifyCamera
<1>3. CASE Aborts(req.cam, o)
  BY <1>1, <1>2, <1>3 DEF VerifyCamera, Deny
<1>4. CASE ~Aborts(req.cam, o)
  <2>1. /\ verdict' = verdict
        /\ req' = [req EXCEPT
             !.cam = @ + 1,
             !.participants = IF Participates(o) THEN @ + 1 ELSE @,
             !.successes = IF o = "match" THEN @ + 1 ELSE @,
             !.failures = IF Participates(o) /\ o # "match" THEN @ + 1 ELSE @]
    BY <1>4 DEF VerifyCamera
  <2>2. /\ req'.cam = req.cam + 1 /\ req'.user = req.user
        /\ req'.participants = req.participants + (IF Participates(o) THEN 1 ELSE 0)
        /\ req'.successes = req.successes + (IF o = "match" THEN 1 ELSE 0)
        /\ req'.failures = req.failures + (IF Participates(o) /\ o # "match" THEN 1 ELSE 0)
    BY <1>1, <2>1 DEF Verifications
  <2>3. /\ req.participants \in 0 .. req.cam - 1
        /\ req.successes \in 0 .. req.cam - 1
        /\ req.failures \in 0 .. req.cam - 1
    BY <1>1 DEF Verifications, Cams, Typed, LoopBounds
  <2>4. /\ req'.cam \in 1 .. NCams + 1
        /\ req'.participants \in 0 .. NCams
        /\ req'.successes \in 0 .. NCams
        /\ req'.failures \in 0 .. NCams
    BY <1>1, <2>2, <2>3 DEF Cams
  <2>5. req' = [op |-> "verify", user |-> req.user, cam |-> req'.cam,
                participants |-> req'.participants, successes |-> req'.successes,
                failures |-> req'.failures]
    BY <1>1, <2>1 DEF Verifications
  <2>6. req' \in Verifications
    BY <1>1, <2>4, <2>5 DEF Verifications
  <2> QED BY <1>1, <1>2, <1>4, <2>1, <2>2, <2>6
<1> QED BY <1>3, <1>4

\* An iteration moves the camera on by one and each counter by at most one.
LEMMA TypedVerifyCamera == \A o \in Observations : Typed /\ VerifyCamera(o) => Typed'
<1> SUFFICES ASSUME NEW o \in Observations, Typed, VerifyCamera(o) PROVE Typed'
  OBVIOUS
<1>1. CASE Recognized(o) /\ ~recognizer
  BY <1>1, TypedDie DEF VerifyCamera, Typed
<1>2. CASE ~(Recognized(o) /\ ~recognizer)
  <2>1. /\ seen' = [seen EXCEPT ![req.cam] = o]
        /\ UNCHANGED <<now, alive, config, detector, recognizer, lastActivity, usedAt,
                       failedAttempts, lockoutUntil, since>>
    BY <1>2, VerifyCameraNext DEF models, lockout
  <2>2. CASE req' = Idle /\ verdict' = "denied"
    <3>1. TypeOK'
      BY <2>1, <2>2 DEF TypeOK, Typed
    <3>2. LoopBounds'
      BY <2>2 DEF LoopBounds, Idle
    <3> QED BY <3>1, <3>2 DEF Typed
  <2>3. CASE /\ req' \in Verifications
             /\ req'.user = req.user
             /\ req'.cam = req.cam + 1
             /\ req'.participants = req.participants + (IF Participates(o) THEN 1 ELSE 0)
             /\ req'.successes = req.successes + (IF o = "match" THEN 1 ELSE 0)
             /\ req'.failures =
                  req.failures + (IF Participates(o) /\ o # "match" THEN 1 ELSE 0)
             /\ verdict' = verdict
    <3>1. TypeOK'
      BY <2>1, <2>3 DEF TypeOK, Typed
    <3>2. req \in Verifications /\ LoopBounds /\ req.op = "verify"
      BY <1>2, VerifyCameraNext DEF Typed, Verifications
    <3>3. LoopBounds'
      BY <2>1, <2>3, <3>2 DEF LoopBounds, Verifications
    <3> QED BY <3>1, <3>3 DEF Typed
  <2> QED BY <1>2, <2>2, <2>3, VerifyCameraNext
<1> QED BY <1>1, <1>2

\* Recording an attempt of a user below the bound keeps the types of the table.
LEMMA TypedRecord ==
    ASSUME TypeOK, NEW u \in Users, NEW success,
           failedAttempts[u] < MaxFailed, RecordAuthAttempt(u, success), UNCHANGED now
    PROVE  /\ failedAttempts' \in [Users -> 0 .. MaxFailed]
           /\ lockoutUntil' \in [Users -> 0 .. MaxTime + LockoutDuration]
           /\ since' \in [Users -> 0 .. now]
<1>1. CASE LockoutAttempts = 0
  BY <1>1 DEF RecordAuthAttempt, lockout, TypeOK
<1>2. CASE LockoutAttempts # 0 /\ success
  BY <1>2 DEF RecordAuthAttempt, TypeOK
<1>3. CASE LockoutAttempts # 0 /\ ~success
  <2>1. failedAttempts[u] + 1 \in 0 .. MaxFailed
    BY DEF TypeOK
  <2>2. now + LockoutDuration \in 0 .. MaxTime + LockoutDuration
    BY DEF TypeOK
  <2>3. lockoutUntil' \in [Users -> 0 .. MaxTime + LockoutDuration]
    BY <1>3, <2>2 DEF RecordAuthAttempt, TypeOK
  <2> QED BY <1>3, <2>1, <2>3 DEF RecordAuthAttempt, TypeOK
<1> QED BY <1>1, <1>2, <1>3

\* Only a running verification counts a failure, so the bound holds.
LEMMA TypedFinishVerify == Typed /\ FinishVerify => Typed'
<1> SUFFICES ASSUME Typed, FinishVerify PROVE Typed'
  OBVIOUS
<1>1. req \in Verifications /\ req.user \in Users /\ failedAttempts[req.user] < MaxFailed
  BY ReqCases DEF Typed, LoopBounds, FinishVerify, Verifications
<1>2. /\ failedAttempts' \in [Users -> 0 .. MaxFailed]
      /\ lockoutUntil' \in [Users -> 0 .. MaxTime + LockoutDuration]
      /\ since' \in [Users -> 0 .. now]
  <2>1. CASE req.participants = 0
    BY <2>1 DEF FinishVerify, lockout, Typed, TypeOK
  <2>2. CASE req.participants # 0
    <3>1. RecordAuthAttempt(req.user, AuthOk) /\ UNCHANGED now
      BY <2>2 DEF FinishVerify
    <3> QED BY <1>1, <3>1, TypedRecord DEF Typed
  <2> QED BY <2>1, <2>2
<1>3. /\ req' = Idle /\ verdict' \in {"granted", "denied"}
      /\ UNCHANGED <<now, alive, config, detector, recognizer, lastActivity, usedAt, seen>>
  BY DEF FinishVerify, models
<1>4. TypeOK'
  BY <1>2, <1>3 DEF Typed, TypeOK
<1>5. LoopBounds'
  BY <1>3 DEF LoopBounds, Idle
<1> QED BY <1>4, <1>5 DEF Typed

\* The other requests that read the cameras.
LEMMA TypedCapture ==
    ASSUME Typed,
           \/ \E op \in CaptureOps : CaptureRequest(op)
           \/ \E o \in Captures : CaptureCamera(o)
           \/ FinishCapture
    PROVE  Typed'
<1>1. ASSUME NEW op \in CaptureOps, CaptureRequest(op) PROVE Typed'
  <2>1. PICK loaded \in BOOLEAN, admitted \in BOOLEAN :
           /\ EnsureModelsLoaded(loaded)
           /\ req' = IF loaded /\ (admitted \/ op = "probe") THEN [op |-> op, cam |-> 1] ELSE req
    BY <1>1 DEF CaptureRequest
  <2>2. /\ req = Idle
        /\ UNCHANGED <<now, alive, config, failedAttempts, lockoutUntil, since, verdict, seen>>
    BY <1>1 DEF CaptureRequest, lockout
  <2>3. /\ detector' \in BOOLEAN /\ recognizer' \in BOOLEAN
        /\ lastActivity' \in 0 .. now /\ usedAt' \in 0 .. now
    BY <2>1, <2>2, TypedModels DEF Typed
  <2>4. req' \in {Idle} \cup CaptureRequests
    BY <2>1, <2>2 DEF CaptureRequests
  <2>5. TypeOK'
    BY <2>2, <2>3, <2>4 DEF Typed, TypeOK
  <2>6. LoopBounds'
    BY <2>4 DEF LoopBounds, Idle, CaptureRequests, CaptureOps
  <2> QED BY <2>5, <2>6 DEF Typed
<1>2. ASSUME NEW o \in Captures, CaptureCamera(o) PROVE Typed'
  <2>1. req \in CaptureRequests /\ req.cam \in Cams
    BY <1>2, ReqCases DEF CaptureCamera, Typed, CaptureRequests, Cams
  <2>2. CASE req.op # "probe" /\ o \in {"one", "many"} /\ ~recognizer
    BY <1>2, <2>2, TypedDie DEF CaptureCamera, Typed
  <2>3. CASE ~(req.op # "probe" /\ o \in {"one", "many"} /\ ~recognizer)
    <3>1. /\ req' \in {Idle, [req EXCEPT !.cam = @ + 1]}
          /\ UNCHANGED <<now, alive, config, detector, recognizer, lastActivity, usedAt,
                         failedAttempts, lockoutUntil, since, verdict, seen>>
      BY <1>2, <2>3 DEF CaptureCamera, models, lockout
    <3>2. [req EXCEPT !.cam = @ + 1] \in CaptureRequests
      BY <2>1 DEF CaptureRequests, Cams
    <3>3. TypeOK'
      BY <3>1, <3>2 DEF Typed, TypeOK
    <3>4. LoopBounds'
      BY <3>1, <3>2 DEF LoopBounds, Idle, CaptureRequests, CaptureOps
    <3> QED BY <3>3, <3>4 DEF Typed
  <2> QED BY <2>2, <2>3
<1>3. ASSUME FinishCapture PROVE Typed'
  <2>1. /\ req' = Idle
        /\ UNCHANGED <<now, alive, config, detector, recognizer, lastActivity, usedAt,
                       failedAttempts, lockoutUntil, since, verdict, seen>>
    BY <1>3 DEF FinishCapture, models, lockout
  <2> QED BY <2>1 DEF Typed, TypeOK, LoopBounds, Idle
<1> QED BY <1>1, <1>2, <1>3

\* The steps that handle no request.
LEMMA TypedBackground ==
    ASSUME Typed, Maintenance \/ ProcessDies \/ Start \/ Tick
    PROVE  Typed'
<1>1. CASE Maintenance
  <2>1. /\ detector' = FALSE /\ recognizer' = FALSE
        /\ UNCHANGED <<now, alive, config, lastActivity, usedAt, failedAttempts, lockoutUntil,
                       since, req, verdict, seen>>
    BY <1>1 DEF Maintenance, lockout
  <2> QED BY <2>1 DEF Typed, TypeOK, LoopBounds
<1>2. CASE ProcessDies
  BY <1>2, TypedDie DEF ProcessDies, Typed
<1>3. CASE Start
  <2>1. /\ alive' = TRUE /\ detector' = TRUE /\ recognizer' = TRUE /\ config' \in Configs
        /\ lastActivity' = now /\ usedAt' = now
        /\ UNCHANGED <<now, failedAttempts, lockoutUntil, since, req, verdict, seen>>
    BY <1>3 DEF Start, lockout
  <2> QED BY <2>1 DEF Typed, TypeOK, LoopBounds
<1>4. CASE Tick
  <2>1. /\ now < MaxTime /\ now' = now + 1
        /\ UNCHANGED <<alive, config, detector, recognizer, lastActivity, usedAt,
                       failedAttempts, lockoutUntil, since, req, verdict, seen>>
    BY <1>4 DEF Tick, models, lockout
  <2>2. now' \in 0 .. MaxTime /\ \A t \in 0 .. now : t \in 0 .. now'
    BY <2>1 DEF Typed, TypeOK
  <2>3. since' \in [Users -> 0 .. now']
    BY <2>1, <2>2 DEF Typed, TypeOK
  <2> QED BY <2>1, <2>2, <2>3 DEF Typed, TypeOK, LoopBounds
<1> QED BY <1>1, <1>2, <1>3, <1>4

\* The initial states.
LEMMA TypedInit == Init => Typed
BY DEF Init, Typed, TypeOK, LoopBounds, Idle, Unseen

\* Every step keeps Typed, one lemma for each group of actions.
LEMMA TypedNext == Typed /\ [Next]_vars => Typed'
<1> SUFFICES ASSUME Typed, [Next]_vars PROVE Typed'
  OBVIOUS
<1>1. CASE UNCHANGED vars
  BY <1>1 DEF vars, models, lockout, Typed, TypeOK, LoopBounds
<1>2. ASSUME NEW u \in Users, VerifyRequest(u) PROVE Typed'
  BY <1>2, TypedVerifyRequest
<1>3. ASSUME NEW o \in Observations, VerifyCamera(o) PROVE Typed'
  BY <1>3, TypedVerifyCamera
<1>4. CASE FinishVerify
  BY <1>4, TypedFinishVerify
<1>5. CASE \/ \E op \in CaptureOps : CaptureRequest(op)
           \/ \E o \in Captures : CaptureCamera(o)
           \/ FinishCapture
  BY <1>5, TypedCapture
<1>6. CASE Maintenance \/ ProcessDies \/ Start \/ Tick
  BY <1>6, TypedBackground
<1> QED BY <1>1, <1>2, <1>3, <1>4, <1>5, <1>6 DEF Next

\* Typed is an invariant: the types, and counters that stay behind the camera.
LEMMA TypedInvariant == Spec => []Typed
BY TypedInit, TypedNext, PTL DEF Spec

\* The variables of the engine keep their types: the counters of verifyUserCore
\* never exceed the number of cameras and nothing is dated later than now.
THEOREM TypeCorrect == Spec => []TypeOK
<1>1. Typed => TypeOK
  BY DEF Typed
<1> QED BY <1>1, TypedInvariant, PTL

-----------------------------------------------------------------------------
(* The networks.                                                            *)

\* Maintenance, which unloads, runs between requests only.
LEMMA HeldNext == Typed /\ DetectorHeld /\ [Next]_vars => DetectorHeld'
<1> SUFFICES ASSUME Typed, DetectorHeld, [Next]_vars PROVE DetectorHeld'
  OBVIOUS
<1> USE DEF DetectorHeld
<1>1. CASE UNCHANGED vars
  BY <1>1 DEF vars, models
<1>2. ASSUME NEW u \in Users, VerifyRequest(u) PROVE DetectorHeld'
  BY <1>2, TypedModels DEF VerifyRequest, Typed
<1>3. ASSUME NEW o \in Observations, VerifyCamera(o) PROVE DetectorHeld'
  BY <1>3 DEF VerifyCamera, Die, models, Idle
<1>4. CASE FinishVerify
  BY <1>4 DEF FinishVerify
<1>5. ASSUME NEW op \in CaptureOps, CaptureRequest(op) PROVE DetectorHeld'
  BY <1>5, TypedModels DEF CaptureRequest, Typed
<1>6. ASSUME NEW o \in Captures, CaptureCamera(o) PROVE DetectorHeld'
  BY <1>6 DEF CaptureCamera, Die, models, Idle, CaptureOps
<1>7. CASE FinishCapture
  BY <1>7 DEF FinishCapture
<1>8. CASE Maintenance \/ ProcessDies \/ Start \/ Tick
  BY <1>8 DEF Maintenance, ProcessDies, Die, Start, Tick, models
<1> QED BY <1>1, <1>2, <1>3, <1>4, <1>5, <1>6, <1>7, <1>8 DEF Next

\* A request never runs without the detector it uses: no sequence of idle
\* periods, failed reloads and restarts takes it away (DetectorHeld).
THEOREM DetectorIsHeld == Spec => []DetectorHeld
<1>1. Init => DetectorHeld
  BY DEF Init, DetectorHeld
<1> QED BY <1>1, HeldNext, TypedInvariant, PTL DEF Spec

-----------------------------------------------------------------------------
(* The lockout.                                                             *)

LockInv == req.op = "verify" => ~IsUserLockedOut(req.user)

\* Recording needs a verification whose user is not locked out; every other step
\* leaves the table alone or clears it with the process.
LEMMA LockoutSteps ==
    ASSUME Typed, [Next]_vars
    PROVE  \/ UNCHANGED lockout
           \/ Forgotten /\ UNCHANGED now /\ req' = Idle
           \/ /\ req \in Verifications /\ FinishVerify
              /\ RecordAuthAttempt(req.user, AuthOk)
<1>1. CASE UNCHANGED vars
  BY <1>1 DEF vars
<1>2. ASSUME NEW u \in Users, VerifyRequest(u) PROVE UNCHANGED lockout
  BY <1>2 DEF VerifyRequest
<1>3. ASSUME NEW o \in Observations, VerifyCamera(o)
      PROVE  UNCHANGED lockout \/ (Forgotten /\ UNCHANGED now /\ req' = Idle)
  BY <1>3 DEF VerifyCamera, Die
<1>4. CASE FinishVerify
  BY <1>4, ReqCases DEF FinishVerify, Typed
<1>5. ASSUME NEW op \in CaptureOps, CaptureRequest(op) PROVE UNCHANGED lockout
  BY <1>5 DEF CaptureRequest
<1>6. ASSUME NEW o \in Captures, CaptureCamera(o)
      PROVE  UNCHANGED lockout \/ (Forgotten /\ UNCHANGED now /\ req' = Idle)
  BY <1>6 DEF CaptureCamera, Die
<1>7. CASE FinishCapture
  BY <1>7 DEF FinishCapture
<1>8. CASE Maintenance \/ ProcessDies \/ Start \/ Tick
  BY <1>8 DEF Maintenance, ProcessDies, Die, Start, Tick
<1> QED BY <1>1, <1>2, <1>3, <1>4, <1>5, <1>6, <1>7, <1>8 DEF Next

\* Time never goes back, and it stands still when a request begins.
LEMMA TimeSteps ==
    ASSUME Typed, [Next]_vars
    PROVE  /\ now' \in Nat /\ now \in Nat /\ now <= now'
           /\ req'.op = "verify" =>
                \/ req.op = "verify" /\ req'.user = req.user /\ UNCHANGED lockout
                \/ now' = now /\ UNCHANGED lockout /\ ~IsUserLockedOut(req'.user)
<1>1. CASE UNCHANGED vars
  BY <1>1 DEF vars, Typed, TypeOK
<1>2. ASSUME NEW u \in Users, VerifyRequest(u)
      PROVE  /\ now' = now
             /\ req'.op = "verify" => UNCHANGED lockout /\ ~IsUserLockedOut(req'.user)
  BY <1>2 DEF VerifyRequest, Verifying, Idle
<1>3. ASSUME NEW o \in Observations, VerifyCamera(o)
      PROVE  /\ now' = now
             /\ req'.op = "verify" =>
                  req.op = "verify" /\ req'.user = req.user /\ UNCHANGED lockout
  <2>1. CASE Recognized(o) /\ ~recognizer
    BY <1>3, <2>1 DEF VerifyCamera, Die, Idle
  <2>2. CASE ~(Recognized(o) /\ ~recognizer)
    <3>1. req.op = "verify"
      BY <1>3 DEF VerifyCamera
    <3>2. UNCHANGED <<now, lockout>> /\ (req' = Idle \/ req'.user = req.user)
      BY <1>3, <2>2, VerifyCameraNext
    <3> QED BY <3>1, <3>2 DEF Idle
  <2> QED BY <2>1, <2>2
<1>4. CASE FinishVerify
  BY <1>4 DEF FinishVerify, Idle, Typed, TypeOK
<1>5. ASSUME NEW op \in CaptureOps, CaptureRequest(op)
      PROVE  now' = now /\ req'.op # "verify"
  BY <1>5 DEF CaptureRequest, Idle, CaptureOps
<1>6. ASSUME NEW o \in Captures, CaptureCamera(o)
      PROVE  now' = now /\ req'.op # "verify"
  <2>1. req \in CaptureRequests
    BY <1>6, ReqCases DEF CaptureCamera, Typed
  <2>2. now' = now /\ req' \in {Idle, [req EXCEPT !.cam = @ + 1]}
    BY <1>6 DEF CaptureCamera, Die
  <2> QED BY <2>1, <2>2 DEF Idle, CaptureRequests, CaptureOps
<1>7. CASE FinishCapture
  BY <1>7 DEF FinishCapture, Idle, Typed, TypeOK
<1>8. CASE Maintenance \/ ProcessDies \/ Start
  BY <1>8 DEF Maintenance, ProcessDies, Die, Start, Idle, lockout, Typed, TypeOK
<1>9. CASE Tick
  BY <1>9 DEF Tick, Typed, TypeOK
<1> QED BY <1>1, <1>2, <1>3, <1>4, <1>5, <1>6, <1>7, <1>8, <1>9 DEF Next, Typed, TypeOK

\* Only the end of a request changes the lockout table.
LEMMA LockNext == Typed /\ LockInv /\ [Next]_vars => LockInv'
<1> SUFFICES ASSUME Typed, LockInv, [Next]_vars, req'.op = "verify"
             PROVE  ~(LockoutAttempts > 0 /\ now' < lockoutUntil'[req'.user])
  BY DEF LockInv, IsUserLockedOut
<1>1. /\ now' \in Nat /\ now \in Nat /\ now <= now'
      /\ \/ req.op = "verify" /\ req'.user = req.user
         \/ now' = now /\ ~IsUserLockedOut(req'.user)
      /\ lockoutUntil' = lockoutUntil
  BY TimeSteps DEF lockout
<1>2. ~IsUserLockedOut(req'.user)
  BY <1>1 DEF LockInv
<1>3. req'.user \in Users /\ lockoutUntil[req'.user] \in Nat
  <2>1. TypeOK'
    BY TypedNext DEF Typed
  <2>2. req' \in Verifications
    BY <2>1 DEF TypeOK, Idle, CaptureRequests, CaptureOps
  <2>3. req'.user \in Users
    BY <2>2 DEF Verifications
  <2> QED BY <2>3 DEF Typed, TypeOK
<1> QED BY <1>1, <1>2, <1>3 DEF IsUserLockedOut

\* A verification that passed the check of isUserLockedOut is never overtaken by
\* a lockout of its user: the answer is given outside any lockout.
THEOREM LockoutRespected == Spec => NoVerdictWhileLockedOut
<1>1. Init => LockInv
  BY DEF Init, LockInv, Idle
<1>2. Typed /\ LockInv /\ [Next]_vars =>
        [req.op = "verify" /\ verdict' = "granted" =>
           LockoutAttempts = 0 \/ lockoutUntil[req.user] <= now]_vars
  <2> SUFFICES ASSUME Typed, ~IsUserLockedOut(req.user), req.op = "verify", LockoutAttempts # 0
               PROVE  lockoutUntil[req.user] <= now
    BY DEF LockInv
  <2>1. req.user \in Users
    BY ReqCases DEF Typed, Verifications
  <2>2. lockoutUntil[req.user] \in Nat /\ now \in Nat /\ LockoutAttempts > 0
    BY <2>1 DEF Typed, TypeOK
  <2> QED BY <2>2 DEF IsUserLockedOut
<1> QED BY <1>1, <1>2, LockNext, TypedInvariant, PTL DEF Spec, NoVerdictWhileLockedOut

(***************************************************************************)
(* RateLimit bounds the counter by the clock.  It is not inductive: what a *)
(* failure beyond the limit has cost is in the deadline first, and only    *)
(* when the deadline is over in the clock.                                 *)
(***************************************************************************)
RateInv ==
    LockoutAttempts > 0 =>
      \A u \in Users :
        /\ lockoutUntil[u] <= now + LockoutDuration
        /\ failedAttempts[u] >= LockoutAttempts =>
             (failedAttempts[u] - LockoutAttempts + 1) * LockoutDuration
               <= lockoutUntil[u] - since[u]

\* One more failure costs one more duration.
LEMMA OneMore == \A k \in Int : (k + 1) * LockoutDuration = k * LockoutDuration + LockoutDuration
OBVIOUS

\* Recording a result keeps RateInv: a failure after the limit moves the deadline
\* by a whole duration, because the last deadline has passed.
LEMMA RateRecord ==
    ASSUME Typed, RateInv, NEW u \in Users, NEW success, ~IsUserLockedOut(u),
           RecordAuthAttempt(u, success), UNCHANGED now, failedAttempts[u] < MaxFailed
    PROVE  RateInv'
<1> SUFFICES ASSUME LockoutAttempts > 0, NEW v \in Users
             PROVE  /\ lockoutUntil'[v] <= now + LockoutDuration
                    /\ failedAttempts'[v] >= LockoutAttempts =>
                         (failedAttempts'[v] - LockoutAttempts + 1) * LockoutDuration
                           <= lockoutUntil'[v] - since'[v]
  BY DEF RateInv
<1>1. /\ now \in Nat
      /\ \A w \in Users : failedAttempts[w] \in Nat /\ lockoutUntil[w] \in Nat /\ since[w] \in Nat
      /\ \A w \in Users : since[w] <= now
  BY DEF Typed, TypeOK
<1>2. /\ lockoutUntil[v] <= now + LockoutDuration
      /\ failedAttempts[v] >= LockoutAttempts =>
           (failedAttempts[v] - LockoutAttempts + 1) * LockoutDuration <= lockoutUntil[v] - since[v]
  BY DEF RateInv
<1>3. CASE v # u
  <2>1. /\ failedAttempts'[v] = failedAttempts[v]
        /\ lockoutUntil'[v] = lockoutUntil[v]
        /\ since'[v] = since[v]
    BY <1>3 DEF RecordAuthAttempt, Typed, TypeOK
  <2> QED BY <1>2, <2>1
<1>4. CASE v = u /\ success
  <2>1. failedAttempts'[v] = 0 /\ lockoutUntil'[v] = 0
    BY <1>4 DEF RecordAuthAttempt, Typed, TypeOK
  <2> QED BY <1>1, <2>1
<1>5. CASE v = u /\ ~success
  <2>1. /\ failedAttempts'[v] = failedAttempts[v] + 1
        /\ lockoutUntil'[v] = IF failedAttempts[v] + 1 >= LockoutAttempts
                              THEN now + LockoutDuration ELSE lockoutUntil[v]
        /\ since'[v] = since[v]
    BY <1>5 DEF RecordAuthAttempt, Typed, TypeOK
  <2>2. lockoutUntil[v] <= now
    BY <1>1, <1>5 DEF IsUserLockedOut
  <2>3. CASE failedAttempts[v] + 1 < LockoutAttempts
    BY <1>1, <1>2, <2>1, <2>3
  <2>4. CASE failedAttempts[v] + 1 = LockoutAttempts
    <3>1. failedAttempts'[v] - LockoutAttempts + 1 = 1 /\ 1 * LockoutDuration = LockoutDuration
      BY <1>1, <2>1, <2>4
    <3>2. lockoutUntil'[v] = now + LockoutDuration /\ since'[v] = since[v]
      BY <1>1, <2>1, <2>4
    <3>3. LockoutDuration <= lockoutUntil'[v] - since'[v]
      BY <1>1, <3>2
    <3> QED BY <1>1, <3>1, <3>2, <3>3
  <2>5. CASE failedAttempts[v] >= LockoutAttempts
    <3> DEFINE k == failedAttempts[v] - LockoutAttempts + 1
    <3>1. k \in Int /\ k * LockoutDuration \in Int
      BY <1>1
    <3>2. k * LockoutDuration <= lockoutUntil[v] - since[v]
      BY <1>2, <2>5
    <3>3. failedAttempts'[v] - LockoutAttempts + 1 = k + 1
      BY <1>1, <2>1
    <3>4. (k + 1) * LockoutDuration = k * LockoutDuration + LockoutDuration
      BY <3>1, OneMore
    <3>5. lockoutUntil'[v] = now + LockoutDuration /\ since'[v] = since[v]
      BY <1>1, <2>1, <2>5
    <3> HIDE DEF k
    <3>6. (k + 1) * LockoutDuration <= lockoutUntil'[v] - since'[v]
      BY <1>1, <2>2, <3>1, <3>2, <3>4, <3>5
    <3> QED BY <1>1, <3>3, <3>5, <3>6
  <2> QED BY <1>1, <2>3, <2>4, <2>5
<1> QED BY <1>3, <1>4, <1>5

\* Every other step leaves the counters alone or forgets them all.
LEMMA RateNext == Typed /\ LockInv /\ RateInv /\ [Next]_vars => RateInv'
<1> SUFFICES ASSUME Typed, LockInv, RateInv, [Next]_vars PROVE RateInv'
  OBVIOUS
<1>1. now' \in Nat /\ now \in Nat /\ now <= now'
  BY TimeSteps
<1>2. CASE UNCHANGED lockout
  BY <1>1, <1>2 DEF RateInv, lockout, Typed, TypeOK
<1>3. CASE Forgotten /\ UNCHANGED now
  BY <1>1, <1>3 DEF RateInv, Forgotten
<1>4. CASE req \in Verifications /\ FinishVerify /\ RecordAuthAttempt(req.user, AuthOk)
  <2>1. /\ req.user \in Users /\ failedAttempts[req.user] < MaxFailed
        /\ ~IsUserLockedOut(req.user) /\ UNCHANGED now
    BY <1>4 DEF Verifications, Typed, LoopBounds, LockInv, FinishVerify
  <2> QED BY <1>4, <2>1, RateRecord
<1> QED BY <1>2, <1>3, <1>4, LockoutSteps

\* What RateInv says of the last deadline bounds the failures so far.
LEMMA RateBound == Typed /\ RateInv => RateLimit
<1> SUFFICES ASSUME Typed, RateInv, LockoutAttempts > 0, NEW u \in Users,
                    failedAttempts[u] > LockoutAttempts
             PROVE  (failedAttempts[u] - LockoutAttempts) * LockoutDuration <= now - since[u]
  BY DEF RateLimit
<1> DEFINE k == failedAttempts[u] - LockoutAttempts
<1>1. /\ k \in Int /\ k * LockoutDuration \in Int
      /\ now \in Nat /\ lockoutUntil[u] \in Nat /\ since[u] \in Nat
  BY DEF Typed, TypeOK
<1>2. (k + 1) * LockoutDuration <= lockoutUntil[u] - since[u]
  BY DEF RateInv, Typed, TypeOK
<1>3. (k + 1) * LockoutDuration = k * LockoutDuration + LockoutDuration
  BY <1>1, OneMore
<1>4. lockoutUntil[u] <= now + LockoutDuration
  BY DEF RateInv
<1> HIDE DEF k
<1>5. k * LockoutDuration <= now - since[u]
  BY <1>1, <1>2, <1>3, <1>4
<1> QED BY <1>5 DEF k

\* Whatever the interleaving of failures, time and restarts, each failure beyond
\* the limit took a whole lockout (RateLimit).
THEOREM RateIsLimited == Spec => []RateLimit
<1>1. Init => LockInv /\ RateInv
  BY DEF Init, LockInv, RateInv, Idle
<1> QED BY <1>1, LockNext, RateNext, RateBound, TypedInvariant, PTL DEF Spec

-----------------------------------------------------------------------------
(* The policies.                                                            *)

\* While the loop runs: the cameras before the index have been observed and none
\* of them made the handler return, the others are unseen, and each counter is
\* zero exactly when nothing it counts was observed.
LoopInv ==
    req.op = "verify" =>
      /\ verdict = "none"
      /\ \A c \in Cams : c < req.cam => seen[c] \in Observations /\ ~Aborts(c, seen[c])
      /\ \A c \in Cams : c >= req.cam => seen[c] = "unseen"
      /\ req.participants = 0 <=> \A c \in Cams : c < req.cam => ~Participates(seen[c])
      /\ req.successes = 0 <=> \A c \in Cams : seen[c] # "match"
      /\ req.failures = 0 <=>
           \A c \in Cams : c < req.cam => ~Participates(seen[c]) \/ seen[c] = "match"

\* A process that is down has no request and no verdict: the configuration it was
\* given under may change before the next start.
DownInv == ~alive => req = Idle /\ verdict = "none"

PolicyInv == LoopInv /\ VerdictMatchesPolicy /\ DownInv

\* One more observation: the loop goes on with the counters in step, or it ends
\* with a denial that the policy demands.
LEMMA PolicyCamera ==
    ASSUME Typed, PolicyInv, NEW o \in Observations, VerifyCamera(o)
    PROVE  PolicyInv'
<1> USE DEF PolicyInv
<1>1. CASE Recognized(o) /\ ~recognizer
  BY <1>1 DEF VerifyCamera, Die, LoopInv, VerdictMatchesPolicy, DownInv, Idle
<1>2. CASE ~(Recognized(o) /\ ~recognizer)
  <2>1. /\ req \in Verifications /\ req.cam \in Cams /\ req.op = "verify"
        /\ seen' = [seen EXCEPT ![req.cam] = o]
        /\ config' = config /\ alive' = alive
    BY <1>2, VerifyCameraNext DEF Verifications
  <2>d. DownInv'
    BY <2>1 DEF DownInv, Idle
  <2>2. /\ seen'[req.cam] = o
        /\ \A c \in Cams : c # req.cam => seen'[c] = seen[c]
    BY <2>1 DEF Typed, TypeOK
  <2>3. CASE Aborts(req.cam, o) /\ req' = Idle /\ verdict' = "denied"
    <3>1. ~PolicyGrants'
      <4>1. CASE o = "throws"
        BY <2>1, <2>2, <4>1 DEF PolicyGrants
      <4>2. CASE o = "empty" /\ config.policy = "STRICT_ALL"
        BY <2>1, <2>2, <4>2 DEF PolicyGrants
      <4>3. CASE /\ ~Participates(o) /\ config.policy = "ADAPTIVE"
                 /\ req.cam \in config.mandatory
        BY <2>1, <2>2, <4>3 DEF PolicyGrants, Participates
      <4> QED BY <2>3, <4>1, <4>2, <4>3 DEF Aborts
    <3> QED BY <2>3, <2>d, <3>1 DEF LoopInv, VerdictMatchesPolicy, Idle
  <2>4. CASE /\ ~Aborts(req.cam, o)
             /\ req' \in Verifications
             /\ req'.cam = req.cam + 1
             /\ req'.participants = req.participants + (IF Participates(o) THEN 1 ELSE 0)
             /\ req'.successes = req.successes + (IF o = "match" THEN 1 ELSE 0)
             /\ req'.failures =
                  req.failures + (IF Participates(o) /\ o # "match" THEN 1 ELSE 0)
             /\ verdict' = verdict
    <3>1. /\ req.participants \in Nat /\ req.successes \in Nat /\ req.failures \in Nat
          /\ \A c \in Cams : c < req'.cam <=> c < req.cam \/ c = req.cam
          /\ \A c \in Cams : c >= req'.cam => c >= req.cam /\ c # req.cam
          /\ \A c \in Cams : c < req.cam => c # req.cam
      BY <2>1, <2>4 DEF Verifications, Cams
    <3>2. LoopInv /\ req.op = "verify"
      BY <2>1
    <3>3. /\ verdict' = "none"
          /\ \A c \in Cams : c >= req'.cam => seen'[c] = "unseen"
      BY <2>2, <2>4, <3>1, <3>2 DEF LoopInv
    <3>4. \A c \in Cams : c < req'.cam => seen'[c] \in Observations /\ ~Aborts(c, seen'[c])
      BY <2>2, <2>4, <3>1, <3>2 DEF LoopInv
    <3>5. req'.participants = 0 <=> \A c \in Cams : c < req'.cam => ~Participates(seen'[c])
      <4>1. CASE Participates(o)
        BY <2>1, <2>2, <2>4, <3>1, <4>1
      <4>2. CASE ~Participates(o)
        <5>1. req'.participants = req.participants
          BY <2>4, <3>1, <4>2
        <5>2. (\A c \in Cams : c < req'.cam => ~Participates(seen'[c]))
              <=> (\A c \in Cams : c < req.cam => ~Participates(seen[c]))
          BY <2>2, <3>1, <4>2
        <5> QED BY <3>2, <5>1, <5>2 DEF LoopInv
      <4> QED BY <4>1, <4>2
    <3>6. req'.successes = 0 <=> \A c \in Cams : seen'[c] # "match"
      <4>1. CASE o = "match"
        BY <2>1, <2>2, <2>4, <3>1, <4>1
      <4>2. CASE o # "match"
        <5>1. req'.successes = req.successes
          BY <2>4, <3>1, <4>2
        <5>2. seen[req.cam] = "unseen"
          BY <2>1, <3>2 DEF LoopInv, Cams
        <5>3. (\A c \in Cams : seen'[c] # "match") <=> (\A c \in Cams : seen[c] # "match")
          BY <2>2, <4>2, <5>2
        <5> QED BY <3>2, <5>1, <5>3 DEF LoopInv
      <4> QED BY <4>1, <4>2
    <3>7. req'.failures = 0 <=>
            \A c \in Cams : c < req'.cam => ~Participates(seen'[c]) \/ seen'[c] = "match"
      <4>1. CASE Participates(o) /\ o # "match"
        BY <2>1, <2>2, <2>4, <3>1, <4>1
      <4>2. CASE ~(Participates(o) /\ o # "match")
        <5>1. req'.failures = req.failures
          BY <2>4, <3>1, <4>2
        <5>2. (\A c \in Cams : c < req'.cam => ~Participates(seen'[c]) \/ seen'[c] = "match")
              <=> (\A c \in Cams : c < req.cam => ~Participates(seen[c]) \/ seen[c] = "match")
          BY <2>2, <3>1, <4>2
        <5> QED BY <3>2, <5>1, <5>2 DEF LoopInv
      <4> QED BY <4>1, <4>2
    <3>8. LoopInv'
      BY <2>1, <3>3, <3>4, <3>5, <3>6, <3>7 DEF LoopInv, Participates, Aborts
    <3> QED BY <2>d, <3>3, <3>8 DEF VerdictMatchesPolicy
  <2> QED BY <1>2, <2>3, <2>4, VerifyCameraNext
<1> QED BY <1>1, <1>2

\* At the end of the loop the counters decide as the policy does.
LEMMA PolicyFinish ==
    ASSUME Typed, PolicyInv, FinishVerify
    PROVE  PolicyInv'
<1>1. /\ req \in Verifications /\ req.op = "verify"
      /\ \A c \in Cams : c < req.cam
      /\ req.participants \in Nat /\ req.successes \in Nat /\ req.failures \in Nat
  BY ReqCases DEF FinishVerify, Typed, Verifications, Cams
<1>2. /\ req' = Idle /\ seen' = seen /\ config' = config /\ alive' = alive
      /\ verdict' \in {"granted", "denied"}
      /\ verdict' = "granted" <=> req.participants # 0 /\ AuthOk
  BY DEF FinishVerify
<1>3. /\ \A c \in Cams : seen[c] \in Observations /\ ~Aborts(c, seen[c])
      /\ req.participants = 0 <=> \A c \in Cams : ~Participates(seen[c])
      /\ req.successes = 0 <=> \A c \in Cams : seen[c] # "match"
      /\ req.failures = 0 <=> \A c \in Cams : ~Participates(seen[c]) \/ seen[c] = "match"
  BY <1>1 DEF PolicyInv, LoopInv
<1>4. req.participants # 0 /\ AuthOk <=> PolicyGrants
  <2>1. req.successes > 0 <=> \E c \in Cams : seen[c] = "match"
    BY <1>1, <1>3
  <2>2. (\E c \in Cams : seen[c] = "match") => req.participants # 0
    BY <1>3 DEF Participates
  <2>3. \A c \in Cams : seen[c] # "throws"
    BY <1>3 DEF Aborts
  <2>4. CASE config.policy = "STRICT_ALL"
    <3>1. \A c \in Cams : seen[c] # "empty"
      BY <1>3, <2>4 DEF Aborts
    <3>2. req.failures = 0 <=> \A c \in Cams : seen[c] \in {"match", "dark"}
      BY <1>3, <3>1 DEF Participates
    <3> QED BY <2>1, <2>2, <2>3, <2>4, <3>2 DEF AuthOk, PolicyGrants
  <2>5. CASE config.policy = "ADAPTIVE"
    <3>1. \A c \in config.mandatory : seen[c] \notin {"unseen", "empty", "dark"}
      <4>1. config.mandatory \subseteq Cams
        BY DEF Typed, TypeOK, Configurations
      <4>2. \A c \in Cams : seen[c] # "unseen"
        BY <1>3 DEF Observations
      <4> QED BY <1>3, <2>5, <4>1, <4>2 DEF Aborts, Participates
    <3> QED BY <2>1, <2>2, <2>3, <2>5, <3>1 DEF AuthOk, PolicyGrants
  <2>6. CASE config.policy # "STRICT_ALL" /\ config.policy # "ADAPTIVE"
    BY <2>1, <2>2, <2>3, <2>6 DEF AuthOk, PolicyGrants
  <2> QED BY <2>4, <2>5, <2>6
<1>5. PolicyGrants' <=> PolicyGrants
  BY <1>2 DEF PolicyGrants
<1>6. LoopInv' /\ DownInv'
  BY <1>1, <1>2 DEF LoopInv, DownInv, PolicyInv, Idle
<1>7. VerdictMatchesPolicy'
  BY <1>2, <1>4, <1>5 DEF VerdictMatchesPolicy
<1> QED BY <1>6, <1>7 DEF PolicyInv

\* A verification starts with nothing seen.
LEMMA PolicyRequest ==
    ASSUME Typed, PolicyInv, NEW u \in Users, VerifyRequest(u)
    PROVE  PolicyInv'
<1>1. /\ alive /\ alive' = alive /\ req = Idle /\ seen' = Unseen
      /\ \/ req' = Verifying(u) /\ verdict' = "none"
         \/ req' = req /\ verdict' = "denied"
  BY DEF VerifyRequest
<1>2. \A c \in Cams : seen'[c] = "unseen"
  BY <1>1 DEF Unseen
<1>3. CASE req' = Verifying(u) /\ verdict' = "none"
  <2>1. /\ req'.cam = 1 /\ req'.participants = 0 /\ req'.successes = 0 /\ req'.failures = 0
        /\ \A c \in Cams : ~(c < 1)
    BY <1>3 DEF Verifying, Cams
  <2>2. LoopInv'
    BY <1>2, <1>3, <2>1 DEF LoopInv
  <2> QED BY <1>1, <1>3, <2>2 DEF PolicyInv, VerdictMatchesPolicy, DownInv
<1>4. CASE req' = req /\ verdict' = "denied"
  BY <1>1, <1>2, <1>4 DEF PolicyInv, LoopInv, VerdictMatchesPolicy, PolicyGrants, DownInv, Idle
<1> QED BY <1>1, <1>3, <1>4

\* Every step keeps the relation between the counters and what was seen.
LEMMA PolicyNext == Typed /\ PolicyInv /\ [Next]_vars => PolicyInv'
<1> SUFFICES ASSUME Typed, PolicyInv, [Next]_vars PROVE PolicyInv'
  OBVIOUS
<1>0. ASSUME UNCHANGED <<alive, config, verdict, seen>>, req' = req \/ req'.op # "verify",
             alive \/ req' = req
      PROVE  PolicyInv'
  BY <1>0 DEF PolicyInv, LoopInv, VerdictMatchesPolicy, PolicyGrants, DownInv, Participates, Aborts
<1>1. CASE UNCHANGED vars
  BY <1>0, <1>1 DEF vars
<1>2. ASSUME NEW u \in Users, VerifyRequest(u) PROVE PolicyInv'
  BY <1>2, PolicyRequest
<1>3. ASSUME NEW o \in Observations, VerifyCamera(o) PROVE PolicyInv'
  BY <1>3, PolicyCamera
<1>4. CASE FinishVerify
  BY <1>4, PolicyFinish
<1>5. ASSUME NEW op \in CaptureOps, CaptureRequest(op) PROVE PolicyInv'
  BY <1>0, <1>5 DEF CaptureRequest, CaptureOps, Idle
<1>6. ASSUME Die PROVE PolicyInv'
  BY <1>6 DEF Die, PolicyInv, LoopInv, VerdictMatchesPolicy, DownInv, Idle
<1>7. ASSUME NEW o \in Captures, CaptureCamera(o) PROVE PolicyInv'
  <2>1. req \in CaptureRequests /\ alive
    BY <1>7, ReqCases DEF CaptureCamera, Typed, PolicyInv, DownInv, Idle, CaptureOps
  <2>2. \/ Die
        \/ /\ req' \in {Idle, [req EXCEPT !.cam = @ + 1]}
           /\ UNCHANGED <<alive, config, verdict, seen>>
    BY <1>7 DEF CaptureCamera
  <2>3. Idle.op # "verify" /\ [req EXCEPT !.cam = @ + 1].op # "verify"
    BY <2>1 DEF Idle, CaptureRequests, CaptureOps
  <2>4. CASE /\ req' \in {Idle, [req EXCEPT !.cam = @ + 1]}
             /\ UNCHANGED <<alive, config, verdict, seen>>
    <3>1. req'.op # "verify"
      BY <2>3, <2>4
    <3> QED BY <1>0, <2>1, <2>4, <3>1
  <2> QED BY <1>6, <2>2, <2>4
<1>8. CASE FinishCapture
  <2>1. alive
    BY <1>8 DEF FinishCapture, PolicyInv, DownInv, Idle, CaptureOps
  <2> QED BY <1>0, <1>8, <2>1 DEF FinishCapture, Idle
<1>9. CASE Maintenance \/ Tick
  BY <1>0, <1>9 DEF Maintenance, Tick
<1>10. CASE ProcessDies
  BY <1>6, <1>10 DEF ProcessDies
<1>11. CASE Start
  BY <1>11 DEF Start, PolicyInv, LoopInv, VerdictMatchesPolicy, DownInv, Idle
<1> QED BY <1>1, <1>2, <1>3, <1>4, <1>5, <1>7, <1>8, <1>9, <1>10, <1>11 DEF Next

\* For every number of cameras and every configuration, the verdict of the loop is
\* the one its policy defines over what the cameras yielded.
THEOREM VerdictIsPolicy == Spec => []VerdictMatchesPolicy
<1>1. Init => PolicyInv
  BY DEF Init, PolicyInv, LoopInv, VerdictMatchesPolicy, DownInv, Idle
<1>2. PolicyInv => VerdictMatchesPolicy
  BY DEF PolicyInv
<1> QED BY <1>1, <1>2, PolicyNext, TypedInvariant, PTL DEF Spec

-----------------------------------------------------------------------------
(* What is recorded, and the models again.                                  *)

\* A verification that runs to the end of its loop without being recorded had no
\* participant; one that is cut short shows the camera that cut it.
THEOREM EvaluatedIsCounted == Spec => EvaluatedAttemptsAreCounted
<1>1. Typed /\ PolicyInv /\ [Next]_vars =>
        [ \A u \in Users :
            /\ LockoutAttempts > 0
            /\ req.op = "verify" /\ req.user = u
            /\ verdict' = "denied"
            /\ failedAttempts'[u] # failedAttempts[u] + 1
            => \/ \E c \in Cams : Aborts(c, seen'[c])
               \/ \A c \in Cams : ~Participates(seen'[c]) ]_vars
  <2> SUFFICES ASSUME Typed, PolicyInv, Next, LockoutAttempts > 0,
                      NEW u \in Users, req.op = "verify", req.user = u, verdict' = "denied",
                      failedAttempts'[u] # failedAttempts[u] + 1
               PROVE  \/ \E c \in Cams : Aborts(c, seen'[c])
                      \/ \A c \in Cams : ~Participates(seen'[c])
    BY Zenon
  <2>1. ASSUME NEW o \in Observations, VerifyCamera(o)
        PROVE  \E c \in Cams : Aborts(c, seen'[c])
    <3>1. ~(Recognized(o) /\ ~recognizer)
      BY <2>1 DEF VerifyCamera, Die
    <3>2. /\ req.cam \in Cams /\ seen'[req.cam] = o
          /\ Aborts(req.cam, o) \/ verdict' = verdict
      BY <2>1, <3>1, VerifyCameraNext DEF Typed, TypeOK
    <3>3. verdict = "none"
      BY DEF PolicyInv, LoopInv
    <3> QED BY <3>2, <3>3
  <2>2. CASE FinishVerify
    <3>1. CASE req.participants = 0
      <4>1. req \in Verifications
        BY ReqCases DEF Typed
      <4>2. \A c \in Cams : c < req.cam
        BY <2>2, <4>1 DEF FinishVerify, Verifications, Cams
      <4>3. seen' = seen
        BY <2>2 DEF FinishVerify
      <4> QED BY <3>1, <4>2, <4>3 DEF PolicyInv, LoopInv
    <3>2. CASE req.participants # 0
      <4>1. ~AuthOk /\ RecordAuthAttempt(u, AuthOk)
        BY <2>2, <3>2 DEF FinishVerify
      <4> QED BY <4>1 DEF RecordAuthAttempt, Typed, TypeOK
    <3> QED BY <3>1, <3>2
  <2>3. CASE Tick
    BY <2>3 DEF Tick, PolicyInv, LoopInv
  <2>4. CASE ProcessDies
    BY <2>4 DEF ProcessDies, Die
  <2>5. CASE Start
    BY <2>5 DEF Start, PolicyInv, LoopInv
  <2> QED BY <2>1, <2>2, <2>3, <2>4, <2>5
          DEF Next, VerifyRequest, CaptureRequest, CaptureCamera, FinishCapture, Maintenance,
              Idle, CaptureOps
<1>2. Init => PolicyInv
  BY DEF Init, PolicyInv, LoopInv, VerdictMatchesPolicy, DownInv, Idle
<1> QED BY <1>1, <1>2, PolicyNext, TypedInvariant, PTL DEF Spec, EvaluatedAttemptsAreCounted

\* Truncating to whole seconds never makes the elapsed time longer.
LEMMA WholeSeconds ==
    \A t \in Nat : t \div TicksPerSecond > KeepAlive => t > KeepAlive * TicksPerSecond
<1> SUFFICES ASSUME NEW t \in Nat, t \div TicksPerSecond > KeepAlive
             PROVE  t > KeepAlive * TicksPerSecond
  OBVIOUS
<1> DEFINE q == t \div TicksPerSecond
<1>1. q \in Nat /\ TicksPerSecond * q <= t
  OBVIOUS
<1>2. KeepAlive * TicksPerSecond < q * TicksPerSecond
  BY <1>1
<1> QED BY <1>1, <1>2

\* The models that served a request stay for more than model_keep_alive_sec seconds: the
\* activity time performMaintenance looks at is never older than the last use.
THEOREM ModelsKept == Spec => KeptAlive
<1> DEFINE Active == usedAt <= lastActivity
<1>1. Typed /\ Active /\ [Next]_vars => Active'
  <2> SUFFICES ASSUME Typed, Active, [Next]_vars PROVE usedAt' <= lastActivity'
    OBVIOUS
  <2>1. ASSUME NEW ok \in BOOLEAN, EnsureModelsLoaded(ok) PROVE usedAt' <= lastActivity'
    BY <2>1 DEF EnsureModelsLoaded, LoadModels, Typed, TypeOK
  <2>2. CASE UNCHANGED <<usedAt, lastActivity>>
    BY <2>2
  <2>3. CASE Start
    BY <2>3 DEF Start, Typed, TypeOK
  <2> QED BY <2>1, <2>2, <2>3 DEF Next, vars, models, VerifyRequest, VerifyCamera, FinishVerify,
          CaptureRequest, CaptureCamera, FinishCapture, Maintenance, ProcessDies, Die, Tick
<1>2. Typed /\ Active /\ [Next]_vars =>
        [alive' /\ detector /\ ~detector' => now - usedAt > KeepAlive * TicksPerSecond]_vars
  <2> SUFFICES ASSUME Typed, Active, Next, alive', detector, ~detector'
               PROVE  now - usedAt > KeepAlive * TicksPerSecond
    OBVIOUS
  <2>1. Maintenance
    BY DEF Next, models, VerifyRequest, VerifyCamera, FinishVerify, CaptureRequest, CaptureCamera,
           FinishCapture, ProcessDies, Die, Tick, Start, EnsureModelsLoaded
  <2>2. now - lastActivity \in Nat
    BY DEF Typed, TypeOK
  <2>3. now - lastActivity > KeepAlive * TicksPerSecond
    BY <2>1, <2>2, WholeSeconds DEF Maintenance
  <2> QED BY <2>3 DEF Typed, TypeOK
<1>3. Init => Active
  BY DEF Init
<1> QED BY <1>1, <1>2, <1>3, TypedInvariant, PTL DEF Spec, KeptAlive

-----------------------------------------------------------------------------
(* Refinement: the counters and deadlines of the engine are a throttle.     *)

\* The values of the abstract state and the types of what they are made of.
LEMMA TokensAndWait ==
    ASSUME Typed
    PROVE  \A u \in Users :
             /\ TokensLeft[u] = IF failedAttempts[u] < LockoutAttempts
                                THEN LockoutAttempts - failedAttempts[u] ELSE 0
             /\ WaitLeft[u] = IF now < lockoutUntil[u] THEN lockoutUntil[u] - now ELSE 0
             /\ now \in Nat /\ lockoutUntil[u] \in Nat /\ failedAttempts[u] \in Nat
BY DEF TokensLeft, WaitLeft, Typed, TypeOK

\* Recording the attempt of a user who is not locked out takes a token or gives
\* all of them back.
LEMMA RecordRefines ==
    ASSUME Typed, Typed', NEW u \in Users, NEW success, ~IsUserLockedOut(u),
           RecordAuthAttempt(u, success), UNCHANGED now
    PROVE  T!Fail(u) \/ T!Succeed(u) \/ UNCHANGED <<TokensLeft, WaitLeft>>
<1>1. CASE LockoutAttempts = 0
  BY <1>1 DEF RecordAuthAttempt, lockout, TokensLeft, WaitLeft
<1>2. /\ now \in Nat
      /\ \A v \in Users : failedAttempts[v] \in Nat /\ lockoutUntil[v] \in Nat
  BY DEF Typed, TypeOK
<1>3. LockoutAttempts > 0 => WaitLeft[u] = 0
  BY TokensAndWait DEF IsUserLockedOut
<1>4. CASE LockoutAttempts > 0 /\ success
  <2>1. /\ failedAttempts' = [failedAttempts EXCEPT ![u] = 0]
        /\ lockoutUntil' = [lockoutUntil EXCEPT ![u] = 0]
    BY <1>4 DEF RecordAuthAttempt
  <2>2. \A v \in Users : TokensLeft'[v] = [TokensLeft EXCEPT ![u] = LockoutAttempts][v]
    BY <1>2, <1>4, <2>1 DEF TokensLeft, Typed, TypeOK
  <2>2a. TokensLeft' = [TokensLeft EXCEPT ![u] = LockoutAttempts]
    BY <2>2 DEF TokensLeft
  <2>3. \A v \in Users : WaitLeft'[v] = WaitLeft[v]
    BY <1>2, <1>3, <1>4, <2>1 DEF WaitLeft, Typed, TypeOK
  <2>4. WaitLeft' = WaitLeft
    BY <2>3 DEF WaitLeft
  <2> QED BY <1>3, <1>4, <2>2a, <2>4 DEF T!Succeed
<1>5. CASE LockoutAttempts > 0 /\ ~success
  <2>1. /\ failedAttempts' = [failedAttempts EXCEPT ![u] = failedAttempts[u] + 1]
        /\ lockoutUntil' =
             [lockoutUntil EXCEPT ![u] = IF failedAttempts[u] + 1 >= LockoutAttempts
                                         THEN now + LockoutDuration ELSE lockoutUntil[u]]
    BY <1>5 DEF RecordAuthAttempt, Typed, TypeOK
  <2>2. \A v \in Users : TokensLeft'[v] =
          [TokensLeft EXCEPT ![u] = IF TokensLeft[u] > 0 THEN TokensLeft[u] - 1 ELSE 0][v]
    <3> SUFFICES ASSUME NEW v \in Users
                 PROVE  TokensLeft'[v] = IF v # u THEN TokensLeft[v]
                          ELSE IF TokensLeft[u] > 0 THEN TokensLeft[u] - 1 ELSE 0
      BY DEF TokensLeft
    <3>1. CASE v # u
      BY <2>1, <3>1 DEF TokensLeft, Typed, TypeOK
    <3>2. CASE v = u
      <4>1. failedAttempts'[u] = failedAttempts[u] + 1
        BY <2>1 DEF Typed, TypeOK
      <4>2. TokensLeft'[u] = IF failedAttempts'[u] < LockoutAttempts
                             THEN LockoutAttempts - failedAttempts'[u] ELSE 0
        BY DEF TokensLeft
      <4> QED BY <1>2, <1>5, <3>2, <4>1, <4>2, TokensAndWait
    <3> QED BY <3>1, <3>2
  <2>3. TokensLeft' = [TokensLeft EXCEPT ![u] = IF @ > 0 THEN @ - 1 ELSE 0]
    BY <2>2 DEF TokensLeft
  <2>4. TokensLeft[u] <= 1 <=> failedAttempts[u] + 1 >= LockoutAttempts
    BY <1>2, <1>5, TokensAndWait
  <2>5. \A v \in Users : WaitLeft'[v] =
          [WaitLeft EXCEPT ![u] = IF TokensLeft[u] <= 1 THEN LockoutDuration ELSE 0][v]
    <3> SUFFICES ASSUME NEW v \in Users
                 PROVE  WaitLeft'[v] =
                          [WaitLeft EXCEPT ![u] = IF TokensLeft[u] <= 1
                                                  THEN LockoutDuration ELSE 0][v]
      OBVIOUS
    <3>1. CASE v # u
      BY <2>1, <3>1 DEF WaitLeft, Typed, TypeOK
    <3>2. CASE v = u
      <4>1. lockoutUntil[u] <= now
        BY <1>2, <1>3, <1>5, TokensAndWait
      <4>2. WaitLeft'[u] = IF now < lockoutUntil'[u] THEN lockoutUntil'[u] - now ELSE 0
        BY DEF WaitLeft
      <4>3. lockoutUntil'[u] = IF failedAttempts[u] + 1 >= LockoutAttempts
                               THEN now + LockoutDuration ELSE lockoutUntil[u]
        BY <2>1 DEF Typed, TypeOK
      <4>4. WaitLeft'[u] = IF TokensLeft[u] <= 1 THEN LockoutDuration ELSE 0
        BY <1>2, <2>4, <4>1, <4>2, <4>3
      <4> QED BY <3>2, <4>4 DEF WaitLeft
    <3> QED BY <3>1, <3>2
  <2>6. WaitLeft' = [WaitLeft EXCEPT ![u] = IF TokensLeft[u] <= 1 THEN LockoutDuration ELSE 0]
    BY <2>5 DEF WaitLeft
  <2> QED BY <1>3, <1>5, <2>3, <2>6 DEF T!Fail
<1> QED BY <1>1, <1>4, <1>5

\* Time shortens the wait of every user at once.
LEMMA TickRefines == ASSUME Typed, Tick PROVE T!Pass
<1>1. now' = now + 1 /\ UNCHANGED <<failedAttempts, lockoutUntil>>
  BY DEF Tick, lockout
<1>2. TokensLeft' = TokensLeft
  BY <1>1 DEF TokensLeft
<1>3. \A u \in Users : WaitLeft'[u] = IF WaitLeft[u] > 0 THEN WaitLeft[u] - 1 ELSE 0
  BY <1>1 DEF WaitLeft, Typed, TypeOK
<1>4. WaitLeft' = [u \in Users |-> IF WaitLeft[u] > 0 THEN WaitLeft[u] - 1 ELSE 0]
  BY <1>3 DEF WaitLeft
<1> QED BY <1>2, <1>4 DEF T!Pass

\* Every step of the engine is a step of the throttle or does not touch it.
LEMMA StepRefines ==
    ASSUME Typed, Typed', LockInv, [Next]_vars
    PROVE  [T!Next]_<<TokensLeft, WaitLeft>>
<1>1. CASE UNCHANGED lockout /\ UNCHANGED now
  BY <1>1 DEF lockout, TokensLeft, WaitLeft
<1>2. CASE Tick
  BY <1>2, TickRefines DEF T!Next
<1>3. CASE Forgotten /\ UNCHANGED now
  <2>1. TokensLeft' = T!Full /\ WaitLeft' = T!Ready
    BY <1>3 DEF Forgotten, TokensLeft, WaitLeft, T!Full, T!Ready, Typed, TypeOK
  <2> QED BY <2>1 DEF T!Next, T!Forget
<1>4. CASE req \in Verifications /\ FinishVerify /\ RecordAuthAttempt(req.user, AuthOk)
  <2>1. req.user \in Users /\ ~IsUserLockedOut(req.user) /\ UNCHANGED now
    BY <1>4 DEF Verifications, LockInv, FinishVerify
  <2> QED BY <1>4, <2>1, RecordRefines DEF T!Next
<1>5. now' = now \/ Tick
  BY DEF Next, vars, VerifyRequest, VerifyCamera, FinishVerify, CaptureRequest, CaptureCamera,
         FinishCapture, Maintenance, ProcessDies, Die, Start
<1> QED BY <1>1, <1>2, <1>3, <1>4, <1>5, LockoutSteps

\* The engine implements Throttle, whatever the limits, the users and the cameras.
THEOREM ThrottleRefinement == Spec => ImplementsThrottle
<1>1. Init => T!Init /\ LockInv
  BY DEF Init, T!Init, T!Full, T!Ready, TokensLeft, WaitLeft, LockInv, Idle
<1>2. Typed /\ Typed' /\ LockInv /\ [Next]_vars => [T!Next]_<<TokensLeft, WaitLeft>>
  BY StepRefines
<1> QED BY <1>1, <1>2, LockNext, TypedInvariant, PTL DEF Spec, T!Spec, ImplementsThrottle
=============================================================================
