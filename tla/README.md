# LinuxCamPAM in TLA+

A verification development for LinuxCamPAM, the face authentication service in
this repository: TLA+ modules translated from the C++ sources, TLC runs over small
instances, and theorems checked by TLAPS for all instances. Paths below are
relative to the repository; `E:n` is line n of `src/service/auth_engine.cpp`,
`M:n` of `src/service/main.cpp`, `C:n` of `src/cli/main.cpp`, `P:n` of
`src/pam/pam_linuxcampam.cpp`, `K:n` of `src/service/camera.cpp`.

## The system

A root daemon (`linuxcampamd`) owns the cameras, the neural networks and the users'
files. Its clients connect to a Unix socket, send one line and read one answer: the
PAM module, loaded into whatever process authenticates (`sudo`, a display
manager), and the command line tool `linuxcampam`. The daemon is one thread: it
accepts a connection, reads, handles, answers and closes before it looks at the
next one; when nobody came for a second it does its maintenance.

| Component | State | Operations | Module |
|---|---|---|---|
| Verification (`verifyUserCore`, E:305-579) | locals of the request: camera index, participants, successes, failures | prologue, one iteration per camera, decision | `AuthEngine` |
| Lockout (E:1050-1079) | `lockout_map_`: failures and deadline per user, in memory | `isUserLockedOut`, `recordAuthAttempt` | `AuthEngine`, abstractly `Throttle` |
| Networks (E:123-219) | `detector`, `recognizer`, `last_activity_` | `loadModels`, `ensureModelsLoaded`, `performMaintenance`, `unloadModels` | `AuthEngine` |
| User files (E:581-990) | one JSON file per user: pending captures, old-format embeddings, arrays of labelled embeddings | `enrollUser`, `setLabel`, `trainUser`, `removeEmbedding`, `listEmbeddings` | `UserStore`, abstractly `Gallery` |
| Command line tool (C) | what it listed, what was typed | `add`, `train`, `remove` sessions | `UserStore`; its socket side in `Daemon` |
| Daemon loop (M:30-341) | `g_running`, backlog, the connection being served | select, accept, `handle_client`, signal, stop, restart | `Daemon`, abstractly `Service` |
| PAM module (P:256-395) | its socket and two timeouts | connect, send, read, result | `Daemon` |
| Logger (`logger.hpp`) | a mutex | `log` | `Daemon`, the mutex against the signal handler only |
| Keyring helper (P:130-230) | pipe, child process | fork, write, close, look, terminate, kill, reap | `Keyring` |
| Configuration parsers (`config.cpp`, `pam_config.hpp`) | the section, and the values seen so far | one line after the other, in two dialects | `MinUid` for `min_uid`, `Cameras` for cameras and capture settings |
| Detection (`utils.cpp`) | none | list, classify and sort the devices | `Cameras` |
| Cameras and emitter (K) | device handles; exposure mode and emitter of the device | open, warm up, capture, average, merge three exposures | `Capture` |
| Provider selection, packaging, JSON library | none of their own | | not modelled |

### How they interact

* PAM module and tool talk to the daemon by one request and one answer per
  connection (`Daemon`). The text is abstracted to the kinds of requests and
  answers; the one conversion that matters, a label of several words losing all but
  the first on the wire, is the constant `Word` of `UserStore`.
* The daemon calls the engine synchronously (`M:55-205`). Since it serves one
  request at a time, the engine's modules have one request (`req`, `job`) and all
  concurrency is between clients, the user's typing, signals, time and crashes.
* `UserStore` and `AuthEngine` share only the user's file, which a verification
  reads in one go (E:332-334): there it is the input `Observations`, per camera.
* The engine calls the cameras one after the other (E:607, E:345). What a capture of
  one yields is an input of `AuthEngine` and `UserStore`; how it comes about,
  and what it leaves behind in the device, is `Capture`.
* The configuration file is read twice, by the daemon and by the PAM module, each with
  a reader of its own; `MinUid` reads one file with both.
* The keyring helper has nothing to do with the daemon: the process that opens a
  session runs it, whichever way the user was authenticated.
* Exceptions thrown in a handler are caught in `handle_client` (M:199-205); they
  are outcomes of the actions, not a module of their own.

### What is hard here

* The verification loop has five ways out of an iteration under three policies,
  and early returns that skip `recordAuthAttempt`.
* The lockout is tested at the start of a verification and updated at its end,
  seconds later, with a counter that a passed deadline does not reset.
* The networks are unloaded between requests and reloaded on demand; a reload can
  fail half-way, and only one of the two networks is looked at.
* An enrolment is three commands with a prompt in between; other sessions for the
  same user are served there, and what is pending stays pending in the file.
* Every file has up to two formats, migrated by whichever command comes first, and
  is truncated before it is written, without a look at the stream.
* One blocking thread serves clients that time out, are killed or never send, and
  neither side is protected from SIGPIPE; the signal handler takes a mutex that the
  thread it interrupts may hold.
* An HDR capture changes a setting of the device that outlives the process, in the
  middle of reads that fail and devices that are pulled out; the emitter's light is
  bound to the device being held.
* The keyring helper is a race of two processes over a pipe, a pid and a time limit.
* Two hand-written readers of one file must agree on what an administrator writes.

## Modules

| Module | What it is |
|---|---|
| `Throttle` | abstract specification of the lockout: tokens and a wait per user |
| `AuthEngine` | verification, lockout and networks, with time and restarts |
| `AuthEngineMC` | configurations for TLC and the claims of the documentation |
| `AuthEngine_proofs` | theorems about `AuthEngine`, and that it implements `Throttle` |
| `UserStore` | one user's file, the commands on it and the sessions that send them |
| `UserStoreMC` | files, layouts and typed texts for TLC, and one more claim |
| `UserStore_proofs` | theorems about `UserStore`, and that it implements `Gallery` |
| `Gallery` | abstract specification of the user's file: labelled prints, and captures that wait for a label |
| `Daemon` | sockets, main loop, signals, both clients |
| `DaemonMC` | a claim about when the daemon ends |
| `Daemon_proofs` | theorems about `Daemon`, and that it implements `Service` |
| `Service` | abstract specification of the daemon: one waiting line, one answer for each in it |
| `Cameras` | pure: from devices and configuration to the list of cameras and the way each is captured from |
| `Capture` | `Cameras` put to work: the devices, the daemon's list, and a request going through it read by read |
| `CaptureMC`, `Capture_proofs` | kinds of devices and configurations for TLC; theorems |
| `Keyring` | the session's process, its helper, the pipe and the pid between them |
| `KeyringMC`, `Keyring_proofs` | a claim of the documentation; theorems |
| `MinUid` | the two readers of `min_uid`, side by side on one file |
| `MinUidMC`, `MinUid_proofs` | lines for TLC; theorems |
| `SortedSets` | lemmas that several proofs need: the least element of a set of naturals, and its sorted enumeration |

`T` in `AuthEngine` is the refinement mapping: tokens left are `LockoutAttempts`
minus the failures, down to zero, and the wait is the time to the deadline, if it is
still ahead. `G` in `UserStore` maps a file to a gallery: the prints of a type are what
a face is compared with, in whichever format they are (`PrintsOf`), without their positions;
what waits is what is pending; the gallery is readable unless the file is cut.
`S` in `Daemon` maps the sockets to a line: the client being served in front, the backlog
behind it; a client's fate is its outcome, or `gone` if it left without one, and the service is
open unless the process is down. That a client has left does not take it out of the line:
the daemon finds out when it reads from its socket or answers it.

The definitions named "a bug to compare with" are variants of a definition that a
plausible mistake in the code would produce; nothing uses them, they are kept to see that
each property notices its bug.

### AuthEngine

`VerifyRequest`, `VerifyCamera` and `FinishVerify` are the prologue, one iteration and
the end of `verifyUserCore`; time (`Tick`) and the death of the process can fall
between any two of them. `CaptureRequest`, `CaptureCamera` and `FinishCapture` are what
`enrollUser`, `trainUser` and `testCameraAndAuth` do to the engine.
An observation stands for what one camera yields: no frame, a dark one, a type
without embeddings, no face, a face that does or does not reach the threshold, an
exception. Brightness, thresholds, scores and images are abstracted to these.
A request that finds a face without a recognizer is the death of the process, as it
is in the code. The history variables `seen`, `since` and `usedAt` exist only for the
properties.

### UserStore

An array of embeddings is the set of its entries with their positions; an embedding is
the set of the sessions whose captures went into it, so a property can say whose
face is under a label. `job` is the command being served with its document in memory
and the index of the camera; `FinishJob` is the write, whose outcome may be the new
file, a cut one (`Cut`) or no change, all reported as success. `DaemonRestarts` may
fall anywhere, also in the middle of a write, and may change the cameras. The images
are inputs (`Captures`). `Type` and `List` model the substring search of C:127 by what
is certain: a label that was listed is found, any other text may be.

### Daemon

`pc` follows the one thread from `select` through `read` and the handler to `send`.
Each client is in one of the states listed above `States`.
`Die` is what the kernel does with the sockets of a process that ends; it is reached
by `LeaveLoop`, `Crash`, `StopTimeout` (systemd) and by `Respond` when the client has
closed its end (SIGPIPE). A handler may take for ever as far as time is concerned, and
the PAM module's two timeouts count against it. `down` is from the moment the listening
socket is closed.

Signals come from systemd (`told = "stop"`) or from anybody else who may send one
(`"signal"`), once or as often as they like, since the handler stays installed (M:30-34,
M:212-213). `Signal` is a handler that gets the logger's mutex, `SignalHangs` one that does
not. The thread logs in its maintenance, all along a request and, at DEBUG, between the
read and the dispatch, and a handler can itself be interrupted by the other signal while it
logs; so the model lets a signal hang it anywhere. From then on (`hung`) it takes no step,
whatever `g_running` says, and only the end of the process changes that.

### Cameras and Capture

`Cameras` has no state: `ClassifyCameraType` and `EnumerateCameras` are detection,
`CameraDefinitions` is the part of `parse_ini_into_self` that decides between `[Cameras]`,
the old `[Hardware]` paths and detection, `EnrolPlan` the choice of `enrollUser` between
one frame, an average and HDR. A path is its rank in the sorted order; a device is the
three things the code asks of it.

`Capture` follows one request through the list: `Open` (one of three attempts),
`TriggerIrEmitter` and `EmitterEnds` (posix_spawn and the wait), `WarmUp`, then `Grab`, or
`Add` per frame and `Average`, or `SaveMode`, `Expose` per exposure and `Merge`, then
`Return`. Between any two of them a device may be pulled out (`PullOut`), plugged in
again, or the daemon may `Die`. Each read yields no frame or one with a size, the light it
was taken in and the exposure set; pixels are not modelled. Three reads per exposure are
one step, of which the last counts (K:242-245). `Merge` has no image when two exposures or
more were kept and differ in size: `MergeMertens::process` throws then (K:258), since
only `captureAveraged` compares sizes (K:185), and the exception leaves the enrolment. `SetUp`
is the constructor of a camera. `rest` remembers what mode the device's
user left it in, `marred` the devices the daemon died on in the middle of HDR.

### Keyring

`pc` is where `try_unlock_keyring` is; `Write` is one iteration of the write loop and may
be short, `Look` one `waitpid` with `WNOHANG` and the second of sleep. The helper's
process runs beside it: `forked`, `running`, a `zombie`, `gone`. A pid that was waited for
may be given to another process (`ReusePid`), so that a signal sent too late would reach
a stranger (`stray`). How the host treats SIGPIPE and SIGCHLD, and whether the helper is
prompt, is chosen at the start (`env`).

### MinUid

A step of `MinUid` is one more line of the file, read by both readers at once; a state is
the file so far, as each of them remembers it, and `DaemonMinUid` and `ResolvePamConfig` are what
they would answer at its end. So an invariant speaks of every file, of any length.
`ReadTail` is the rest of a line that is longer than the module's buffer, which only the
module takes for a line. What was written is remembered apart from what was read: `zeros` a
0, `wraps` a positive number of which the cast to `uid_t` leaves 0 (`pam_config.hpp:71`).

## Runs

| Run | Result | Bounds | What it shows |
|---|---|---|---|
| `engine_policy` | pass | 1 user, 2 cameras, all 48 configurations, 2 ticks | the verdict is the policy's; evaluated failures are counted |
| `engine_lockout` | pass | 2 users, 1 camera, 6 ticks of half a second, 4 failures | rate limit, lockout respected, networks held and kept, `Throttle` implemented |
| `store` | pass | 2 sessions, 2 types, 2 cameras, limit 2, 3 initial files | nothing is shadowed, lost, mislabelled or over the limit; every command is one step of `Gallery` |
| `daemon` | pass | 2 PAM clients, 1 tool, backlog 1, timeout 2 | nothing is lost or invented, every authentication ends, a tool or a stop that does not faces a daemon stuck for good, a stop only gets nearer, all of it is the one line of `Service` |
| `capture` | pass | 2 device files, 5 kinds of devices in every pair, 4 configurations, 2 attempts, 1 warm-up frame, 2 frames averaged (3 or 0 by configuration), 2 sizes | modes are restored, kept frames are lit, images are sound, good cameras yield (unless HDR exposures differ in size), detection is stable, requests go through the cameras once and end |
| `keyring` | pass | password of 2 units, pipe of 3, 3 seconds | the password arrives whole, nothing is left over, nobody else is signalled, prompt helpers are spared, the session opens, after a bounded number of steps |
| `min_uid` | pass | 11 texts, 3 sections, int of 3 bits signed, uid_t of 3, long of 4 | on plain files the two readers agree; the daemon's check is off by a zero only, the module's by a zero or a number that wraps to it |
| `doc_strict`, `doc_mandatory` | violation | small engine instances | two statements of the documentation the code does not keep |
| `discarded` | violation | store, 2 sessions | a statement about embeddings that does not hold |
| `daemon_ends` | violation | daemon, no crashes | the daemon ends without being told to |
| `keyring_helper` | violation | as `keyring` | a helper can end the process that opens the session |

Why the bounds are enough to be of interest:

* Two cameras give every pair of exits of the loop under every policy, every set of
  mandatory cameras and floors; the proofs cover any number.
* The lockout run has `LockoutAttempts = 2` and four failures, so the limit is
  reached, waited out, and reached again twice; half-second ticks make the truncation of
  `performMaintenance` visible; two users show that one does not touch the other.
* In `store`, two cameras of one type make a command visit an array twice, two of
  different types make it partial; a limit of 2 is reached from a file with one
  entry; two sessions are what the prompt of one needs to be disturbed by another.
  Each session sends one command, so a label is written at most twice in a behaviour.
* In `daemon`, three clients and a backlog of one give a client being served, one
  waiting and one blocked in `connect`; a timeout of two ticks lets a client time
  out before, while and after it is handled. Signals are not counted: any number may
  come. (249,208 distinct states, about two minutes.)
* In `capture`, a request visits two cameras, on two devices or twice on the same one, so
  what one capture leaves behind meets the next; two attempts have a first and a last;
  an average of two or three frames has a first frame, one that fits, one of another size
  and one that is missing; the three exposures are the code's own. The proofs
  cover any number of each. (415,784 distinct states, about a minute.)
* In `keyring`, a password of two units can be written in two pieces, with the helper
  gone before, between and behind them; three seconds of waiting have a first, a middle
  and a last. The code's ten change nothing but the length of the wait.
* In `min_uid`, the widths are the smallest that have numbers inside `int`, between `int` and
  `uid_t`, that wrap to 0, and beyond `unsigned long`. The file's length is not
  bounded: the readers remember a bounded part of it.

`MaxTime` and `MaxFailed` are bounds of the models: the clock stops, and no
verification starts after so many failures. Nothing else is bounded in the guards.
The runs of `AuthEngine`, `UserStore` and `Keyring` do not check for deadlock, because
sessions end and the clock stops; `daemon`, `capture` and `min_uid` do.
The sessions of `UserStore` are symmetric and TLC uses that.

### Fairness

Liveness is checked of `Daemon`, `Keyring` and `Capture`.

`Daemon!Fairness` says: the daemon's thread runs, so a step of `Serve` that stays possible is
taken (in particular a handler returns; see `Capture` for what that takes); a `connect`
that is blocked on a full backlog is woken; time passes, and the process of a PAM module
runs, so it sends, times out and closes. systemd kills a daemon that does not stop (its
default `TimeoutStopSec`), but only one it has told to stop itself: the unit file has no
`WatchdogSec`, so nothing ends a hang that came from a plain `kill` or from ^C. Of the tool
nothing is assumed but that it takes its turn when a blocked `connect` is woken: a run of it
may be stopped between `connect` and `send`, and then it is the silent client that the
daemon's `read` waits for (M:42). Nothing forces a client to come, a signal, a crash or
a restart.

So two things can hold the daemon up for good, and `Stuck` names them: a hang, or a client
that is connected and silent, with no stop ordered by systemd. `EveryClientEnds` says
that a PAM module ends even then, by its timeouts, and that the tool, which has none
(C:29-60), gets out of `connect` and `read` unless the daemon stays stuck; `StopIsHonoured`
that a daemon that was told to stop stops, unless it stays stuck. Both let any number of signals
follow the first.

`Keyring!FairSpec` says: the host's thread runs; the kernel ends a process that was sent
SIGKILL; a prompt helper runs. Any other helper may stop for ever, and `SessionOpens`
holds all the same. Sleeps are not cut short by signals.

`Capture!FairSpec` says: the daemon's thread runs, so each read and each attempt to
open returns; and the emitter's helper ends. The latter is an assumption: the
code waits for the helper without a limit (K:56), and a helper that hangs stops the daemon.
`RequestEnds` shows that this is the only thing it depends on besides the driver.

## What the runs found

`PROJECT.json` lists the disagreements between the code and what the repository
says of it, with the lines. In short:

* the strict policy skips dark cameras (E:384), the documentation says they fail;
* a mandatory camera must deliver a bright frame but need not match (E:474); what
  `docs/CONFIGURATION.md:69-70` says of conditional and critical cameras disagrees in the same way;
* "Embedding discarded." (C:133) is not true: the captures stay pending and are
  stored under the next label anybody sets;
* a client that goes away before its answer kills the daemon (M:207), which also empties
  the lockout table;
* a keyring helper that ends before it has read the password kills the process that
  opens the session (P:197), though "a broken unlock helper will never lock you out"
  (`docs/KEYRING_UNLOCK.md:259`).

While translating we met more that no run is spent on:

* `model_keep_alive_sec = 0` means never (E:208), the sample configuration says
  immediately;
* `train` with a new label is not limited by `max_embeddings` (E:892): `LimitHolds`
  excepts it;
* the PAM module can time out while the camera is still looking (P:311), though the comment
  there says it cannot: `timeout_ms` is read and never used;
* a daemon that goes away between `connect` and `send` kills the process that
  authenticates (P:334), the outcome `killed` of `Daemon`;
* a comment behind a value is part of the value: `enroll_averaging = on ; ...`, as
  `config/config.ini:133` and `docs/CONFIGURATION.md:85` show it, is not `on`; and in a camera's
  own section `true` is not either (`Averages`);
* HDR switched on for a device without manual exposure averages a fixed number of frames,
  whatever `enroll_average_frames` says (`EnrolPlan`); `verify_averaging` is read and never
  used (`VerifyPlan`);
* without any device there are no cameras; `docs/CONFIGURATION.md:112` promises
  `/dev/video0`. A path that does not begin with `/dev/video` opens device 0 (K:97-104);
* HDR puts the exposure mode back but not the exposure (K:248), so a device that was in manual
  mode keeps the last of the three exposures. `ModeRestored` speaks of the mode only;
* exposures of different sizes make the merge throw (K:258) where an average
  leaves the odd frame out (K:185): such an enrolment fails although every read gave a
  frame. `GoodCameraYields` excepts it;
* `docs/CONFIGURATION.md:139` gives `min_uid = 0` to disable the check; every multiple
  of 2^32 does the same in the module (`pam_config.hpp:71`), though not in the daemon.
  `OffOnlyByZeroOrWrap` excepts it by name;
* a second signal, or a first one that arrives while the thread logs, can hang the
  daemon in the logger (M:31); unless systemd ordered the stop nobody ends it, and a running tool
  waits with it (`Stuck`);
* a session that overwrites a label is not asked about what another session stored under it
  since it listed the labels (C:127), nor about the first word of a label of several
  words: the daemon is never told what was confirmed;
* outside plain files the two readers of `min_uid` differ: a header with a carriage
  return, a `+` or `-`, garbage as the last value, a repeated value outside
  `[Security]`, numbers beyond `int`. `Plain` says what is left, and the daemon never uses its own.

## Proofs

The six modules `*_proofs`, with the lemmas of `SortedSets`, prove, for all values of the constants that satisfy the named
assumptions (`EngineAssumption`, `StoreAssumption`, `DaemonAssumption`, `CaptureAssumption`,
`KeyringAssumption`, `MinUidAssumption`):

| Theorem | Statement | Strengthening |
|---|---|---|
| `TypeCorrect` | `[]TypeOK` | `Typed`: the counters stay behind the camera index |
| `DetectorIsHeld` | `[]DetectorHeld` | `Typed` |
| `LockoutRespected` | `NoVerdictWhileLockedOut` | `LockInv`: the user of a running verification is not locked out |
| `RateIsLimited` | `[]RateLimit` | `RateInv`: once the limit is reached, the deadline is far enough ahead of the last reset for all failures so far and one more |
| `VerdictIsPolicy` | `[]VerdictMatchesPolicy` | `LoopInv`: what the counters say about what the cameras yielded |
| `EvaluatedIsCounted` | `EvaluatedAttemptsAreCounted` | `LoopInv` |
| `ModelsKept` | `KeptAlive` | the last request is not later than `last_activity_`; `WholeSeconds` |
| `ThrottleRefinement` | `ImplementsThrottle` | `LockInv` |
| `StoreTypes` | `[]StoreTypeOK` | `StoreInv`: arrays are finite, their positions bounded and distinct; documents are sound |
| `NothingIsShadowed` | `[]NothingShadowed` | `StoreInv` |
| `OthersUntouched` | `OnlyTheNamedLabel` | `Agrees`: the document of a command agrees with the file but for its label |
| `EnrolmentIsComplete` | `EnrolledEverywhere` | `Enrolled`: the cameras an enrolment has done are pending |
| `LimitIsKept` | `LimitHolds` | `Limited`: what a command has made of an array is within the limit, or no larger than it was |
| `PendingGetsItsLabel` | `PendingIsLabelled` | `Halfway`; `Unpending`: nothing is pending for the cameras `setLabel` has done; `Leftover`: what is pending of types without a camera is as in the file |
| `GalleryRefinement` | `ImplementsGallery` | `Halfway`: each type is as it was, or as the command leaves it |
| `DaemonTypes` | `[]DaemonTypeOK` | the next two |
| `ConnectionsHeld` | `[]NoLostConnection` | `Connected`: nobody is in the backlog before it has connected |
| `SuccessIsGranted` | `[]SuccessWasGranted` | `GrantedIsMeant`: an answer "granted" about to be sent was given to the client being served |
| `ServiceRefinement` | `ImplementsService` | `ServiceInv`: who can have an outcome or a verdict at each place of the thread |
| `StopIsPrompt` | `StopAdvances` | none |
| `CaptureTypes` | `[]CaptureTypeOK` | `Sound`: the cameras are a list |
| `ModeIsRestored` | `[]ModeRestored` | `SavedIsRest`: an HDR capture holds the mode it has to put back |
| `FramesAreLit` | `[]LitWhenKept` | `FramesInv`: nothing is kept before the emitter is done, and it stays lit while the device is held |
| `ImagesAreSound` | `[]ImageIsSound` | `ImageInv`: the averaging loop counted what it summed; the HDR loop has one frame per exposure at most |
| `GoodCamerasYield` | `[]GoodCameraYields` | `YieldInv`: while nothing was missed, a loop that has started has a frame of every pass; the cameras ask for a number of frames; `ImageInv` |
| `DetectionStable` | `DetectionIsStable` | `DevicesInv`: what is at each path stays one of the kinds of devices |
| `RequestsAdvance` | `RequestAdvances` | `CountersInv`: a loop's counter does not pass the number of its passes, and the plan is the camera's |
| `KeyringTypes` | `[]KeyringTypeOK` | `Holdings`: which ends of the pipe are open where |
| `PasswordIsWhole` | `[]WholePassword` | `LineIsLast`: the newline follows the whole password, or nobody is there to read it |
| `NothingLeftOver` | `[]ResourcesReturned` | `Holdings` |
| `SignalsReachHelper` | `[]OnlyHelperSignalled` | `PidHeld`: the pid is free only when the call has returned, or if SIGCHLD is ignored |
| `PromptNotKilled` | `[]PromptIsSpared` | `NoWaiting`: no second passes with a prompt helper |
| `LoginIsNotHeldUp` | `DelayIsBounded` | `Holdings` |
| `MinUidTypes` | `[]MinUidTypeOK` | `ReaderTypes` |
| `PlainFilesAgree` | `[]SameMinUid` | `Together`: on a plain file both have stored the same entries |
| `OffByZeroOrWrap` | `[]OffOnlyByZeroOrWrap` | `ZerosRead`: a 0 a reader keeps came from a line that writes it or, in the module, one that wraps |

The arguments:

* *Why the types need help.* `successes <= NCams` holds only because each
  iteration adds at most one and moves the camera on; `Add` gives the position after the
  last, which exists only in a bounded array. `MaxOfBounded` derives that `Max`
  from well-foundedness of the naturals.
* *Lockout.* One request at a time means that the table cannot change while a
  verification runs, and deadlines do not move by themselves: what was tested in
  the prologue still holds at the end. A failure therefore happens after the last
  deadline, and sets the next a whole duration later (`RateRecord`).
* *Refinement.* Initial states map to initial states; a recorded failure is `Fail`, a
  success `Succeed`, the death of the process `Forget`, a tick `Pass`, every other
  step a stutter.
* *Files.* Every iteration of the four loops is a `CameraStep`: it gives up, or goes on
  with a sound document that differs in the entries of one label only
  (`LabelCameraSteps` and its siblings, from `PutKeeps`, `AddKeeps`, `RefineKeeps` and
  `MigrateKeeps`). The file changes only at the end of a command or in a restart while
  it writes, and then becomes that document or does not parse (`FileChanges`).
* *Gallery.* A command visits an array once per camera of its type, a gallery changes
  once. `Halfway` says that the second visit changes nothing more: what `setLabel` puts is
  no longer pending, `trainUser` averages the same capture into the same entry
  (`RefineTwice`) or adds a print that is there already, `removeEmbedding` finds nothing
  left. A migration does not show (`MigrateKeeps`). At the end a type is the one
  or the other, which is the set `T` of the abstract step (`WrittenEnrols` and its
  siblings); a cut write is `Lose`; all other steps are stutters.
* *Counting.* An entry that is added is one more and one put under a label that is there
  none (`SizeOfAdd`, `SizeOfPut`), because positions are distinct and arrays finite.
* *Daemon.* The three invariants and their two strengthenings are inductive together; an
  invariant about a sequence without repetition is kept by `Append` of somebody who is not in
  it, and by `Tail`.
* *Service.* `Accept` moves the front from the backlog to the thread and leaves the line as it
  is; only an answer, or a read that finds nobody, takes the front away. `Die`, which several
  actions share, is `Stop`, and the clients whose read fails then are those it turns away.
  Everything the thread does in between is a stutter, but for the engine's yes. `ServiceInv` is
  needed to know that a fate that is replaced was none, that nobody has a verdict before its
  turn, and that the answer about to be sent is that verdict.
* *Detection.* Two ascending enumerations of the same set are the same one, so what detection
  returns does not depend on the order in which the devices were listed. That there is one
  at all is an induction over the size of the set, done by the least counterexample
  (`FiniteSetsAreSortable`): the least path is put in front of the rest.
* *What liveness rests on.* `StopIsHonoured`, `SessionOpens` and `RequestEnds` are checked by TLC.
  What they say of the code apart from fairness is proved: `StepsLeft` in each
  of the three modules counts the steps of the thread until the end (of the stop, of the login,
  of the camera at hand, behind which there is the next one of a list that does not change);
  every step it takes lowers the number, and no step of another process, a device or a
  further signal raises it. What is
  left to fairness is that the thread runs and its calls return, and for a stop that the thread
  does not hang and is not left waiting for a silent client (`Stuck`), or systemd kills it. `RequestsAdvance` needs
  `CountersInv`, since the measure is a natural number only while no loop's counter is past its bound.
* *Capture.* The invariants are stacked, each on those below it. Lists of cameras come from
  three sources, and each is a sequence whatever was found (`ChosenIsList` and its siblings).
* *Keyring.* The interleavings are tamed by saying for every place of the host what the helper
  may be: a pipe that has lost its reader does not get it back, a pid that was not waited for
  is not given away.
* *MinUid.* As long as a file is plain, both readers have an entry of `[Security]` or
  neither has, and as long as neither has, the same holds for `[General]`; what they have is the
  same number, and needs no reduction since it fits an `int` (`IntMax < UidMod <= LongMax`).

`StoreAssumption` says of the files a daemon may find that no type has both formats and
that the positions of an array are `1 .. n`. That is what the code writes; a file edited
by hand need not satisfy it.

`CaptureAssumption` says that the set of paths a device can be found at is finite, as the
directory the code lists is.

Only model-checked: the four liveness properties `EveryClientEnds`, `StopIsHonoured`,
`SessionOpens` and `RequestEnds`, because liveness under fairness and `ENABLED` are out of the
prover's reach, as is induction over data. The last three have the part that needs no fairness
proved, as said above; `EveryClientEnds` has no such part, since clients that come later and
restarts have no bound. The violation runs are counterexamples and have nothing to prove.
No module uses a RECURSIVE operator.

## Not modelled

* What an image contains, detection, recognition, normalisation, brightness: inputs.
* What is in a frame; the brightness, gain and format settings of a device.
* Text: serialisation beyond the loss of words, logging, the contents of answers.
* Requests longer than the daemon's buffer, malformed requests; requests that only read
  or set the log level are all "answered".
* Permissions of the files, selection of the neural network backend,
  `fallbackToCPU` (which has no caller), packaging scripts.
* The vendored JSON library (`src/include/json.hpp`, 24,765 of the 28,606 lines of C++): the
  models use what it promises, a document that parses or an exception.
* Keys of the configuration other than `min_uid`, the cameras and the capture settings:
  each is one lookup with a default, and enters the models as a constant.
* `isValidUsername`, `getIREmitterVersion`, `toString`: no state, one look at a text.
* `pam_sm_setcred` and its like, which only return, and the second definition of
  `SocketDescriptor` and `SyslogManager` in `pam_linuxcampam.cpp` (P:29-63 and P:76-106 are the same).
* JSON files that parse but are not of the expected shape, other than as an exception.

## Plan

What is left, in the order of importance:

1. A composition of `Daemon` with the lockout, so that the restart after a SIGPIPE and
   the loss of the lockout table are one behaviour; now they meet only in the
   documentation of `daemon_ends` and in `Throttle!Forget`.
2. The prologue of `pam_sm_authenticate` in front of `Daemon`, with `min_uid` from `MinUid`.
