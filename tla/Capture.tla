------------------------------ MODULE Capture -------------------------------
(***************************************************************************)
(* What the daemon does with its cameras (src/service/camera.cpp): it takes *)
(* the list of cameras once, when it starts, and for every request goes     *)
(* through it, camera by camera: open the device, with three attempts; run  *)
(* the helper that switches the infrared emitter on and wait for it; read   *)
(* and drop the warm-up frames; then take one frame, average some, or merge *)
(* three exposures.  The device is closed when the capture returns.         *)
(*                                                                          *)
(* A device keeps its exposure mode when it is closed and loses its emitter. *)
(* Devices are plugged in and out, and reads fail, at any time; the helper  *)
(* may fail or hang; the daemon may die anywhere and is started again.      *)
(***************************************************************************)
EXTENDS Cameras, FiniteSets

CONSTANTS
    Inis,       \* the configurations
    Kinds,      \* the kinds of devices
    Sizes,      \* the sizes of frames
    Warmup,     \* CAMERA_WARMUP_FRAMES
    Attempts    \* CAPTURE_RETRY_ATTEMPTS

\* HDR_EXPOSURE_1 to HDR_EXPOSURE_3, by their numbers.
Exposures == 3

ASSUME CaptureAssumption ==
    /\ Paths \subseteq Nat \ {NoPath} /\ Video0 \in Paths /\ IsFiniteSet(Paths)
    /\ Kinds \subseteq Devices
    /\ \A c \in Inis : /\ c.named \in Seq(Range(c.named))
                       /\ c.frames \in Int
                       /\ \A n \in DOMAIN c.named : c.named[n].frames \in Int
    /\ Warmup \in Nat
    /\ Attempts \in Nat \ {0}
    /\ AverageFrames \in Nat \ {0}

VARIABLES
    ini,       \* the configuration
    device,    \* the devices of the machine
    present,   \* those plugged in
    mode,      \* the exposure mode of a device: "auto" or "manual"
    lit,       \* its infrared emitter is on
    rest,      \* history: the mode somebody else left it in
    marred,    \* history: the daemon died in the middle of an HDR capture from it
    defs,      \* active_cameras: the definitions and what their devices support
    pc,        \* where the daemon is
    request,   \* "enroll" or "verify"
    k,         \* the camera it is at
    open,      \* it holds the device
    i,         \* the counter of the loop it is in
    saved,     \* the mode to restore
    kept,      \* the frames the image is made of
    count,     \* what it divides the sum by
    last,      \* the frame read last
    image,     \* the capture returns an image
    worked,    \* history: the emitter was switched on for this capture
    missed     \* history: it did not open, or a read that was not dropped gave nothing

machine == <<ini, device, present, rest>>
state   == <<mode, lit>>
place   == <<request, k>>
frames  == <<saved, kept, count, last, image, missed>>
vars    == <<ini, device, present, mode, lit, rest, marred, defs, pc, request, k, open, i, saved,
             kept, count, last, image, worked, missed>>

NoFrame == [empty |-> TRUE]
path    == defs[k].path

\* How this camera is captured from.
plan == IF request = "verify" THEN VerifyPlan
        ELSE EnrolPlan(ini, defs[k].found, defs[k].supports)

Init ==
    /\ ini \in Inis
    /\ device \in [Paths -> Kinds]
    /\ present = Paths
    /\ mode = [p \in Paths |-> "auto"]
    /\ rest = mode
    /\ lit = [p \in Paths |-> FALSE]
    /\ marred = {}
    /\ defs = <<>>
    /\ pc = "down"
    /\ request = "verify"
    /\ k = 1
    /\ open = FALSE
    /\ i = 0
    /\ saved = "auto"
    /\ kept = <<>>
    /\ count = 0
    /\ last = NoFrame
    /\ image = FALSE
    /\ worked = FALSE
    /\ missed = FALSE

-----------------------------------------------------------------------------
(* The daemon.                                                              *)

\* What a device supports is asked when its camera is set up, and of the device that
\* is there.
SetUp(found) ==
    [found |-> found, path |-> found.path, ir |-> found.type = "ir",
     supports |-> found.path \in present /\ device[found.path].manual]

\* main and AuthEngine::init.  The directory is listed in some order.
Boot ==
    /\ pc = "down"
    /\ pc' = "idle"
    /\ \E order \in SetToSeqs(present) :
          LET found == CameraDefinitions(ini, order, device)
          IN defs' = [n \in DOMAIN found |-> SetUp(found[n])]
    /\ UNCHANGED <<machine, state, marred, place, open, i, frames, worked>>

\* What a capture works with is gone when it returns, or when the process ends.
Forgotten ==
    /\ saved' = "auto"
    /\ kept' = <<>>
    /\ count' = 0
    /\ last' = NoFrame
    /\ image' = FALSE
    /\ worked' = FALSE
    /\ missed' = FALSE

Goto(next) == pc' = next /\ i' = 0

Request(kind) ==
    /\ pc = "idle"
    /\ defs # <<>>
    /\ Goto("open")
    /\ request' = kind
    /\ UNCHANGED <<machine, state, marred, defs, k, open, frames, worked>>

\* A bug to compare with: it is tried again without a limit.
OpenForEver ==
    /\ pc = "open"
    /\ \/ /\ path \in present
          /\ open' = TRUE
          /\ lit' = [lit EXCEPT ![path] = FALSE]
          /\ Goto(IF defs[k].ir THEN "emit" ELSE "warm")
       \/ UNCHANGED <<pc, i, open, lit>>
    /\ UNCHANGED <<machine, mode, marred, defs, place, frames, worked>>

\* A device opens unless it is not there or somebody else has it.  Its emitter is off
\* by then and goes off when it is closed, so the helper runs in between.
Open ==
    /\ pc = "open"
    /\ \/ /\ path \in present
          /\ open' = TRUE
          /\ lit' = [lit EXCEPT ![path] = FALSE]
          /\ Goto(IF defs[k].ir THEN "emit" ELSE "warm")
          /\ UNCHANGED missed
       \/ /\ IF i + 1 < Attempts THEN i' = i + 1 /\ UNCHANGED <<pc, missed>>
             ELSE Goto("done") /\ missed' = TRUE
          /\ UNCHANGED <<open, lit>>
    /\ UNCHANGED <<machine, mode, marred, defs, place, saved, kept, count, last, image, worked>>

\* posix_spawn may fail.  The daemon waits for the helper, however long it takes.
TriggerIrEmitter ==
    /\ pc = "emit"
    /\ Goto("emitting") \/ Goto("warm")
    /\ UNCHANGED <<machine, state, marred, defs, place, open, frames, worked>>

\* A bug to compare with: the device is opened once the helper has ended.
EmitterEndsFirst ==
    /\ pc = "emitting"
    /\ Goto("warm")
    /\ worked' \in BOOLEAN
    /\ lit' = [lit EXCEPT ![path] = FALSE]
    /\ UNCHANGED <<machine, mode, marred, defs, place, open, frames>>

EmitterEnds ==
    /\ pc = "emitting"
    /\ Goto("warm")
    /\ worked' \in BOOLEAN
    /\ lit' = [lit EXCEPT ![path] = worked' /\ open]
    /\ UNCHANGED <<machine, mode, marred, defs, place, open, frames>>

\* The first frames are read and dropped, whatever they are.
WarmUp ==
    /\ pc = "warm"
    /\ IF i < Warmup THEN i' = i + 1 /\ UNCHANGED pc
       ELSE Goto(CASE plan.method = "single"   -> "grab"
                   [] plan.method = "averaged" -> "add"
                   [] plan.method = "hdr"      -> "manual")
    /\ UNCHANGED <<machine, state, marred, defs, place, open, frames, worked>>

\* What a read may give: nothing at all from a device that was pulled out.
Readings ==
    {NoFrame} \cup
        IF open THEN [empty : {FALSE}, size : Sizes, lit : {lit[path]},
                      exposure : {IF mode[path] = "manual" THEN i ELSE -1}]
        ELSE {}

\* capture()
Grab ==
    /\ pc = "grab"
    /\ \E frame \in Readings :
          /\ kept' = When(~frame.empty, <<frame>>)
          /\ image' = ~frame.empty
          /\ missed' = frame.empty
          /\ last' = frame
    /\ Goto("done")
    /\ UNCHANGED <<machine, state, marred, defs, place, open, saved, count, worked>>

\* Bugs to compare with: every frame is counted, also those that are not summed; or
\* no frame is the first.
AddCountingAll ==
    /\ pc = "add" /\ i < plan.frames
    /\ \E frame \in Readings :
          LET fits == ~frame.empty /\ (count = 0 \/ frame.size = kept[1].size)
          IN /\ kept' = kept \o When(fits, <<frame>>)
             /\ count' = IF frame.empty THEN count ELSE count + 1
             /\ missed' = (missed \/ frame.empty)
             /\ last' = frame
    /\ i' = i + 1
    /\ UNCHANGED <<machine, state, marred, defs, pc, place, open, saved, image, worked>>

AddToNothing ==
    /\ pc = "add" /\ i < plan.frames
    /\ \E frame \in Readings :
          LET fits == ~frame.empty /\ count > 0 /\ frame.size = kept[1].size
          IN /\ kept' = kept \o When(fits, <<frame>>)
             /\ count' = IF fits THEN count + 1 ELSE count
             /\ missed' = (missed \/ frame.empty)
             /\ last' = frame
    /\ i' = i + 1
    /\ UNCHANGED <<machine, state, marred, defs, pc, place, open, saved, image, worked>>

\* captureAveraged(): a frame counts if it has the size of the first.
Add ==
    /\ pc = "add" /\ i < plan.frames
    /\ \E frame \in Readings :
          LET fits == ~frame.empty /\ (count = 0 \/ frame.size = kept[1].size)
          IN /\ kept' = kept \o When(fits, <<frame>>)
             /\ count' = IF fits THEN count + 1 ELSE count
             /\ missed' = (missed \/ frame.empty)
             /\ last' = frame
    /\ i' = i + 1
    /\ UNCHANGED <<machine, state, marred, defs, pc, place, open, saved, image, worked>>

Average ==
    /\ pc = "add" /\ i >= plan.frames
    /\ image' = (count > 0)
    /\ Goto("done")
    /\ UNCHANGED <<machine, state, marred, defs, place, open, saved, kept, count, last, worked,
                   missed>>

\* A setting is read from and reaches the device only while it is there.
SetMode(m) == mode' = IF open THEN [mode EXCEPT ![path] = m] ELSE mode

\* captureHDR(): the mode is saved and set to manual, ...
SaveMode ==
    /\ pc = "manual"
    /\ saved' = IF open THEN mode[path] ELSE saved
    /\ SetMode("manual")
    /\ Goto("expose")
    /\ UNCHANGED <<machine, lit, marred, defs, place, open, kept, count, last, image, worked,
                   missed>>

\* ... three exposures are set and read until they settle (the last read counts), ...
Expose ==
    /\ pc = "expose" /\ i < Exposures
    /\ \E frame \in Readings :
          /\ kept' = kept \o When(~frame.empty, <<frame>>)
          /\ missed' = (missed \/ frame.empty)
          /\ last' = frame
    /\ i' = i + 1
    /\ UNCHANGED <<machine, state, marred, defs, pc, place, open, saved, count, image, worked>>

OneSize == \A n \in DOMAIN kept : kept[n].size = kept[1].size

\* A bug to compare with: the mode is not restored when there is nothing to merge.
MergeOrReturn ==
    /\ pc = "expose" /\ i = Exposures
    /\ IF Len(kept) >= 2 THEN SetMode(saved) /\ image' = OneSize /\ UNCHANGED kept
       ELSE image' = ~last.empty /\ kept' = When(~last.empty, <<last>>) /\ UNCHANGED mode
    /\ Goto("done")
    /\ UNCHANGED <<machine, lit, marred, defs, place, open, saved, count, last, worked, missed>>

\* ... the mode is restored, and two exposures or more are merged, if they have one
\* size: otherwise MergeMertens::process throws, nothing catches it before
\* handle_client, and the enrolment ends as it does without an image.
Merge ==
    /\ pc = "expose" /\ i = Exposures
    /\ SetMode(saved)
    /\ IF Len(kept) >= 2 THEN image' = OneSize /\ UNCHANGED kept
       ELSE image' = ~last.empty /\ kept' = When(~last.empty, <<last>>)
    /\ Goto("done")
    /\ UNCHANGED <<machine, lit, marred, defs, place, open, saved, count, last, worked, missed>>

\* Bugs to compare with: a camera that gave no image is tried again; or the device is
\* held until the next request.
ReturnAgain ==
    /\ pc = "done"
    /\ open' = FALSE
    /\ lit' = [lit EXCEPT ![path] = FALSE]
    /\ \/ ~image /\ Goto("open") /\ UNCHANGED k
       \/ k < Len(defs) /\ image /\ k' = k + 1 /\ Goto("open")
       \/ k' = 1 /\ Goto("idle")
    /\ Forgotten
    /\ UNCHANGED <<machine, mode, marred, defs, request>>

ReturnHolding ==
    /\ pc = "done"
    /\ \/ k < Len(defs) /\ (image \/ request = "verify") /\ k' = k + 1 /\ Goto("open")
       \/ k' = 1 /\ Goto("idle")
    /\ Forgotten
    /\ UNCHANGED <<machine, state, marred, defs, request, open>>

\* The device is closed.  An enrolment ends at a camera without an image; otherwise a
\* request goes on with the next camera or, for reasons of its own, does not.
Return ==
    /\ pc = "done"
    /\ open' = FALSE
    /\ lit' = [lit EXCEPT ![path] = FALSE]
    /\ \/ k < Len(defs) /\ (image \/ request = "verify") /\ k' = k + 1 /\ Goto("open")
       \/ k' = 1 /\ Goto("idle")
    /\ Forgotten
    /\ UNCHANGED <<machine, mode, marred, defs, request>>

\* The end of the process closes the device and leaves its mode alone.
Die ==
    /\ pc # "down"
    /\ Goto("down")
    /\ marred' = IF pc = "expose" /\ open THEN marred \cup {path} ELSE marred
    /\ open' = FALSE
    /\ lit' = [p \in Paths |-> FALSE]
    /\ k' = 1
    /\ defs' = <<>>
    /\ Forgotten
    /\ UNCHANGED <<machine, mode, request>>

-----------------------------------------------------------------------------
(* Others.                                                                  *)

\* Pulling a device out breaks what the daemon holds.
PullOut(p) ==
    /\ p \in present
    /\ present' = present \ {p}
    /\ open' = (open /\ path # p)
    /\ lit' = [lit EXCEPT ![p] = FALSE]
    /\ marred' = marred \ {p}
    /\ UNCHANGED <<ini, device, rest, mode, defs, pc, place, i, frames, worked>>

\* A device that is plugged in is in its default mode.
PlugIn(p) ==
    /\ p \notin present
    /\ present' = present \cup {p}
    /\ mode' = [mode EXCEPT ![p] = "auto"]
    /\ rest' = [rest EXCEPT ![p] = "auto"]
    /\ UNCHANGED <<ini, device, lit, marred, defs, pc, place, open, i, frames, worked>>

\* Another program sets the mode of a device nobody holds.
Adjust(p) ==
    /\ p \in present /\ device[p].manual
    /\ pc \in {"down", "idle"}
    /\ \E m \in {"auto", "manual"} :
          /\ mode' = [mode EXCEPT ![p] = m]
          /\ rest' = [rest EXCEPT ![p] = m]
    /\ marred' = marred \ {p}
    /\ UNCHANGED <<ini, device, present, lit, defs, pc, place, open, i, frames, worked>>

DaemonStep ==
    \/ Open \/ TriggerIrEmitter \/ WarmUp \/ Grab \/ Add \/ Average \/ SaveMode \/ Expose
    \/ Merge \/ Return

Next ==
    \/ Boot
    \/ \E kind \in {"enroll", "verify"} : Request(kind)
    \/ Open
    \/ TriggerIrEmitter
    \/ EmitterEnds
    \/ WarmUp
    \/ Grab
    \/ Add
    \/ Average
    \/ SaveMode
    \/ Expose
    \/ Merge
    \/ Return
    \/ Die
    \/ \E p \in Paths : PullOut(p) \/ PlugIn(p) \/ Adjust(p)

Spec == Init /\ [][Next]_vars

\* The daemon is scheduled.  That the helper of the emitter ends is assumed: nothing
\* in the code sees to it.
FairSpec == Spec /\ WF_vars(DaemonStep) /\ WF_vars(EmitterEnds)

-----------------------------------------------------------------------------
(* Properties.                                                              *)

Points == {"down", "idle", "open", "emit", "emitting", "warm", "grab", "add", "manual", "expose",
           "done"}
Modes  == {"auto", "manual"}

\* The states of the devices and of the capture.
CaptureTypeOK ==
    /\ present \subseteq Paths
    /\ mode \in [Paths -> Modes] /\ rest \in [Paths -> Modes] /\ saved \in Modes
    /\ lit \in [Paths -> BOOLEAN]
    /\ marred \subseteq present
    /\ pc \in Points
    /\ request \in {"enroll", "verify"}
    /\ pc \notin {"down", "idle"} => k \in DOMAIN defs
    /\ open => path \in present /\ pc \notin {"down", "idle", "open"}
    /\ open \in BOOLEAN /\ image \in BOOLEAN /\ worked \in BOOLEAN /\ missed \in BOOLEAN
    /\ i \in Nat
    /\ count \in Nat

\* Whatever order the directory is listed in, detection takes the first infrared
\* device and the first other one that were plugged in, and no third; alone, either
\* is mandatory and has no brightness floor.
DetectionIsStable ==
    [][Boot /\ ini.named = <<>> /\ ini.path_ir = NoPath /\ ini.path_rgb = NoPath =>
        LET cameras == {p \in present : device[p].capture}
            ir      == {p \in cameras : device[p].formats \cap {"grey", "color"} = {"grey"}}
            First(S) == {p \in S : \A q \in S : p <= q}
            taken   == {<<defs'[n].path, defs'[n].ir>> : n \in DOMAIN defs'}
        IN /\ taken = (First(ir) \X {TRUE}) \cup (First(cameras \ ir) \X {FALSE})
           /\ Len(defs') = Cardinality(taken)
           /\ \A n \in DOMAIN defs' :
                 Len(defs') = 1 => defs'[n].found.mandatory /\ defs'[n].found.min_brightness = 0
      ]_vars

\* Between captures, and during those that are not HDR, a device is in the mode its
\* user left it in, whatever reads failed or devices came and went, unless the daemon
\* died in an HDR capture from it.
ModeRestored ==
    \A p \in present \ marred : mode[p] # rest[p] => pc = "expose" /\ open /\ path = p

\* Once the helper has switched the emitter on, no unlit frame gets into the image.
LitWhenKept == worked => \A n \in DOMAIN kept : kept[n].lit

\* An image is made of frames of one size, and not of none; an average divides by the
\* number of frames it summed; a merge has no two frames of one exposure.
ImageIsSound ==
    pc = "done" /\ image =>
        /\ kept # <<>>
        /\ OneSize
        /\ plan.method = "averaged" => count = Len(kept)
        /\ plan.method = "hdr" =>
              \A m, n \in DOMAIN kept : kept[m].exposure = kept[n].exposure => m = n

\* A camera that opens and gives every frame yields an image, if any frame is asked for;
\* an average does even when the frames change size, a merge of exposures does not.
GoodCameraYields ==
    pc = "done" /\ ~missed /\ plan.frames > 0 => image \/ (plan.method = "hdr" /\ ~OneSize)

\* Every request comes to an end, though devices are busy, mute or pulled out.
RequestEnds == pc \notin {"down", "idle"} ~> pc \in {"down", "idle"}

\* The frames that make an image, and the steps a camera can still take: attempts to
\* open it, warm-up frames, its frames, and what lies between them.
Reads ==
    CASE plan.method = "single"   -> 1
      [] plan.method = "averaged" -> IF plan.frames > 0 THEN plan.frames ELSE 0
      [] plan.method = "hdr"      -> Exposures

StepsLeft ==
    CASE pc = "open"     -> Attempts - i + Warmup + Reads + 6
      [] pc = "emit"     -> Warmup + Reads + 6
      [] pc = "emitting" -> Warmup + Reads + 5
      [] pc = "warm"     -> Warmup - i + Reads + 4
      [] pc = "grab"     -> 2
      [] pc = "add"      -> Reads - i + 2
      [] pc = "manual"   -> Reads + 3
      [] pc = "expose"   -> Reads - i + 2
      [] pc = "done"     -> 1

\* Whatever fails, comes or goes meanwhile, a request goes through its cameras once,
\* in order, and every step it takes at one of them is one step less to the last.
RequestAdvances ==
    [][\/ pc \in {"down", "idle"} \/ pc' \in {"down", "idle"}
       \/ UNCHANGED <<pc, k, i, defs>>
       \/ k' = k /\ UNCHANGED defs /\ StepsLeft' \in Nat /\ StepsLeft' < StepsLeft
       \/ pc = "done" /\ k' = k + 1 /\ UNCHANGED defs /\ k' \in DOMAIN defs]_vars
=============================================================================
