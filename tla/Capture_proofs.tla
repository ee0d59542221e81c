--------------------------- MODULE Capture_proofs ---------------------------
(***************************************************************************)
(* Proofs about Capture for every number of devices, cameras, warm-up      *)
(* frames and attempts, every configuration and all kinds of devices.      *)
(*                                                                         *)
(* The invariants are stacked.  Sound has the types, and that the cameras  *)
(* of the daemon are a list, however they were configured or detected.     *)
(* ModeInv adds that an HDR capture holds the mode it will put back;       *)
(* FramesInv, that what was kept came from reads behind the open and the   *)
(* emitter; ImageInv, that the averaging loop counted what it summed and   *)
(* that the HDR loop kept at most one frame of each exposure it has        *)
(* passed.                                                                 *)
(***************************************************************************)
EXTENDS Capture, SortedSets, TLAPS

-----------------------------------------------------------------------------
(* The cameras are a list, however they were found.                         *)

\* A camera that may be there is a list of one or none.
LEMMA WhenIsSeq == \A b \in BOOLEAN : \A d, S : d \in S => When(b, <<d>>) \in Seq(S)
    BY DEF When

\* Two lists in a row are one.
LEMMA JoinIsList ==
    ASSUME NEW S, NEW s \in Seq(S), NEW t \in Seq(S)
    PROVE  \E n \in Nat : DOMAIN (s \o t) = 1 .. n
<1>1. s \o t \in Seq(S)
    OBVIOUS
<1>2. DOMAIN (s \o t) = 1 .. Len(s \o t) /\ Len(s \o t) \in Nat
    BY <1>1
<1> QED
    BY <1>2

\* The cameras of the old keys are a list,
LEMMA LegacyIsList ==
    ASSUME NEW c
    PROVE  \E n \in Nat : DOMAIN LegacyDefinitions(c) = 1 .. n
<1> DEFINE d   == Definition("ir", c.path_ir, "ir", 0, TRUE)
           e   == Definition("rgb", c.path_rgb, "rgb", c.min_brightness, FALSE)
           ir  == When(c.path_ir # NoPath, <<d>>)
           rgb == When(c.path_rgb # NoPath, <<e>>)
<1>1. LegacyDefinitions(c) = ir \o rgb
    BY DEF LegacyDefinitions
<1> HIDE DEF d, e
<1>2. ir \in Seq({d, e}) /\ rgb \in Seq({d, e})
    BY WhenIsSeq
<1> HIDE DEF ir, rgb
<1> QED
    BY <1>1, <1>2, JoinIsList

\* and so are those chosen from what was found,
LEMMA ChosenIsList ==
    \A ir, rgb, found : \E n \in Nat : DOMAIN Chosen(ir, rgb, found) = 1 .. n
<1> TAKE ir, rgb, found
<1>1. \/ Chosen(ir, rgb, found) = <<>>
      \/ \E d : Chosen(ir, rgb, found) = <<d>>
      \/ \E d, e : Chosen(ir, rgb, found) = <<d, e>>
  <2>1. CASE found = <<>>
      BY <2>1 DEF Chosen
  <2>2. CASE found # <<>> /\ ir # NoPath /\ rgb # NoPath
      BY <2>2 DEF Chosen
  <2>3. CASE found # <<>> /\ (ir = NoPath \/ rgb = NoPath)
      BY <2>3 DEF Chosen
  <2> QED
      BY <2>1, <2>2, <2>3
<1>2. DOMAIN <<>> = 1 .. 0
    OBVIOUS
<1>3. ASSUME NEW d, NEW e PROVE DOMAIN <<d>> = 1 .. 1 /\ DOMAIN <<d, e>> = 1 .. 2
    OBVIOUS
<1> QED
    BY <1>1, <1>2, <1>3

\* whatever was found.
LEMMA DetectedIsList ==
    ASSUME NEW found, NEW dev
    PROVE  \E n \in Nat : DOMAIN DetectedDefinitions(found, dev) = 1 .. n
    BY ChosenIsList DEF DetectedDefinitions

IsList(s) == s \in Seq({s[n] : n \in DOMAIN s})

\* A function on 1 .. n is a sequence.
LEMMA ListOfDomain ==
    ASSUME NEW s, NEW n \in Nat, s = [x \in 1 .. n |-> s[x]]
    PROVE  IsList(s)
<1> DEFINE S == {s[x] : x \in DOMAIN s}
<1>1. \A x \in 1 .. n : s[x] \in S
    OBVIOUS
<1>2. s \in [1 .. n -> S]
    BY <1>1
<1> HIDE DEF S
<1>3. s \in Seq(S)
    BY <1>2
<1> QED
    BY <1>3 DEF IsList, S

\* A daemon that starts has a list of cameras.
LEMMA BootIsList == Boot /\ ini \in Inis => IsList(defs')
<1> SUFFICES ASSUME Boot, ini \in Inis PROVE IsList(defs')
    OBVIOUS
<1>1. PICK order : LET found == CameraDefinitions(ini, order, device)
                   IN defs' = [n \in DOMAIN found |-> SetUp(found[n])]
    BY DEF Boot
<1>2. \E n \in Nat : DOMAIN CameraDefinitions(ini, order, device) = 1 .. n
  <2>1. CASE ini.named # <<>>
    <3>1. ini.named \in Seq(Range(ini.named))
        BY CaptureAssumption DEF CaptureAssumption
    <3>2. DOMAIN ini.named = 1 .. Len(ini.named) /\ Len(ini.named) \in Nat
        BY <3>1
    <3> QED
        BY <2>1, <3>2 DEF CameraDefinitions
  <2>2. CASE ini.named = <<>> /\ (ini.path_ir # NoPath \/ ini.path_rgb # NoPath)
      BY <2>2, LegacyIsList DEF CameraDefinitions
  <2>3. CASE ini.named = <<>> /\ ~(ini.path_ir # NoPath \/ ini.path_rgb # NoPath)
      BY <2>3, DetectedIsList DEF CameraDefinitions
  <2> QED
      BY <2>1, <2>2, <2>3
<1>3. PICK n \in Nat : DOMAIN CameraDefinitions(ini, order, device) = 1 .. n
    BY <1>2
<1>4. defs' = [x \in 1 .. n |-> defs'[x]]
    BY <1>1, <1>3
<1> QED
    BY <1>4, ListOfDomain

\* There are three ways to take an image.
LEMMA Methods == plan.method \in {"single", "averaged", "hdr"}
<1>1. VerifyPlan.method = "single"
    BY DEF VerifyPlan
<1>2. \A c, d, b : EnrolPlan(c, d, b).method \in {"single", "averaged", "hdr"}
  <2> TAKE c, d, b
  <2>1. CASE Hdr(c, d) \in {"on", "auto"} /\ b
      BY <2>1 DEF EnrolPlan
  <2>2. CASE Hdr(c, d) = "on" /\ ~b
      BY <2>2 DEF EnrolPlan
  <2>3. CASE ~(Hdr(c, d) \in {"on", "auto"} /\ b) /\ ~(Hdr(c, d) = "on" /\ ~b)
      BY <2>3 DEF EnrolPlan
  <2> QED
      BY <2>1, <2>2, <2>3
<1> QED
    BY <1>1, <1>2 DEF plan

-----------------------------------------------------------------------------
(* Detection.                                                               *)

\* What a device is taken for.
LEMMA Classes ==
    ASSUME NEW d \in Devices
    PROVE  /\ ClassifyCameraType(d) = "none" <=> ~d.capture
           /\ ClassifyCameraType(d) = "ir" <=>
                 d.capture /\ d.formats \cap {"grey", "color"} = {"grey"}
           /\ ClassifyCameraType(d) \in {"none", "ir", "rgb", "generic"}
<1>1. d.capture \in BOOLEAN
    BY DEF Devices
<1>2. CASE ~d.capture
    BY <1>2 DEF ClassifyCameraType
<1>3. CASE d.capture /\ "color" \in d.formats
  <2>1. d.formats \cap {"grey", "color"} # {"grey"}
      BY <1>3
  <2> QED
      BY <1>3, <2>1 DEF ClassifyCameraType
<1>4. CASE d.capture /\ "color" \notin d.formats
    BY <1>4 DEF ClassifyCameraType
<1> QED
    BY <1>1, <1>2, <1>3, <1>4

\* Whatever order the directory is listed in, enumerateCameras has the cameras in
\* ascending order.
LEMMA CamerasAreSorted ==
    ASSUME NEW S \in SUBSET Paths, NEW order \in SetToSeqs(S), NEW machines
    PROVE  LET cameras == {p \in S : ClassifyCameraType(machines[p]) # "none"}
               found   == EnumerateCameras(order, machines)
           IN found \in SetToSeqs(cameras) /\ Ascending(found)
<1> DEFINE cameras == {p \in S : ClassifyCameraType(machines[p]) # "none"}
<1>1. Paths \subseteq Nat /\ IsFiniteSet(Paths)
    BY CaptureAssumption DEF CaptureAssumption
<1>2. S \in SUBSET Nat /\ IsFiniteSet(S)
    BY <1>1, FS_Subset
<1>3. cameras \in SUBSET Nat /\ IsFiniteSet(cameras)
    BY <1>2, FS_Subset
<1>4. Range(order) = S
    BY <1>2, EnumerationIsOnto DEF Range
<1>5. cameras = {p \in Range(order) : ClassifyCameraType(machines[p]) # "none"}
    BY <1>4
<1> HIDE DEF cameras
<1>6. \E found \in SetToSeqs(cameras) : Ascending(found)
    BY <1>3, FiniteSetsAreSortable DEF Sortable
<1>7. EnumerateCameras(order, machines) =
        CHOOSE found \in SetToSeqs(cameras) : Ascending(found)
    BY <1>5 DEF EnumerateCameras, Ascending
<1>8. /\ EnumerateCameras(order, machines) \in SetToSeqs(cameras)
      /\ Ascending(EnumerateCameras(order, machines))
    BY <1>6, <1>7
<1> QED
    BY <1>8 DEF cameras

LeastOf(S, p) == p \in S /\ \A q \in S : p <= q

\* The first camera of a type in a sorted list is the least one of the type.
LEMMA FirstIsLeast ==
    ASSUME NEW S \in SUBSET (Nat \ {NoPath}), IsFiniteSet(S), NEW found \in SetToSeqs(S),
           Ascending(found), NEW machines, NEW types
    PROVE  LET mine  == {p \in S : ClassifyCameraType(machines[p]) \in types}
               first == FirstPath(found, machines, types)
           IN IF mine = {} THEN first = NoPath ELSE LeastOf(mine, first)
<1> DEFINE mine == {p \in S : ClassifyCameraType(machines[p]) \in types}
           at   == {n \in DOMAIN found : ClassifyCameraType(machines[found[n]]) \in types}
<1>1. {found[n] : n \in DOMAIN found} = S
    BY EnumerationIsOnto
<1>2. DOMAIN found \subseteq Nat
  <2>1. Cardinality(S) \in Nat
      BY FS_CardinalityType
  <2> QED
      BY <2>1 DEF SetToSeqs
<1>3. \A n \in at : found[n] \in mine
    BY <1>1
<1>4. \A p \in mine : \E n \in at : found[n] = p
    BY <1>1
<1>5. CASE mine = {}
  <2>1. at = {}
      BY <1>3, <1>5
  <2> QED
      BY <2>1, <1>5 DEF FirstPath
<1>6. CASE mine # {}
  <2>1. at # {} /\ at \in SUBSET Nat
      BY <1>2, <1>4, <1>6
  <2>2. Min(at) \in at /\ \A n \in at : Min(at) <= n
      BY <2>1, MinIsLeast
  <2>3. FirstPath(found, machines, types) = found[Min(at)]
      BY <2>1 DEF FirstPath
  <2>4. \A n \in at : found[Min(at)] <= found[n]
    <3> SUFFICES ASSUME NEW n \in at PROVE found[Min(at)] <= found[n]
        OBVIOUS
    <3> HIDE DEF at
    <3>1. Min(at) = n \/ Min(at) < n
      <4>1. Min(at) \in Nat /\ n \in Nat /\ Min(at) <= n
          BY <2>1, <2>2
      <4> QED
          BY <4>1
    <3>2. Min(at) \in DOMAIN found /\ n \in DOMAIN found
        BY <2>2 DEF at
    <3>3. found[n] \in Nat /\ found[Min(at)] \in Nat
        BY <1>1, <3>2
    <3>4. CASE Min(at) = n
        BY <3>3, <3>4
    <3>5. CASE Min(at) < n
      <4>1. found[Min(at)] < found[n]
          BY <3>2, <3>5 DEF Ascending
      <4> QED
          BY <3>3, <4>1
    <3> QED
        BY <3>1, <3>4, <3>5
  <2> HIDE DEF at, mine
  <2>5. LeastOf(mine, found[Min(at)])
      BY <2>2, <2>4, <1>3, <1>4 DEF LeastOf
  <2>6. LeastOf(mine, FirstPath(found, machines, types))
      BY <2>3, <2>5
  <2> QED
      BY <2>6, <1>6, Zenon DEF mine
<1> QED
    BY <1>5, <1>6, Zenon

\* What detection takes: the least camera with an infrared sensor, the least other one.
LEMMA DetectionTakes ==
    ASSUME NEW S \in SUBSET Paths, NEW order \in SetToSeqs(S), NEW machines \in [Paths -> Kinds]
    PROVE  LET cameras == {p \in S : machines[p].capture}
               ir      == {p \in cameras : machines[p].formats \cap {"grey", "color"} = {"grey"}}
               found   == EnumerateCameras(order, machines)
               irp     == FirstPath(found, machines, {"ir"})
               rgbp    == FirstPath(found, machines, {"rgb", "generic"})
           IN /\ IF ir = {} THEN irp = NoPath ELSE LeastOf(ir, irp)
              /\ IF cameras \ ir = {} THEN rgbp = NoPath ELSE LeastOf(cameras \ ir, rgbp)
              /\ found = <<>> <=> cameras = {}
<1> DEFINE cameras == {p \in S : machines[p].capture}
           ir      == {p \in cameras : machines[p].formats \cap {"grey", "color"} = {"grey"}}
           found   == EnumerateCameras(order, machines)
<1>1. /\ Paths \subseteq Nat \ {NoPath} /\ IsFiniteSet(Paths)
      /\ \A p \in S : machines[p] \in Devices
    BY CaptureAssumption DEF CaptureAssumption
<1>2. {p \in S : ClassifyCameraType(machines[p]) # "none"} = cameras
    BY <1>1, Classes
<1>3. found \in SetToSeqs(cameras) /\ Ascending(found)
    BY <1>2, CamerasAreSorted
<1>4. cameras \in SUBSET (Nat \ {NoPath}) /\ IsFiniteSet(cameras)
    BY <1>1, FS_Subset
<1>5. {p \in cameras : ClassifyCameraType(machines[p]) \in {"ir"}} = ir
  <2>1. \A p \in cameras : ClassifyCameraType(machines[p]) = "ir" <=> p \in ir
      BY <1>1, Classes
  <2> QED
      BY <2>1
<1>6. {p \in cameras : ClassifyCameraType(machines[p]) \in {"rgb", "generic"}} = cameras \ ir
  <2>1. \A p \in cameras : ClassifyCameraType(machines[p]) = "ir" <=> p \in ir
      BY <1>1, Classes
  <2>2. \A p \in cameras : ClassifyCameraType(machines[p]) \in {"ir", "rgb", "generic"}
      BY <1>1, Classes
  <2>3. \A p \in cameras : ClassifyCameraType(machines[p]) \in {"rgb", "generic"} <=> p \notin ir
      BY <2>1, <2>2
  <2> QED
      BY <2>3
<1>7. found = <<>> <=> cameras = {}
  <2> HIDE DEF cameras, found
  <2>1. {found[n] : n \in DOMAIN found} = cameras
      BY <1>3, <1>4, EnumerationIsOnto
  <2>2. found = <<>> => cameras = {}
      BY <2>1
  <2>3. ASSUME cameras = {} PROVE found = <<>>
    <3>1. Cardinality(cameras) = 0
        BY <2>3, FS_EmptySet
    <3>2. found \in [1 .. 0 -> {}]
        BY <1>3, <2>3, <3>1 DEF SetToSeqs
    <3> QED
        BY <3>2
  <2> QED
      BY <2>2, <2>3
<1> HIDE DEF cameras, found
<1>8. IF ir = {} THEN FirstPath(found, machines, {"ir"}) = NoPath
      ELSE LeastOf(ir, FirstPath(found, machines, {"ir"}))
    BY <1>3, <1>4, <1>5, FirstIsLeast
<1>9. IF cameras \ ir = {} THEN FirstPath(found, machines, {"rgb", "generic"}) = NoPath
      ELSE LeastOf(cameras \ ir, FirstPath(found, machines, {"rgb", "generic"}))
    BY <1>3, <1>4, <1>6, FirstIsLeast
<1> QED
    BY <1>7, <1>8, <1>9, Zenon DEF cameras, found

-----------------------------------------------------------------------------
(* Types.                                                                   *)

\* Between requests the daemon is at its first camera.
Sound ==
    /\ CaptureTypeOK
    /\ ini \in Inis
    /\ IsList(defs)
    /\ k \in Nat
    /\ pc \in {"down", "idle"} => k = 1

\* A list that is not empty has a first element,
LEMMA FirstOfList == ASSUME NEW s, IsList(s), s # <<>> PROVE 1 \in DOMAIN s
<1> DEFINE S == {s[n] : n \in DOMAIN s}
<1>1. s \in Seq(S)
    BY DEF IsList
<1> HIDE DEF S
<1> QED
    BY <1>1

\* and every element but the last has a next.
LEMMA NextOfList == ASSUME NEW s, IsList(s), NEW n \in DOMAIN s, n < Len(s) PROVE n + 1 \in DOMAIN s
<1> DEFINE S == {s[x] : x \in DOMAIN s}
<1>1. s \in Seq(S)
    BY DEF IsList
<1> HIDE DEF S
<1>2. DOMAIN s = 1 .. Len(s) /\ Len(s) \in Nat
    BY <1>1
<1> QED
    BY <1>2

\* Before the first start no device is open.
LEMMA SoundInit == Init => Sound
<1> SUFFICES ASSUME Init PROVE Sound
    OBVIOUS
<1>1. IsList(<<>>)
    BY DEF IsList
<1>2. 0 \in Nat /\ 1 \in Nat
    OBVIOUS
<1>3. CaptureTypeOK
    BY <1>2, Zenon DEF Init, CaptureTypeOK, Points, Modes
<1> QED
    BY <1>1, <1>2, <1>3, Zenon DEF Init, Sound

\* A read gives nothing, or a frame in the light and the mode the device is in.
LEMMA ReadingFacts ==
    ASSUME NEW frame \in Readings
    PROVE  \/ frame.empty = TRUE
           \/ /\ frame.empty = FALSE
              /\ open
              /\ frame.size \in Sizes
              /\ frame.lit = lit[path]
              /\ frame.exposure = IF mode[path] = "manual" THEN i ELSE -1
<1>1. CASE frame = NoFrame
    BY <1>1 DEF NoFrame
<1>2. CASE frame # NoFrame
  <2> DEFINE e == IF mode[path] = "manual" THEN i ELSE -1
             l == lit[path]
  <2>1. open /\ frame \in [empty : {FALSE}, size : Sizes, lit : {l}, exposure : {e}]
      BY <1>2 DEF Readings
  <2> HIDE DEF e, l
  <2>2. frame.empty = FALSE /\ frame.size \in Sizes /\ frame.lit = l /\ frame.exposure = e
      BY <2>1
  <2> QED
      BY <2>1, <2>2 DEF e, l
<1> QED
    BY <1>1, <1>2

\* Every step keeps the types; the device that is read is one of the list.
LEMMA SoundStep == Sound /\ [Next]_vars => Sound'
<1> SUFFICES ASSUME Sound, [Next]_vars PROVE Sound'
    OBVIOUS
<1> USE DEF Sound, machine, state, place, frames, path, Goto, Forgotten
<1>0. i \in Nat /\ i + 1 \in Nat /\ 0 \in Nat /\ count \in Nat /\ count + 1 \in Nat
    BY DEF CaptureTypeOK
<1>1. CASE Boot
  <2>1. IsList(defs')
      BY <1>1, BootIsList
  <2> QED
      BY <1>1, <2>1 DEF Boot, CaptureTypeOK, Points
<1>2. ASSUME NEW kind \in {"enroll", "verify"}, Request(kind) PROVE Sound'
  <2>1. k = 1 /\ 1 \in DOMAIN defs
      BY <1>2, FirstOfList DEF Request
  <2> QED
      BY <1>2, <2>1 DEF Request, CaptureTypeOK, Points
<1>3. CASE Open
  <2>1. lit' \in [Paths -> BOOLEAN] /\ open' \in BOOLEAN /\ missed' \in BOOLEAN
      BY <1>3, Zenon DEF Open, CaptureTypeOK
  <2>2. pc' \in Points /\ i' \in Nat
      BY <1>0, <1>3 DEF Open, Points
  <2>3. open' => path' \in present' /\ pc' \notin {"down", "idle", "open"}
      BY <1>3 DEF Open, CaptureTypeOK
  <2>4. pc' \notin {"down", "idle"} /\ pc \notin {"down", "idle"}
      BY <1>3 DEF Open
  <2> QED
      BY <1>3, <2>1, <2>2, <2>3, <2>4 DEF Open, CaptureTypeOK
<1>4. CASE TriggerIrEmitter \/ EmitterEnds
    BY <1>0, <1>4 DEF TriggerIrEmitter, EmitterEnds, CaptureTypeOK, Points
<1>5. CASE WarmUp
    BY <1>0, <1>5, Methods DEF WarmUp, CaptureTypeOK, Points
<1>6. CASE Grab \/ Add \/ Average \/ Expose
  <2>1. \A frame \in Readings : frame.empty \in BOOLEAN
      BY ReadingFacts
  <2>2. image' \in BOOLEAN /\ missed' \in BOOLEAN
    <3>1. CASE Grab
        BY <2>1, <3>1 DEF Grab
    <3>2. CASE Add
        BY <2>1, <3>2 DEF Add, CaptureTypeOK
    <3>3. CASE Average
      <4>1. CASE count > 0
          BY <3>3, <4>1 DEF Average, CaptureTypeOK
      <4>2. CASE ~(count > 0)
          BY <3>3, <4>2 DEF Average, CaptureTypeOK
      <4> QED
          BY <4>1, <4>2
    <3>4. CASE Expose
        BY <2>1, <3>4 DEF Expose, CaptureTypeOK
    <3> QED
        BY <1>6, <3>1, <3>2, <3>3, <3>4
  <2>3. count' \in Nat /\ i' \in Nat
      BY <1>0, <1>6 DEF Grab, Add, Average, Expose
  <2>4. pc' \in Points /\ pc' \notin {"down", "idle", "open"} /\ pc \notin {"down", "idle"}
      BY <1>6 DEF Grab, Add, Average, Expose, Points
  <2>5. UNCHANGED <<machine, state, marred, defs, place, open, saved, worked>>
      BY <1>6 DEF Grab, Add, Average, Expose
  <2> QED
      BY <2>2, <2>3, <2>4, <2>5 DEF CaptureTypeOK
<1>7. CASE SaveMode \/ Merge
  <2>1. mode' \in [Paths -> Modes] /\ saved' \in Modes
    <3>1. open => path \in Paths
        BY DEF CaptureTypeOK
    <3>2. open => mode[path] \in Modes
        BY <3>1 DEF CaptureTypeOK
    <3> QED
        BY <1>7, <3>1, <3>2 DEF SaveMode, Merge, SetMode, CaptureTypeOK, Modes
  <2>2. image' \in BOOLEAN
      BY <1>7, Zenon DEF SaveMode, Merge, OneSize, CaptureTypeOK
  <2> QED
      BY <1>0, <1>7, <2>1, <2>2 DEF SaveMode, Merge, CaptureTypeOK, Points
<1>8. CASE Return
  <2>1. k < Len(defs) => k + 1 \in DOMAIN defs
      BY <1>8, NextOfList DEF Return, CaptureTypeOK
  <2>2. k + 1 \in Nat /\ 1 \in Nat
      OBVIOUS
  <2> QED
      BY <1>0, <1>8, <2>1, <2>2 DEF Return, CaptureTypeOK, Points, Modes
<1>9. CASE Die
  <2>1. IsList(<<>>)
      BY DEF IsList
  <2> QED
      BY <1>0, <1>9, <2>1 DEF Die, CaptureTypeOK, Points, Modes
<1>10. ASSUME NEW p \in Paths, PullOut(p) \/ PlugIn(p) \/ Adjust(p) PROVE Sound'
  <2>1. /\ lit' \in [Paths -> BOOLEAN] /\ open' \in BOOLEAN
        /\ present' \subseteq Paths /\ marred' \subseteq present'
      BY <1>10, Zenon DEF PullOut, PlugIn, Adjust, CaptureTypeOK
  <2>2. mode' \in [Paths -> Modes] /\ rest' \in [Paths -> Modes]
      BY <1>10 DEF PullOut, PlugIn, Adjust, CaptureTypeOK, Modes
  <2>3. open' => open /\ path \in present'
      BY <1>10 DEF PullOut, PlugIn, Adjust, CaptureTypeOK
  <2>4. UNCHANGED <<ini, saved, pc, request, k, defs, image, worked, missed, i, count>>
      BY <1>10 DEF PullOut, PlugIn, Adjust
  <2> QED
      BY <2>1, <2>2, <2>3, <2>4 DEF CaptureTypeOK
<1>11. CASE UNCHANGED vars
    BY <1>0, <1>11 DEF vars, CaptureTypeOK
<1> QED
    BY <1>1, <1>2, <1>3, <1>4, <1>5, <1>6, <1>7, <1>8, <1>9, <1>10, <1>11 DEF Next

\* Sound is an invariant.
LEMMA Soundness == Spec => []Sound
    BY SoundInit, SoundStep, PTL DEF Spec

-----------------------------------------------------------------------------
(* The exposure mode.                                                       *)

\* What an HDR capture will restore is the mode somebody else left the device in.
SavedIsRest == pc = "expose" /\ open /\ path \notin marred => saved = rest[path]

ModeInv == ModeRestored /\ SavedIsRest

\* Every device starts in the mode it was left in.
LEMMA ModeInit == Init => ModeInv
    BY DEF Init, ModeInv, ModeRestored, SavedIsRest

\* Only an HDR capture sets a mode, and what it saved is what it restores.
LEMMA ModeStep == Sound /\ ModeInv /\ [Next]_vars => ModeInv'
<1> SUFFICES ASSUME Sound, ModeInv, [Next]_vars PROVE ModeInv'
    OBVIOUS
<1> USE DEF ModeInv, machine, state, place, frames, path, Goto, Forgotten
<1>0. /\ mode \in [Paths -> Modes] /\ rest \in [Paths -> Modes] /\ present \subseteq Paths
      /\ open => path \in present /\ pc \notin {"down", "idle", "open"}
    BY DEF Sound, CaptureTypeOK
<1>1. CASE /\ UNCHANGED <<mode, rest, present, marred>>
           /\ pc # "expose" /\ pc' # "expose"
    BY <1>1 DEF ModeRestored, SavedIsRest
<1>2. CASE Boot \/ \E kind \in {"enroll", "verify"} : Request(kind)
    BY <1>1, <1>2 DEF Boot, Request
<1>3. CASE Open \/ TriggerIrEmitter \/ EmitterEnds \/ Grab \/ Add \/ Average \/ Return
    BY <1>1, <1>3 DEF Open, TriggerIrEmitter, EmitterEnds, Grab, Add, Average, Return
<1>4. CASE WarmUp
    BY <1>1, <1>4, Methods DEF WarmUp
<1>5. CASE SaveMode
  <2>1. CASE open
    <3>1. path \notin marred => mode[path] = rest[path]
        BY <1>0, <1>5, <2>1 DEF SaveMode, ModeRestored
    <3>2. \A p \in present : p # path => mode'[p] = mode[p]
        BY <1>0, <1>5 DEF SaveMode, SetMode
    <3> QED
        BY <1>0, <1>5, <2>1, <3>1, <3>2 DEF SaveMode, ModeRestored, SavedIsRest
  <2>2. CASE ~open
      BY <1>5, <2>2 DEF SaveMode, SetMode, ModeRestored, SavedIsRest
  <2> QED
      BY <2>1, <2>2
<1>6. CASE Expose \/ UNCHANGED vars
    BY <1>6 DEF Expose, vars, ModeRestored, SavedIsRest
<1>7. CASE Merge
  <2>1. CASE open
    <3>1. path \in present /\ mode'[path] = saved /\ \A p \in present : p # path => mode'[p] = mode[p]
        BY <1>0, <1>7, <2>1 DEF Merge, SetMode
    <3> QED
        BY <1>7, <2>1, <3>1 DEF Merge, ModeRestored, SavedIsRest
  <2>2. CASE ~open
      BY <1>7, <2>2 DEF Merge, SetMode, ModeRestored, SavedIsRest
  <2> QED
      BY <2>1, <2>2
<1>8. CASE Die
    BY <1>8 DEF Die, ModeRestored, SavedIsRest
<1>9. ASSUME NEW p \in Paths, PullOut(p) PROVE ModeInv'
    BY <1>0, <1>9 DEF PullOut, ModeRestored, SavedIsRest
<1>10. ASSUME NEW p \in Paths, PlugIn(p) PROVE ModeInv'
    BY <1>0, <1>10 DEF PlugIn, ModeRestored, SavedIsRest
<1>11. ASSUME NEW p \in Paths, Adjust(p) PROVE ModeInv'
    BY <1>0, <1>11 DEF Adjust, ModeRestored, SavedIsRest
<1> QED
    BY <1>2, <1>3, <1>4, <1>5, <1>6, <1>7, <1>8, <1>9, <1>10, <1>11 DEF Next

-----------------------------------------------------------------------------
(* The frames.                                                              *)

\* Until a capture reads, it has nothing; then it has frames, lit ones once the helper
\* has switched the emitter on.
Shots   == {f \in [empty : {FALSE}, size : Sizes, lit : BOOLEAN, exposure : Int] :
              worked => f.lit}
Before  == {"down", "idle", "open", "emit", "emitting"}
Nothing == Before \cup {"warm", "grab", "manual"}

FramesInv ==
    /\ kept \in Seq(Shots)
    /\ last.empty \in BOOLEAN
    /\ ~last.empty => last \in Shots
    /\ worked /\ open => lit[path]
    /\ pc \in Before => ~worked
    /\ pc \in Nothing => kept = <<>> /\ last = NoFrame

\* A capture starts with no frames.
LEMMA EmptyIsSeq == \A S : <<>> \in Seq(S)
    OBVIOUS

\* Before the first capture there is no frame.
LEMMA FramesInit == Init => FramesInv
    BY EmptyIsSeq DEF Init, FramesInv, NoFrame, Nothing, Before

\* What a read gives is a frame of the kind that is kept.
LEMMA ReadingIsShot ==
    ASSUME Sound, FramesInv, NEW frame \in Readings
    PROVE  /\ frame.empty \in BOOLEAN
           /\ ~frame.empty => frame \in Shots
<1>1. frame.empty \in BOOLEAN
    BY ReadingFacts
<1>2. ASSUME ~frame.empty PROVE frame \in Shots
  <2> DEFINE e == IF mode[path] = "manual" THEN i ELSE -1
             l == lit[path]
  <2>1. open /\ frame \in [empty : {FALSE}, size : Sizes, lit : {l}, exposure : {e}]
    <3>1. frame # NoFrame
        BY <1>2 DEF NoFrame
    <3> QED
        BY <3>1 DEF Readings
  <2>2. l \in BOOLEAN /\ (worked => l)
      BY <2>1 DEF Sound, CaptureTypeOK, FramesInv
  <2>3. e \in Int
      BY DEF Sound, CaptureTypeOK
  <2> HIDE DEF e, l
  <2> QED
      BY <2>1, <2>2, <2>3 DEF Shots
<1> QED
    BY <1>1, <1>2

\* A frame is appended to those kept, or not.
LEMMA KeptMore ==
    ASSUME NEW S, NEW s \in Seq(S), NEW b \in BOOLEAN, NEW f, b => f \in S
    PROVE  /\ s \o When(b, <<f>>) \in Seq(S)
           /\ b => s \o When(b, <<f>>) = Append(s, f)
           /\ ~b => s \o When(b, <<f>>) = s
<1>1. CASE b
  <2>1. When(b, <<f>>) = <<f>>
      BY <1>1 DEF When
  <2>2. s \o <<f>> = Append(s, f) /\ Append(s, f) \in Seq(S)
      BY <1>1
  <2> QED
      BY <1>1, <2>1, <2>2
<1>2. CASE ~b
  <2>1. When(b, <<f>>) = <<>>
      BY <1>2 DEF When
  <2>2. s \o <<>> = s
      OBVIOUS
  <2> QED
      BY <1>2, <2>1, <2>2
<1> QED
    BY <1>1, <1>2

\* Every step keeps the frames as they should be: only reads add one.
LEMMA FramesStep == Sound /\ FramesInv /\ [Next]_vars => FramesInv'
<1> SUFFICES ASSUME Sound, FramesInv, [Next]_vars PROVE FramesInv'
    OBVIOUS
<1> USE DEF machine, state, place, frames, path, Goto, Nothing, Before
<1>0. open => path \in Paths /\ path \in present /\ pc \notin {"down", "idle", "open"}
    BY DEF Sound, CaptureTypeOK
<1>a. lit \in [Paths -> BOOLEAN]
    BY DEF Sound, CaptureTypeOK
<1>b. ASSUME UNCHANGED <<kept, last, worked>>, pc' \in Nothing => pc \in Nothing,
             pc' \in Before => pc \in Before, worked /\ open' => lit'[path']
      PROVE  FramesInv'
  <2>1. Shots' = Shots
      BY <1>b DEF Shots
  <2> QED
      BY <1>b, <2>1 DEF FramesInv
<1>c. ASSUME kept' = <<>>, last' = NoFrame, ~worked' PROVE FramesInv'
    BY <1>c, EmptyIsSeq DEF FramesInv, NoFrame
<1>1. CASE Boot \/ \E kind \in {"enroll", "verify"} : Request(kind)
    BY <1>1, <1>b DEF Boot, Request, FramesInv
<1>2. CASE Open
    BY <1>2, <1>b DEF Open, FramesInv
<1>3. CASE TriggerIrEmitter
    BY <1>3, <1>b DEF TriggerIrEmitter, FramesInv
<1>4. CASE EmitterEnds
  <2>1. kept' = <<>> /\ last' = NoFrame
      BY <1>4 DEF EmitterEnds, FramesInv
  <2>2. worked' /\ open' => lit'[path']
      BY <1>0, <1>4, <1>a DEF EmitterEnds
  <2> QED
      BY <1>4, <2>1, <2>2, EmptyIsSeq DEF EmitterEnds, FramesInv, NoFrame
<1>5. CASE WarmUp
    BY <1>5, <1>b, Methods DEF WarmUp, FramesInv
<1>6. CASE Grab \/ Add \/ Expose
  <2>1. PICK frame \in Readings, b \in BOOLEAN :
          /\ kept' = kept \o When(b, <<frame>>)
          /\ b => ~frame.empty
          /\ last' = frame
    <3>1. CASE Grab
      <4>1. PICK frame \in Readings : kept' = When(~frame.empty, <<frame>>) /\ last' = frame
          BY <3>1 DEF Grab
      <4>2. kept = <<>>
          BY <3>1 DEF Grab, FramesInv
      <4>3. kept \o When(~frame.empty, <<frame>>) = When(~frame.empty, <<frame>>)
          BY <4>2 DEF When
      <4> QED
          BY <4>1, <4>3
    <3>2. CASE Add
      <4>1. PICK frame \in Readings :
              /\ kept' = kept \o When(~frame.empty /\ (count = 0 \/ frame.size = kept[1].size), <<frame>>)
              /\ last' = frame
          BY <3>2 DEF Add
      <4> QED
          BY <4>1
    <3>3. CASE Expose
        BY <3>3 DEF Expose
    <3> QED
        BY <1>6, <3>1, <3>2, <3>3
  <2>2. frame.empty \in BOOLEAN /\ (~frame.empty => frame \in Shots)
      BY ReadingIsShot
  <2>3. UNCHANGED <<worked, lit, open, k, defs>> /\ pc' \notin Nothing
      BY <1>6 DEF Grab, Add, Expose
  <2>4. Shots' = Shots
      BY <2>3 DEF Shots
  <2>5. kept' \in Seq(Shots)
      BY <2>1, <2>2, KeptMore DEF FramesInv
  <2> QED
      BY <2>1, <2>2, <2>3, <2>4, <2>5 DEF FramesInv
<1>7. CASE Average \/ SaveMode
    BY <1>7, <1>b DEF Average, SaveMode, FramesInv
<1>8. CASE Merge
  <2>1. kept' \in Seq(Shots)
    <3>1. When(~last.empty, <<last>>) \in Seq(Shots)
        BY WhenIsSeq, EmptyIsSeq DEF FramesInv, When
    <3> QED
        BY <1>8, <3>1 DEF Merge, FramesInv
  <2>2. UNCHANGED <<worked, lit, open, k, defs, last>> /\ pc' \notin Nothing
      BY <1>8 DEF Merge
  <2>3. Shots' = Shots
      BY <2>2 DEF Shots
  <2> QED
      BY <2>1, <2>2, <2>3 DEF FramesInv
<1>9. CASE Return \/ Die
    BY <1>9, <1>c DEF Return, Die, Forgotten
<1>10. ASSUME NEW p \in Paths, PullOut(p) \/ PlugIn(p) \/ Adjust(p) PROVE FramesInv'
  <2>1. UNCHANGED <<kept, last, worked, pc, k, defs>>
      BY <1>10 DEF PullOut, PlugIn, Adjust
  <2>2. worked /\ open' => lit'[path']
      BY <1>10, <1>0, <1>a DEF PullOut, PlugIn, Adjust, FramesInv
  <2> QED
      BY <1>b, <2>1, <2>2
<1>11. CASE UNCHANGED vars
    BY <1>11, <1>b DEF vars, FramesInv
<1> QED
    BY <1>1, <1>2, <1>3, <1>4, <1>5, <1>6, <1>7, <1>8, <1>9, <1>10, <1>11 DEF Next

-----------------------------------------------------------------------------
(* The image.                                                               *)

\* The averaging loop has summed what it counted, all of one size; the HDR loop has at
\* most one frame of each exposure it is past.
Averaging ==
    pc = "add" =>
        /\ plan.method = "averaged"
        /\ count = Len(kept)
        /\ OneSize

Bracketing ==
    /\ pc \in {"manual", "expose"} => plan.method = "hdr"
    /\ pc = "expose" /\ open => mode[path] = "manual"
    /\ pc = "expose" => \A n \in DOMAIN kept : kept[n].exposure < i
    /\ pc = "expose" =>
          \A m, n \in DOMAIN kept : kept[m].exposure = kept[n].exposure => m = n

ImageInv ==
    /\ Averaging
    /\ Bracketing
    /\ pc = "grab" => plan.method = "single"
    /\ pc \in Nothing => count = 0 /\ ~image
    /\ ImageIsSound

\* Before the first capture there is no image.
LEMMA ImageInit == Init => ImageInv
    BY DEF Init, ImageInv, Averaging, Bracketing, ImageIsSound, OneSize

\* A sequence with an element more.
LEMMA OneMore ==
    ASSUME NEW S, NEW s \in Seq(S), NEW f \in S
    PROVE  /\ Len(Append(s, f)) = Len(s) + 1
           /\ DOMAIN s = 1 .. Len(s) /\ Len(s) \in Nat
           /\ DOMAIN Append(s, f) = 1 .. Len(s) + 1
           /\ \A n \in 1 .. Len(s) : Append(s, f)[n] = s[n]
           /\ Append(s, f)[Len(s) + 1] = f
    OBVIOUS

\* Joining one element is appending it.
LEMMA Appended == ASSUME NEW S, NEW s \in Seq(S), NEW f \in S PROVE s \o <<f>> = Append(s, f)
    OBVIOUS

\* A frame is summed and counted, or neither.
LEMMA AverageMore == Sound /\ FramesInv /\ ImageInv /\ Add => ImageInv'
<1> SUFFICES ASSUME Sound, FramesInv, ImageInv, Add PROVE ImageInv'
    OBVIOUS
<1> DEFINE fits(frame) == ~frame.empty /\ (count = 0 \/ frame.size = kept[1].size)
<1>1. PICK frame \in Readings :
        /\ kept' = kept \o When(fits(frame), <<frame>>)
        /\ count' = IF fits(frame) THEN count + 1 ELSE count
    BY DEF Add
<1>2. /\ pc = "add" /\ pc' = "add"
      /\ UNCHANGED <<ini, request, k, defs>>
    BY DEF Add, machine, place
<1>3. plan' = plan
    BY <1>2 DEF plan
<1>4. frame.empty \in BOOLEAN /\ (~frame.empty => frame \in Shots) /\ kept \in Seq(Shots)
    BY ReadingIsShot DEF FramesInv
<1>5. fits(frame) \in BOOLEAN
    BY <1>4
<1>6. CASE fits(frame)
  <2>1. kept' = Append(kept, frame) /\ count' = count + 1
    <3>1. frame \in Shots
        BY <1>4, <1>6
    <3> HIDE DEF fits
    <3>2. kept \o When(fits(frame), <<frame>>) = Append(kept, frame)
      <4>1. When(fits(frame), <<frame>>) = <<frame>>
          BY <1>6 DEF When
      <4> QED
          BY <1>4, <3>1, <4>1, Appended
    <3> QED
        BY <1>1, <1>6, <3>2
  <2>2. count = Len(kept) /\ \A n \in DOMAIN kept : kept[n].size = kept[1].size
      BY <1>2 DEF ImageInv, Averaging, OneSize
  <2>3. frame \in Shots /\ (count = 0 \/ frame.size = kept[1].size)
      BY <1>4, <1>6
  <2> HIDE DEF fits
  <2>4. /\ Len(kept') = Len(kept) + 1 /\ Len(kept) \in Nat
        /\ DOMAIN kept = 1 .. Len(kept) /\ DOMAIN kept' = 1 .. Len(kept) + 1
        /\ \A n \in 1 .. Len(kept) : kept'[n] = kept[n]
        /\ kept'[Len(kept) + 1] = frame
      BY <1>4, <2>1, <2>3, OneMore
  <2>5. \A n \in DOMAIN kept' : kept'[n].size = kept'[1].size
    <3>1. CASE Len(kept) = 0
        BY <2>4, <3>1
    <3>2. CASE Len(kept) # 0
      <4>1. 1 \in 1 .. Len(kept)
          BY <2>4, <3>2
      <4>2. frame.size = kept[1].size
          BY <2>2, <2>3, <3>2
      <4>3. ASSUME NEW n \in 1 .. Len(kept) + 1 PROVE kept'[n].size = kept'[1].size
        <5>1. CASE n = Len(kept) + 1
            BY <2>4, <4>1, <4>2, <5>1
        <5>2. CASE n # Len(kept) + 1
          <6>1. n \in 1 .. Len(kept)
              BY <2>4, <5>2
          <6> QED
              BY <2>2, <2>4, <4>1, <6>1
        <5> QED
            BY <5>1, <5>2
      <4> QED
          BY <2>4, <4>3
    <3> QED
        BY <3>1, <3>2
  <2> QED
      BY <1>2, <1>3, <2>1, <2>2, <2>4, <2>5
      DEF ImageInv, Averaging, Bracketing, ImageIsSound, OneSize, Nothing, Before
<1>7. CASE ~fits(frame)
  <2>1. kept' = kept /\ count' = count
      BY <1>1, <1>4, <1>5, <1>7, KeptMore
  <2> HIDE DEF fits
  <2> QED
      BY <1>2, <1>3, <2>1 DEF ImageInv, Averaging, Bracketing, ImageIsSound, OneSize, Nothing, Before
<1> QED
    BY <1>6, <1>7

\* A frame of the next exposure is kept, or none.
LEMMA ExposeMore == Sound /\ FramesInv /\ ImageInv /\ Expose => ImageInv'
<1> SUFFICES ASSUME Sound, FramesInv, ImageInv, Expose PROVE ImageInv'
    OBVIOUS
<1>1. PICK frame \in Readings : kept' = kept \o When(~frame.empty, <<frame>>)
    BY DEF Expose
<1>2. /\ pc = "expose" /\ pc' = "expose" /\ i' = i + 1 /\ i \in Nat
      /\ UNCHANGED <<ini, request, k, defs, mode, open>>
    BY DEF Expose, machine, place, state, Sound, CaptureTypeOK
<1>3. plan' = plan /\ path' = path
    BY <1>2 DEF plan, path
<1>4. frame.empty \in BOOLEAN /\ (~frame.empty => frame \in Shots) /\ kept \in Seq(Shots)
    BY ReadingIsShot DEF FramesInv
<1>5. \A n \in DOMAIN kept : kept[n].exposure \in Int
  <2>1. \A n \in DOMAIN kept : kept[n] \in Shots
      BY <1>4
  <2> QED
      BY <2>1 DEF Shots
<1>6. \A n \in DOMAIN kept : kept[n].exposure < i
    BY <1>2 DEF ImageInv, Bracketing
<1>7. \A m, n \in DOMAIN kept : kept[m].exposure = kept[n].exposure => m = n
    BY <1>2 DEF ImageInv, Bracketing
<1>8. /\ \A n \in DOMAIN kept' : kept'[n].exposure < i + 1
      /\ \A m, n \in DOMAIN kept' : kept'[m].exposure = kept'[n].exposure => m = n
  <2>1. CASE frame.empty
    <3>1. kept' = kept
        BY <1>1, <1>4, <2>1, KeptMore
    <3> QED
        BY <1>2, <1>5, <1>6, <1>7, <3>1
  <2>3. ~frame.empty => kept' = Append(kept, frame) /\ frame \in Shots
    <3> SUFFICES ASSUME ~frame.empty PROVE kept' = Append(kept, frame) /\ frame \in Shots
        OBVIOUS
    <3>1. frame \in Shots /\ ~frame.empty
        BY <1>4
    <3>2. kept \o When(~frame.empty, <<frame>>) = Append(kept, frame)
      <4>1. When(~frame.empty, <<frame>>) = <<frame>>
          BY <3>1 DEF When
      <4> QED
          BY <1>4, <3>1, <4>1, Appended
    <3> QED
        BY <1>1, <3>1, <3>2
  <2>2. CASE ~frame.empty
    <3>1. kept' = Append(kept, frame) /\ frame \in Shots
        BY <2>2, <2>3
    <3>2. frame.exposure = i
        BY <1>2, <2>2, ReadingFacts DEF ImageInv, Bracketing
    <3>3. /\ Len(kept) \in Nat
          /\ DOMAIN kept = 1 .. Len(kept) /\ DOMAIN kept' = 1 .. Len(kept) + 1
          /\ \A n \in 1 .. Len(kept) : kept'[n] = kept[n]
          /\ kept'[Len(kept) + 1] = frame
        BY <1>4, <3>1, OneMore
    <3>4. \A n \in DOMAIN kept' : n = Len(kept) + 1 \/ n \in DOMAIN kept
        BY <3>3
    <3> QED
        BY <1>2, <1>5, <1>6, <1>7, <3>2, <3>3, <3>4
  <2> QED
      BY <1>4, <2>1, <2>2
<1> QED
    BY <1>2, <1>3, <1>8 DEF ImageInv, Averaging, Bracketing, ImageIsSound, OneSize, Nothing, Before

\* Every step keeps the image sound; Average and Merge make it of what was kept.
LEMMA ImageStep == Sound /\ FramesInv /\ ImageInv /\ [Next]_vars => ImageInv'
<1> SUFFICES ASSUME Sound, FramesInv, ImageInv, [Next]_vars PROVE ImageInv'
    OBVIOUS
<1> USE DEF machine, state, place, frames, Goto, Nothing, Before
<1>a. ASSUME pc' \in Nothing \cup {"done"}, pc' = "grab" => plan'.method = "single",
             pc' = "manual" => plan'.method = "hdr",
             count' = 0 /\ ~image'
      PROVE  ImageInv'
    BY <1>a DEF ImageInv, Averaging, Bracketing, ImageIsSound, OneSize
<1>b. UNCHANGED <<ini, request, k, defs>> => plan' = plan /\ path' = path
    BY DEF plan, path
<1>1. CASE Boot \/ \E kind \in {"enroll", "verify"} : Request(kind)
    BY <1>1, <1>a DEF Boot, Request, ImageInv
<1>2. CASE Open
    BY <1>2, <1>a DEF Open, ImageInv
<1>3. CASE TriggerIrEmitter \/ EmitterEnds
    BY <1>3, <1>a DEF TriggerIrEmitter, EmitterEnds, ImageInv
<1>4. CASE WarmUp
  <2>1. plan' = plan /\ UNCHANGED <<kept, count, image, mode, open, k, defs>> /\ pc = "warm"
      BY <1>4, <1>b DEF WarmUp
  <2>2. count = 0 /\ kept = <<>> /\ ~image
      BY <2>1 DEF ImageInv, FramesInv
  <2>3. CASE pc' # "add"
      BY <1>4, <1>a, <2>1, <2>2, <2>3, Methods DEF WarmUp
  <2>4. CASE pc' = "add"
    <3>1. plan.method = "averaged"
        BY <1>4, <2>1, <2>4, Methods DEF WarmUp
    <3>2. Len(kept') = 0 /\ DOMAIN kept' = {}
        BY <2>1, <2>2
    <3> QED
        BY <2>1, <2>2, <2>4, <3>1, <3>2 DEF ImageInv, Averaging, Bracketing, ImageIsSound, OneSize
  <2> QED
      BY <2>3, <2>4
<1>5. CASE Grab
  <2>1. PICK frame \in Readings : kept' = When(~frame.empty, <<frame>>) /\ image' = ~frame.empty
      BY <1>5 DEF Grab
  <2>2. image' => kept' # <<>> /\ OneSize'
    <3>1. image' => ~frame.empty
        BY <2>1, Zenon
    <3>2. ~frame.empty => kept' = <<frame>>
        BY <2>1 DEF When
    <3>3. kept' = <<frame>> => kept' # <<>> /\ DOMAIN kept' = {1}
        OBVIOUS
    <3> QED
        BY <3>1, <3>2, <3>3 DEF OneSize
  <2>3. pc' = "done" /\ plan' = plan /\ plan.method = "single"
      BY <1>5, <1>b DEF Grab, ImageInv
  <2> QED
      BY <2>2, <2>3 DEF ImageInv, Averaging, Bracketing, ImageIsSound, OneSize
<1>6. CASE Add
    BY <1>6, AverageMore
<1>7. CASE Average
  <2>1. pc = "add" /\ pc' = "done" /\ plan' = plan /\ UNCHANGED <<kept, count>> /\ image' = (count > 0)
      BY <1>7, <1>b DEF Average
  <2>2. count = Len(kept) /\ plan.method = "averaged" /\ OneSize'
      BY <2>1 DEF ImageInv, Averaging, OneSize
  <2>3. image' => kept # <<>>
    <3>1. kept = <<>> => Len(kept) = 0
        OBVIOUS
    <3>2. count > 0 => kept # <<>>
        BY <2>2, <3>1
    <3>3. image' => count > 0
        BY <2>1, Zenon
    <3> QED
        BY <3>2, <3>3
  <2> QED
      BY <2>1, <2>2, <2>3 DEF ImageInv, Averaging, Bracketing, ImageIsSound, OneSize
<1>8. CASE SaveMode
  <2>1. /\ pc = "manual" /\ pc' = "expose" /\ plan' = plan /\ path' = path
        /\ UNCHANGED <<kept, count, image, open>>
      BY <1>8, <1>b DEF SaveMode
  <2>2. DOMAIN kept = {} /\ plan.method = "hdr"
      BY <2>1 DEF ImageInv, Bracketing, FramesInv
  <2>3. open => mode'[path] = "manual"
      BY <1>8 DEF SaveMode, SetMode, Sound, CaptureTypeOK
  <2> QED
      BY <2>1, <2>2, <2>3 DEF ImageInv, Averaging, Bracketing, ImageIsSound, OneSize
<1>9. CASE Expose
    BY <1>9, ExposeMore
<1>10. CASE Merge
  <2>1. pc = "expose" /\ pc' = "done" /\ plan' = plan /\ plan.method = "hdr"
      BY <1>10, <1>b DEF Merge, ImageInv, Bracketing
  <2>2. \A m, n \in DOMAIN kept : kept[m].exposure = kept[n].exposure => m = n
      BY <2>1 DEF ImageInv, Bracketing
  <2>3. /\ image' => kept' # <<>> /\ OneSize'
        /\ \A m, n \in DOMAIN kept' : kept'[m].exposure = kept'[n].exposure => m = n
    <3>1. CASE Len(kept) >= 2 /\ kept' = kept /\ image' = OneSize
        BY <2>2, <3>1 DEF OneSize
    <3>2. CASE image' = ~last.empty /\ kept' = When(~last.empty, <<last>>)
      <4>1. CASE last.empty
        <5>1. kept' = <<>> /\ ~image'
            BY <3>2, <4>1 DEF When, FramesInv
        <5>2. DOMAIN kept' = {}
            BY <5>1
        <5> QED
            BY <5>1, <5>2
      <4>2. CASE ~last.empty
        <5>1. kept' = <<last>>
            BY <3>2, <4>2 DEF When
        <5>2. DOMAIN kept' = {1} /\ kept' # <<>>
            BY <5>1
        <5> QED
            BY <5>2 DEF OneSize
      <4> QED
          BY <4>1, <4>2
    <3> QED
        BY <1>10, <3>1, <3>2 DEF Merge
  <2> QED
      BY <2>1, <2>3 DEF ImageInv, Averaging, Bracketing, ImageIsSound, OneSize
<1>11. CASE Return \/ Die
    BY <1>11, <1>a DEF Return, Die, Forgotten
<1>12. ASSUME NEW p \in Paths, PullOut(p) \/ PlugIn(p) \/ Adjust(p) PROVE ImageInv'
  <2>1. UNCHANGED <<ini, request, k, defs, pc, i, kept, count, image>>
      BY <1>12 DEF PullOut, PlugIn, Adjust
  <2>2. pc = "expose" /\ open' => open /\ mode'[path] = mode[path]
      BY <1>12 DEF PullOut, PlugIn, Adjust, Sound, CaptureTypeOK
  <2> QED
      BY <1>b, <2>1, <2>2 DEF ImageInv, Averaging, Bracketing, ImageIsSound, OneSize
<1>13. CASE UNCHANGED vars
    BY <1>13, <1>b DEF vars, ImageInv, Averaging, Bracketing, ImageIsSound, OneSize
<1> QED
    BY <1>1, <1>2, <1>3, <1>4, <1>5, <1>6, <1>7, <1>8, <1>9, <1>10, <1>11, <1>12, <1>13 DEF Next

-----------------------------------------------------------------------------
(* The yield.                                                               *)

\* The cameras of the daemon ask for a number of frames.
Numbered == \A n \in DOMAIN defs : defs[n].found.frames \in Int

\* As long as no read was missed, a loop that has started has a frame of every pass.
YieldInv ==
    /\ Numbered
    /\ pc = "add" /\ ~missed /\ i > 0 => count > 0
    /\ pc = "expose" /\ ~missed => Len(kept) = i
    /\ GoodCameraYields

\* The numbers in a list of cameras.
AllNumbered(s) == \A n \in DOMAIN s : s[n].frames \in Int

\* Only a camera with a section of its own has a number of its own.
LEMMA NothingConfigured == \A id, p, t, b, m : Definition(id, p, t, b, m).frames = 0
    BY DEF Definition

\* The cameras of the old keys have none,
LEMMA LegacyNumbered == ASSUME NEW c PROVE AllNumbered(LegacyDefinitions(c))
<1> DEFINE d   == Definition("ir", c.path_ir, "ir", 0, TRUE)
           e   == Definition("rgb", c.path_rgb, "rgb", c.min_brightness, FALSE)
           D   == {d, e}
           ir  == When(c.path_ir # NoPath, <<d>>)
           rgb == When(c.path_rgb # NoPath, <<e>>)
           s   == LegacyDefinitions(c)
<1>1. \A f \in D : f.frames \in Int
  <2>1. d.frames = 0 /\ e.frames = 0
      BY NothingConfigured
  <2> HIDE DEF d, e
  <2> QED
      BY <2>1
<1>2. s = ir \o rgb
    BY DEF LegacyDefinitions
<1>3. d \in D /\ e \in D
    OBVIOUS
<1> HIDE DEF d, e, D, s
<1>4. ir \in Seq(D) /\ rgb \in Seq(D)
    BY <1>3, WhenIsSeq
<1> HIDE DEF ir, rgb
<1>5. s \in Seq(D)
    BY <1>2, <1>4
<1>6. \A n \in DOMAIN s : s[n] \in D
    BY <1>5
<1> QED
    BY <1>1, <1>6 DEF AllNumbered, s

\* nor have those that were found.
LEMMA ChosenNumbered == \A ir, rgb, found : AllNumbered(Chosen(ir, rgb, found))
<1> TAKE ir, rgb, found
<1> DEFINE D == {f \in {Definition("ir", ir, "ir", 0, TRUE), Definition("rgb", rgb, "rgb", 40, FALSE),
                        Definition("rgb", rgb, "rgb", 0, TRUE),
                        Definition("cam0", found[1], "generic", 0, TRUE)} : f.frames = 0}
<1>1. /\ Definition("ir", ir, "ir", 0, TRUE) \in D
      /\ Definition("rgb", rgb, "rgb", 40, FALSE) \in D
      /\ Definition("rgb", rgb, "rgb", 0, TRUE) \in D
      /\ Definition("cam0", found[1], "generic", 0, TRUE) \in D
    BY NothingConfigured
<1>2. \A f \in D : f.frames = 0
    OBVIOUS
<1> HIDE DEF D
<1>3. \/ Chosen(ir, rgb, found) = <<>>
      \/ Chosen(ir, rgb, found) = <<Definition("ir", ir, "ir", 0, TRUE),
                                    Definition("rgb", rgb, "rgb", 40, FALSE)>>
      \/ Chosen(ir, rgb, found) = <<Definition("rgb", rgb, "rgb", 0, TRUE)>>
      \/ Chosen(ir, rgb, found) = <<Definition("ir", ir, "ir", 0, TRUE)>>
      \/ Chosen(ir, rgb, found) = <<Definition("cam0", found[1], "generic", 0, TRUE)>>
  <2>1. CASE found = <<>>
      BY <2>1 DEF Chosen
  <2>2. CASE found # <<>> /\ ir # NoPath /\ rgb # NoPath
      BY <2>2 DEF Chosen
  <2>3. CASE found # <<>> /\ ir = NoPath /\ rgb # NoPath
      BY <2>3 DEF Chosen
  <2>4. CASE found # <<>> /\ ir # NoPath /\ rgb = NoPath
      BY <2>4 DEF Chosen
  <2>5. CASE found # <<>> /\ ir = NoPath /\ rgb = NoPath
      BY <2>5 DEF Chosen
  <2> QED
      BY <2>1, <2>2, <2>3, <2>4, <2>5
<1>4. \/ Chosen(ir, rgb, found) = <<>>
      \/ \E d \in D : Chosen(ir, rgb, found) = <<d>>
      \/ \E d, e \in D : Chosen(ir, rgb, found) = <<d, e>>
    BY <1>1, <1>3
<1> QED
    BY <1>2, <1>4 DEF AllNumbered

\* However they were configured or detected, the cameras ask for a number of frames.
LEMMA CamerasNumbered ==
    ASSUME NEW c \in Inis, NEW order, NEW machines
    PROVE  AllNumbered(CameraDefinitions(c, order, machines))
<1>1. AllNumbered(c.named)
    BY CaptureAssumption DEF CaptureAssumption, AllNumbered
<1> QED
    BY <1>1, LegacyNumbered, ChosenNumbered DEF CameraDefinitions, DetectedDefinitions

\* And so does a request.
LEMMA PlanNumbered == Sound /\ Numbered /\ pc \notin {"down", "idle"} => plan.frames \in Int
<1> SUFFICES ASSUME Sound, Numbered, pc \notin {"down", "idle"} PROVE plan.frames \in Int
    OBVIOUS
<1>1. AverageFrames \in Int /\ ini.frames \in Int
    BY CaptureAssumption DEF CaptureAssumption, Sound
<1>2. defs[k].found.frames \in Int
    BY DEF Sound, CaptureTypeOK, Numbered
<1>3. Frames(ini, defs[k].found) \in Int
    BY <1>1, <1>2 DEF Frames
<1>4. VerifyPlan.frames \in Int
    BY DEF VerifyPlan
<1>5. EnrolPlan(ini, defs[k].found, defs[k].supports).frames \in Int
    BY <1>1, <1>3 DEF EnrolPlan
<1> QED
    BY <1>4, <1>5 DEF plan

\* There is no camera and no image before the first start.
LEMMA YieldInit == Init => YieldInv
    BY DEF Init, YieldInv, Numbered, GoodCameraYields

\* The list is made at a start and forgotten at the end.
LEMMA NumberedStep == Sound /\ Numbered /\ [Next]_vars => Numbered'
<1> SUFFICES ASSUME Sound, Numbered, [Next]_vars PROVE Numbered'
    OBVIOUS
<1>1. CASE Boot
  <2>1. PICK order \in SetToSeqs(present) :
          defs' = [n \in DOMAIN CameraDefinitions(ini, order, device) |->
                    SetUp(CameraDefinitions(ini, order, device)[n])]
      BY <1>1, Zenon DEF Boot
  <2> DEFINE s == CameraDefinitions(ini, order, device)
  <2>2. AllNumbered(s)
      BY CamerasNumbered DEF Sound
  <2> HIDE DEF s
  <2>3. DOMAIN defs' = DOMAIN s /\ \A n \in DOMAIN s : defs'[n].found = s[n]
      BY <2>1 DEF s, SetUp
  <2> QED
      BY <2>2, <2>3 DEF Numbered, AllNumbered
<1>2. CASE Die
    BY <1>2 DEF Die, Numbered
<1>3. CASE ~Boot /\ ~Die
  <2>1. defs' = defs
      BY <1>3 DEF Next, Request, Open, TriggerIrEmitter, EmitterEnds, WarmUp, Grab, Add, Average,
                  SaveMode, Expose, Merge, Return, PullOut, PlugIn, Adjust, vars
  <2> QED
      BY <2>1 DEF Numbered
<1> QED
    BY <1>1, <1>2, <1>3

\* The first frame is always summed.
LEMMA YieldAverage == Sound /\ YieldInv /\ Add => (pc' = "add" /\ (~missed' => count' > 0))
<1> SUFFICES ASSUME Sound, YieldInv, Add, ~missed' PROVE pc' = "add" /\ count' > 0
    BY DEF Add
<1>1. PICK frame \in Readings :
        /\ count' = IF ~frame.empty /\ (count = 0 \/ frame.size = kept[1].size)
                    THEN count + 1 ELSE count
        /\ missed' = (missed \/ frame.empty)
    BY DEF Add
<1>2. ~frame.empty
    BY <1>1
<1>3. count \in Nat
    BY DEF Sound, CaptureTypeOK
<1> QED
    BY <1>1, <1>2, <1>3 DEF Add

\* Every exposure keeps a frame.
LEMMA YieldExpose ==
    Sound /\ FramesInv /\ YieldInv /\ Expose => (pc' = "expose" /\ (~missed' => Len(kept') = i'))
<1> SUFFICES ASSUME Sound, FramesInv, YieldInv, Expose, ~missed'
             PROVE  pc' = "expose" /\ Len(kept') = i'
    BY DEF Expose
<1>1. PICK frame \in Readings :
        /\ kept' = kept \o When(~frame.empty, <<frame>>)
        /\ missed' = (missed \/ frame.empty)
    BY DEF Expose
<1>2. ~frame.empty /\ ~missed
    BY <1>1
<1>3. frame \in Shots /\ kept \in Seq(Shots)
    BY <1>2, ReadingIsShot DEF FramesInv
<1>4. When(~frame.empty, <<frame>>) = <<frame>>
    BY <1>2 DEF When
<1>5. Len(kept') = Len(kept) + 1
  <2>1. kept' = Append(kept, frame)
    <3>1. kept' = kept \o <<frame>>
        BY <1>1, <1>4
    <3> QED
        BY <1>3, <3>1, Appended
  <2> QED
      BY <1>3, <2>1, OneMore
<1>6. Len(kept) = i /\ pc' = "expose" /\ i' = i + 1
    BY <1>2 DEF Expose, YieldInv
<1> QED
    BY <1>5, <1>6

\* Every step keeps the yield: a capture that misses nothing ends with a frame, and with
\* an image of it unless the exposures differ in size.
LEMMA YieldStep == Sound /\ FramesInv /\ ImageInv /\ YieldInv /\ [Next]_vars => YieldInv'
<1> SUFFICES ASSUME Sound, FramesInv, ImageInv, YieldInv, [Next]_vars PROVE YieldInv'
    OBVIOUS
<1> USE DEF machine, state, place, frames, Goto
<1>a. Numbered'
    BY NumberedStep DEF YieldInv
<1>b. ASSUME pc' \notin {"add", "expose", "done"} PROVE YieldInv'
    BY <1>a, <1>b DEF YieldInv, GoodCameraYields
<1>c. ASSUME pc' = "done", ~missed' => image' \/ ~(plan'.frames > 0) PROVE YieldInv'
    BY <1>a, <1>c DEF YieldInv, GoodCameraYields
<1>d. UNCHANGED <<ini, request, k, defs>> => plan' = plan
    BY DEF plan
<1>1. CASE Boot \/ \E kind \in {"enroll", "verify"} : Request(kind)
    BY <1>1, <1>b DEF Boot, Request
<1>2. CASE Open
    BY <1>2, <1>b, <1>c DEF Open
<1>3. CASE TriggerIrEmitter \/ EmitterEnds
    BY <1>3, <1>b DEF TriggerIrEmitter, EmitterEnds
<1>4. CASE WarmUp
  <2>1. pc' = "warm" \/ (i' = 0 /\ pc' \in {"grab", "add", "manual"})
      BY <1>4, Methods DEF WarmUp
  <2> QED
      BY <1>a, <2>1 DEF YieldInv, GoodCameraYields
<1>5. CASE Grab
    BY <1>5, <1>c DEF Grab
<1>6. CASE Add
    BY <1>6, <1>a, YieldAverage DEF YieldInv, GoodCameraYields
<1>7. CASE Average
  <2>1. /\ pc = "add" /\ i >= plan.frames /\ pc' = "done" /\ image' = (count > 0)
        /\ missed' = missed /\ plan' = plan
      BY <1>7, <1>d DEF Average
  <2>2. plan.frames \in Int /\ i \in Nat
      BY <2>1, PlanNumbered DEF YieldInv, Sound, CaptureTypeOK
  <2>3. ~missed /\ plan.frames > 0 => count > 0
      BY <2>1, <2>2 DEF YieldInv
  <2>4. ~missed' => image' \/ ~(plan'.frames > 0)
      BY <2>1, <2>3, Zenon
  <2> QED
      BY <2>1, <2>4, <1>c
<1>8. CASE SaveMode
  <2>1. pc = "manual" /\ pc' = "expose" /\ i' = 0 /\ kept' = kept
      BY <1>8 DEF SaveMode
  <2>2. Len(kept) = 0
      BY <2>1 DEF FramesInv, Nothing
  <2> QED
      BY <1>a, <2>1, <2>2 DEF YieldInv, GoodCameraYields
<1>9. CASE Expose
    BY <1>9, <1>a, YieldExpose DEF YieldInv, GoodCameraYields
<1>10. CASE Merge
  <2>1. pc' = "done" /\ missed' = missed /\ (~missed => Len(kept) = 3)
      BY <1>10 DEF Merge, YieldInv, Exposures
  <2>2. plan'.method = "hdr"
      BY <1>10, <1>d DEF Merge, ImageInv, Bracketing
  <2>3. ~missed => kept' = kept /\ image' = OneSize
    <3>1. ~missed => Len(kept) >= 2
        BY <2>1
    <3> QED
        BY <1>10, <3>1, Zenon DEF Merge
  <2>4. ~missed' => image' \/ ~OneSize'
      BY <2>1, <2>3 DEF OneSize
  <2> QED
      BY <1>a, <2>1, <2>2, <2>4 DEF YieldInv, GoodCameraYields
<1>11. CASE Return \/ Die
    BY <1>11, <1>b DEF Return, Die
<1>12. CASE UNCHANGED <<ini, request, k, defs, pc, i, kept, count, image, missed>>
    BY <1>12, <1>a, <1>d DEF YieldInv, GoodCameraYields, OneSize
<1>13. ASSUME NEW p \in Paths, PullOut(p) \/ PlugIn(p) \/ Adjust(p) PROVE YieldInv'
    BY <1>12, <1>13 DEF PullOut, PlugIn, Adjust
<1>14. CASE UNCHANGED vars
    BY <1>12, <1>14 DEF vars
<1> QED
    BY <1>1, <1>2, <1>3, <1>4, <1>5, <1>6, <1>7, <1>8, <1>9, <1>10, <1>11, <1>13, <1>14 DEF Next

-----------------------------------------------------------------------------
(* A start.                                                                 *)

\* The devices are what they were.
DevicesInv == device \in [Paths -> Kinds]

LEMMA DevicesStep == DevicesInv /\ [Next]_vars => DevicesInv'
<1> SUFFICES ASSUME DevicesInv, [Next]_vars PROVE UNCHANGED device
    BY DEF DevicesInv
<1>1. CASE \E p \in Paths : PullOut(p) \/ PlugIn(p) \/ Adjust(p)
    BY <1>1 DEF PullOut, PlugIn, Adjust
<1>2. CASE Boot \/ (\E kind \in {"enroll", "verify"} : Request(kind)) \/ Open \/ TriggerIrEmitter
           \/ EmitterEnds \/ WarmUp \/ Grab
    BY <1>2 DEF Boot, Request, Open, TriggerIrEmitter, EmitterEnds, WarmUp, Grab, machine
<1>3. CASE Add \/ Average \/ SaveMode \/ Expose \/ Merge \/ Return \/ Die
    BY <1>3 DEF Add, Average, SaveMode, Expose, Merge, Return, Die, machine
<1>4. CASE UNCHANGED vars
    BY <1>4 DEF vars
<1> QED
    BY <1>1, <1>2, <1>3, <1>4 DEF Next

Firsts(S) == {p \in S : \A q \in S : p <= q}

\* A least element is the only one.
LEMMA OneFirst ==
    ASSUME NEW S \in SUBSET Nat, NEW p, IF S = {} THEN p = NoPath ELSE LeastOf(S, p)
    PROVE  Firsts(S) = IF S = {} THEN {} ELSE {p}
<1>1. ASSUME S # {} PROVE Firsts(S) = {p}
  <2>1. p \in Firsts(S)
      BY <1>1 DEF Firsts, LeastOf
  <2>2. ASSUME NEW r \in Firsts(S) PROVE r = p
    <3>1. p \in Nat /\ r \in Nat /\ p <= r /\ r <= p
        BY <1>1, <2>2 DEF Firsts, LeastOf
    <3> QED
        BY <3>1
  <2> QED
      BY <2>1, <2>2
<1> QED
    BY <1>1 DEF Firsts

\* What the daemon keeps of the cameras it starts with.
Started(found) == [n \in DOMAIN found |-> SetUp(found[n])]

Taken(s) == {<<s[n].path, s[n].ir>> : n \in DOMAIN s}

\* A daemon with one camera,
LEMMA OneStarted ==
    ASSUME NEW d, d.mandatory = TRUE, d.min_brightness = 0
    PROVE  LET s == Started(<<d>>)
           IN /\ d.type = "ir" => Taken(s) = {<<d.path, TRUE>>}
              /\ d.type # "ir" => Taken(s) = {<<d.path, FALSE>>}
              /\ Len(s) = 1 /\ Cardinality(Taken(s)) = 1
              /\ \A n \in DOMAIN s : s[n].found.mandatory = TRUE /\ s[n].found.min_brightness = 0
<1> DEFINE s == Started(<<d>>)
<1>1. DOMAIN <<d>> = 1 .. 1 /\ <<d>>[1] = d
    OBVIOUS
<1>2. DOMAIN s = 1 .. 1 /\ s[1].found = d /\ s[1].path = d.path /\ s[1].ir = (d.type = "ir")
    BY <1>1 DEF Started, SetUp
<1>3. s = [n \in 1 .. 1 |-> s[n]]
    BY <1>1 DEF Started
<1> HIDE DEF s
<1>4. Len(s) = 1
    BY <1>3
<1>5. Taken(s) = {<<s[1].path, s[1].ir>>}
    BY <1>2 DEF Taken
<1>6. Cardinality(Taken(s)) = 1
    BY <1>5, FS_Singleton, Zenon
<1>7. d.type = "ir" => (d.type = "ir") = TRUE
    OBVIOUS
<1>8. d.type # "ir" => (d.type = "ir") = FALSE
    OBVIOUS
<1>9. \A n \in DOMAIN s : s[n].found.mandatory = TRUE /\ s[n].found.min_brightness = 0
    BY <1>2
<1> QED
    BY <1>2, <1>4, <1>5, <1>6, <1>7, <1>8, <1>9, Zenon DEF s

\* and with two.
LEMMA TwoStarted ==
    ASSUME NEW p, NEW q
    PROVE  LET s == Started(<<Definition("ir", p, "ir", 0, TRUE), Definition("rgb", q, "rgb", 40, FALSE)>>)
           IN /\ Taken(s) = {<<p, TRUE>>, <<q, FALSE>>}
              /\ Len(s) = 2 /\ Cardinality(Taken(s)) = 2
<1> DEFINE d == Definition("ir", p, "ir", 0, TRUE)
           e == Definition("rgb", q, "rgb", 40, FALSE)
           s == Started(<<d, e>>)
<1>1. d.path = p /\ d.type = "ir" /\ e.path = q /\ e.type = "rgb"
    BY DEF Definition
<1> HIDE DEF d, e
<1>2. DOMAIN <<d, e>> = 1 .. 2 /\ <<d, e>>[1] = d /\ <<d, e>>[2] = e
    OBVIOUS
<1>3. /\ DOMAIN s = 1 .. 2
      /\ s[1].path = p /\ s[1].ir = TRUE
      /\ s[2].path = q /\ s[2].ir = FALSE
  <2>1. DOMAIN s = 1 .. 2
      BY <1>2 DEF Started
  <2>2. s[1].path = d.path /\ s[1].ir = (d.type = "ir")
      BY <1>2 DEF Started, SetUp
  <2>3. s[2].path = e.path /\ s[2].ir = (e.type = "ir")
      BY <1>2 DEF Started, SetUp
  <2> HIDE DEF s
  <2>4. (d.type = "ir") = TRUE /\ (e.type = "ir") = FALSE
      BY <1>1
  <2> QED
      BY <1>1, <2>1, <2>2, <2>3, <2>4
<1>4. s = [n \in 1 .. 2 |-> s[n]]
    BY <1>2 DEF Started
<1> HIDE DEF s
<1>5. Len(s) = 2
    BY <1>4
<1>6. Taken(s) = {<<p, TRUE>>, <<q, FALSE>>}
  <2>1. Taken(s) = {<<s[1].path, s[1].ir>>, <<s[2].path, s[2].ir>>}
    <3>1. \A n : n \in 1 .. 2 <=> n = 1 \/ n = 2
        OBVIOUS
    <3> QED
        BY <1>3, <3>1, Zenon DEF Taken
  <2> QED
      BY <1>3, <2>1, Zenon
<1>7. Cardinality({<<p, TRUE>>, <<q, FALSE>>}) = 2
  <2> DEFINE x == <<p, TRUE>>
             y == <<q, FALSE>>
  <2>1. y \notin {x}
      OBVIOUS
  <2> HIDE DEF x, y
  <2>2. IsFiniteSet({x}) /\ Cardinality({x}) = 1
      BY FS_Singleton
  <2>3. Cardinality({x} \cup {y}) = Cardinality({x}) + 1
      BY <2>1, <2>2, FS_AddElement
  <2>4. {x} \cup {y} = {x, y}
      OBVIOUS
  <2>5. Cardinality({x, y}) = 2
      BY <2>2, <2>3, <2>4
  <2> QED
      BY <2>5 DEF x, y
<1> QED
    BY <1>5, <1>6, <1>7, Zenon DEF s, d, e

\* Pairs of an element, or of none, and a flag.
LEMMA Flagged ==
    \A a, b : /\ ({a} \X {TRUE}) \cup ({b} \X {FALSE}) = {<<a, TRUE>>, <<b, FALSE>>}
              /\ ({a} \X {TRUE}) \cup ({} \X {FALSE}) = {<<a, TRUE>>}
              /\ ({} \X {TRUE}) \cup ({b} \X {FALSE}) = {<<b, FALSE>>}
              /\ ({} \X {TRUE}) \cup ({} \X {FALSE}) = {}
<1> TAKE a, b
<1>1. \A x, f : {x} \X {f} = {<<x, f>>}
    OBVIOUS
<1>2. \A f : {} \X {f} = {}
    OBVIOUS
<1>3. {<<a, TRUE>>} \cup {<<b, FALSE>>} = {<<a, TRUE>>, <<b, FALSE>>}
    OBVIOUS
<1> QED
    BY <1>1, <1>2, <1>3, Zenon

\* What detection finds of the cameras that are plugged in, at a start that is not
\* told which to take.
LEMMA BootDetects ==
    ASSUME CaptureTypeOK, DevicesInv, Boot,
           ini.named = <<>>, ini.path_ir = NoPath, ini.path_rgb = NoPath
    PROVE  LET cameras == {p \in present : device[p].capture}
               ir      == {p \in cameras : device[p].formats \cap {"grey", "color"} = {"grey"}}
           IN /\ Taken(defs') = (Firsts(ir) \X {TRUE}) \cup (Firsts(cameras \ ir) \X {FALSE})
              /\ Len(defs') = Cardinality(Taken(defs'))
              /\ \A n \in DOMAIN defs' :
                    Len(defs') = 1 => defs'[n].found.mandatory /\ defs'[n].found.min_brightness = 0
<1> DEFINE cameras == {p \in present : device[p].capture}
           ir      == {p \in cameras : device[p].formats \cap {"grey", "color"} = {"grey"}}
           rgb     == cameras \ ir
<1>1. PICK order \in SetToSeqs(present) : defs' = Started(CameraDefinitions(ini, order, device))
    BY DEF Boot, Started
<1> DEFINE found == EnumerateCameras(order, device)
           irp   == FirstPath(found, device, {"ir"})
           rgbp  == FirstPath(found, device, {"rgb", "generic"})
<1>2. present \in SUBSET Paths /\ device \in [Paths -> Kinds]
    BY DEF CaptureTypeOK, DevicesInv
<1>3. defs' = Started(Chosen(irp, rgbp, found))
    BY <1>1 DEF CameraDefinitions, DetectedDefinitions
<1>4. /\ IF ir = {} THEN irp = NoPath ELSE LeastOf(ir, irp)
      /\ IF rgb = {} THEN rgbp = NoPath ELSE LeastOf(rgb, rgbp)
      /\ found = <<>> <=> cameras = {}
    BY <1>2, DetectionTakes
<1>5. /\ ir \in SUBSET (Nat \ {NoPath}) /\ rgb \in SUBSET (Nat \ {NoPath})
      /\ cameras = {} <=> ir = {} /\ rgb = {}
    BY <1>2, CaptureAssumption DEF CaptureAssumption
<1> HIDE DEF cameras, ir, rgb, found, irp, rgbp
<1>6. /\ Firsts(ir) = IF ir = {} THEN {} ELSE {irp}
      /\ Firsts(rgb) = IF rgb = {} THEN {} ELSE {rgbp}
    BY <1>4, <1>5, OneFirst
<1>7. /\ irp = NoPath <=> ir = {}
      /\ rgbp = NoPath <=> rgb = {}
    BY <1>4, <1>5 DEF LeastOf
<1>8. CASE ir # {} /\ rgb # {}
  <2>1. defs' = Started(<<Definition("ir", irp, "ir", 0, TRUE), Definition("rgb", rgbp, "rgb", 40, FALSE)>>)
      BY <1>3, <1>4, <1>5, <1>7, <1>8 DEF Chosen
  <2>2. Taken(defs') = {<<irp, TRUE>>, <<rgbp, FALSE>>} /\ Len(defs') = 2
        /\ Cardinality(Taken(defs')) = 2
      BY <2>1, TwoStarted, Zenon
  <2>3. (Firsts(ir) \X {TRUE}) \cup (Firsts(rgb) \X {FALSE}) = {<<irp, TRUE>>, <<rgbp, FALSE>>}
    <3>1. Firsts(ir) = {irp} /\ Firsts(rgb) = {rgbp}
        BY <1>6, <1>8
    <3>2. ({irp} \X {TRUE}) \cup ({rgbp} \X {FALSE}) = {<<irp, TRUE>>, <<rgbp, FALSE>>}
        BY Flagged
    <3> QED
        BY <3>1, <3>2
  <2>4. Len(defs') # 1
      BY <2>2
  <2> QED
      BY <2>2, <2>3, <2>4, Zenon DEF cameras, ir, rgb
<1>9. CASE ir = {} /\ rgb # {}
  <2>1. defs' = Started(<<Definition("rgb", rgbp, "rgb", 0, TRUE)>>)
      BY <1>3, <1>4, <1>5, <1>7, <1>9 DEF Chosen
  <2>2. /\ Taken(defs') = {<<rgbp, FALSE>>}
        /\ Len(defs') = 1 /\ Cardinality(Taken(defs')) = 1
        /\ \A n \in DOMAIN defs' :
              defs'[n].found.mandatory = TRUE /\ defs'[n].found.min_brightness = 0
    <3> DEFINE d == Definition("rgb", rgbp, "rgb", 0, TRUE)
    <3>1. d.path = rgbp /\ d.type = "rgb" /\ d.mandatory = TRUE /\ d.min_brightness = 0
        BY DEF Definition
    <3>2. defs' = Started(<<d>>) /\ "rgb" # "ir"
        BY <2>1
    <3> HIDE DEF d
    <3> QED
        BY <3>1, <3>2, OneStarted, Zenon
  <2>3. (Firsts(ir) \X {TRUE}) \cup (Firsts(rgb) \X {FALSE}) = {<<rgbp, FALSE>>}
      BY <1>6, <1>9, Flagged, Zenon
  <2> QED
      BY <2>2, <2>3 DEF cameras, ir, rgb
<1>10. CASE ir # {} /\ rgb = {}
  <2>1. defs' = Started(<<Definition("ir", irp, "ir", 0, TRUE)>>)
      BY <1>3, <1>4, <1>5, <1>7, <1>10 DEF Chosen
  <2>2. /\ Taken(defs') = {<<irp, TRUE>>}
        /\ Len(defs') = 1 /\ Cardinality(Taken(defs')) = 1
        /\ \A n \in DOMAIN defs' :
              defs'[n].found.mandatory = TRUE /\ defs'[n].found.min_brightness = 0
    <3> DEFINE d == Definition("ir", irp, "ir", 0, TRUE)
    <3>1. d.path = irp /\ d.type = "ir" /\ d.mandatory = TRUE /\ d.min_brightness = 0
        BY DEF Definition
    <3>2. defs' = Started(<<d>>) /\ "rgb" # "ir"
        BY <2>1
    <3> HIDE DEF d
    <3> QED
        BY <3>1, <3>2, OneStarted, Zenon
  <2>3. (Firsts(ir) \X {TRUE}) \cup (Firsts(rgb) \X {FALSE}) = {<<irp, TRUE>>}
      BY <1>6, <1>10, Flagged, Zenon
  <2> QED
      BY <2>2, <2>3 DEF cameras, ir, rgb
<1>11. CASE ir = {} /\ rgb = {}
  <2>1. defs' = Started(<<>>)
      BY <1>3, <1>4, <1>5, <1>11 DEF Chosen
  <2>2. DOMAIN <<>> = {}
      OBVIOUS
  <2>3. defs' = <<>>
      BY <2>1, <2>2 DEF Started, SetUp
  <2>4. Len(defs') = 0 /\ DOMAIN defs' = {}
      BY <2>3
  <2>5. Taken(defs') = {} /\ Cardinality({}) = 0
      BY <2>4, FS_EmptySet DEF Taken
  <2>6. (Firsts(ir) \X {TRUE}) \cup (Firsts(rgb) \X {FALSE}) = {}
      BY <1>6, <1>11, Flagged, Zenon
  <2> QED
      BY <2>4, <2>5, <2>6 DEF cameras, ir, rgb
<1> QED
    BY <1>8, <1>9, <1>10, <1>11

-----------------------------------------------------------------------------
(* Progress.                                                                *)

\* Every loop knows how it was entered and stays below its bound.
CountersInv ==
    /\ pc = "open" => i < Attempts
    /\ pc = "warm" => i <= Warmup
    /\ pc = "add" => plan.method = "averaged" /\ i <= Reads
    /\ pc \in {"manual", "expose"} => plan.method = "hdr"
    /\ pc = "expose" => i <= Exposures

\* A capture takes a number of frames.
LEMMA ReadsCounted ==
    ASSUME Sound, Numbered, pc \notin {"down", "idle"}
    PROVE  /\ Reads \in Nat
           /\ plan.method = "hdr" => Reads = Exposures
           /\ plan.method = "averaged" => plan.frames \in Int /\ plan.frames <= Reads
<1>1. plan.frames \in Int
    BY PlanNumbered
<1>2. CASE plan.method = "single"
    BY <1>1, <1>2 DEF Reads
<1>3. CASE plan.method = "averaged"
    BY <1>1, <1>3 DEF Reads
<1>4. CASE plan.method = "hdr"
    BY <1>1, <1>4 DEF Reads, Exposures
<1> QED
    BY <1>2, <1>3, <1>4, Methods

\* How a camera is captured from does not change on the way.
LEMMA PlanStays ==
    ASSUME UNCHANGED <<ini, defs, request, k>>
    PROVE  UNCHANGED <<plan, Reads>>
<1>1. UNCHANGED plan
    BY DEF plan
<1> QED
    BY <1>1 DEF Reads

\* What others do leaves the daemon where it is.
LEMMA OthersWait ==
    ASSUME (\E p \in Paths : PullOut(p) \/ PlugIn(p) \/ Adjust(p)) \/ UNCHANGED vars
    PROVE  UNCHANGED <<ini, defs, request, k, pc, i>>
    BY DEF PullOut, PlugIn, Adjust, vars, machine, place, frames

\* The steps of a request but the last at each camera.
Inner == Open \/ TriggerIrEmitter \/ EmitterEnds \/ WarmUp \/ Grab \/ Add \/ Average \/ SaveMode
            \/ Expose \/ Merge

\* They leave the camera and its plan alone.
LEMMA InnerStays ==
    ASSUME Inner
    PROVE  UNCHANGED <<ini, defs, request, k>>
    BY DEF Inner, Open, TriggerIrEmitter, EmitterEnds, WarmUp, Grab, Add, Average, SaveMode, Expose,
           Merge, machine, place

\* Each of them keeps to the bounds and is one step less.
LEMMA InnerAdvances ==
    ASSUME Sound, Numbered, CountersInv, Inner
    PROVE  CountersInv' /\ StepsLeft' \in Nat /\ StepsLeft' < StepsLeft
<1> USE CaptureAssumption DEF CaptureAssumption, Goto, Exposures
<1>1. UNCHANGED <<plan, Reads>>
    BY InnerStays, PlanStays
<1>2. pc \notin {"down", "idle"}
    BY DEF Inner, Open, TriggerIrEmitter, EmitterEnds, WarmUp, Grab, Add, Average, SaveMode, Expose,
           Merge
<1>3. /\ Reads \in Nat
      /\ plan.method = "hdr" => Reads = Exposures
      /\ plan.method = "averaged" => plan.frames \in Int /\ plan.frames <= Reads
    BY <1>2, ReadsCounted
<1>4. i \in Nat
    BY DEF Sound, CaptureTypeOK
<1>5. CASE Open
  <2>1. CASE Goto(IF defs[k].ir THEN "emit" ELSE "warm")
    <3>1. CASE pc' = "emit" /\ i' = 0
        BY <1>1, <1>3, <1>4, <1>5, <3>1 DEF Open, CountersInv, StepsLeft
    <3>2. CASE pc' = "warm" /\ i' = 0
        BY <1>1, <1>3, <1>4, <1>5, <3>2 DEF Open, CountersInv, StepsLeft
    <3> QED
        BY <2>1, <3>1, <3>2
  <2>2. CASE i + 1 < Attempts /\ i' = i + 1 /\ UNCHANGED pc
      BY <1>1, <1>3, <1>4, <1>5, <2>2 DEF Open, CountersInv, StepsLeft
  <2>3. CASE Goto("done")
      BY <1>1, <1>3, <1>4, <1>5, <2>3 DEF Open, CountersInv, StepsLeft
  <2> QED
      BY <1>5, <2>1, <2>2, <2>3 DEF Open
<1>6. CASE TriggerIrEmitter \/ EmitterEnds
  <2>1. CASE pc = "emit" /\ pc' = "emitting" /\ i' = 0
      BY <1>1, <1>3, <2>1 DEF CountersInv, StepsLeft
  <2>2. CASE pc \in {"emit", "emitting"} /\ pc' = "warm" /\ i' = 0
      BY <1>1, <1>3, <2>2 DEF CountersInv, StepsLeft
  <2> QED
      BY <1>6, <2>1, <2>2 DEF TriggerIrEmitter, EmitterEnds
<1>7. CASE WarmUp
  <2>1. CASE i < Warmup /\ i' = i + 1 /\ UNCHANGED pc
      BY <1>1, <1>3, <1>4, <1>7, <2>1 DEF WarmUp, CountersInv, StepsLeft
  <2>2. CASE pc' = "grab" /\ i' = 0
      BY <1>1, <1>3, <1>4, <1>7, <2>2 DEF WarmUp, CountersInv, StepsLeft
  <2>3. CASE pc' = "add" /\ i' = 0 /\ plan.method = "averaged"
      BY <1>1, <1>3, <1>4, <1>7, <2>3 DEF WarmUp, CountersInv, StepsLeft
  <2>4. CASE pc' = "manual" /\ i' = 0 /\ plan.method = "hdr"
      BY <1>1, <1>3, <1>4, <1>7, <2>4 DEF WarmUp, CountersInv, StepsLeft
  <2> QED
      BY <1>7, <2>1, <2>2, <2>3, <2>4, Methods DEF WarmUp
<1>8. CASE Grab
    BY <1>1, <1>3, <1>8 DEF Grab, CountersInv, StepsLeft
<1>9. CASE Add
  <2>1. pc = "add" /\ i < plan.frames /\ i' = i + 1 /\ UNCHANGED pc
      BY <1>9 DEF Add
  <2> QED
      BY <1>1, <1>3, <1>4, <2>1 DEF CountersInv, StepsLeft
<1>10. CASE Average
    BY <1>1, <1>3, <1>4, <1>10 DEF Average, CountersInv, StepsLeft
<1>11. CASE SaveMode
    BY <1>1, <1>3, <1>11 DEF SaveMode, CountersInv, StepsLeft
<1>12. CASE Expose
  <2>1. pc = "expose" /\ i < Exposures /\ i' = i + 1 /\ UNCHANGED pc
      BY <1>12 DEF Expose
  <2> QED
      BY <1>1, <1>3, <1>4, <2>1 DEF CountersInv, StepsLeft
<1>13. CASE Merge
    BY <1>1, <1>3, <1>4, <1>13 DEF Merge, CountersInv, StepsLeft
<1> QED
    BY <1>5, <1>6, <1>7, <1>8, <1>9, <1>10, <1>11, <1>12, <1>13 DEF Inner

\* The other steps set the counter back, or do not touch it.
LEMMA CountersStep == Sound /\ Numbered /\ CountersInv /\ [Next]_vars => CountersInv'
<1> SUFFICES ASSUME Sound, Numbered, CountersInv, [Next]_vars PROVE CountersInv'
    OBVIOUS
<1>1. CASE Inner
    BY <1>1, InnerAdvances
<1>2. CASE Boot \/ Die
    BY <1>2 DEF Boot, Die, Goto, CountersInv
<1>3. CASE Return \/ \E kind \in {"enroll", "verify"} : Request(kind)
  <2>1. pc' \in {"open", "idle"} /\ i' = 0
      BY <1>3 DEF Return, Request, Goto
  <2> QED
      BY <2>1, CaptureAssumption DEF CaptureAssumption, CountersInv
<1>4. CASE (\E p \in Paths : PullOut(p) \/ PlugIn(p) \/ Adjust(p)) \/ UNCHANGED vars
  <2>1. UNCHANGED <<plan, Reads, pc, i>>
      BY <1>4, OthersWait, PlanStays
  <2> QED
      BY <2>1 DEF CountersInv
<1> QED
    BY <1>1, <1>2, <1>3, <1>4 DEF Next, Inner

-----------------------------------------------------------------------------
(* The theorems.                                                            *)

\* The devices and the capture keep their states (src/service/camera.cpp).
THEOREM CaptureTypes == Spec => []CaptureTypeOK
<1>1. Sound => CaptureTypeOK
    BY DEF Sound
<1> QED
    BY <1>1, Soundness, PTL

\* captureHDR puts the exposure mode back on every way out but the end of the process.
THEOREM ModeIsRestored == Spec => []ModeRestored
<1>1. ModeInv => ModeRestored
    BY DEF ModeInv
<1> QED
    BY <1>1, ModeInit, ModeStep, Soundness, PTL DEF Spec

\* openAndWarmup switches the emitter on while the device is open, so every frame that
\* gets into the image is lit once the helper has done its work.
THEOREM FramesAreLit == Spec => []LitWhenKept
<1>1. FramesInv => LitWhenKept
  <2> SUFFICES ASSUME FramesInv, worked, NEW n \in DOMAIN kept PROVE kept[n].lit
      BY DEF LitWhenKept
  <2>1. kept[n] \in Shots
      BY DEF FramesInv
  <2> QED
      BY <2>1 DEF Shots
<1> QED
    BY <1>1, FramesInit, FramesStep, Soundness, PTL DEF Spec

\* captureAveraged divides by the number of frames it summed, captureHDR merges frames
\* of different exposures, and none of the three returns an image of nothing.
THEOREM ImagesAreSound == Spec => []ImageIsSound
<1>1. ImageInv => ImageIsSound
    BY DEF ImageInv
<1> QED
    BY <1>1, ImageInit, ImageStep, FramesInit, FramesStep, Soundness, PTL DEF Spec

\* Each of the three methods returns an image if the device opened and every read
\* that counts gave a frame, except a merge of exposures of different sizes (capture,
\* captureAveraged, captureHDR).
THEOREM GoodCamerasYield == Spec => []GoodCameraYields
<1>1. YieldInv => GoodCameraYields
    BY DEF YieldInv
<1> QED
    BY <1>1, YieldInit, YieldStep, ImageInit, ImageStep, FramesInit, FramesStep, Soundness, PTL
    DEF Spec

\* enumerateCameras and the loop of parse_ini_into_self find the same cameras in
\* whatever order the directory lists them: the first infrared one and the first other
\* one of those plugged in, and no third.
THEOREM DetectionStable == Spec => DetectionIsStable
<1> DEFINE Detects ==
      LET cameras == {p \in present : device[p].capture}
          ir      == {p \in cameras : device[p].formats \cap {"grey", "color"} = {"grey"}}
          First(S) == {p \in S : \A q \in S : p <= q}
          taken   == {<<defs'[n].path, defs'[n].ir>> : n \in DOMAIN defs'}
      IN /\ taken = (First(ir) \X {TRUE}) \cup (First(cameras \ ir) \X {FALSE})
         /\ Len(defs') = Cardinality(taken)
         /\ \A n \in DOMAIN defs' :
               Len(defs') = 1 => defs'[n].found.mandatory /\ defs'[n].found.min_brightness = 0
<1>1. /\ CaptureTypeOK /\ DevicesInv
      /\ Boot /\ ini.named = <<>> /\ ini.path_ir = NoPath /\ ini.path_rgb = NoPath
      => Detects
    BY BootDetects, Zenon DEF Firsts, Taken
<1> HIDE DEF Detects
<1>2. Sound /\ DevicesInv /\ [Next]_vars =>
        [Boot /\ ini.named = <<>> /\ ini.path_ir = NoPath /\ ini.path_rgb = NoPath => Detects]_vars
    BY <1>1 DEF Sound
<1>3. Init => DevicesInv
    BY DEF Init, DevicesInv
<1>4. Spec => [][Boot /\ ini.named = <<>> /\ ini.path_ir = NoPath /\ ini.path_rgb = NoPath
                 => Detects]_vars
    BY <1>2, <1>3, DevicesStep, Soundness, PTL DEF Spec
<1> QED
    BY <1>4, PTL DEF DetectionIsStable, Detects

\* A request visits every camera once and takes a bounded number of steps at each
\* (captureFrame, the loops over the cameras, and src/service/camera.cpp).
THEOREM RequestsAdvance == Spec => RequestAdvances
<1> DEFINE Advance == \/ pc \in {"down", "idle"} \/ pc' \in {"down", "idle"}
                      \/ UNCHANGED <<pc, k, i, defs>>
                      \/ k' = k /\ UNCHANGED defs /\ StepsLeft' \in Nat /\ StepsLeft' < StepsLeft
                      \/ pc = "done" /\ k' = k + 1 /\ UNCHANGED defs /\ k' \in DOMAIN defs
<1>1. Init => Numbered
    BY DEF Init, Numbered
<1>2. Init => CountersInv
    BY DEF Init, CountersInv
<1>3. ASSUME Sound, Numbered, CountersInv, [Next]_vars PROVE Advance
  <2>1. CASE Inner
      BY <1>3, <2>1, InnerAdvances, InnerStays
  <2>2. CASE Boot \/ Die \/ \E kind \in {"enroll", "verify"} : Request(kind)
      BY <2>2 DEF Boot, Die, Request, Goto
  <2>3. CASE Return
    <3>1. k \in DOMAIN defs
        BY <1>3, <2>3 DEF Return, Sound, CaptureTypeOK
    <3>2. k < Len(defs) => k + 1 \in DOMAIN defs
        BY <1>3, <3>1, NextOfList DEF Sound
    <3> QED
        BY <2>3, <3>2 DEF Return, Goto
  <2>4. CASE (\E p \in Paths : PullOut(p) \/ PlugIn(p) \/ Adjust(p)) \/ UNCHANGED vars
      BY <2>4, OthersWait
  <2> QED
      BY <1>3, <2>1, <2>2, <2>3, <2>4 DEF Next, Inner
<1>4. Sound /\ Numbered /\ CountersInv /\ [Next]_vars => [Advance]_vars
    BY <1>3
<1> HIDE DEF Advance
<1>5. Spec => [][Advance]_vars
    BY <1>1, <1>2, <1>4, NumberedStep, CountersStep, Soundness, PTL DEF Spec
<1> QED
    BY <1>5, PTL DEF RequestAdvances, Advance
=============================================================================
