------------------------------ MODULE Cameras -------------------------------
(***************************************************************************)
(* From the configuration and the devices of the machine to the list of     *)
(* cameras the daemon works with, and from a camera's settings to the way   *)
(* an enrolment captures from it: classifyCameraType and enumerateCameras   *)
(* (src/service/utils.cpp), the camera part of parse_ini_into_self          *)
(* (src/service/config.cpp) and the choice in enrollUser                    *)
(* (src/service/auth_engine.cpp).  No state.                                *)
(*                                                                          *)
(* A device path is its rank in the order std::sort gives the paths; 1 is   *)
(* /dev/video0.  A switch of the configuration keeps the text right of the  *)
(* '=', a comment at its end included ("commented": on, and a comment).     *)
(***************************************************************************)
EXTENDS Integers, Sequences, SequencesExt

CONSTANTS
    Paths,           \* the device files, as ranks
    AverageFrames    \* CAMERA_AVERAGE_FRAMES

NoPath == 0
Video0 == 1

Switches == {"unset", "on", "true", "off", "auto", "commented"}

\* A device of the machine: a video capture device or not, the kinds of pixel
\* formats it has, and whether its exposure can be set.
Devices == [capture : BOOLEAN, formats : SUBSET {"grey", "color", "other"}, manual : BOOLEAN]

-----------------------------------------------------------------------------
(* Detection.                                                               *)

ClassifyCameraType(device) ==
    CASE ~device.capture                                       -> "none"
      [] device.capture /\ "color" \in device.formats          -> "rgb"
      [] device.capture /\ device.formats \cap {"grey", "color"} = {"grey"} -> "ir"
      [] OTHER                                                 -> "generic"

\* A bug to compare with: the order of the directory is kept.
EnumerateUnsorted(order, device) ==
    SelectSeq(order, LAMBDA p : ClassifyCameraType(device[p]) # "none")

\* The directory lists its entries in any order, std::sort has one of its own.
EnumerateCameras(order, device) ==
    CHOOSE found \in SetToSeqs({p \in Range(order) : ClassifyCameraType(device[p]) # "none"}) :
        \A m, n \in DOMAIN found : m < n => found[m] < found[n]

-----------------------------------------------------------------------------
(* Configuration.                                                           *)

Definition(id, path, type, brightness, mandatory) ==
    [id |-> id, path |-> path, type |-> type, min_brightness |-> brightness,
     mandatory |-> mandatory, hdr |-> "unset", averaging |-> "unset", frames |-> 0]

When(condition, s) == IF condition THEN s ELSE <<>>

\* [Hardware] camera_path_ir and camera_path_rgb.
LegacyDefinitions(ini) ==
    When(ini.path_ir # NoPath, <<Definition("ir", ini.path_ir, "ir", 0, TRUE)>>)
        \o When(ini.path_rgb # NoPath,
                <<Definition("rgb", ini.path_rgb, "rgb", ini.min_brightness, FALSE)>>)

\* The first infrared device and the first other one; cam0 if there is neither.
Chosen(ir, rgb, found) ==
    IF found = <<>> THEN <<>> ELSE
    CASE ir # NoPath /\ rgb # NoPath -> <<Definition("ir", ir, "ir", 0, TRUE),
                                          Definition("rgb", rgb, "rgb", 40, FALSE)>>
      [] ir = NoPath /\ rgb # NoPath -> <<Definition("rgb", rgb, "rgb", 0, TRUE)>>
      [] ir # NoPath /\ rgb = NoPath -> <<Definition("ir", ir, "ir", 0, TRUE)>>
      [] OTHER -> <<Definition("cam0", found[1], "generic", 0, TRUE)>>

FirstPath(found, device, types) ==
    LET at == {n \in DOMAIN found : ClassifyCameraType(device[found[n]]) \in types}
    IN IF at = {} THEN NoPath ELSE found[Min(at)]

DetectedDefinitions(found, device) ==
    Chosen(FirstPath(found, device, {"ir"}), FirstPath(found, device, {"rgb", "generic"}), found)

\* [Cameras] names excludes the others, [Hardware] excludes detection.
CameraDefinitions(ini, order, device) ==
    IF ini.named # <<>> THEN ini.named
    ELSE IF ini.path_ir # NoPath \/ ini.path_rgb # NoPath THEN LegacyDefinitions(ini)
    ELSE DetectedDefinitions(EnumerateCameras(order, device), device)

-----------------------------------------------------------------------------
(* Capture settings.                                                        *)

\* [Capture] takes on and true, and anything else for off; the default is on.  A
\* camera's own section takes on only.
Averages(ini, def) ==
    IF def.averaging # "unset" THEN def.averaging = "on"
    ELSE ini.averaging \in {"unset", "on", "true"}

Hdr(ini, def) ==
    IF def.hdr # "unset" THEN def.hdr
    ELSE IF ini.hdr # "unset" THEN ini.hdr
    ELSE "auto"

Frames(ini, def) == IF def.frames > 0 THEN def.frames ELSE ini.frames

\* How enrollUser captures: the method, and the number of frames averaged.  HDR on a
\* camera without manual exposure is an average of a fixed number of frames.
EnrolPlan(ini, def, supported) ==
    CASE Hdr(ini, def) \in {"on", "auto"} /\ supported ->
            [method |-> "hdr", frames |-> 3]
      [] Hdr(ini, def) = "on" /\ ~supported ->
            [method |-> "averaged", frames |-> AverageFrames]
      [] (Hdr(ini, def) \notin {"on", "auto"} \/ (Hdr(ini, def) = "auto" /\ ~supported))
            /\ Averages(ini, def) ->
            [method |-> "averaged", frames |-> Frames(ini, def)]
      [] OTHER -> [method |-> "single", frames |-> 1]

\* Verification and the test command take one frame, whatever [Capture] says.
VerifyPlan == [method |-> "single", frames |-> 1]
=============================================================================
