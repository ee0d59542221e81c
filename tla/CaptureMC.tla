----------------------------- MODULE CaptureMC ------------------------------
(* Instances of Capture for TLC.                                            *)
EXTENDS Capture

Kind(capture, formats, manual) == [capture |-> capture, formats |-> formats, manual |-> manual]

\* A webcam with and without manual exposure, an infrared camera, one with unknown
\* formats, and a device that is no camera.
MCKinds ==
    {Kind(TRUE, {"color", "grey"}, TRUE), Kind(TRUE, {"color"}, FALSE),
     Kind(TRUE, {"grey", "other"}, TRUE), Kind(TRUE, {"other"}, FALSE), Kind(FALSE, {}, FALSE)}

Ini(named, path_ir, path_rgb, hdr, averaging, n) ==
    [named |-> named, path_ir |-> path_ir, path_rgb |-> path_rgb, min_brightness |-> 40,
     hdr |-> hdr, averaging |-> averaging, frames |-> n]

Named(id, p, type, hdr, averaging, n) ==
    [Definition(id, p, type, 0, FALSE) EXCEPT !.hdr = hdr, !.averaging = averaging, !.frames = n]

\* Detection with the defaults and without averaging, the old [Hardware] paths, and
\* cameras of their own: two on one device, one of them with a comment behind "on".
MCInis ==
    {Ini(<<>>, NoPath, NoPath, "unset", "unset", 2),
     Ini(<<>>, NoPath, NoPath, "off", "off", 0),
     Ini(<<>>, 2, 1, "auto", "true", 0),
     Ini(<<Named("cam_ir", 1, "ir", "off", "on", 3), Named("cam_rgb", 1, "rgb", "on", "commented", 0)>>,
         NoPath, NoPath, "off", "off", 2)}
=============================================================================
