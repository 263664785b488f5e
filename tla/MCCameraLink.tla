---------------------------- MODULE MCCameraLink ----------------------------
(* Instances of CameraLink: two callers meet at the lock and on the wire.    *)
EXTENDS CameraLink

CONSTANTS a, b

TwoCallers == {a, b}
=============================================================================
