------------------------------- MODULE MCKiosk -------------------------------
(* Instances of Kiosk: k is the booth's own screen, v another screen.        *)
EXTENDS Kiosk

CONSTANTS k, v

Both  == {k, v}
Booth == {k}
Other == {v}
=============================================================================
