---------------------------- MODULE MCDeviceGate ----------------------------
(* Model values for module DeviceGate. *)
EXTENDS DeviceGate, TLC

CONSTANTS d1, d2, d3, p1, p2, p3, blank

Distinct == d1 :> p1 @@ d2 :> p2
Same     == d1 :> p1 @@ d2 :> p1
One      == d1 :> p1
Three    == d1 :> p1 @@ d2 :> p2 @@ d3 :> p3

\* As usbguard lists them: the second device of two, or the third of three,
\* has no serial number.
SecondBlank == d1 :> p1 @@ d2 :> blank
ThirdBlank  == d1 :> p1 @@ d2 :> p2 @@ d3 :> blank
=============================================================================
