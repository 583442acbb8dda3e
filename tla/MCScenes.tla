------------------------------ MODULE MCScenes ------------------------------
(* An HTTP client and another, each with a scene of a plug and a lamp, and *)
(* two listeners.                                                          *)
EXTENDS Scenes, TLC

CONSTANTS h, s, hPlug, hLamp, sPlug, sLamp, n1, n2

Whose == hPlug :> h @@ hLamp :> h @@ sPlug :> s @@ sLamp :> s

=============================================================================
