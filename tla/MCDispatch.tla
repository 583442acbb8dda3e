----------------------------- MODULE MCDispatch -----------------------------
(***************************************************************************)
(* An instance of Dispatch with three devices: a Simple lamp, whose        *)
(* notifiers are its connections (two of them: the device reconnected      *)
(* before its old connection was given up), a Tplink plug fed by one       *)
(* listener, and a Govee strip that reports nothing.  (An update whose     *)
(* controller is not enabled is refused as that of a stranger is.)         *)
(***************************************************************************)
EXTENDS Dispatch

CONSTANTS lamp, plug, strip, plugs

MCController ==
  [d \in Devices |-> CASE d = lamp -> "Simple" [] d = plug -> "Tplink" [] d = strip -> "Govee"]
MCEnabled == {"Simple", "Tplink", "Govee"}
MCFeeds == [n \in Notifiers |-> IF n = plugs THEN {plug} ELSE {lamp}]

=============================================================================
