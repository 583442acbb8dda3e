----------------------------- MODULE MCLifecycle -----------------------------
(* A device of each kind of controller, and one whose controller is not    *)
(* enabled.                                                                *)
EXTENDS Lifecycle, TLC

CONSTANTS lamp, plug, strip, krypton, tplink, govee

Served == lamp :> krypton @@ plug :> tplink @@ strip :> govee

=============================================================================
