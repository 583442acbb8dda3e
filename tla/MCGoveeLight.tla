---------------------------- MODULE MCGoveeLight ----------------------------
(* Updates of a light that is switched on and stepped up; its app sets it  *)
(* to any level, lower ones included.                                      *)
EXTENDS GoveeLight

SwitchAndStepUp == {<<"power", 1>>, <<"up", 0>>}

=============================================================================
