--------------------------- MODULE MCClientSession ---------------------------
(***************************************************************************)
(* An instance of ClientSession with a lamp that one notifier reports      *)
(* about and a plug that two report about.                                 *)
(***************************************************************************)
EXTENDS ClientSession

CONSTANTS lamp, plug, one, two

MCFeeds == [n \in Notifiers |-> Devices \cap (IF n = one THEN {lamp, plug} ELSE {plug})]

=============================================================================
