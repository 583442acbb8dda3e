--------------------------- MODULE MCDependencies ---------------------------
(***************************************************************************)
(* Instances of Dependencies: a lamp behind a plug, the plug behind a      *)
(* fuse, and a second lamp whose dependency is not configured; and a lamp  *)
(* behind both a plug and a fuse.                                          *)
(***************************************************************************)
EXTENDS Dependencies

CONSTANTS lamp, plug, fuse, spot, ghost

Needs(a, b) == [dependent |-> a, dependency |-> b]

Chain == <<Needs(lamp, plug), Needs(plug, fuse), Needs(spot, ghost)>>
Double == <<Needs(lamp, plug), Needs(lamp, fuse)>>

=============================================================================
