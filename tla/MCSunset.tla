------------------------------ MODULE MCSunset ------------------------------
(* A lamp with a delay between its temperatures, and a shelf whose range   *)
(* is wider than its duration is long, so that it has none.                *)
EXTENDS Sunset

CONSTANTS lamp, shelf

Each(l, s) == [x \in Lights |-> IF x = lamp THEN l ELSE s]

Firsts == Each(1, 1)
Lasts == Each(3, 4)
Totals == Each(3, 2)

(* On every other day the sun sets later, and it is dusk sooner. *)
SunsetTimes == [d \in Days |-> 1 + (d % 2)]
DuskTimes == [d \in Days |-> 5 - (d % 2)]

=============================================================================
