--------------------------- MODULE MCLgpioAlerts ---------------------------
(* Instances of LgpioAlerts for TLC. *)
EXTENDS LgpioAlerts

(* Both edges, or falling ones. *)
AnyEdges == {Levels, {0}}
=============================================================================
