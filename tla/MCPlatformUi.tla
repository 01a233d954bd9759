---------------------------- MODULE MCPlatformUi ----------------------------
(* Model-checking values for PlatformUi.                                   *)
EXTENDS PlatformUi

Spot(area, row) == [area |-> area, row |-> row]

FewSpots  == { Spot("row", 0), Spot("row", 1), Spot("left", 0), Spot("right", 0) }
BodySpots == { Spot("row", r) : r \in 0..2 }
FewKeys   == {"down", "softleft", "softright"}
TwoKeys   == {"down", "softleft"}
OneSpot   == { Spot("barDown", 1) }
=============================================================================
