--------------------------- MODULE MCTrackerHttp ----------------------------
(* Instances of TrackerHttp for TLC. *)
EXTENDS TrackerHttp

NorthEast == {<<1, 1>>, <<2, 2>>, <<9, 9>>}
West      == {<<1, -1>>, <<2, -1>>}
=============================================================================
