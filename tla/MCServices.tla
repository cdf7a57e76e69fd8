----------------------------- MODULE MCServices ------------------------------
(* Services for TLC: two registrants want one name, a third another; a      *)
(* player of hacky-halls asks for the first and the last room, for one by   *)
(* another's coordinates, and for one that is beyond the rooms.             *)
EXTENDS Services

MCNameOf == [r \in Registrants |-> IF r = "r3" THEN "name2" ELSE "name1"]

MCCoordinates == {<<0, 0, 0>>, <<1, 1, 1>>, <<0, 2, 0>>, <<1, 1, 2>>}
=============================================================================
