--------------------------- MODULE MCRouteAdmission ---------------------------
(* A model-checking instance of RouteAdmission: three owners of the name in    *)
(* turn, two of which have the same public ID.                                 *)
EXTENDS RouteAdmission

CONSTANTS o1, o2, o3, i, j

MCPublicId == [o \in Owners |-> IF o = o3 THEN j ELSE i]
=============================================================================
