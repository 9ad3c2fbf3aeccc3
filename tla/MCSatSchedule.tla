--------------------------- MODULE MCSatSchedule ---------------------------
(* Model-checking instances of SatSchedule. *)
EXTENDS SatSchedule

AnyError == {-700, -190, -79, 0, 40, 79, 80, 190, 700}
=============================================================================
