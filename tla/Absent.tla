--------------------------------- MODULE Absent ---------------------------------
(***************************************************************************)
(* What stands for nil, for a key that is not in a map and for a lock that *)
(* nobody holds. The modules that are checked side by side share it.       *)
(***************************************************************************)
CONSTANT None
=============================================================================
