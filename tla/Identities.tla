----------------------------- MODULE Identities -----------------------------
(***************************************************************************)
(* The ids every service shares.  Each service has a database of its own   *)
(* and refers to the others' rows by id alone, so the ids are all that the *)
(* modules of the stores have in common.                                   *)
(***************************************************************************)
CONSTANTS Orders,   \* order ids, derived from the customer and the checkout key
          Riders,   \* rider ids
          None      \* SQL NULL

ASSUME NoneAssumption == None \notin Riders \cup Orders
=============================================================================
