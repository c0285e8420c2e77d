------------------------------ MODULE MdlTypes ------------------------------
(***************************************************************************)
(* Metadata lock types and their compatibility (sql/mdl.h, sql/mdl.cc):    *)
(* which granted and which pending requests stand in the way of a request. *)
(* An MDL_lock follows one of two strategies here: "object" for tables and *)
(* routines, "scoped" for schemas.                                         *)
(***************************************************************************)
EXTENDS Naturals

(* enum_mdl_type, by the names the comments of mdl.cc give the types.      *)
Types == {"IX", "S", "SH", "SR", "SW", "SU", "SRO", "SNW", "SNRW", "X"}

Strategies == {"object", "scoped"}

(* m_granted_incompatible: the granted types a request has to wait for.    *)
ObjectGrantedIncompatible ==
  [IX   |-> {},
   S    |-> {"X"},
   SH   |-> {"X"},
   SR   |-> {"X", "SNRW"},
   SW   |-> {"X", "SNRW", "SNW", "SRO"},
   SU   |-> {"X", "SNRW", "SNW", "SU"},
   SRO  |-> {"X", "SNRW", "SW"},
   SNW  |-> {"X", "SNRW", "SNW", "SU", "SW"},
   SNRW |-> {"X", "SNRW", "SNW", "SRO", "SU", "SW", "SR"},
   X    |-> {"X", "SNRW", "SNW", "SRO", "SU", "SW", "SR", "SH", "S"}]

(* m_waiting_incompatible: the pending types that go before a request.     *)
ObjectWaitingIncompatible ==
  [IX   |-> {},
   S    |-> {"X"},
   SH   |-> {},
   SR   |-> {"X", "SNRW"},
   SW   |-> {"X", "SNRW", "SNW"},
   SU   |-> {"X"},
   SRO  |-> {"X", "SNRW", "SW"},
   SNW  |-> {"X"},
   SNRW |-> {"X"},
   X    |-> {}]

ScopedGrantedIncompatible ==
  [IX |-> {"X", "S"}, S |-> {"X", "IX"}, SH |-> {}, SR |-> {}, SW |-> {},
   SU |-> {}, SRO |-> {}, SNW |-> {}, SNRW |-> {}, X |-> {"X", "S", "IX"}]

ScopedWaitingIncompatible ==
  [IX |-> {"X", "S"}, S |-> {"X"}, SH |-> {}, SR |-> {}, SW |-> {},
   SU |-> {}, SRO |-> {}, SNW |-> {}, SNRW |-> {}, X |-> {}]

GrantedIncompatible(strategy) ==
  IF strategy = "object" THEN ObjectGrantedIncompatible
                         ELSE ScopedGrantedIncompatible

WaitingIncompatible(strategy) ==
  IF strategy = "object" THEN ObjectWaitingIncompatible
                         ELSE ScopedWaitingIncompatible

(* hog_lock_types_bitmap(): the strong types that could starve the others. *)
HogTypes(strategy) ==
  IF strategy = "object" THEN {"SNW", "SNRW", "X"} ELSE {}

(* MDL_ticket::has_stronger_or_equal_type()                                *)
StrongerOrEqual(strategy, held, type) ==
  GrantedIncompatible(strategy)[type] \subseteq
    GrantedIncompatible(strategy)[held]

(* MDL_ticket::get_deadlock_weight(): DDL requests are dearer than DML.    *)
Weight(type) == IF type \in {"SU", "SRO", "SNW", "SNRW", "X"} THEN 100 ELSE 1
=============================================================================
