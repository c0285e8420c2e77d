------------------------------- MODULE MCMdl -------------------------------
(* Instances of Mdl for TLC.                                               *)
EXTENDS Mdl

CONSTANTS a, b, c

(* Contexts are interchangeable where they make the same calls; used for   *)
(* safety properties only.                                                 *)
Symmetry == Permutations(Contexts)

OneTable == [l \in {1} |-> "object"]
TwoTables == [l \in {1, 2} |-> "object"]
ThreeTables == [l \in {1, 2, 3} |-> "object"]
SchemaAndTable == [l \in {1, 2} |-> IF l = 1 THEN "scoped" ELSE "object"]

Timed(l, y, d) == {[lock |-> l, type |-> y, dur |-> d]}
One(l, y) == Timed(l, y, "TRANSACTION")
Everyone(calls) == [x \in Contexts |-> calls]

(* A writer, a session that writes or alters, and one that alters.         *)
AlterCalls ==
  [x \in Contexts |->
     CASE x = a -> {One(1, "SW")}
       [] x = b -> {One(1, "SW"), One(1, "SU")}
       [] OTHER -> {One(1, "SU")}]

(* DDL on three tables, one at a time.                                     *)
RingCalls == Everyone({One(l, "X") : l \in {1, 2, 3}})

(* A session that uses every duration beside one that drops the table, or  *)
(* its schema.                                                             *)
SessionCalls ==
  [x \in Contexts |->
     IF x = a THEN {Timed(2, "SR", d) : d \in AllDurations} \cup
                   {Timed(1, "IX", "STATEMENT") \cup One(2, "SU")}
              ELSE {One(2, "X"), One(1, "X")}]

(* Readers and DDL on one table.                                           *)
DropCalls == Everyone({One(1, "SR"), One(1, "X")})

(* Two tables, used in any order; the writers of the first may upgrade, as *)
(* ha_sequence::write_row() does.                                          *)
CrossCalls == Everyone({One(1, "SW"), One(1, "X"), One(2, "SU")})
=============================================================================
