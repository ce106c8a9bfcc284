----------------------------- MODULE MCDatabase -----------------------------
(* Three migrations and two callers; two pools of one connection and three   *)
(* requests; two batches over the same ids in opposite orders and one vector. *)
EXTENDS Database

CONSTANTS c1, c2, r1, r2, r3, b1, b2, b3, x, y, z

MCVersions == 1 .. 3
MCRecords == [b \in {b1, b2, b3} |->
                CASE b = b1 -> <<x, y>> [] b = b2 -> <<y, x>> [] b = b3 -> <<z>>]
=============================================================================
