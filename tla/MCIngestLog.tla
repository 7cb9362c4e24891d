----------------------------- MODULE MCIngestLog -----------------------------
(* IngestLog for TLC: two rows, in a table of their own or in the same one (t1 = t2).
   Swapping both the rows and the tables maps behaviours to behaviours. *)
EXTENDS IngestLog, TLC

CONSTANTS r1, r2, t1, t2

MCTableOf == [r \in Rows |-> IF r = r1 THEN t1 ELSE t2]

MCSymmetry ==
    {(r1 :> r1) @@ (r2 :> r2) @@ (t1 :> t1) @@ (t2 :> t2),
     (r1 :> r2) @@ (r2 :> r1) @@ (t1 :> t2) @@ (t2 :> t1)}
=============================================================================
