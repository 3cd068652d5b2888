--------------------------- MODULE MCReplication ---------------------------
(* Values of the constants of Replication that a cfg cannot write.         *)
EXTENDS Replication, TLC

CONSTANTS r1, r2, t, x

(* Two trees that share a subtree with one file.                           *)
MCEntries == r1 :> <<t>> @@ r2 :> <<t>> @@ t :> <<x>> @@ x :> << >>
=============================================================================
