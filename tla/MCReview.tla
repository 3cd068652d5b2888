------------------------------ MODULE MCReview ------------------------------
(* Values of the constants of Review that a cfg cannot write.              *)
EXTENDS Review, TLC

CONSTANTS f, d, e, x

(* ws/a and ws/b; a queue called release.                                  *)
A == <<"ws", "a">>
B == <<"ws", "b">>

MCChanges   == {A, B}
MCSubmitted == {<<{A}, "pending">>, <<{B}, "approved">>}
MCNameOrder == << <<"release", "ws", "a">>, <<"release", "ws", "b">>, A, B >>

(* Each author writes a definition; the first takes the other's over, and  *)
(* may drop his own.                                                       *)
Overtaking == {<<A, f, d, x>>, <<B, f, e, x>>, <<A, f, e, x>>}
Dropping   == {<<A, f, d, x>>, <<A, f, d, Gone>>}

Symmetric == Permutations(Procs)
=============================================================================
