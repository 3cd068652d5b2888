----------------------------- MODULE MCLanding -----------------------------
(* Values of the constants of Landing that a cfg cannot write.             *)
EXTENDS Landing, TLC

CONSTANTS a, b, s, t, f, g, v, w

MCNames      == <<a, b>>
MCSubChanges == s :> <<a>> @@ t :> <<b>>

Alone  == {<<s>>, <<t>>}
Nested == {<<s>>, <<s, t>>}

(* Edits of different files; of two files, one of them by both authors.    *)
Apart    == {<<a, f, {v}>>, <<b, g, {w}>>}
Clashing == {<<a, f, {v}>>, <<a, g, {w}>>, <<b, f, {w}>>}

(* Invocations of omo are interchangeable.                                 *)
Symmetry == Permutations(Procs)

(* Each version builds alone; v in f and w in g do not build together.     *)
MCFailsToBuild == {tree \in Tree : v \in tree[f] /\ w \in tree[g]}
=============================================================================
