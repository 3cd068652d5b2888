---------------------------- MODULE Definitions ----------------------------
(***************************************************************************)
(* Definition identity (crates/omoplata-identity/src/definition.rs): the   *)
(* tiered matcher that carries identity from one version of a file to the  *)
(* next.                                                                   *)
(*                                                                         *)
(* Extraction is a tree-sitter parse and stays out: a definition is a      *)
(* record with a kind, a path (a sequence of scope names that ends in the  *)
(* definition's own name), a body (the lines of its text but for the name  *)
(* and the members) and, of a container, its members as items and gaps.    *)
(***************************************************************************)
EXTENDS Integers, SequencesExt, FiniteSetsExt

(* The next definition of new, in order, takes the first definition of old *)
(* that is free and matches.                                               *)
Tier(old, new, pairs, Matches(_, _)) ==
  FoldLeftDomain(
    LAMBDA acc, j :
      LET free == {i \in DOMAIN old : /\ \A p \in acc : p[1] # i
                                      /\ Matches(old[i], new[j])}
      IN IF free = {} \/ \E p \in acc : p[2] = j
         THEN acc
         ELSE acc \cup {<<Min(free), j>>},
    pairs, new)

(* The text between items stays with the item it precedes.                 *)
Interleaved(gaps, texts) ==
  FlattenSeq([k \in DOMAIN gaps |->
    gaps[k] \o (IF k \in DOMAIN texts THEN texts[k] ELSE <<>>)])

RECURSIVE DefinitionText(_)
(* The text that is parsed: the line of the name, the body, the members.   *)
DefinitionText(d) ==
  d.path \o d.body
    \o Interleaved(d.gaps, [k \in DOMAIN d.items |-> DefinitionText(d.items[k])])

(* What is hashed is the whole text, the members' included, without the    *)
(* definition's own name; an impl has no name field and is hashed in full. *)
BodyHash(d) ==
  (IF d.kind = "impl" THEN d.path ELSE <<>>)
    \o DefinitionText([d EXCEPT !.path = <<>>])

SameDefinition(o, n) == o.kind = n.kind /\ o.path = n.path

IsRename(o, n) == o.kind = n.kind /\ BodyHash(o) = BodyHash(n) /\ o.path # n.path

IsMove(o, n) == IsRename(o, n) /\ Last(o.path) = Last(n.path)

(* <<i, j>> for every old definition i that is the new definition j.       *)
MatchDefinitions(old, new) ==
  LET exact   == Tier(old, new, {}, SameDefinition)
      renamed == Tier(old, new, exact, IsRename)
  IN Tier(old, new, renamed, IsMove)

Deleted(old, matches)  == {i \in DOMAIN old : \A p \in matches : p[1] # i}
Added(new, matches)    == {j \in DOMAIN new : \A p \in matches : p[2] # j}
=============================================================================
