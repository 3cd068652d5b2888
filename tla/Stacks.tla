------------------------------- MODULE Stacks -------------------------------
(***************************************************************************)
(* Stack surgery (crates/omoplata-work/src/stack.rs) and the definition    *)
(* graph (crates/omoplata-identity/src/definition.rs): two structures kept *)
(* in memory, whose operations may refuse.                                 *)
(*                                                                         *)
(* A stack is a sequence of changes, indexed from 1.  A definition graph   *)
(* has the identity of each occurrence, both numbered in the order they    *)
(* were minted.  Refused is the error of either.                           *)
(***************************************************************************)
EXTENDS Integers, SequencesExt

CONSTANT Refused

(* A bug it could have: a change already in the stack is pushed again.     *)
Push_Again(stack, c) == Append(stack, c)

Push(stack, c) == IF c \in ToSet(stack) THEN stack ELSE Append(stack, c)

Reorder(stack, i) ==
  IF i + 1 > Len(stack) THEN Refused
  ELSE [stack EXCEPT ![i] = stack[i + 1], ![i + 1] = stack[i]]

Fold(stack, i, into) ==
  IF i + 1 > Len(stack) THEN Refused
  ELSE [RemoveAt(stack, i + 1) EXCEPT ![i] = into]

Split(stack, i, first, second) ==
  IF i > Len(stack) THEN Refused
  ELSE InsertAt([stack EXCEPT ![i] = first], i + 1, second)

(* How many targets are absorbed: the stack itself does not change.        *)
Absorb(stack, targets) ==
  IF ToSet(targets) \subseteq ToSet(stack) THEN Len(targets) ELSE Refused

(* cmd_absorb and cmd_reorder build their stack from the workspace's own   *)
(* change, and a stand-in when reordering it alone.                        *)
AbsorbInWorkspace(own, targets) == Absorb(FoldLeft(Push, <<own>>, targets), targets)

ReorderInWorkspace(own, standIn, i) == Reorder(Push(<<own>>, standIn), i)

----------------------------------------------------------------------------
NoDefinitions == [identity |-> <<>>, minted |-> 0]

Add(g) == [identity |-> Append(g.identity, g.minted + 1), minted |-> g.minted + 1]

Members(g, id) == {o \in DOMAIN g.identity : g.identity[o] = id}

(* A bug it could have: only the one occurrence moves.                     *)
Join_One(g, a, b) == [g EXCEPT !.identity[b] = g.identity[a]]

Join(g, a, b) ==
  IF {a, b} \subseteq DOMAIN g.identity
  THEN [g EXCEPT !.identity = [o \in DOMAIN @ |->
                                 IF @[o] = @[b] THEN @[a] ELSE @[o]]]
  ELSE Refused

Sever(g, o) ==
  IF o \in DOMAIN g.identity
  THEN [identity |-> [g.identity EXCEPT ![o] = g.minted + 1], minted |-> g.minted + 1]
  ELSE Refused
=============================================================================
