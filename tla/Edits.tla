------------------------------- MODULE Edits -------------------------------
(***************************************************************************)
(* The structures that are edited in place, on inputs built step by step:  *)
(* documents that two authors rewrite and the algebra merges, the graph of *)
(* definitions, and the stack of changes.  What the code computes is an    *)
(* operator of Algebra or Stacks; the actions here are those who make its  *)
(* inputs, or the calls of the structure.  An input has a kind and stays   *)
(* of it.                                                                  *)
(***************************************************************************)
EXTENDS Algebra

CONSTANTS
  Lines, MaxLen,                \* documents: the lines, and how many
  MaxOccurrences, MaxOps        \* definition graphs and stacks

VARIABLE input

Graph == INSTANCE Stacks

(* The error of an operation is none of its results.                       *)
ASSUME RefusedIsNoResult ==
  Refused \notin Seq(Lines) /\ Refused \notin Seq(Nat) /\ Refused \notin Nat

Is(kind) == input.kind = kind

----------------------------------------------------------------------------
(* Documents: one base, and two sides, each rewritten once.                *)

Docs == UNION {[1 .. n -> Lines] : n \in 0 .. MaxLen}

Documents0 == {[kind |-> "documents", base |-> d, left |-> d, right |-> d] : d \in Docs}

Rewrite ==
  /\ Is("documents")
  /\ \E side \in {"left", "right"}, doc \in Docs :
       input[side] = input.base /\ input' = [input EXCEPT ![side] = doc]

Mine == Diff(input.base, input.left)
Onto == Diff(input.base, input.right)
(* I1 and the round trip of diff: independent patches give the same        *)
(* document in either order, and each alone gives its side.                *)
OrdersAgree ==
  Is("documents") =>
    LET c == Commute(Mine, Onto)
        result == Combine(input.base, Mine, c.q_rebased)
    IN /\ Apply(Mine, input.base) = input.left
       /\ c.independent => /\ result # Refused
                           /\ result = Combine(input.base, Onto, c.p_rebased)

(* Patches of one hunk that were not computed by diff.                     *)
Forgeries ==
  {[p |-> <<Hunk(s, r, i)>>, q |-> Onto] :
     s \in 1 .. 2, r \in {<<>>} \cup {<<x>> : x \in Lines}, i \in {<<>>} \cup {<<x>> : x \in Lines}}

(* I8, of the kernel itself: what it admits it verifies, and admits just   *)
(* the same when the sides are exchanged; and a witness nobody diffed for  *)
(* verifies only if it is that of a merge the kernel would admit.          *)
AdmissionsVerify ==
  Is("documents") =>
    LET own == Admit(input.base, input.left, input.right)
        swapped == Admit(input.base, input.right, input.left)
    IN /\ own.merged => /\ VerifyWitness(input.base, own.witness, own.result)
                        /\ swapped.merged /\ swapped.result = own.result
       /\ \A w \in Forgeries, d \in {input.base, input.left, input.right} :
            VerifyWitness(input.base, w, d) =>
              LET a == Admit(input.base, Apply(w.p, input.base), input.right)
              IN a.merged /\ a.result = d

(* A definition graph.  same is who should share an identity: what was     *)
(* joined, by the pairs of occurrences, and not severed since.             *)

Definitions0 == {[kind |-> "graph", graph |-> Graph!NoDefinitions, same |-> {}, ops |-> 0]}

AddOccurrence ==
  /\ Is("graph") /\ Len(input.graph.identity) < MaxOccurrences
  /\ LET g == Graph!Add(input.graph) IN
     input' = [input EXCEPT !.graph = g, !.same = @ \cup {<<Len(g.identity), Len(g.identity)>>}]

JoinOccurrences ==
  /\ Is("graph") /\ input.ops < MaxOps
  /\ \E a, b \in DOMAIN input.graph.identity :
       LET Near(o) == {p \in DOMAIN input.graph.identity : <<o, p>> \in input.same}
       IN input' = [input EXCEPT
            !.graph = Graph!Join(@, a, b), !.ops = @ + 1,
            !.same = @ \cup ((Near(a) \cup Near(b)) \X (Near(a) \cup Near(b)))]

SeverOccurrence ==
  /\ Is("graph") /\ input.ops < MaxOps
  /\ \E o \in DOMAIN input.graph.identity :
       input' = [input EXCEPT
         !.graph = Graph!Sever(@, o), !.ops = @ + 1,
         !.same = {p \in @ : p = <<o, o>> \/ (p[1] # o /\ p[2] # o)}]

(* Joins and severs keep identity an equivalence: two occurrences share    *)
(* one exactly when joins connect them.                                    *)
IdentityFollowsJoins ==
  Is("graph") =>
    \A a, b \in DOMAIN input.graph.identity :
      input.graph.identity[a] = input.graph.identity[b] <=> <<a, b>> \in input.same

----------------------------------------------------------------------------
(* Change stacks.  members is what should be in the stack.                 *)

ChangeStacks == {[kind |-> "stack", stack |-> <<>>, members |-> {}, ops |-> 0]}

Surgery(stack, members) ==
  /\ input.ops < MaxOps
  /\ input' = [input EXCEPT !.ops = @ + 1, !.members = IF stack = Refused THEN @ ELSE members,
                            !.stack = IF stack = Refused THEN @ ELSE stack]

(* The changes to mint: those not in the stack, the least first.           *)
Fresh == 1 .. 2 * MaxOps \ input.members

Least(S) == {c \in S : \A d \in S : c <= d}

PushChange ==
  /\ Is("stack")
  /\ \E c \in 1 .. MaxOps : Surgery(Graph!Push(input.stack, c), input.members \cup {c})

ReorderChanges ==
  /\ Is("stack")
  /\ \E i \in 1 .. Len(input.stack) : Surgery(Graph!Reorder(input.stack, i), input.members)

(* Two neighbours become one, which is new or one of them.                 *)
FoldChanges ==
  /\ Is("stack")
  /\ \E i \in 1 .. Len(input.stack) - 1 :
       LET pair == {input.stack[i], input.stack[i + 1]}
       IN \E into \in Least(Fresh) \cup pair :
            Surgery(Graph!Fold(input.stack, i, into), (input.members \ pair) \cup {into})

SplitChange ==
  /\ Is("stack")
  /\ \E i \in 1 .. Len(input.stack) :
       \E first \in Least(Fresh) \cup {input.stack[i]} : \E second \in Least(Fresh \ {first}) :
         Surgery(Graph!Split(input.stack, i, first, second),
                 (input.members \ {input.stack[i]}) \cup {first, second})

(* No sequence of pushes, reorders, folds and splits loses a change or has *)
(* one twice; a split is undone by a fold, a reorder by itself; and absorb *)
(* takes exactly the changes of the stack.                                 *)
StackKeepsItsChanges ==
  Is("stack") =>
    LET s == input.stack
    IN /\ IsInjective(s) /\ ToSet(s) = input.members
       /\ \A i \in DOMAIN s : \A first, second \in Fresh :
            Graph!Fold(Graph!Split(s, i, first, second), i, s[i]) = s
       /\ \A i \in 1 .. Len(s) - 1 : Graph!Reorder(Graph!Reorder(s, i), i) = s
       /\ \A c \in 1 .. MaxOps : Graph!Absorb(s, <<c>>) # Refused <=> c \in input.members

----------------------------------------------------------------------------
EditsInit == input \in Documents0 \cup Definitions0 \cup ChangeStacks

EditsNext ==
  \/ Rewrite
  \/ AddOccurrence \/ JoinOccurrences \/ SeverOccurrence
  \/ PushChange \/ ReorderChanges \/ FoldChanges \/ SplitChange

EditsSpec == EditsInit /\ [][EditsNext]_input
=============================================================================
