---------------------------- MODULE ChangeGraph ----------------------------
(***************************************************************************)
(* The change graph of crates/omoplata-identity/src/change.rs: changes,    *)
(* whose commits are their revisions, the supersession edges between       *)
(* commits, and phases; and the rebase engine that keeps one (autorebase.  *)
(* rs).  A graph is a value in the memory of one process: the engine makes *)
(* it and into_parts hands it to a caller, who may call anything on it.    *)
(***************************************************************************)
EXTENDS Integers, Sequences, FiniteSets

CONSTANTS Changes,       \* change ids
          Commits,       \* commit ids; equal content is an equal id
          None,          \* Option::None
          MaxRevisions,  \* bound on the revisions a caller gives a change
          MaxRebases     \* bound on the rebases of a session

Change == [revisions : Seq(Commits), phase : {"draft", "public"}]

ASSUME GraphAssumption ==
  /\ None \notin Commits /\ None \notin Changes
  /\ None \notin Change
  /\ MaxRevisions \in Nat /\ MaxRebases \in Nat

VARIABLES graph,    \* ChangeGraph: changes, commit_owner and superseded_by
          rebases,  \* the OpKind::Rebase entries of the engine's log
          held,     \* who holds the graph: "engine" or, after into_parts, "caller"
          dropped,  \* history: the commits whose owner an add_change replaced
                    \* by one that does not list them
          added     \* history: the change the last call gave to add_change

vars == << graph, rebases, held, dropped, added >>

Graph  == [changes      : [Changes -> Change \cup {None}],
           owner        : [Commits -> Changes \cup {None}],
           supersededBy : [Commits -> Commits \cup {None}]]

EmptyGraph == [changes      |-> [c \in Changes |-> None],
               owner        |-> [k \in Commits |-> None],
               supersededBy |-> [k \in Commits |-> None]]

Known(g, c)     == g.changes[c] # None
Public(g, c)    == Known(g, c) /\ g.changes[c].phase = "public"
Revisions(g, c) == IF Known(g, c) THEN g.changes[c].revisions ELSE << >>
IsRevision(g, c, k) == \E i \in DOMAIN Revisions(g, c) : Revisions(g, c)[i] = k

(* The walk along the edges from `from` comes to target: no set of commits *)
(* that is closed under the edges holds the one without the other.         *)
Closed(g, S) == \A k \in S : g.supersededBy[k] # None => g.supersededBy[k] \in S
LeadsTo(g, from, target) ==
  \A S \in SUBSET Commits : Closed(g, S) /\ from \in S => target \in S

(* What a caller may give to add_change, up to the bound.                  *)
Listings == UNION {[1 .. n -> Commits] : n \in 0 .. MaxRevisions}
Phases   == {"draft", "public"}

-----------------------------------------------------------------------------
(* Bugs the graph could have.                                              *)

(* Only the edge back is looked for, not the path.                         *)
Reaches_OneEdge(g, from, target) == from = target \/ g.supersededBy[from] = target

(* The change is replaced when the revision is new to it.                  *)
WithRevision_Replaces(g, c, k) ==
  [g EXCEPT !.owner[k] = c, !.changes[c].revisions = << k >>]

-----------------------------------------------------------------------------
(* The ways a caller and the engine change a graph.                        *)

Listed(revs) == {revs[i] : i \in DOMAIN revs}

(* add_change: a change with the same id is replaced, whatever it lists    *)
(* and whatever its phase; the commits it listed stay registered to it.    *)
WithChange(g, c, revs, phase) ==
  [g EXCEPT !.changes[c] = [revisions |-> revs, phase |-> phase],
            !.owner = [k \in Commits |-> IF k \in Listed(revs) THEN c ELSE @[k]]]

(* add_revision: the last change to register a commit owns it.             *)
WithRevision(g, c, k) ==
  [g EXCEPT !.owner[k] = c, !.changes[c].revisions = Append(@, k)]

(* ensure_revision.                                                        *)
Ensured(g, c, k) ==
  IF ~Known(g, c) THEN WithChange(g, c, << k >>, "draft")
  ELSE IF IsRevision(g, c, k) THEN g
  ELSE WithRevision(g, c, k)

(* reaches, with from = target the empty walk.                             *)
Reaches(g, from, target) == LeadsTo(g, from, target)

(* Only the commit that is superseded is looked up.                        *)
MaySupersede_NewUnknown(g, old, new) ==
  /\ g.owner[old] # None
  /\ ~Public(g, g.owner[old])
  /\ ~Reaches(g, new, old)

(* The checks of supersede.                                                *)
MaySupersede(g, old, new) ==
  /\ g.owner[old] # None
  /\ g.owner[new] # None
  /\ ~Public(g, g.owner[old])
  /\ ~Reaches(g, new, old)

(* The edge points the wrong way.                                          *)
WithEdge_Reversed(g, old, new) == [g EXCEPT !.supersededBy[new] = old]

(* The edge is recorded; an earlier one from the same commit is replaced.  *)
WithEdge(g, old, new) == [g EXCEPT !.supersededBy[old] = new]

(* tip: the walk from the first revision until there is no edge, or one    *)
(* back to a commit already seen.                                          *)
Tip(g, c) ==
  LET cursor[n \in 0 .. Cardinality(Commits)] ==
        IF n = 0 THEN Revisions(g, c)[1]
        ELSE LET next == g.supersededBy[cursor[n - 1]]
             IN  IF next = None \/ \E i \in 0 .. n - 1 : cursor[i] = next
                 THEN cursor[n - 1] ELSE next
  IN  IF Revisions(g, c) = << >> THEN None ELSE cursor[Cardinality(Commits)]

-----------------------------------------------------------------------------
Init == /\ graph = EmptyGraph
        /\ rebases = << >>
        /\ held = "engine"
        /\ dropped = {}
        /\ added = None

(* RebaseEngine::auto_rebase: the replay of `old` stored as `new`.  The op *)
(* is logged first; when supersede then refuses, the call fails with the   *)
(* op and the revisions recorded and no edge.                              *)
AutoRebase(c, old, new) ==
  LET before == Ensured(graph, c, old)
      both   == Ensured(before, c, new)
  IN  /\ held = "engine"
      /\ Len(rebases) < MaxRebases
      /\ rebases' = Append(rebases, [change |-> c, old |-> old, new |-> new])
      /\ graph' = IF new = old THEN before
                  ELSE IF MaySupersede(both, old, new) THEN WithEdge(both, old, new)
                  ELSE both
      /\ UNCHANGED << held, dropped, added >>

(* RebaseEngine::into_parts: the graph and the log go to the caller.  No   *)
(* method of the graph reads the log, and the model forgets it here.       *)
IntoParts ==
  /\ held = "engine"
  /\ held' = "caller"
  /\ rebases' = << >>
  /\ UNCHANGED << graph, dropped, added >>

(* What a caller does with the graph it holds.                             *)
Call(g) ==
  /\ held = "caller"
  /\ graph' = g
  /\ UNCHANGED << rebases, held >>

AddChange(c, revs, phase) ==
  /\ Call(WithChange(graph, c, revs, phase))
  /\ dropped' = (dropped \cup {k \in Commits : graph.owner[k] = c}) \ Listed(revs)
  /\ added' = c

AddRevision(c, k) ==
  /\ Known(graph, c)
  /\ Len(Revisions(graph, c)) < MaxRevisions
  /\ Call(WithRevision(graph, c, k))
  /\ dropped' = dropped \ {k}
  /\ added' = None

Supersede(old, new) ==
  /\ MaySupersede(graph, old, new)
  /\ Call(WithEdge(graph, old, new))
  /\ dropped' = dropped
  /\ added' = None

(* A public change may be reopened.                                        *)
SetPhase_Regresses(c, phase) ==
  /\ Known(graph, c)
  /\ Call([graph EXCEPT !.changes[c].phase = phase])
  /\ dropped' = dropped
  /\ added' = None

(* set_phase: Public -> Draft is refused.                                  *)
SetPhase(c, phase) ==
  /\ Known(graph, c)
  /\ ~(Public(graph, c) /\ phase = "draft")
  /\ Call([graph EXCEPT !.changes[c].phase = phase])
  /\ dropped' = dropped
  /\ added' = None

Next ==
  \/ \E c \in Changes, old, new \in Commits : AutoRebase(c, old, new)
  \/ IntoParts
  \/ \E c \in Changes, revs \in Listings, phase \in Phases : AddChange(c, revs, phase)
  \/ \E c \in Changes, k \in Commits : AddRevision(c, k)
  \/ \E old, new \in Commits : Supersede(old, new)
  \/ \E c \in Changes, phase \in Phases : SetPhase(c, phase)

Spec == Init /\ [][Next]_vars

-----------------------------------------------------------------------------
(* The graph, the log, their holder and the history have their types, and  *)
(* commit_owner and the revisions agree: the owner of a commit lists it,   *)
(* unless an add_change replaced that owner by one that does not.          *)
OwnedIsListed(g, lost) ==
  \A k \in Commits : g.owner[k] # None => IsRevision(g, g.owner[k], k) \/ k \in lost

TypeOK ==
  /\ graph \in Graph /\ OwnedIsListed(graph, dropped)
  /\ rebases \in Seq([change : Changes, old : Commits, new : Commits])
  /\ held \in {"engine", "caller"}
  /\ dropped \in SUBSET Commits
  /\ added \in Changes \cup {None}

(* I6: no chain of edges leads from a commit back to it.                   *)
Acyclic ==
  \A k \in Commits :
    graph.supersededBy[k] # None => ~LeadsTo(graph, graph.supersededBy[k], k)

(* I6: no orphaned obsolescence.  Both ends of an edge are revisions that  *)
(* some change lists, and not only commits somebody once owned.  Only an   *)
(* add_change that replaces a change can take an end from the lists.       *)
Findable(k) == \/ \E c \in Changes : IsRevision(graph, c, k)
               \/ k \in dropped

NoOrphans ==
  \A k \in Commits : graph.supersededBy[k] # None =>
    Findable(k) /\ Findable(graph.supersededBy[k])

(* I6, supersession well-formedness, under any calls of the graph's        *)
(* methods: no edges that supersede records or replaces close a cycle, and *)
(* nothing but a replacing add_change orphans the end of one.              *)
SupersessionWellFormed == Acyclic /\ NoOrphans

(* P5: the tip of a public change is final, and it stays public, under     *)
(* every call but an add_change of that change, which replaces it.  What   *)
(* the code guarantees this for are the changes that own every commit from *)
(* their first revision to their tip: a commit of equal content in another *)
(* change belongs to whichever registered it last, and a draft owner may   *)
(* supersede it.                                                           *)
OwnsItsHistory(g, c) ==
  \A k \in Commits : LeadsTo(g, Revisions(g, c)[1], k) => g.owner[k] = c

PublicTipIsFinal ==
  [][ \A c \in Changes :
        Public(graph, c) /\ Revisions(graph, c) # << >> /\ OwnsItsHistory(graph, c)
          => \/ Public(graph', c) /\ Tip(graph', c) = Tip(graph, c)
             \/ added' = c ]_vars

(* Thesis claim 3, valid time and transaction time are jointly queryable:  *)
(* the tip the graph gives for a change is the result of the last rebase   *)
(* the log records of it.  Given that each rebase starts where the last    *)
(* ended, none returns to content the change had before (supersede refuses *)
(* that as a cycle, with the op already logged) and no other change was    *)
(* rebased from or to the same content.                                    *)
Rebased(c) == {i \in DOMAIN rebases : rebases[i].change = c}

Straight(c) ==
  \A i, j \in Rebased(c) :
    /\ j < i /\ (\A k \in Rebased(c) : k <= j \/ i <= k) =>
         rebases[i].old = rebases[j].new
    /\ j <= i /\ rebases[j].old = rebases[i].new => rebases[i].new = rebases[i].old

Unshared(c) ==
  \A i \in Rebased(c), j \in DOMAIN rebases \ Rebased(c) :
    {rebases[i].old, rebases[i].new} \cap {rebases[j].old, rebases[j].new} = {}

JointlyQueryable ==
  held = "engine" =>
    \A c \in Changes : \A i \in Rebased(c) :
      (\A j \in Rebased(c) : j <= i) /\ Straight(c) /\ Unshared(c)
        => Tip(graph, c) = rebases[i].new
=============================================================================
