------------------------- MODULE ChangeGraphProofs -------------------------
(***************************************************************************)
(* For any changes and commits, finitely many or not, and any sequence of  *)
(* rebases and calls, the change graph keeps I6: no cycle (Acyclic), and   *)
(* no orphaned obsolescence but by an add_change that replaces a change    *)
(* (NoOrphans).  For finitely many commits, which the walk of tip needs to *)
(* end, the tip of a public change that is not itself replaced is final    *)
(* (P5), and the tip of a change in the engine is what the log says it is. *)
(***************************************************************************)
EXTENDS ChangeGraph, TLAPS, WellFoundedInduction, FiniteSetTheorems

(* A nonempty set of natural numbers has a least element.                  *)
LEMMA LeastExists ==
  ASSUME NEW S \in SUBSET Nat, S # {}
  PROVE  \E m \in S : \A s \in S : m <= s
<1>1. PICK m \in S : \A y \in S : ~ (<<y, m>> \in OpToRel(<, Nat))
  BY NatLessThanWellFounded, WFMin
<1>2. \A y \in S : ~ (y < m)
  BY <1>1 DEF OpToRel
<1> QED BY <1>2

(* A nonempty set of numbers up to n has a greatest element.               *)
LEMMA GreatestExists ==
  ASSUME NEW n \in Nat, NEW S \in SUBSET (0 .. n), S # {}
  PROVE  \E m \in S : \A s \in S : s <= m
<1> DEFINE T == {n - s : s \in S}
<1>1. T \subseteq Nat /\ T # {}
  <2>1. \A s \in S : n - s \in Nat
    OBVIOUS
  <2> QED BY <2>1
<1>2. PICK t \in T : \A y \in T : t <= y
  <2> HIDE DEF T
  <2> QED BY <1>1, LeastExists
<1>3. PICK m \in S : t = n - m
  OBVIOUS
<1>4. \A s \in S : n - m <= n - s
  BY <1>2, <1>3
<1> QED BY <1>4

(* Induction up to n.                                                      *)
LEMMA UpTo ==
  ASSUME NEW n \in Nat, NEW S, 0 \in S,
         \A i \in 0 .. n - 1 : i \in S => i + 1 \in S
  PROVE  \A i \in 0 .. n : i \in S
<1> DEFINE T == {i \in 0 .. n : i \notin S}
<1> SUFFICES ASSUME T # {} PROVE FALSE
  OBVIOUS
<1>0. T \subseteq Nat
  OBVIOUS
<1>1. PICK m \in T : \A i \in T : m <= i
  <2> HIDE DEF T
  <2> QED BY <1>0, LeastExists
<1>2. m - 1 \in 0 .. n - 1 /\ m - 1 \notin T
  BY <1>1
<1> QED BY <1>1, <1>2

-----------------------------------------------------------------------------
(* Both ends of an edge have an owner; as an owner lists its commits but   *)
(* the dropped ones, what supersede tests, commit_owner, means what I6     *)
(* says of all others.                                                     *)
EndsAreOwned(g) ==
  \A k \in Commits : g.supersededBy[k] # None =>
    g.owner[k] # None /\ g.owner[g.supersededBy[k]] # None

NoCycle(g) ==
  \A k \in Commits :
    g.supersededBy[k] # None => ~LeadsTo(g, g.supersededBy[k], k)

Sound(g, lost) ==
  g \in Graph /\ OwnedIsListed(g, lost) /\ EndsAreOwned(g) /\ NoCycle(g)

IInv == TypeOK /\ Sound(graph, dropped)

-----------------------------------------------------------------------------
(* Whether one commit reaches another depends on the edges only.           *)
LEMMA SameEdgesSameCycles ==
  ASSUME NEW g, NEW h, h.supersededBy = g.supersededBy, NoCycle(g)
  PROVE  NoCycle(h)
BY DEF NoCycle, LeadsTo, Closed

(* The test of supersede is enough: an edge to a commit that does not      *)
(* reach its start closes no cycle.  The witness that y does not reach x   *)
(* in the new graph is the set that showed it in the old one, cut down, if *)
(* the new edge leaves it, to commits that do not reach `old`.             *)
LEMMA EdgeClosesNoCycle ==
  ASSUME NEW g \in Graph, NEW old \in Commits, NEW new \in Commits,
         NoCycle(g), ~LeadsTo(g, new, old)
  PROVE  NoCycle(WithEdge(g, old, new))
<1> DEFINE h == WithEdge(g, old, new)
<1>1. /\ h.supersededBy = [g.supersededBy EXCEPT ![old] = new]
      /\ g.supersededBy \in [Commits -> Commits \cup {None}]
  BY DEF WithEdge, Graph
<1>2. /\ h.supersededBy[old] = new
      /\ \A k \in Commits : k # old => h.supersededBy[k] = g.supersededBy[k]
  BY <1>1
<1>3. PICK T \in SUBSET Commits : Closed(g, T) /\ new \in T /\ old \notin T
  BY DEF LeadsTo
<1>4. \A S \in SUBSET Commits : Closed(g, S) /\ old \notin S => Closed(h, S)
  BY <1>2 DEF Closed
<1>5. SUFFICES ASSUME NEW x \in Commits, h.supersededBy[x] # None
               PROVE  ~LeadsTo(h, h.supersededBy[x], x)
  BY DEF NoCycle
<1>6. CASE x = old
  <2>1. Closed(h, T) /\ h.supersededBy[x] \in T /\ x \notin T
    BY <1>2, <1>3, <1>4, <1>6
  <2> QED BY <2>1 DEF LeadsTo
<1>7. CASE x # old
  <2> DEFINE y == g.supersededBy[x]
  <2>1. h.supersededBy[x] = y /\ y # None
    BY <1>2, <1>5, <1>7
  <2>2. PICK S \in SUBSET Commits : Closed(g, S) /\ y \in S /\ x \notin S
    BY <2>1 DEF NoCycle, LeadsTo
  <2>3. CASE old \notin S
    BY <1>4, <2>1, <2>2, <2>3 DEF LeadsTo
  <2>4. CASE x \notin T
    <3>1. Closed(h, S \cup T)
      BY <1>2, <1>3, <2>2 DEF Closed
    <3>2. y \in S \cup T /\ x \notin S \cup T /\ S \cup T \in SUBSET Commits
      BY <2>2, <2>4
    <3> QED BY <2>1, <3>1, <3>2 DEF LeadsTo
  <2>5. CASE x \in T
    <3>1. y \in T
      BY <1>3, <2>1, <2>5 DEF Closed
    <3>2. Closed(g, S \cap T)
      BY <1>3, <2>2 DEF Closed
    <3>3. Closed(h, S \cap T)
      BY <1>3, <1>4, <3>2
    <3> QED BY <2>1, <2>2, <3>1, <3>3 DEF LeadsTo
  <2> QED BY <2>3, <2>4, <2>5
<1> QED BY <1>6, <1>7

(* Adding an edge between owned commits.                                   *)
LEMMA EdgeIsSound ==
  ASSUME NEW g, NEW lost, Sound(g, lost), NEW old \in Commits, NEW new \in Commits,
         MaySupersede(g, old, new)
  PROVE  Sound(WithEdge(g, old, new), lost)
<1> DEFINE h == WithEdge(g, old, new)
<1>1. g \in Graph
  BY DEF Sound
<1>2. /\ h \in Graph
      /\ h.owner = g.owner /\ h.changes = g.changes
      /\ h.supersededBy[old] = new
      /\ \A k \in Commits : k # old => h.supersededBy[k] = g.supersededBy[k]
  BY <1>1 DEF WithEdge, Graph
<1>3. OwnedIsListed(h, lost)
  BY <1>2 DEF Sound, OwnedIsListed, IsRevision, Revisions, Known
<1>4. EndsAreOwned(h)
  BY <1>2 DEF Sound, EndsAreOwned, MaySupersede
<1>5. NoCycle(h)
  BY <1>1, EdgeClosesNoCycle DEF Sound, MaySupersede, Reaches
<1> QED BY <1>2, <1>3, <1>4, <1>5 DEF Sound

-----------------------------------------------------------------------------
(* Who was lost may be taken larger than need be.                          *)
LEMMA MoreLost ==
  ASSUME NEW g, NEW lost, Sound(g, lost), NEW more, lost \subseteq more
  PROVE  Sound(g, more)
BY DEF Sound, OwnedIsListed

(* A change that is added takes its revisions from their owners, and loses *)
(* those that were its own and are not listed again.                       *)
LEMMA ChangeIsSound ==
  ASSUME NEW g, NEW lost, Sound(g, lost), NEW c \in Changes, NEW revs \in Seq(Commits),
         NEW phase \in Phases
  PROVE  Sound(WithChange(g, c, revs, phase),
               (lost \cup {k \in Commits : g.owner[k] = c}) \ Listed(revs))
<1> DEFINE h == WithChange(g, c, revs, phase)
           new == [revisions |-> revs, phase |-> phase]
           gone == (lost \cup {k \in Commits : g.owner[k] = c}) \ Listed(revs)
<1> USE GraphAssumption
<1>1. /\ g \in Graph
      /\ g.changes \in [Changes -> Change \cup {None}]
      /\ g.owner \in [Commits -> Changes \cup {None}]
  BY DEF Sound, Graph
<1>2. new \in Change /\ new # None /\ new.revisions = revs
  BY DEF Change, Phases
<1>3. /\ h.supersededBy = g.supersededBy
      /\ h.changes = [g.changes EXCEPT ![c] = new]
      /\ h.owner = [k \in Commits |-> IF k \in Listed(revs) THEN c ELSE g.owner[k]]
  BY <1>1 DEF WithChange, Graph
<1>4. h \in Graph
  <2>1. h = [g EXCEPT !.changes = h.changes, !.owner = h.owner]
    BY <1>1, <1>3 DEF WithChange, Graph
  <2>2. h.changes \in [Changes -> Change \cup {None}]
    BY <1>1, <1>2, <1>3
  <2>3. h.owner \in [Commits -> Changes \cup {None}]
    BY <1>1, <1>3
  <2> QED BY <1>1, <2>1, <2>2, <2>3 DEF Graph
<1>5. OwnedIsListed(h, gone)
  <2> SUFFICES ASSUME NEW k \in Commits, h.owner[k] # None, k \notin gone
               PROVE  IsRevision(h, h.owner[k], k)
    BY DEF OwnedIsListed
  <2>1. Revisions(h, c) = revs
    BY <1>1, <1>2, <1>3 DEF Revisions, Known
  <2>2. CASE k \in Listed(revs)
    <3>1. h.owner[k] = c
      BY <1>3, <2>2
    <3> QED BY <2>1, <2>2, <3>1 DEF IsRevision, Listed
  <2>3. CASE k \notin Listed(revs)
    <3>1. h.owner[k] = g.owner[k] /\ g.owner[k] # c /\ g.owner[k] \in Changes
      BY <1>1, <1>3, <2>3
    <3>2. IsRevision(g, g.owner[k], k)
      BY <2>3, <3>1 DEF Sound, OwnedIsListed
    <3>3. Revisions(h, g.owner[k]) = Revisions(g, g.owner[k])
      BY <1>1, <1>3, <3>1 DEF Revisions, Known
    <3> QED BY <3>1, <3>2, <3>3 DEF IsRevision
  <2> QED BY <2>2, <2>3
<1>6. EndsAreOwned(h)
  <2>1. \A k \in Commits : g.owner[k] # None => h.owner[k] # None
    BY <1>3
  <2>2. \A k \in Commits : g.supersededBy[k] # None => g.supersededBy[k] \in Commits
    BY <1>1 DEF Graph
  <2> QED BY <1>3, <2>1, <2>2 DEF Sound, EndsAreOwned
<1>7. NoCycle(h)
  BY <1>3, SameEdgesSameCycles DEF Sound
<1> QED BY <1>4, <1>5, <1>6, <1>7 DEF Sound

(* A new revision is listed by its new owner.                              *)
LEMMA RevisionIsSound ==
  ASSUME NEW g, NEW lost, Sound(g, lost), NEW c \in Changes, NEW k \in Commits, Known(g, c)
  PROVE  Sound(WithRevision(g, c, k), lost \ {k})
<1> DEFINE h == WithRevision(g, c, k)
           revs == g.changes[c].revisions
           new == [g.changes[c] EXCEPT !.revisions = Append(revs, k)]
<1> USE GraphAssumption
<1>1. /\ g \in Graph
      /\ g.changes \in [Changes -> Change \cup {None}]
      /\ g.owner \in [Commits -> Changes \cup {None}]
      /\ g.changes[c] \in Change /\ revs \in Seq(Commits)
  BY DEF Sound, Graph, Known, Change
<1>2. /\ new \in Change /\ new # None
      /\ new.revisions = Append(revs, k)
  <2>1. Append(revs, k) \in Seq(Commits)
    BY <1>1
  <2>2. new \in Change /\ new.revisions = Append(revs, k)
    <3> HIDE DEF revs
    <3> QED BY <1>1, <2>1 DEF Change
  <2> QED BY <2>2
<1>3. /\ h.supersededBy = g.supersededBy
      /\ h.changes = [g.changes EXCEPT ![c] = new]
      /\ h.owner = [g.owner EXCEPT ![k] = c]
  BY <1>1 DEF WithRevision, Graph
<1>4. h \in Graph
  <2>1. h = [g EXCEPT !.changes = h.changes, !.owner = h.owner]
    BY <1>1, <1>3 DEF WithRevision, Graph
  <2>2. h.changes \in [Changes -> Change \cup {None}]
    <3> HIDE DEF new, h
    <3> QED BY <1>1, <1>2, <1>3
  <2>3. h.owner \in [Commits -> Changes \cup {None}]
    BY <1>1, <1>3
  <2> QED BY <1>1, <2>1, <2>2, <2>3 DEF Graph
<1>5. OwnedIsListed(h, lost \ {k})
  <2> SUFFICES ASSUME NEW j \in Commits, h.owner[j] # None, j \notin lost \ {k}
               PROVE  IsRevision(h, h.owner[j], j)
    BY DEF OwnedIsListed
  <2>1. Revisions(h, c) = Append(revs, k) /\ Revisions(g, c) = revs
    BY <1>1, <1>2, <1>3 DEF Revisions, Known
  <2>2. CASE j = k
    <3>1. h.owner[j] = c
      BY <1>1, <1>3, <2>2
    <3>2. Len(revs) + 1 \in DOMAIN Append(revs, k) /\ Append(revs, k)[Len(revs) + 1] = k
      BY <1>1
    <3> QED BY <2>1, <2>2, <3>1, <3>2 DEF IsRevision
  <2>3. CASE j # k
    <3>1. h.owner[j] = g.owner[j] /\ IsRevision(g, g.owner[j], j) /\ g.owner[j] \in Changes
      BY <1>1, <1>3, <2>3 DEF Sound, OwnedIsListed
    <3>2. CASE g.owner[j] = c
      <4>1. PICK i \in DOMAIN revs : revs[i] = j
        BY <2>1, <3>1, <3>2 DEF IsRevision
      <4>2. i \in DOMAIN Append(revs, k) /\ Append(revs, k)[i] = j
        BY <1>1, <4>1
      <4> QED BY <2>1, <3>1, <3>2, <4>2 DEF IsRevision
    <3>3. CASE g.owner[j] # c
      <4>1. Revisions(h, g.owner[j]) = Revisions(g, g.owner[j])
        BY <1>1, <1>3, <3>1, <3>3 DEF Revisions, Known
      <4> QED BY <3>1, <4>1 DEF IsRevision
    <3> QED BY <3>2, <3>3
  <2> QED BY <2>2, <2>3
<1>6. EndsAreOwned(h)
  <2>1. \A j \in Commits : g.owner[j] # None => h.owner[j] # None
    BY <1>1, <1>3
  <2>2. \A j \in Commits : g.supersededBy[j] # None => g.supersededBy[j] \in Commits
    BY <1>1 DEF Graph
  <2> QED BY <1>3, <2>1, <2>2 DEF Sound, EndsAreOwned
<1>7. NoCycle(h)
  BY <1>3, SameEdgesSameCycles DEF Sound
<1> QED BY <1>4, <1>5, <1>6, <1>7 DEF Sound

(* The engine replaces no change, and so loses nothing.                    *)
LEMMA EnsuredIsSound ==
  ASSUME NEW g, NEW lost, Sound(g, lost), NEW c \in Changes, NEW k \in Commits
  PROVE  Sound(Ensured(g, c, k), lost)
<1>1. CASE ~Known(g, c)
  <2> DEFINE gone == (lost \cup {j \in Commits : g.owner[j] = c}) \ Listed(<< k >>)
  <2>1. << k >> \in Seq(Commits) /\ "draft" \in Phases
    BY DEF Phases
  <2>2. Sound(WithChange(g, c, << k >>, "draft"), gone)
    <3>1. \A revs \in Seq(Commits), phase \in Phases :
            Sound(WithChange(g, c, revs, phase),
                  (lost \cup {j \in Commits : g.owner[j] = c}) \ Listed(revs))
      BY ChangeIsSound
    <3> QED BY <2>1, <3>1, Zenon
  <2>3. ASSUME NEW j \in Commits, g.owner[j] = c PROVE j \in lost
    <3>1. ~IsRevision(g, c, j)
      BY <1>1 DEF IsRevision, Revisions
    <3>2. c # None
      BY GraphAssumption
    <3> QED BY <2>3, <3>1, <3>2 DEF Sound, OwnedIsListed
  <2>4. gone \subseteq lost
    BY <2>3
  <2> HIDE DEF gone
  <2>5. Sound(WithChange(g, c, << k >>, "draft"), lost)
    BY <2>2, <2>4, MoreLost
  <2> QED BY <1>1, <2>5 DEF Ensured
<1>2. CASE Known(g, c)
  <2>1. Sound(WithRevision(g, c, k), lost \ {k})
    BY <1>2, RevisionIsSound
  <2>2. lost \ {k} \subseteq lost
    OBVIOUS
  <2>3. Sound(WithRevision(g, c, k), lost)
    BY <2>1, <2>2, MoreLost
  <2> QED BY <1>2, <2>3 DEF Ensured
<1> QED BY <1>1, <1>2

(* A phase is not part of what I6 speaks of.                               *)
LEMMA PhaseIsSound ==
  ASSUME NEW g, NEW lost, Sound(g, lost), NEW c \in Changes, Known(g, c),
         NEW phase \in Phases
  PROVE  Sound([g EXCEPT !.changes[c].phase = phase], lost)
<1> DEFINE h == [g EXCEPT !.changes[c].phase = phase]
           new == [g.changes[c] EXCEPT !.phase = phase]
<1> USE GraphAssumption
<1>1. /\ g \in Graph
      /\ g.changes \in [Changes -> Change \cup {None}]
      /\ g.owner \in [Commits -> Changes \cup {None}]
      /\ g.changes[c] \in Change
  BY DEF Sound, Graph, Known
<1>2. new \in Change /\ new # None /\ new.revisions = g.changes[c].revisions
  BY <1>1 DEF Change, Phases
<1>3. /\ h.supersededBy = g.supersededBy /\ h.owner = g.owner
      /\ h.changes = [g.changes EXCEPT ![c] = new]
  BY <1>1 DEF Graph
<1>4. h \in Graph
  <2>1. h.changes \in [Changes -> Change \cup {None}]
    BY <1>1, <1>2, <1>3
  <2> QED BY <1>1, <1>3, <2>1 DEF Graph
<1>5. OwnedIsListed(h, lost)
  <2>1. \A d \in Changes : Revisions(h, d) = Revisions(g, d)
    BY <1>1, <1>2, <1>3 DEF Revisions, Known
  <2> QED BY <1>1, <1>3, <2>1 DEF Sound, OwnedIsListed, IsRevision
<1>6. EndsAreOwned(h)
  BY <1>3 DEF Sound, EndsAreOwned
<1>7. NoCycle(h)
  BY <1>3, SameEdgesSameCycles DEF Sound
<1> QED BY <1>4, <1>5, <1>6, <1>7 DEF Sound

-----------------------------------------------------------------------------
LEMMA InitIsSound == Init => IInv
<1> SUFFICES ASSUME Init PROVE IInv
  OBVIOUS
<1> USE GraphAssumption
<1>1. graph = EmptyGraph /\ graph \in Graph
  BY DEF Init, EmptyGraph, Graph
<1>2. OwnedIsListed(graph, dropped) /\ EndsAreOwned(graph) /\ NoCycle(graph)
  BY <1>1 DEF EmptyGraph, OwnedIsListed, EndsAreOwned, NoCycle
<1>3. TypeOK
  <2>1. << >> \in Seq([change : Changes, old : Commits, new : Commits])
    OBVIOUS
  <2> QED BY <1>1, <1>2, <2>1 DEF Init, TypeOK
<1> QED BY <1>1, <1>2, <1>3 DEF IInv, Sound

(* What a call does to the graph and to the history of lost commits.       *)
Kept(g, lost, c) ==
  Sound(g, lost) /\ lost \in SUBSET Commits /\ c \in Changes \cup {None}

LEMMA CallIsSound ==
  ASSUME IInv, NEW g, NEW lost, NEW c, Call(g), dropped' = lost, added' = c, Kept(g, lost, c)
  PROVE  IInv'
<1>1. Sound(graph, dropped)' <=> Sound(graph', dropped')
  BY DEF Sound, OwnedIsListed, EndsAreOwned, NoCycle, IsRevision, Revisions, Known,
         LeadsTo, Closed
<1> QED BY <1>1 DEF IInv, TypeOK, Sound, Call, Kept

LEMMA StepIsSound == IInv /\ [Next]_vars => IInv'
<1> SUFFICES ASSUME IInv, [Next]_vars PROVE IInv'
  OBVIOUS
<1>0. /\ Sound(graph, dropped) /\ dropped \in SUBSET Commits
      /\ added \in Changes \cup {None}
  BY DEF IInv, TypeOK
<1>1. Sound(graph, dropped)' <=> Sound(graph', dropped')
  BY DEF Sound, OwnedIsListed, EndsAreOwned, NoCycle, IsRevision, Revisions, Known,
         LeadsTo, Closed
<1>2. ASSUME NEW c \in Changes, NEW old \in Commits, NEW new \in Commits,
             AutoRebase(c, old, new)
      PROVE  IInv'
  <2> DEFINE before == Ensured(graph, c, old)
             both   == Ensured(before, c, new)
             R      == [change : Changes, old : Commits, new : Commits]
  <2>1. Sound(before, dropped)
    BY <1>0, EnsuredIsSound
  <2>2. Sound(both, dropped)
    <3> HIDE DEF before
    <3> QED BY <2>1, EnsuredIsSound
  <2>3. MaySupersede(both, old, new) => Sound(WithEdge(both, old, new), dropped)
    <3> HIDE DEF both
    <3> QED BY <2>2, EdgeIsSound
  <2>4. graph' = IF new = old THEN before
                 ELSE IF MaySupersede(both, old, new) THEN WithEdge(both, old, new)
                 ELSE both
    BY <1>2 DEF AutoRebase
  <2>5. Sound(graph', dropped)
    <3> HIDE DEF before, both
    <3> QED BY <2>1, <2>2, <2>3, <2>4
  <2>6. rebases' \in Seq(R)
    <3>1. rebases' = Append(rebases, [change |-> c, old |-> old, new |-> new])
      BY <1>2 DEF AutoRebase
    <3>2. [change |-> c, old |-> old, new |-> new] \in R /\ rebases \in Seq(R)
      BY DEF IInv, TypeOK
    <3> HIDE DEF R
    <3> QED BY <3>1, <3>2
  <2>7. UNCHANGED << held, dropped, added >>
    BY <1>2 DEF AutoRebase
  <2> HIDE DEF before, both
  <2> QED BY <1>1, <2>5, <2>6, <2>7 DEF IInv, TypeOK, Sound
<1>3. CASE IntoParts
  <2>1. << >> \in Seq([change : Changes, old : Commits, new : Commits])
    OBVIOUS
  <2> QED BY <1>0, <1>1, <1>3, <2>1 DEF IntoParts, IInv, TypeOK
<1>4. ASSUME NEW c \in Changes, NEW revs \in Listings, NEW phase \in Phases,
             AddChange(c, revs, phase)
      PROVE  IInv'
  <2> DEFINE gone == (dropped \cup {k \in Commits : graph.owner[k] = c}) \ Listed(revs)
  <2>1. revs \in Seq(Commits)
    <3>1. PICK n \in 0 .. MaxRevisions : revs \in [1 .. n -> Commits]
      BY DEF Listings
    <3>2. n \in Nat
      BY <3>1, GraphAssumption
    <3> QED BY <3>1, <3>2
  <2>2. Sound(WithChange(graph, c, revs, phase), gone)
    BY <1>0, <2>1, ChangeIsSound
  <2>3. Kept(WithChange(graph, c, revs, phase), gone, c)
    BY <1>0, <2>2 DEF Kept
  <2> QED BY <1>4, <2>3, CallIsSound DEF AddChange
<1>5. ASSUME NEW c \in Changes, NEW k \in Commits, AddRevision(c, k)
      PROVE  IInv'
  <2>1. Sound(WithRevision(graph, c, k), dropped \ {k})
    BY <1>0, <1>5, RevisionIsSound DEF AddRevision
  <2>2. Kept(WithRevision(graph, c, k), dropped \ {k}, None)
    BY <1>0, <2>1 DEF Kept
  <2> QED BY <1>5, <2>2, CallIsSound DEF AddRevision
<1>6. ASSUME NEW old \in Commits, NEW new \in Commits, Supersede(old, new)
      PROVE  IInv'
  <2>1. Sound(WithEdge(graph, old, new), dropped)
    BY <1>0, <1>6, EdgeIsSound DEF Supersede
  <2>2. Kept(WithEdge(graph, old, new), dropped, None)
    BY <1>0, <2>1 DEF Kept
  <2> QED BY <1>6, <2>2, CallIsSound DEF Supersede
<1>7. ASSUME NEW c \in Changes, NEW phase \in Phases, SetPhase(c, phase)
      PROVE  IInv'
  <2> DEFINE g == [graph EXCEPT !.changes[c].phase = phase]
  <2>1. Call(g) /\ dropped' = dropped /\ added' = None
    BY <1>7 DEF SetPhase
  <2>2. Sound(g, dropped)
    BY <1>0, <1>7, PhaseIsSound DEF SetPhase
  <2> HIDE DEF g
  <2>3. Kept(g, dropped, None)
    BY <1>0, <2>2 DEF Kept
  <2> QED BY <2>1, <2>3, CallIsSound
<1>8. CASE UNCHANGED vars
  BY <1>0, <1>1, <1>8 DEF vars, IInv, TypeOK
<1> QED BY <1>2, <1>3, <1>4, <1>5, <1>6, <1>7, <1>8 DEF Next

-----------------------------------------------------------------------------
(* Types are kept by every rebase and every call.                          *)
THEOREM TypeCorrect == Spec => []TypeOK
<1>1. IInv => TypeOK
  BY DEF IInv
<1> QED BY <1>1, InitIsSound, StepIsSound, PTL DEF Spec

(* I6, first half: supersede never closes a cycle, whoever calls it and    *)
(* whatever edges were replaced before.                                    *)
THEOREM SupersessionIsAcyclic == Spec => []Acyclic
<1>1. IInv => Acyclic
  BY DEF IInv, Sound, NoCycle, Acyclic
<1> QED BY <1>1, InitIsSound, StepIsSound, PTL DEF Spec

(* I6, second half: both ends of every edge are listed by a change, unless *)
(* the owner of the end was replaced (add_change) by one without it.       *)
THEOREM NoOrphanedObsolescence == Spec => []NoOrphans
<1>1. ASSUME IInv PROVE NoOrphans
  <2> SUFFICES ASSUME NEW k \in Commits, graph.supersededBy[k] # None
               PROVE  Findable(k) /\ Findable(graph.supersededBy[k])
    BY DEF NoOrphans
  <2>1. graph \in Graph /\ OwnedIsListed(graph, dropped) /\ EndsAreOwned(graph)
    BY <1>1 DEF IInv, Sound
  <2>2. graph.supersededBy[k] \in Commits
    BY <2>1 DEF Graph
  <2>3. graph.owner[k] # None /\ graph.owner[graph.supersededBy[k]] # None
    BY <2>1 DEF EndsAreOwned
  <2>4. graph.owner[k] \in Changes /\ graph.owner[graph.supersededBy[k]] \in Changes
    BY <2>1, <2>2, <2>3 DEF Graph
  <2> QED BY <2>1, <2>2, <2>3, <2>4 DEF OwnedIsListed, Findable
<1> QED BY <1>1, InitIsSound, StepIsSound, PTL DEF Spec

(* I6 as a whole: supersede and the rebases that call it keep the relation *)
(* well formed, and only a replacing add_change orphans an end.            *)
THEOREM SupersessionIsWellFormed == Spec => []SupersessionWellFormed
<1>1. Acyclic /\ NoOrphans => SupersessionWellFormed
  BY DEF SupersessionWellFormed
<1> QED BY <1>1, SupersessionIsAcyclic, NoOrphanedObsolescence, PTL

-----------------------------------------------------------------------------
(* The walk of tip.                                                        *)
WalkStep(edges, f, n) ==
  LET next == edges[f[n - 1]]
  IN  IF next = None \/ \E i \in 0 .. n - 1 : f[i] = next THEN f[n - 1] ELSE next

IsWalk(f, edges, from, m) ==
  f = [n \in 0 .. m |-> IF n = 0 THEN from ELSE WalkStep(edges, f, n)]

LEMMA StepIn ==
  ASSUME NEW edges \in [Commits -> Commits \cup {None}], NEW f, NEW n, f[n - 1] \in Commits
  PROVE  /\ WalkStep(edges, f, n) \in Commits
         /\ WalkStep(edges, f, n) = f[n - 1] \/ WalkStep(edges, f, n) = edges[f[n - 1]]
BY DEF WalkStep

(* A step looks at the commits before it only.                             *)
LEMMA SameStep ==
  ASSUME NEW edges, NEW f, NEW h, NEW n \in Nat \ {0}, \A i \in 0 .. n - 1 : h[i] = f[i]
  PROVE  WalkStep(edges, h, n) = WalkStep(edges, f, n)
<1>1. h[n - 1] = f[n - 1]
  OBVIOUS
<1>2. \A x : (\E i \in 0 .. n - 1 : h[i] = x) <=> (\E i \in 0 .. n - 1 : f[i] = x)
  OBVIOUS
<1> QED BY <1>1, <1>2 DEF WalkStep

LEMMA WalkExists ==
  ASSUME NEW edges \in [Commits -> Commits \cup {None}], NEW from \in Commits, NEW m \in Nat
  PROVE  \E f : IsWalk(f, edges, from, m)
<1> DEFINE Walks(k) == {f \in [0 .. k -> Commits] :
                          \A n \in 0 .. k : f[n] = IF n = 0 THEN from ELSE WalkStep(edges, f, n)}
           S == {k \in 0 .. m : Walks(k) # {}}
<1>1. 0 \in S
  <2>1. [n \in 0 .. 0 |-> from] \in Walks(0)
    OBVIOUS
  <2>2. Walks(0) # {}
    <3> HIDE DEF Walks
    <3> QED BY <2>1
  <2> HIDE DEF Walks
  <2> QED BY <2>2
<1>2. ASSUME NEW k \in 0 .. m - 1, k \in S PROVE k + 1 \in S
  <2>1. PICK f \in Walks(k) : TRUE
    BY <1>2
  <2> DEFINE last == WalkStep(edges, f, k + 1)
             h == [n \in 0 .. k + 1 |-> IF n = k + 1 THEN last ELSE f[n]]
  <2>2. k \in Nat /\ k + 1 \in Nat \ {0} /\ k + 1 - 1 = k /\ k + 1 \in 0 .. m
    OBVIOUS
  <2>3. last \in Commits
    BY <2>1, <2>2, StepIn
  <2>4. h \in [0 .. k + 1 -> Commits]
    <3>1. \A n \in 0 .. k + 1 : n = k + 1 \/ n \in 0 .. k
      BY <2>2
    <3> HIDE DEF last
    <3> QED BY <2>1, <2>3, <3>1
  <2>5. \A i \in 0 .. k : h[i] = f[i]
    BY <2>2
  <2> HIDE DEF h
  <2>6. ASSUME NEW n \in 0 .. k + 1, n # 0 PROVE WalkStep(edges, h, n) = WalkStep(edges, f, n)
    <3>1. n \in Nat \ {0} /\ \A i \in 0 .. n - 1 : i \in 0 .. k
      BY <2>2, <2>6
    <3>2. \A i \in 0 .. n - 1 : h[i] = f[i]
      BY <2>5, <3>1
    <3> QED BY <3>1, <3>2, SameStep
  <2>7. ASSUME NEW n \in 0 .. k + 1
        PROVE  h[n] = IF n = 0 THEN from ELSE WalkStep(edges, h, n)
    <3>1. CASE n = k + 1
      BY <2>2, <2>6, <3>1 DEF h
    <3>2. CASE n # k + 1
      <4>1. n \in 0 .. k
        BY <2>2, <3>2
      <4>2. f[n] = IF n = 0 THEN from ELSE WalkStep(edges, f, n)
        BY <2>1, <4>1
      <4> QED BY <2>5, <2>6, <4>1, <4>2
    <3> QED BY <3>1, <3>2
  <2>8. h \in Walks(k + 1)
    BY <2>4, <2>7
  <2>9. Walks(k + 1) # {}
    <3> HIDE DEF Walks
    <3> QED BY <2>8
  <2> HIDE DEF Walks
  <2> QED BY <2>2, <2>9
<1>3. m \in S
  <2> HIDE DEF S
  <2> QED BY <1>1, <1>2, UpTo
<1>4. PICK f \in Walks(m) : TRUE
  BY <1>3
<1>5. IsWalk(f, edges, from, m)
  <2>1. f = [n \in 0 .. m |-> f[n]]
    BY <1>4
  <2>2. \A n \in 0 .. m : f[n] = IF n = 0 THEN from ELSE WalkStep(edges, f, n)
    BY <1>4
  <2> HIDE DEF Walks
  <2> QED BY <2>1, <2>2 DEF IsWalk
<1> QED BY <1>5

(* Where two walks see the same edges, they are the same.                  *)
LEMMA SameWalk ==
  ASSUME NEW edges \in [Commits -> Commits \cup {None}], NEW edges2, NEW m \in Nat,
         NEW from \in Commits, NEW f, NEW f2,
         IsWalk(f, edges, from, m), IsWalk(f2, edges2, from, m),
         NEW S \in SUBSET Commits, from \in S,
         \A k \in S : /\ edges2[k] = edges[k]
                      /\ edges[k] # None => edges[k] \in S
  PROVE  f2[m] = f[m]
<1> DEFINE T == {k \in 0 .. m : \A i \in 0 .. k : f2[i] = f[i] /\ f[i] \in S}
<1>0. /\ \A n \in 0 .. m : f[n] = IF n = 0 THEN from ELSE WalkStep(edges, f, n)
      /\ \A n \in 0 .. m : f2[n] = IF n = 0 THEN from ELSE WalkStep(edges2, f2, n)
  BY DEF IsWalk
<1>1. 0 \in T
  <2>1. 0 \in 0 .. m /\ \A i \in 0 .. 0 : i = 0
    OBVIOUS
  <2> QED BY <1>0, <2>1
<1>2. ASSUME NEW k \in 0 .. m - 1, k \in T PROVE k + 1 \in T
  <2>1. k + 1 \in 0 .. m /\ k + 1 \in Nat \ {0} /\ k + 1 - 1 = k /\ k \in 0 .. k
    OBVIOUS
  <2>2. \A i \in 0 .. k : f2[i] = f[i] /\ f[i] \in S
    BY <1>2
  <2>3. f[k] \in S /\ edges2[f[k]] = edges[f[k]] /\ f2[k] = f[k]
    BY <2>1, <2>2
  <2>4. WalkStep(edges2, f2, k + 1) = WalkStep(edges, f2, k + 1)
    BY <2>1, <2>3 DEF WalkStep
  <2>5. WalkStep(edges, f2, k + 1) = WalkStep(edges, f, k + 1)
    <3> HIDE DEF T
    <3> QED BY <2>1, <2>2, SameStep
  <2>6. WalkStep(edges, f, k + 1) \in S
    <3>1. /\ WalkStep(edges, f, k + 1) \in Commits
          /\ WalkStep(edges, f, k + 1) = f[k] \/ WalkStep(edges, f, k + 1) = edges[f[k]]
      BY <2>1, <2>3, StepIn
    <3> QED BY <2>3, <3>1 DEF WalkStep
  <2>7. f2[k + 1] = f[k + 1] /\ f[k + 1] \in S
    BY <1>0, <2>1, <2>4, <2>5, <2>6
  <2>8. \A i \in 0 .. k + 1 : i \in 0 .. k \/ i = k + 1
    OBVIOUS
  <2> QED BY <2>1, <2>2, <2>7, <2>8
<1>3. m \in T
  <2> HIDE DEF T
  <2> QED BY <1>1, <1>2, UpTo
<1> QED BY <1>3

LEMMA TipIs ==
  ASSUME IsFiniteSet(Commits), NEW g \in Graph, NEW c \in Changes, Revisions(g, c) # << >>
  PROVE  /\ Revisions(g, c)[1] \in Commits
         /\ \E f : /\ IsWalk(f, g.supersededBy, Revisions(g, c)[1], Cardinality(Commits))
                   /\ Tip(g, c) = f[Cardinality(Commits)]
<1> DEFINE from   == Revisions(g, c)[1]
           N      == Cardinality(Commits)
           Fits(f) == IsWalk(f, g.supersededBy, from, N)
           f      == CHOOSE f : Fits(f)
<1>1. N \in Nat
  BY FS_CardinalityType
<1>2. Revisions(g, c) \in Seq(Commits)
  <2>1. g.changes[c] \in Change \cup {None}
    BY DEF Graph
  <2> QED BY <2>1 DEF Revisions, Known, Change
<1>3. from \in Commits
  BY <1>2
<1>4. Tip(g, c) = f[N]
  BY DEF Tip, IsWalk, WalkStep
<1>5. \E x : Fits(x)
  <2>1. g.supersededBy \in [Commits -> Commits \cup {None}]
    BY DEF Graph
  <2> HIDE DEF from, N
  <2> QED BY <1>1, <1>3, <2>1, WalkExists
<1>6. Fits(f)
  <2> HIDE DEF Fits
  <2> QED BY <1>5
<1> HIDE DEF f
<1> QED BY <1>3, <1>4, <1>6

(* The tip depends on the edges of the change's history only.              *)
LEMMA TipIsKept ==
  ASSUME IsFiniteSet(Commits), NEW g \in Graph, NEW h \in Graph, NEW c \in Changes,
         Revisions(g, c) # << >>, Revisions(h, c) # << >>,
         Revisions(h, c)[1] = Revisions(g, c)[1],
         \A k \in Commits : LeadsTo(g, Revisions(g, c)[1], k) =>
           h.supersededBy[k] = g.supersededBy[k]
  PROVE  Tip(h, c) = Tip(g, c)
<1> DEFINE from == Revisions(g, c)[1]
           N    == Cardinality(Commits)
           S    == {k \in Commits : LeadsTo(g, from, k)}
<1>1. from \in Commits
  BY TipIs
<1>2. PICK f : IsWalk(f, g.supersededBy, from, N) /\ Tip(g, c) = f[N]
  BY TipIs
<1>3. PICK f2 : IsWalk(f2, h.supersededBy, from, N) /\ Tip(h, c) = f2[N]
  BY TipIs
<1>4. from \in S
  BY <1>1 DEF LeadsTo
<1>5. g.supersededBy \in [Commits -> Commits \cup {None}] /\ N \in Nat
  BY FS_CardinalityType DEF Graph
<1>6. ASSUME NEW k \in S, g.supersededBy[k] # None PROVE g.supersededBy[k] \in S
  <2>1. g.supersededBy[k] \in Commits
    BY <1>5, <1>6
  <2> QED BY <1>6, <2>1 DEF LeadsTo, Closed
<1>7. \A k \in S : h.supersededBy[k] = g.supersededBy[k]
  OBVIOUS
<1>8. S \in SUBSET Commits
  OBVIOUS
<1> HIDE DEF from, N, S
<1>9. f2[N] = f[N]
  BY <1>1, <1>2, <1>3, <1>4, <1>5, <1>6, <1>7, <1>8, SameWalk
<1> QED BY <1>2, <1>3, <1>9

-----------------------------------------------------------------------------
(* No change is public while the engine has the graph: it sets no phase.   *)
EngineDrafts == held = "engine" => \A c \in Changes : ~Public(graph, c)

LEMMA EnsuredDrafts ==
  ASSUME NEW g, NEW lost, Sound(g, lost), NEW c \in Changes, NEW k \in Commits,
         NEW d \in Changes, ~Public(g, d)
  PROVE  ~Public(Ensured(g, c, k), d)
<1> USE GraphAssumption
<1>1. g \in Graph /\ g.changes \in [Changes -> Change \cup {None}]
  BY DEF Sound, Graph
<1>2. CASE Ensured(g, c, k) = g
  BY <1>2
<1>3. CASE Ensured(g, c, k) = WithChange(g, c, << k >>, "draft")
  <2> DEFINE new == [revisions |-> << k >>, phase |-> "draft"]
  <2>1. WithChange(g, c, << k >>, "draft").changes = [g.changes EXCEPT ![c] = new]
    BY <1>1 DEF WithChange, Graph
  <2>2. new.phase # "public"
    OBVIOUS
  <2> HIDE DEF new
  <2> QED BY <1>1, <1>3, <2>1, <2>2 DEF Public, Known
<1>4. CASE Known(g, c) /\ Ensured(g, c, k) = WithRevision(g, c, k)
  <2> DEFINE new == [g.changes[c] EXCEPT !.revisions = Append(@, k)]
  <2>1. WithRevision(g, c, k).changes = [g.changes EXCEPT ![c] = new]
    BY <1>1 DEF WithRevision, Graph
  <2>2. g.changes[c] \in Change
    BY <1>1, <1>4 DEF Known
  <2>3. new.phase = g.changes[c].phase
    BY <2>2 DEF Change
  <2> HIDE DEF new
  <2> QED BY <1>1, <1>4, <2>1, <2>3 DEF Public, Known
<1> QED BY <1>2, <1>3, <1>4 DEF Ensured

LEMMA DraftsStep ==
  ASSUME IInv, EngineDrafts, [Next]_vars
  PROVE  EngineDrafts'
<1>1. ASSUME NEW c \in Changes, NEW old \in Commits, NEW new \in Commits,
             AutoRebase(c, old, new), NEW d \in Changes
      PROVE  ~Public(graph', d)
  <2> DEFINE before == Ensured(graph, c, old)
             both   == Ensured(before, c, new)
  <2>1. Sound(graph, dropped) /\ ~Public(graph, d)
    BY <1>1 DEF IInv, EngineDrafts, AutoRebase
  <2>2. Sound(before, dropped) /\ ~Public(before, d)
    BY <2>1, EnsuredIsSound, EnsuredDrafts
  <2>3. Sound(both, dropped) /\ ~Public(both, d)
    <3> HIDE DEF before
    <3> QED BY <2>2, EnsuredIsSound, EnsuredDrafts
  <2>4. graph' = before \/ graph' = both \/ graph' = WithEdge(both, old, new)
    BY <1>1 DEF AutoRebase
  <2> HIDE DEF before, both
  <2>5. WithEdge(both, old, new).changes = both.changes
    BY <2>3 DEF WithEdge, Sound, Graph
  <2> QED BY <2>2, <2>3, <2>4, <2>5 DEF Public, Known
<1>2. ASSUME NEW g, Call(g) PROVE held' = "caller"
  BY <1>2 DEF Call
<1>3. CASE IntoParts
  BY <1>3 DEF IntoParts, EngineDrafts
<1>4. CASE UNCHANGED vars
  BY <1>4 DEF vars, EngineDrafts
<1>5. CASE held' = "caller"
  BY <1>5 DEF EngineDrafts
<1>6. ASSUME NEW c, NEW k, NEW revs,
             AddChange(c, revs, k) \/ AddRevision(c, k) \/ Supersede(c, k) \/ SetPhase(c, k)
      PROVE  held' = "caller"
  BY <1>2, <1>6 DEF AddChange, AddRevision, Supersede, SetPhase
<1>7. \/ \E c \in Changes, old, new \in Commits : AutoRebase(c, old, new)
      \/ IntoParts \/ UNCHANGED vars \/ held' = "caller"
  BY <1>6 DEF Next
<1> QED BY <1>1, <1>3, <1>4, <1>5, <1>7 DEF EngineDrafts

LEMMA HistoryIsKept ==
  ASSUME IsFiniteSet(Commits), IInv, IInv', EngineDrafts, [Next]_vars, NEW c \in Changes,
         Public(graph, c), Revisions(graph, c) # << >>, OwnsItsHistory(graph, c), added' # c
  PROVE  Public(graph', c) /\ Tip(graph', c) = Tip(graph, c)
<1> USE GraphAssumption
<1> DEFINE from == Revisions(graph, c)[1]
<1>1. graph \in Graph /\ graph' \in Graph /\ Known(graph, c)
  BY DEF IInv, Sound, TypeOK, Public
<1>2. /\ graph.changes \in [Changes -> Change \cup {None}]
      /\ graph.changes[c] \in Change /\ graph.changes[c].phase = "public"
      /\ Revisions(graph, c) = graph.changes[c].revisions
  BY <1>1 DEF Graph, Known, Public, Revisions
<1>3. ASSUME graph'.changes[c] = graph.changes[c],
             \A k \in Commits : LeadsTo(graph, from, k) =>
               graph'.supersededBy[k] = graph.supersededBy[k]
      PROVE  Public(graph', c) /\ Tip(graph', c) = Tip(graph, c)
  <2>1. Public(graph', c) /\ Revisions(graph', c) = Revisions(graph, c)
    BY <1>1, <1>3 DEF Public, Known, Revisions
  <2> QED BY <1>1, <1>3, <2>1, TipIsKept
<1>4. CASE UNCHANGED graph
  BY <1>3, <1>4
<1>5. ASSUME NEW d \in Changes, NEW old \in Commits, NEW new \in Commits, AutoRebase(d, old, new)
      PROVE  FALSE
  BY <1>5 DEF AutoRebase, EngineDrafts
<1>6. ASSUME NEW d \in Changes, NEW revs, NEW phase, AddChange(d, revs, phase)
      PROVE  Public(graph', c) /\ Tip(graph', c) = Tip(graph, c)
  <2>1. d # c /\ graph' = WithChange(graph, d, revs, phase)
    BY <1>6 DEF AddChange, Call
  <2>2. graph'.changes[c] = graph.changes[c] /\ graph'.supersededBy = graph.supersededBy
    BY <1>1, <2>1 DEF WithChange, Graph
  <2> QED BY <1>3, <2>2
<1>7. ASSUME NEW d \in Changes, NEW k \in Commits, AddRevision(d, k)
      PROVE  Public(graph', c) /\ Tip(graph', c) = Tip(graph, c)
  <2> DEFINE revs == graph.changes[d].revisions
             new  == [graph.changes[d] EXCEPT !.revisions = Append(revs, k)]
  <2>1. /\ graph'.changes = [graph.changes EXCEPT ![d] = new]
        /\ graph'.supersededBy = graph.supersededBy
    BY <1>1, <1>7 DEF AddRevision, Call, WithRevision, Graph
  <2>2. CASE d # c
    BY <1>2, <1>3, <2>1, <2>2
  <2>3. CASE d = c
    <3>1. revs \in Seq(Commits) /\ revs # << >> /\ revs = Revisions(graph, c)
      BY <1>2, <2>3 DEF Change
    <3>2. new \in Change /\ new.phase = "public" /\ new.revisions = Append(revs, k)
      <4>1. Append(revs, k) \in Seq(Commits)
        BY <3>1
      <4> HIDE DEF revs
      <4> QED BY <1>2, <2>3, <4>1 DEF Change
    <3>3. graph'.changes[c] = new
      BY <1>2, <2>1, <2>3
    <3>4. Append(revs, k)[1] = revs[1] /\ Append(revs, k) # << >>
      BY <3>1
    <3> HIDE DEF new, revs
    <3>5. Public(graph', c) /\ Revisions(graph', c) = Append(revs, k)
      BY <3>2, <3>3 DEF Public, Known, Revisions
    <3> QED BY <1>1, <2>1, <3>1, <3>4, <3>5, TipIsKept
  <2> QED BY <2>2, <2>3
<1>8. ASSUME NEW old \in Commits, NEW new \in Commits, Supersede(old, new)
      PROVE  Public(graph', c) /\ Tip(graph', c) = Tip(graph, c)
  <2>1. /\ ~Public(graph, graph.owner[old])
        /\ graph'.changes = graph.changes
        /\ graph'.supersededBy = [graph.supersededBy EXCEPT ![old] = new]
    BY <1>1, <1>8 DEF Supersede, MaySupersede, Call, WithEdge, Graph
  <2>2. ~LeadsTo(graph, from, old)
    BY <2>1 DEF OwnsItsHistory
  <2>3. \A k \in Commits : k # old => graph'.supersededBy[k] = graph.supersededBy[k]
    BY <1>1, <2>1 DEF Graph
  <2> QED BY <1>3, <2>1, <2>2, <2>3
<1>9. ASSUME NEW d \in Changes, NEW phase, SetPhase(d, phase), phase \in Phases
      PROVE  Public(graph', c) /\ Tip(graph', c) = Tip(graph, c)
  <2> DEFINE new == [graph.changes[d] EXCEPT !.phase = phase]
  <2>1. /\ graph'.changes = [graph.changes EXCEPT ![d] = new]
        /\ graph'.supersededBy = graph.supersededBy
    BY <1>1, <1>9 DEF SetPhase, Call, Graph
  <2>2. CASE d # c
    BY <1>2, <1>3, <2>1, <2>2
  <2>3. CASE d = c
    <3>1. phase = "public"
      BY <1>9, <2>3 DEF SetPhase, Phases
    <3>2. new = graph.changes[c]
      BY <1>2, <2>3, <3>1 DEF Change
    <3>3. graph'.changes[c] = graph.changes[c]
      BY <1>2, <2>1, <2>3, <3>2
    <3> QED BY <1>3, <2>1, <3>3
  <2> QED BY <2>2, <2>3
<1>10. IntoParts \/ UNCHANGED vars => UNCHANGED graph
  BY DEF IntoParts, vars
<1> HIDE DEF from
<1> QED BY <1>4, <1>5, <1>6, <1>7, <1>8, <1>9, <1>10 DEF Next

(* P5: no call but an add_change of the change itself moves the tip of a   *)
(* public change that owns its history or makes it a draft again, whatever *)
(* commits the changes share, whatever edges they had before and whichever *)
(* other changes are replaced (supersede, set_phase, add_change, tip).     *)
THEOREM PublicTipsAreFinal ==
  ASSUME IsFiniteSet(Commits)
  PROVE  Spec => PublicTipIsFinal
<1>1. Init => EngineDrafts
  BY DEF Init, EngineDrafts, EmptyGraph, Public, Known
<1>2. IInv /\ EngineDrafts /\ [Next]_vars => EngineDrafts'
  BY DraftsStep
<1>3. IInv /\ EngineDrafts /\ IInv' /\ [Next]_vars =>
        [\A c \in Changes :
           Public(graph, c) /\ Revisions(graph, c) # << >> /\ OwnsItsHistory(graph, c)
             => \/ Public(graph', c) /\ Tip(graph', c) = Tip(graph, c)
                \/ added' = c]_vars
  BY HistoryIsKept
<1> QED BY <1>1, <1>2, <1>3, InitIsSound, StepIsSound, PTL DEF Spec, PublicTipIsFinal

-----------------------------------------------------------------------------
(* Without cycles the walk of tip ends where there is no edge: it comes to *)
(* no commit twice.                                                        *)
LEMMA WalkEnds ==
  ASSUME IsFiniteSet(Commits), NEW g \in Graph, NoCycle(g), NEW from \in Commits, NEW f,
         IsWalk(f, g.supersededBy, from, Cardinality(Commits)),
         NEW S \in SUBSET Commits, from \in S, Closed(g, S)
  PROVE  /\ f[Cardinality(Commits)] \in S
         /\ g.supersededBy[f[Cardinality(Commits)]] = None
<1> DEFINE N    == Cardinality(Commits)
           e    == g.supersededBy
<1>0. /\ N \in Nat
      /\ e \in [Commits -> Commits \cup {None}]
      /\ f[0] = from
      /\ \A n \in 1 .. N : f[n] = WalkStep(e, f, n)
  <2>1. N \in Nat
    BY FS_CardinalityType
  <2>2. e \in [Commits -> Commits \cup {None}]
    BY DEF Graph
  <2>3. \A n \in 0 .. N : f[n] = IF n = 0 THEN from ELSE WalkStep(e, f, n)
    BY DEF IsWalk
  <2> HIDE DEF N, e
  <2> QED BY <2>1, <2>2, <2>3
<1>1. \A n \in 0 .. N : f[n] \in Commits
  <2> DEFINE T == {n \in 0 .. N : f[n] \in Commits}
  <2>1. ASSUME NEW n \in 0 .. N - 1, n \in T PROVE n + 1 \in T
    <3>1. n + 1 \in 1 .. N /\ n + 1 - 1 = n
      BY <1>0
    <3>2. f[n + 1] = WalkStep(e, f, n + 1) /\ WalkStep(e, f, n + 1) \in Commits
      <4> HIDE DEF e, N
      <4> QED BY <1>0, <2>1, <3>1, StepIn
    <3> QED BY <3>1, <3>2
  <2>2. 0 \in T
    BY <1>0
  <2> HIDE DEF T
  <2>3. \A n \in 0 .. N : n \in T
    BY <1>0, <2>1, <2>2, UpTo
  <2> QED BY <2>3 DEF T
<1>2. ASSUME NEW n \in 1 .. N
      PROVE  /\ n - 1 \in 0 .. N - 1
             /\ f[n] = f[n - 1] \/ (e[f[n - 1]] # None /\ f[n] = e[f[n - 1]])
  <2>1. n - 1 \in 0 .. N - 1
    BY <1>0
  <2> HIDE DEF e, N
  <2> QED BY <1>0, <2>1 DEF WalkStep
<1> HIDE DEF N
<1>3. ASSUME NEW R \in SUBSET Commits, Closed(g, R), NEW i \in 0 .. N, f[i] \in R
      PROVE  \A n \in 0 .. N : i <= n => f[n] \in R
  <2> DEFINE T == {n \in 0 .. N : i <= n => f[n] \in R}
  <2>1. ASSUME NEW n \in 0 .. N - 1, n \in T PROVE n + 1 \in T
    <3>1. n + 1 \in 1 .. N /\ n + 1 - 1 = n
      BY <1>0
    <3>2. CASE i <= n
      <4>1. f[n] \in R
        BY <2>1, <3>2
      <4>2. f[n + 1] \in R
        BY <1>2, <1>3, <3>1, <4>1 DEF Closed
      <4> QED BY <1>0, <3>1, <4>2
    <3>3. CASE i = n + 1
      BY <1>0, <1>3, <3>1, <3>3
    <3> QED BY <1>0, <3>1, <3>2, <3>3
  <2>2. 0 \in T
    BY <1>0, <1>3
  <2> HIDE DEF T
  <2>3. \A n \in 0 .. N : n \in T
    BY <1>0, <2>1, <2>2, UpTo
  <2> QED BY <2>3 DEF T
<1>4. f[N] \in S
  BY <1>0, <1>3
<1>5. SUFFICES ASSUME e[f[N]] # None PROVE FALSE
  BY <1>4 DEF N
<1>6. \A n \in 0 .. N : e[f[n]] # None
  <2> SUFFICES ASSUME NEW i \in 0 .. N, e[f[i]] = None PROVE FALSE
    OBVIOUS
  <2>1. Closed(g, {f[i]}) /\ {f[i]} \in SUBSET Commits
    BY <1>1 DEF Closed
  <2>2. f[N] = f[i]
    BY <1>0, <1>3, <2>1
  <2> QED BY <1>5, <2>2
<1>7. ASSUME NEW n \in 1 .. N, NEW i \in 0 .. n - 1 PROVE f[n] # f[i]
  <2>1. n - 1 \in 0 .. N /\ i \in 0 .. N /\ i <= n - 1
    BY <1>0
  <2>2. e[f[n - 1]] # None /\ e[f[n - 1]] \in Commits /\ f[n - 1] \in Commits
    BY <1>0, <1>1, <1>6, <2>1
  <2>3. ASSUME NEW j \in 0 .. n - 1, f[j] = e[f[n - 1]] PROVE FALSE
    <3>1. j \in 0 .. N /\ j <= n - 1
      BY <1>0
    <3>2. LeadsTo(g, f[j], f[n - 1])
      BY <1>3, <2>1, <3>1 DEF LeadsTo
    <3> QED BY <2>2, <2>3, <3>2 DEF NoCycle
  <2>4. f[n] = e[f[n - 1]]
    BY <1>0, <2>2, <2>3 DEF WalkStep
  <2> QED BY <2>3, <2>4
<1>8. \A i, j \in 0 .. N : i # j => f[i] # f[j]
  <2> SUFFICES ASSUME NEW i \in 0 .. N, NEW j \in 0 .. N, i # j, f[i] = f[j] PROVE FALSE
    OBVIOUS
  <2>1. CASE i < j
    BY <1>0, <1>7, <2>1
  <2>2. CASE j < i
    BY <1>0, <1>7, <2>2
  <2> QED BY <1>0, <2>1, <2>2
<1>9. f \in [0 .. N -> Commits]
  BY <1>1 DEF IsWalk, N
<1>10. IsFiniteSet(0 .. N) /\ Cardinality(0 .. N) = N + 1
  BY <1>0, FS_Interval
<1>11. \E i, j \in 0 .. N : i # j /\ f[i] = f[j]
  BY <1>0, <1>9, <1>10, FS_PigeonHole DEF N
<1> QED BY <1>8, <1>11

-----------------------------------------------------------------------------
(* While the engine has the graph, the log says what is in it: a change    *)
(* has the revisions its rebases name, each with an owner, and an edge is  *)
(* a rebase.  The commit left without an edge is the result of the last    *)
(* rebase, where the rebases of a change follow each other and share no    *)
(* commit with those of another.                                           *)
Touched(c) ==
  {k \in Commits : \E i \in Rebased(c) : k = rebases[i].old \/ k = rebases[i].new}

RevisionsAreOwned(g) ==
  \A c \in Changes, k \in Commits : IsRevision(g, c, k) => g.owner[k] # None

RevisionsAreTouched ==
  \A c \in Changes, k \in Commits : IsRevision(graph, c, k) <=> k \in Touched(c)

EdgesAreRebases ==
  \A k \in Commits : graph.supersededBy[k] # None =>
    \E i \in DOMAIN rebases : rebases[i].old = k /\ rebases[i].new = graph.supersededBy[k]

LastIsOpen ==
  \A c \in Changes : \A i \in Rebased(c) :
    (\A j \in Rebased(c) : j <= i) /\ Straight(c) /\ Unshared(c) =>
      \A k \in Touched(c) : graph.supersededBy[k] = None => k = rebases[i].new

Traced == held = "engine" =>
  RevisionsAreOwned(graph) /\ RevisionsAreTouched /\ EdgesAreRebases /\ LastIsOpen

(* ensure_revision lists the commit with the change, and nothing else.     *)
LEMMA EnsuredLists ==
  ASSUME NEW g, NEW lost, Sound(g, lost), RevisionsAreOwned(g), NEW c \in Changes,
         NEW k \in Commits
  PROVE  /\ Ensured(g, c, k).supersededBy = g.supersededBy
         /\ \A d \in Changes, j \in Commits :
              IsRevision(Ensured(g, c, k), d, j) <=> IsRevision(g, d, j) \/ (d = c /\ j = k)
         /\ RevisionsAreOwned(Ensured(g, c, k))
<1> DEFINE h == Ensured(g, c, k)
<1> USE GraphAssumption
<1>1. /\ g \in Graph
      /\ g.changes \in [Changes -> Change \cup {None}]
      /\ g.owner \in [Commits -> Changes \cup {None}]
      /\ None \notin Changes
  BY DEF Sound, Graph
<1>2. SUFFICES
        /\ h.supersededBy = g.supersededBy
        /\ \A d \in Changes, j \in Commits :
             IsRevision(h, d, j) <=> IsRevision(g, d, j) \/ (d = c /\ j = k)
        /\ \A j \in Commits : g.owner[j] # None \/ j = k => h.owner[j] # None
  BY DEF RevisionsAreOwned
<1>3. CASE Known(g, c) /\ IsRevision(g, c, k)
  BY <1>1, <1>3 DEF Ensured, RevisionsAreOwned
<1>4. CASE ~Known(g, c)
  <2> DEFINE new == [revisions |-> << k >>, phase |-> "draft"]
  <2>1. h = WithChange(g, c, << k >>, "draft")
    BY <1>4 DEF Ensured
  <2>2. /\ h.supersededBy = g.supersededBy
        /\ h.changes = [g.changes EXCEPT ![c] = new]
        /\ h.owner = [j \in Commits |-> IF j \in Listed(<< k >>)
                                        THEN c ELSE g.owner[j]]
    BY <1>1, <2>1 DEF WithChange, Graph
  <2>3. \A j : /\ (\E i \in DOMAIN << k >> : << k >>[i] = j) <=> j = k
              /\ j \in Listed(<< k >>) <=> j = k
    BY DEF Listed
  <2>4. new \in Change /\ new.revisions = << k >>
    <3>1. << k >> \in Seq(Commits)
      OBVIOUS
    <3> QED BY <3>1 DEF Change
  <2>5. Revisions(h, c) = << k >> /\ Revisions(g, c) = << >>
    <3> HIDE DEF new, h
    <3> QED BY <1>1, <1>4, <2>2, <2>4 DEF Revisions, Known
  <2>6. \A d \in Changes : d # c => Revisions(h, d) = Revisions(g, d)
    <3> HIDE DEF new, h
    <3> QED BY <1>1, <2>2 DEF Revisions, Known
  <2> HIDE DEF h
  <2>7. \A j : (IsRevision(h, c, j) <=> j = k) /\ ~IsRevision(g, c, j)
    <3>1. DOMAIN << >> = {}
      OBVIOUS
    <3> QED BY <2>3, <2>5, <3>1 DEF IsRevision
  <2>8. \A d \in Changes : \A j : d # c => (IsRevision(h, d, j) <=> IsRevision(g, d, j))
    BY <2>6 DEF IsRevision
  <2> QED BY <1>1, <2>2, <2>3, <2>7, <2>8
<1>5. CASE Known(g, c) /\ ~IsRevision(g, c, k)
  <2> DEFINE revs == g.changes[c].revisions
             new  == [g.changes[c] EXCEPT !.revisions = Append(revs, k)]
  <2>1. h = WithRevision(g, c, k)
    BY <1>5 DEF Ensured
  <2>2. g.changes[c] \in Change /\ revs \in Seq(Commits)
    BY <1>1, <1>5 DEF Known, Change
  <2>3. /\ h.supersededBy = g.supersededBy
        /\ h.changes = [g.changes EXCEPT ![c] = new]
        /\ h.owner = [g.owner EXCEPT ![k] = c]
    BY <1>1, <2>1 DEF WithRevision, Graph
  <2>4. new \in Change /\ new.revisions = Append(revs, k)
    <3>1. Append(revs, k) \in Seq(Commits)
      BY <2>2
    <3> HIDE DEF revs
    <3> QED BY <2>2, <3>1 DEF Change
  <2>5. Revisions(h, c) = Append(revs, k) /\ Revisions(g, c) = revs
    <3> HIDE DEF new, h
    <3> QED BY <1>1, <1>5, <2>3, <2>4 DEF Revisions, Known
  <2>6. \A d \in Changes : d # c => Revisions(h, d) = Revisions(g, d)
    <3> HIDE DEF new, h
    <3> QED BY <1>1, <2>3 DEF Revisions, Known
  <2> HIDE DEF h, revs
  <2>7. \A j : (\E i \in DOMAIN Append(revs, k) : Append(revs, k)[i] = j)
                 <=> (\E i \in DOMAIN revs : revs[i] = j) \/ j = k
    <3>1. /\ DOMAIN Append(revs, k) = DOMAIN revs \cup {Len(revs) + 1}
          /\ \A i \in DOMAIN revs : Append(revs, k)[i] = revs[i]
          /\ Append(revs, k)[Len(revs) + 1] = k
      BY <2>2
    <3> QED BY <3>1
  <2>8. \A j : IsRevision(h, c, j) <=> IsRevision(g, c, j) \/ j = k
    BY <2>5, <2>7 DEF IsRevision
  <2>9. \A d \in Changes : \A j : d # c => (IsRevision(h, d, j) <=> IsRevision(g, d, j))
    BY <2>6 DEF IsRevision
  <2> QED BY <1>1, <2>3, <2>8, <2>9
<1> QED BY <1>3, <1>4, <1>5

(* The rebase is the last of its change, and changes no other entry.       *)
LoggedAt(n, c, old, new) ==
  /\ \A d : Rebased(d)' = IF d = c THEN Rebased(d) \cup {n} ELSE Rebased(d)
  /\ DOMAIN rebases' = DOMAIN rebases \cup {n}
  /\ \A i \in DOMAIN rebases : i \in Nat /\ i < n /\ rebases'[i] = rebases[i]
  /\ rebases'[n] = [change |-> c, old |-> old, new |-> new]

LEMMA RebaseIsLogged ==
  ASSUME IInv, NEW c \in Changes, NEW old \in Commits, NEW new \in Commits,
         AutoRebase(c, old, new)
  PROVE  \E n \in Nat : LoggedAt(n, c, old, new)
<1> DEFINE r == [change |-> c, old |-> old, new |-> new]
           n == Len(rebases) + 1
<1>1. rebases' = Append(rebases, r)
  BY DEF AutoRebase
<1>2. rebases \in Seq([change : Changes, old : Commits, new : Commits])
  BY DEF IInv, TypeOK
<1>3. r \in [change : Changes, old : Commits, new : Commits] /\ r.change = c
  OBVIOUS
<1> HIDE DEF r
<1>4. /\ n \in Nat
      /\ DOMAIN rebases' = DOMAIN rebases \cup {n}
      /\ \A i \in DOMAIN rebases : i \in Nat /\ i < n /\ rebases'[i] = rebases[i]
      /\ rebases'[n] = r
  BY <1>1, <1>2, <1>3
<1> HIDE DEF n
<1>5. \A d : Rebased(d)' = IF d = c THEN Rebased(d) \cup {n} ELSE Rebased(d)
  BY <1>3, <1>4 DEF Rebased
<1> QED BY <1>4, <1>5 DEF r, LoggedAt

(* What a change's rebases were is known before the next one.              *)
LEMMA RebaseExtends ==
  ASSUME IInv, NEW c \in Changes, NEW old \in Commits, NEW new \in Commits,
         AutoRebase(c, old, new), NEW d \in Changes
  PROVE  /\ Straight(d)' => Straight(d)
         /\ Unshared(d)' => Unshared(d)
         /\ Touched(d)' = IF d = c THEN Touched(d) \cup {old, new} ELSE Touched(d)
<1>1. PICK n \in Nat : LoggedAt(n, c, old, new)
  BY RebaseIsLogged
<1>2. Rebased(d) \subseteq DOMAIN rebases /\ Rebased(d) \subseteq Rebased(d)'
  BY <1>1 DEF Rebased, LoggedAt
<1>3. Straight(d)' => Straight(d)
  <2> SUFFICES ASSUME Straight(d)', NEW i \in Rebased(d), NEW j \in Rebased(d)
               PROVE  /\ j < i /\ (\A k \in Rebased(d) : k <= j \/ i <= k) =>
                           rebases[i].old = rebases[j].new
                      /\ j <= i /\ rebases[j].old = rebases[i].new =>
                           rebases[i].new = rebases[i].old
    BY DEF Straight
  <2>1. /\ i \in Rebased(d)' /\ j \in Rebased(d)'
        /\ rebases'[i] = rebases[i] /\ rebases'[j] = rebases[j]
    BY <1>1, <1>2 DEF LoggedAt
  <2>2. ASSUME j < i, \A k \in Rebased(d) : k <= j \/ i <= k
        PROVE  rebases[i].old = rebases[j].new
    <3>1. \A k \in Rebased(d)' : k <= j \/ i <= k
      BY <1>1, <1>2, <2>2 DEF LoggedAt
    <3> QED BY <2>1, <2>2, <3>1 DEF Straight
  <2>3. ASSUME j <= i, rebases[j].old = rebases[i].new
        PROVE  rebases[i].new = rebases[i].old
    BY <2>1, <2>3 DEF Straight
  <2> QED BY <2>2, <2>3
<1>4. Unshared(d)' => Unshared(d)
  <2> SUFFICES ASSUME Unshared(d)', NEW i \in Rebased(d), NEW j \in DOMAIN rebases \ Rebased(d)
               PROVE  {rebases[i].old, rebases[i].new} \cap {rebases[j].old, rebases[j].new} = {}
    BY DEF Unshared
  <2>1. j # n
    BY <1>1 DEF LoggedAt
  <2>2. i \in Rebased(d)' /\ j \in DOMAIN rebases' \ Rebased(d)'
    BY <1>1, <1>2, <2>1 DEF LoggedAt
  <2>3. rebases'[i] = rebases[i] /\ rebases'[j] = rebases[j]
    BY <1>1, <1>2 DEF LoggedAt
  <2>4. {rebases'[i].old, rebases'[i].new} \cap {rebases'[j].old, rebases'[j].new} = {}
    BY <2>2 DEF Unshared
  <2> QED BY <2>3, <2>4
<1>5. Touched(d)' = IF d = c THEN Touched(d) \cup {old, new} ELSE Touched(d)
  <2>1. \A k \in Commits : (\E i \in Rebased(d) : k = rebases'[i].old \/ k = rebases'[i].new)
                             <=> k \in Touched(d)
    BY <1>1, <1>2 DEF Touched, LoggedAt
  <2>2. rebases'[n].old = old /\ rebases'[n].new = new
    BY <1>1 DEF LoggedAt
  <2>3. CASE d = c
    <3>1. Rebased(d)' = Rebased(d) \cup {n}
      BY <1>1, <2>3 DEF LoggedAt
    <3>2. \A k \in Commits : k \in Touched(d)' <=> k \in Touched(d) \/ k = old \/ k = new
      BY <2>1, <2>2, <3>1 DEF Touched
    <3>3. Touched(d) \subseteq Commits /\ Touched(d)' \subseteq Commits
      BY DEF Touched
    <3> QED BY <2>3, <3>2, <3>3
  <2>4. CASE d # c
    <3>1. Rebased(d)' = Rebased(d)
      BY <1>1, <2>4 DEF LoggedAt
    <3>2. \A k \in Commits : k \in Touched(d)' <=> k \in Touched(d)
      BY <2>1, <3>1 DEF Touched
    <3>3. Touched(d) \subseteq Commits /\ Touched(d)' \subseteq Commits
      BY DEF Touched
    <3> QED BY <2>4, <3>2, <3>3
  <2> QED BY <2>3, <2>4
<1> QED BY <1>3, <1>4, <1>5

(* An edge from a commit that a change's rebases name is one of them.      *)
LEMMA EdgeIsOwn ==
  ASSUME IInv, EdgesAreRebases, NEW c \in Changes, Unshared(c), NEW k \in Touched(c),
         graph.supersededBy[k] # None
  PROVE  \E i \in Rebased(c) : rebases[i].old = k /\ rebases[i].new = graph.supersededBy[k]
<1>1. PICK i \in DOMAIN rebases : rebases[i].old = k /\ rebases[i].new = graph.supersededBy[k]
  BY DEF EdgesAreRebases, Touched
<1>2. PICK j \in Rebased(c) : k = rebases[j].old \/ k = rebases[j].new
  BY DEF Touched
<1>3. i \in Rebased(c)
  BY <1>1, <1>2 DEF Unshared
<1> QED BY <1>1, <1>3

(* supersede accepts the rebase that goes on where the last one ended.     *)
LEMMA RebaseGoesOn ==
  ASSUME IInv, EngineDrafts, Traced, NEW c \in Changes, NEW old \in Commits,
         NEW new \in Commits, AutoRebase(c, old, new), Straight(c)', Unshared(c)', new # old
  PROVE  graph'.supersededBy[old] = new
<1> DEFINE before == Ensured(graph, c, old)
           both   == Ensured(before, c, new)
<1>1. PICK n \in Nat : LoggedAt(n, c, old, new)
  BY RebaseIsLogged
<1>2. /\ Sound(graph, dropped) /\ RevisionsAreOwned(graph) /\ EdgesAreRebases
      /\ \A d \in Changes : ~Public(graph, d)
  BY DEF IInv, Traced, EngineDrafts, AutoRebase
<1>3. graph.supersededBy[new] = None
  <2> SUFFICES ASSUME graph.supersededBy[new] # None PROVE FALSE
    OBVIOUS
  <2>1. PICK j \in DOMAIN rebases : rebases[j].old = new
    BY <1>2 DEF EdgesAreRebases
  <2>2. /\ n \in Rebased(c)' /\ n \in DOMAIN rebases'
        /\ rebases'[n].old = old /\ rebases'[n].new = new
        /\ j \in DOMAIN rebases' /\ j <= n /\ rebases'[j].old = new
    BY <1>1, <2>1 DEF LoggedAt
  <2>3. j \in Rebased(c)'
    BY <2>2 DEF Unshared
  <2> QED BY <2>2, <2>3 DEF Straight
<1>4. /\ Sound(before, dropped) /\ RevisionsAreOwned(before)
      /\ before.supersededBy = graph.supersededBy
      /\ IsRevision(before, c, old)
      /\ \A d \in Changes : ~Public(before, d)
  BY <1>2, EnsuredIsSound, EnsuredLists, EnsuredDrafts
<1>5. /\ Sound(both, dropped) /\ RevisionsAreOwned(both)
      /\ both.supersededBy = graph.supersededBy
      /\ IsRevision(both, c, old) /\ IsRevision(both, c, new)
      /\ \A d \in Changes : ~Public(both, d)
  <2> HIDE DEF before
  <2> QED BY <1>4, EnsuredIsSound, EnsuredLists, EnsuredDrafts
<1>6. graph' = IF MaySupersede(both, old, new) THEN WithEdge(both, old, new) ELSE both
  BY DEF AutoRebase
<1> HIDE DEF before, both
<1>7. both.owner[old] # None /\ both.owner[new] # None
  BY <1>5 DEF RevisionsAreOwned
<1>8. ~Public(both, both.owner[old])
  <2>1. both.owner[old] \in Changes
    BY <1>5, <1>7 DEF Sound, Graph
  <2> QED BY <1>5, <2>1
<1>9. ~Reaches(both, new, old)
  <2>1. Closed(both, {new}) /\ {new} \in SUBSET Commits /\ old \notin {new}
    BY <1>3, <1>5 DEF Closed
  <2> QED BY <2>1 DEF Reaches, LeadsTo
<1>10. graph' = WithEdge(both, old, new)
  BY <1>6, <1>7, <1>8, <1>9 DEF MaySupersede
<1> QED BY <1>5, <1>10 DEF WithEdge, Sound, Graph

LEMMA RebaseTraces ==
  ASSUME IInv, EngineDrafts, Traced, NEW c \in Changes, NEW old \in Commits,
         NEW new \in Commits, AutoRebase(c, old, new)
  PROVE  /\ RevisionsAreOwned(graph')
         /\ RevisionsAreTouched'
         /\ EdgesAreRebases'
         /\ LastIsOpen'
<1> DEFINE before == Ensured(graph, c, old)
           both   == Ensured(before, c, new)
<1>1. PICK n \in Nat : LoggedAt(n, c, old, new)
  BY RebaseIsLogged
<1>2. /\ Sound(graph, dropped) /\ RevisionsAreOwned(graph) /\ RevisionsAreTouched
      /\ EdgesAreRebases /\ LastIsOpen
  BY DEF IInv, Traced, AutoRebase
<1>3. /\ Sound(before, dropped) /\ RevisionsAreOwned(before)
      /\ before.supersededBy = graph.supersededBy
      /\ \A d \in Changes, k \in Commits :
           IsRevision(before, d, k) <=> IsRevision(graph, d, k) \/ (d = c /\ k = old)
  BY <1>2, EnsuredIsSound, EnsuredLists
<1>4. /\ Sound(both, dropped) /\ RevisionsAreOwned(both)
      /\ both.supersededBy = graph.supersededBy
      /\ \A d \in Changes, k \in Commits :
           IsRevision(both, d, k) <=>
             IsRevision(graph, d, k) \/ (d = c /\ (k = old \/ k = new))
  <2>1. /\ Sound(both, dropped) /\ RevisionsAreOwned(both)
        /\ both.supersededBy = before.supersededBy
        /\ \A d \in Changes, k \in Commits :
             IsRevision(both, d, k) <=> IsRevision(before, d, k) \/ (d = c /\ k = new)
    <3> HIDE DEF before
    <3> QED BY <1>3, EnsuredIsSound, EnsuredLists
  <2> QED BY <1>3, <2>1
<1>5. /\ new = old => graph' = before
      /\ new # old => graph' = WithEdge(both, old, new) \/ graph' = both
  BY DEF AutoRebase
<1> HIDE DEF before, both
<1>6. LET h == WithEdge(both, old, new)
      IN  /\ h.owner = both.owner /\ h.changes = both.changes
          /\ h.supersededBy = [graph.supersededBy EXCEPT ![old] = new]
  BY <1>4 DEF WithEdge, Sound, Graph
<1>7. RevisionsAreOwned(graph')
  BY <1>3, <1>4, <1>5, <1>6 DEF RevisionsAreOwned, IsRevision, Revisions, Known
<1>8. \A d \in Changes, k \in Commits :
        IsRevision(graph', d, k) <=>
          IsRevision(graph, d, k) \/ (d = c /\ (k = old \/ k = new))
  <2>1. CASE new = old
    BY <1>3, <1>5, <2>1
  <2>2. CASE graph' = both
    BY <1>4, <2>2
  <2>3. CASE graph' = WithEdge(both, old, new)
    <3>1. \A d, k : IsRevision(graph', d, k) <=> IsRevision(both, d, k)
      BY <1>6, <2>3 DEF IsRevision, Revisions, Known
    <3> QED BY <1>4, <3>1
  <2> QED BY <1>5, <2>1, <2>2, <2>3
<1>9. RevisionsAreTouched'
  <2>1. \A d \in Changes : Touched(d)' = IF d = c THEN Touched(d) \cup {old, new} ELSE Touched(d)
    BY RebaseExtends
  <2> SUFFICES ASSUME NEW d \in Changes, NEW k \in Commits
               PROVE  IsRevision(graph', d, k) <=> k \in Touched(d)'
    BY DEF RevisionsAreTouched
  <2>2. IsRevision(graph, d, k) <=> k \in Touched(d)
    BY <1>2 DEF RevisionsAreTouched
  <2> QED BY <1>8, <2>1, <2>2
<1>10. /\ graph.supersededBy \in [Commits -> Commits \cup {None}]
       /\ \A k \in Commits : \/ graph'.supersededBy[k] = graph.supersededBy[k]
                             \/ k = old /\ graph'.supersededBy[k] = new
  <2>1. graph.supersededBy \in [Commits -> Commits \cup {None}]
    BY <1>2 DEF Sound, Graph
  <2> QED BY <1>3, <1>4, <1>5, <1>6, <2>1
<1>11. EdgesAreRebases'
  <2> SUFFICES ASSUME NEW k \in Commits, graph'.supersededBy[k] # None
               PROVE  \E i \in DOMAIN rebases' :
                        rebases'[i].old = k /\ rebases'[i].new = graph'.supersededBy[k]
    BY DEF EdgesAreRebases
  <2>1. CASE k = old /\ graph'.supersededBy[k] = new
    BY <1>1, <2>1 DEF LoggedAt
  <2>2. CASE graph'.supersededBy[k] = graph.supersededBy[k]
    <3>1. PICK i \in DOMAIN rebases : rebases[i].old = k /\ rebases[i].new = graph.supersededBy[k]
      BY <1>2, <2>2 DEF EdgesAreRebases
    <3> QED BY <1>1, <2>2, <3>1 DEF LoggedAt
  <2> QED BY <1>10, <2>1, <2>2
<1>12. LastIsOpen'
  <2> SUFFICES ASSUME NEW d \in Changes, NEW i \in Rebased(d)',
                      \A j \in Rebased(d)' : j <= i, Straight(d)', Unshared(d)',
                      NEW k \in Touched(d)', graph'.supersededBy[k] = None
               PROVE  k = rebases'[i].new
    BY DEF LastIsOpen
  <2>1. Straight(d) /\ Unshared(d)
    BY RebaseExtends
  <2>2. k \in Commits
    BY DEF Touched
  <2>3. graph.supersededBy[k] = None
    BY <1>10, <2>2, GraphAssumption
  <2>4. CASE d # c
    <3>1. Rebased(d)' = Rebased(d) /\ i \in DOMAIN rebases
      BY <1>1, <2>4 DEF Rebased, LoggedAt
    <3>2. k \in Touched(d)
      BY <2>4, RebaseExtends
    <3> QED BY <1>1, <1>2, <2>1, <2>3, <3>1, <3>2 DEF LastIsOpen, LoggedAt
  <2>5. CASE d = c
    <3>1. Rebased(c)' = Rebased(c) \cup {n} /\ Rebased(c) \subseteq DOMAIN rebases
      BY <1>1 DEF Rebased, LoggedAt
    <3>2. i = n /\ rebases'[i].old = old /\ rebases'[i].new = new
      BY <1>1, <2>5, <3>1 DEF LoggedAt
    <3>3. k # old \/ new = old
      BY <2>5, GraphAssumption, RebaseGoesOn
    <3>4. CASE k = old \/ k = new
      BY <3>2, <3>3, <3>4
    <3>5. CASE k \in Touched(c)
      <4>1. Rebased(c) # {}
        BY <3>5 DEF Touched
      <4>2. PICK m \in Rebased(c) : \A j \in Rebased(c) : j <= m
        <5>1. Rebased(c) \in SUBSET (0 .. n)
          BY <1>1, <3>1 DEF LoggedAt
        <5> QED BY <4>1, <5>1, GreatestExists
      <4>3. k = rebases[m].new
        BY <1>2, <2>1, <2>3, <2>5, <3>5, <4>2 DEF LastIsOpen
      <4>4. m \in Rebased(c)' /\ n \in Rebased(c)' /\ m < n /\ rebases'[m] = rebases[m]
        BY <1>1, <3>1, <4>2 DEF LoggedAt
      <4>5. \A j \in Rebased(c)' : j <= m \/ n <= j
        BY <3>1, <4>2
      <4>6. rebases'[n].old = rebases'[m].new
        BY <2>5, <4>4, <4>5 DEF Straight
      <4> QED BY <3>2, <3>3, <4>3, <4>4, <4>6
    <3> QED BY <2>5, <3>4, <3>5, RebaseExtends
  <2> QED BY <2>4, <2>5
<1> QED BY <1>7, <1>9, <1>11, <1>12

LEMMA TracedStep ==
  ASSUME IInv, EngineDrafts, Traced, [Next]_vars
  PROVE  Traced'
<1>1. ASSUME NEW c \in Changes, NEW old \in Commits, NEW new \in Commits,
             AutoRebase(c, old, new)
      PROVE  Traced'
  <2>1. RevisionsAreOwned(graph)' <=> RevisionsAreOwned(graph')
    BY DEF RevisionsAreOwned, IsRevision, Revisions, Known
  <2> QED BY <1>1, <2>1, RebaseTraces DEF Traced
<1>2. CASE held' = "caller"
  BY <1>2 DEF Traced
<1>3. CASE UNCHANGED vars
  BY <1>3 DEF vars, Traced, RevisionsAreOwned, RevisionsAreTouched, EdgesAreRebases,
              LastIsOpen, Touched, Rebased, Straight, Unshared, IsRevision, Revisions, Known
<1>4. ASSUME NEW c, NEW k, NEW revs,
             \/ AddChange(c, revs, k) \/ AddRevision(c, k) \/ Supersede(c, k) \/ SetPhase(c, k)
             \/ IntoParts
      PROVE  held' = "caller"
  BY <1>4 DEF AddChange, AddRevision, Supersede, SetPhase, Call, IntoParts
<1>5. \/ \E c \in Changes, old, new \in Commits : AutoRebase(c, old, new)
      \/ UNCHANGED vars \/ held' = "caller"
  BY <1>4 DEF Next
<1> QED BY <1>1, <1>2, <1>3, <1>5

LEMMA TracedTells ==
  ASSUME IsFiniteSet(Commits), IInv, Traced
  PROVE  JointlyQueryable
<1> SUFFICES ASSUME held = "engine", NEW c \in Changes, NEW i \in Rebased(c),
                    \A j \in Rebased(c) : j <= i, Straight(c), Unshared(c)
             PROVE  Tip(graph, c) = rebases[i].new
  BY DEF JointlyQueryable
<1> DEFINE S    == Touched(c)
           from == Revisions(graph, c)[1]
           N    == Cardinality(Commits)
<1>1. /\ graph \in Graph /\ NoCycle(graph)
      /\ RevisionsAreTouched /\ EdgesAreRebases /\ LastIsOpen
  BY DEF IInv, Sound, Traced
<1>2. Revisions(graph, c) # << >>
  <2>1. rebases[i].new \in Touched(c)
    <3>1. i \in DOMAIN rebases
      BY DEF Rebased
    <3> DEFINE R == [change : Changes, old : Commits, new : Commits]
    <3>2. rebases \in Seq(R)
      BY DEF IInv, TypeOK
    <3>3. rebases[i] \in R
      <4> HIDE DEF R
      <4> QED BY <3>1, <3>2
    <3> QED BY <3>3 DEF Touched
  <2>2. \E j \in DOMAIN Revisions(graph, c) : Revisions(graph, c)[j] = rebases[i].new
    BY <1>1, <2>1 DEF RevisionsAreTouched, Touched, IsRevision
  <2> QED BY <2>2
<1>3. from \in Commits
  BY <1>1, <1>2, TipIs
<1>4. PICK f : IsWalk(f, graph.supersededBy, from, N) /\ Tip(graph, c) = f[N]
  BY <1>1, <1>2, TipIs
<1>5. from \in S
  <2>1. Revisions(graph, c) \in Seq(Commits)
    <3>1. graph.changes[c] \in Change \cup {None}
      BY <1>1 DEF Graph
    <3> QED BY <3>1 DEF Revisions, Known, Change
  <2>2. 1 \in DOMAIN Revisions(graph, c)
    BY <1>2, <2>1
  <2> QED BY <1>1, <1>3, <2>2 DEF RevisionsAreTouched, IsRevision
<1>6. Closed(graph, S)
  <2> SUFFICES ASSUME NEW k \in S, graph.supersededBy[k] # None
               PROVE  graph.supersededBy[k] \in S
    BY DEF Closed
  <2>1. graph.supersededBy[k] \in Commits
    BY <1>1 DEF Graph, Touched
  <2> QED BY <1>1, <2>1, EdgeIsOwn DEF Touched
<1>7. S \in SUBSET Commits
  BY DEF Touched
<1> HIDE DEF S, from, N
<1>8. f[N] \in S /\ graph.supersededBy[f[N]] = None
  BY <1>1, <1>3, <1>4, <1>5, <1>6, <1>7, WalkEnds DEF N
<1> QED BY <1>1, <1>4, <1>8 DEF LastIsOpen, S

(* Valid time and transaction time are jointly queryable: while the engine *)
(* has the graph, the tip of a change is the result of the last rebase its *)
(* log has of it, however the rebases of other changes and the refusals of *)
(* supersede fall between (auto_rebase, tip).                              *)
THEOREM TipIsTheLastRebase ==
  ASSUME IsFiniteSet(Commits)
  PROVE  Spec => []JointlyQueryable
<1>1. Init => EngineDrafts /\ Traced
  BY DEF Init, EngineDrafts, EmptyGraph, Public, Known, Traced, RevisionsAreOwned,
         RevisionsAreTouched, EdgesAreRebases, LastIsOpen, Touched, Rebased, IsRevision, Revisions
<1>2. IInv /\ EngineDrafts /\ [Next]_vars => EngineDrafts'
  BY DraftsStep
<1>3. IInv /\ EngineDrafts /\ Traced /\ [Next]_vars => Traced'
  BY TracedStep
<1>4. IInv /\ Traced => JointlyQueryable
  BY TracedTells
<1> QED BY <1>1, <1>2, <1>3, <1>4, InitIsSound, StepIsSound, PTL DEF Spec
=============================================================================
