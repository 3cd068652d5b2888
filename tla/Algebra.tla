------------------------------ MODULE Algebra ------------------------------
(***************************************************************************)
(* The patch algebra (crates/omoplata-algebra): line diffs, their          *)
(* application, commutation, the three-way merge, rebases that carry       *)
(* conflicts as values, and the kernel that admits merges.                 *)
(*                                                                         *)
(* A document is a sequence of lines; a line is a value.  Positions count  *)
(* from 1 where the code counts from 0.  Refused stands for every error    *)
(* of apply: callers only tell success from failure.                       *)
(***************************************************************************)
EXTENDS Integers, SequencesExt, FiniteSetsExt

CONSTANT Refused

(* The lines from one position up to, and not with, another.               *)
Slice(s, from, to) == SubSeq(s, from, to - 1)

----------------------------------------------------------------------------
(* patch.rs: hunks, diff and apply                                         *)

LOCAL Downto1(n) == [k \in 1 .. n |-> n + 1 - k]

(* LcsLength(a, b)[i][j]: the longest common subsequence of the suffixes,  *)
(* row by row from the last.                                               *)
LcsLength(a, b) ==
  LET Row(i, below) ==
        [j \in 1 .. Len(b) + 1 |->
           Max({below[j]} \cup {below[k + 1] + 1 : k \in {n \in j .. Len(b) : b[n] = a[i]}})]
  IN FoldLeft(LAMBDA rows, i : <<Row(i, Head(rows))>> \o rows,
              <<[j \in 1 .. Len(b) + 1 |-> 0]>>, Downto1(Len(a)))

(* The alignment diff and merge3 build on; a tie advances in a first.      *)
LcsMatches(a, b) ==
  LET Walk(len) ==
        LET from[at \in (1 .. Len(a) + 1) \X (1 .. Len(b) + 1)] ==
              LET i == at[1]
                  j == at[2]
              IN IF i > Len(a) \/ j > Len(b) THEN <<>>
                 ELSE IF a[i] = b[j] THEN <<<<i, j>>>> \o from[<<i + 1, j + 1>>]
                 ELSE IF len[i + 1][j] >= len[i][j + 1] THEN from[<<i + 1, j>>]
                 ELSE from[<<i, j + 1>>]
        IN from[<<1, 1>>]
  IN Walk(LcsLength(a, b))

(* A hunk replaces the lines remove, which start at base line start.       *)
Hunk(start, remove, insert) ==
  [start |-> start, remove |-> remove, insert |-> insert]

HunkEnd(h) == h.start + Len(h.remove)

Delta(h) == Len(h.insert) - Len(h.remove)

(* The gaps between consecutive matches that are not empty, the end of     *)
(* both documents being the last match.                                    *)
Diff(base, target) ==
  LET Cut(ends) ==
        LET After(k) == IF k = 1 THEN <<1, 1>> ELSE <<ends[k - 1][1] + 1, ends[k - 1][2] + 1>>
            Gap(k)   == Hunk(After(k)[1], Slice(base, After(k)[1], ends[k][1]),
                             Slice(target, After(k)[2], ends[k][2]))
            hunks[k \in 0 .. Len(ends)] ==
              IF k = 0 THEN <<>>
              ELSE IF After(k)[1] < ends[k][1] \/ After(k)[2] < ends[k][2]
                   THEN Append(hunks[k - 1], Gap(k))
                   ELSE hunks[k - 1]
        IN hunks[Len(ends)]
  IN Cut(LcsMatches(base, target) \o <<<<Len(base) + 1, Len(target) + 1>>>>)

(* Where the base is read on at the k-th hunk.                             *)
ReadFrom(p, k) == IF k = 1 THEN 1 ELSE HunkEnd(p[k - 1])

(* No hunk overlaps the one before, runs past the end or finds other lines *)
(* than those it removes.                                                  *)
Fits(p, base) ==
  \A k \in DOMAIN p :
    /\ p[k].start >= ReadFrom(p, k)
    /\ HunkEnd(p[k]) <= Len(base) + 1
    /\ Slice(base, p[k].start, HunkEnd(p[k])) = p[k].remove

Apply(p, base) ==
  LET out[k \in 0 .. Len(p)] ==
        IF k = 0 THEN <<>>
        ELSE out[k - 1] \o Slice(base, ReadFrom(p, k), p[k].start) \o p[k].insert
  IN IF Fits(p, base)
     THEN out[Len(p)] \o Slice(base, ReadFrom(p, Len(p) + 1), Len(base) + 1)
     ELSE Refused

----------------------------------------------------------------------------
(* commute.rs                                                              *)

(* Neither order or both: an overlap, or two insertions at one place.      *)
HunksConflict(h, k) ==
  (HunkEnd(h) <= k.start) <=> (HunkEnd(k) <= h.start)

DeltaBefore_Strictly(p, pos) ==
  LET sum[k \in 0 .. Len(p)] ==
        IF k = 0 THEN 0
        ELSE sum[k - 1] + (IF HunkEnd(p[k]) < pos THEN Delta(p[k]) ELSE 0)
  IN sum[Len(p)]

(* What the hunks that end at or before a position add to the lines.       *)
DeltaBefore(p, pos) ==
  LET sum[k \in 0 .. Len(p)] ==
        IF k = 0 THEN 0
        ELSE sum[k - 1] + (IF HunkEnd(p[k]) <= pos THEN Delta(p[k]) ELSE 0)
  IN sum[Len(p)]

(* p, moved to apply on top of other.                                      *)
RebasePatch(p, other) ==
  [k \in DOMAIN p |->
     [p[k] EXCEPT !.start = Max({1, @ + DeltaBefore(other, @)})]]

Independent(p, q) ==
  \A i \in DOMAIN p, j \in DOMAIN q : ~ HunksConflict(p[i], q[j])

Commute(p, q) ==
  [independent |-> Independent(p, q),
   p_rebased   |-> RebasePatch(p, q),
   q_rebased   |-> RebasePatch(q, p)]

Combine(base, p, q_rebased) ==
  LET Then(after) ==
        IF after = Refused THEN Refused ELSE Apply(q_rebased, after)
  IN Then(Apply(p, base))

----------------------------------------------------------------------------
(* merge.rs: the three-way merge.  The separator is seven equals signs.    *)

CONFLICT_START == "<<<<<<< left"
CONFLICT_SEP   == "=== ==="
CONFLICT_END   == ">>>>>>> right"

(* Base lines both sides keep, with where each side keeps them.            *)
Anchors(base, left, right) ==
  LET Keeps(m, i) == \E k \in DOMAIN m : m[k][1] = i
      At(m, i) == m[CHOOSE k \in DOMAIN m : m[k][1] = i][2]
      Joined(both, lb) ==
        [k \in DOMAIN both |->
           <<both[k][1], both[k][2], At(lb, both[k][1])>>]
      Join(la, lb) == Joined(SelectSeq(la, LAMBDA x : Keeps(lb, x[1])), lb)
  IN Join(LcsMatches(base, left), LcsMatches(base, right))

(* What the three documents hold between two anchors.                      *)
Regions(base, left, right) ==
  LET Region(from, to) ==
        [base  |-> Slice(base, from[1] + 1, to[1]),
         left  |-> Slice(left, from[2] + 1, to[2]),
         right |-> Slice(right, from[3] + 1, to[3])]
      Cut(anchors) ==
        [k \in DOMAIN anchors |->
           Region(IF k = 1 THEN <<0, 0, 0>> ELSE anchors[k - 1], anchors[k])]
  IN Cut(Anchors(base, left, right)
           \o <<<<Len(base) + 1, Len(left) + 1, Len(right) + 1>>>>)

Conflicting(r) == r.left # r.base /\ r.right # r.base /\ r.left # r.right

EmitRegion_KeepsLeft(r) ==
  IF Conflicting(r)
  THEN <<CONFLICT_START>> \o r.left \o <<CONFLICT_SEP>> \o r.right
         \o <<CONFLICT_END>>
  ELSE r.left

EmitRegion(r) ==
  IF Conflicting(r)
  THEN <<CONFLICT_START>> \o r.left \o <<CONFLICT_SEP>> \o r.right
         \o <<CONFLICT_END>>
  ELSE IF r.left = r.base THEN r.right ELSE r.left

Merge3(base, left, right) ==
  LET Kept(anchors, k) ==
        IF k \in DOMAIN anchors THEN <<base[anchors[k][1]]>> ELSE <<>>
      Emit(regions, anchors) ==
        [merged    |-> FlattenSeq([k \in DOMAIN regions |->
                         EmitRegion(regions[k]) \o Kept(anchors, k)]),
         conflicts |-> SelectSeq(regions, Conflicting)]
  IN Emit(Regions(base, left, right), Anchors(base, left, right))

IsClean(merge) == merge.conflicts = <<>>

----------------------------------------------------------------------------
(* rebase.rs: conflicts ride through a rebase as values                    *)

REBASE_MINE == "<<<<<<< mine"
REBASE_ONTO == ">>>>>>> onto"

ConflictStarts == {CONFLICT_START, REBASE_MINE}
ConflictEnds   == {CONFLICT_END, REBASE_ONTO}

RelabelToRebaseMarkers(doc) ==
  ReplaceAll(ReplaceAll(doc, CONFLICT_START, REBASE_MINE),
             CONFLICT_END, REBASE_ONTO)

(* rebase: a Merge whose merged document has the mine/onto markers.        *)
Rebase(base, mine, onto) ==
  LET m == Merge3(base, mine, onto)
  IN [m EXCEPT !.merged = RelabelToRebaseMarkers(@)]

(* First and last line of each rendered conflict; a start without an end   *)
(* is an ordinary line.                                                    *)
ConflictMarkerRegions(doc) ==
  LET Ends(i) == {j \in i + 1 .. Len(doc) : doc[j] \in ConflictEnds}
      from[i \in 1 .. Len(doc) + 1] ==
        IF i > Len(doc) THEN <<>>
        ELSE IF doc[i] \in ConflictStarts /\ Ends(i) # {}
             THEN <<<<i, Min(Ends(i))>>>> \o from[Min(Ends(i)) + 1]
             ELSE from[i + 1]
  IN from[1]

OverlapsAnyRegion_StartsInside(h, regions) ==
  \E k \in DOMAIN regions :
    h.start >= regions[k][1] /\ h.start < regions[k][2] + 1

(* An insertion touches a region only strictly inside it.                  *)
OverlapsAnyRegion(h, regions) ==
  \E k \in DOMAIN regions :
    LET first == regions[k][1]
        end   == regions[k][2] + 1
    IN IF h.remove = <<>> THEN h.start > first /\ h.start < end
       ELSE h.start < end /\ first < HunkEnd(h)

RebaseMerge(prior, onto_patch) ==
  LET Safe(regions) ==
        SelectSeq(onto_patch, LAMBDA h : ~ OverlapsAnyRegion(h, regions))
      merged == Apply(Safe(ConflictMarkerRegions(prior.merged)), prior.merged)
  IN [prior EXCEPT !.merged = IF merged = Refused THEN @ ELSE merged]

(* Each version is replayed on what the versions before it became.         *)
RebaseStack(base, stack, onto) ==
  LET done[i \in 0 .. Len(stack)] ==
        IF i = 0 THEN <<>>
        ELSE Append(done[i - 1],
                    Rebase(IF i = 1 THEN base ELSE stack[i - 1], stack[i],
                           IF i = 1 THEN onto ELSE Last(done[i - 1]).merged))
  IN done[Len(stack)]

(* The k-th region becomes the k-th resolution; those without one stay.    *)
ResolveAll(rendered, resolutions) ==
  LET Collapse(region, resolution) ==
        Hunk(region[1], Slice(rendered, region[1], region[2] + 1), resolution)
      Collapses(regions) ==
        [k \in 1 .. Min({Len(regions), Len(resolutions)}) |->
           Collapse(regions[k], resolutions[k])]
  IN Apply(Collapses(ConflictMarkerRegions(rendered)), rendered)

----------------------------------------------------------------------------
(* kernel.rs and validation.rs                                             *)

AdmitMerged(result, p, q) ==
  [merged |-> TRUE, result |-> result, witness |-> [p |-> p, q |-> q]]

AdmitConflict(conflicts) == [merged |-> FALSE, conflicts |-> conflicts]

ConflictOf(base, left, right) ==
  [base |-> base, left |-> left, right |-> right]

Admit(base, left, right) ==
  LET Try(p, q, c) ==
        LET result == Combine(base, p, c.q_rebased)
        IN IF c.independent /\ result # Refused
           THEN AdmitMerged(result, p, q)
           ELSE AdmitConflict(Merge3(base, left, right).conflicts)
      Commuted(p, q) == Try(p, q, Commute(p, q))
  IN Commuted(Diff(base, left), Diff(base, right))

VerifyWitness_AnyDiffs(base, w, result) ==
  LET c == Commute(w.p, w.q)
  IN c.independent /\ Combine(base, w.p, c.q_rebased) = result

VerifyWitness(base, w, result) ==
  LET left  == Apply(w.p, base)
      right == Apply(w.q, base)
      c     == Commute(w.p, w.q)
  IN /\ left # Refused /\ right # Refused
     /\ Diff(base, left) = w.p /\ Diff(base, right) = w.q
     /\ c.independent
     /\ Combine(base, w.p, c.q_rebased) = result

(* A bug it could have: what the tool proposes is taken for the result.    *)
Certify_Proposed(base, left, right, proposed) ==
  LET own == Admit(base, left, right)
  IN IF own.merged THEN [own EXCEPT !.result = proposed] ELSE own

Certify(base, left, right, proposed) ==
  LET Against(own) ==
        IF own.merged /\ own.result # proposed
        THEN AdmitConflict(<<ConflictOf(base, own.result, proposed)>>)
        ELSE own
  IN Against(Admit(base, left, right))

(* Validated: accepted with a document, or demoted to one conflict.        *)
DynamicValidate(base, left, right, admission, passed) ==
  IF admission.merged /\ passed
  THEN [accepted |-> TRUE, document |-> admission.result]
  ELSE [accepted |-> FALSE,
        conflict |-> IF admission.merged \/ admission.conflicts = <<>>
                     THEN ConflictOf(base, left, right)
                     ELSE Head(admission.conflicts)]
=============================================================================
