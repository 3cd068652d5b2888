---------------------------- MODULE EditsProofs ----------------------------
(***************************************************************************)
(* For any lines and documents of any length: diff then apply gives the    *)
(* target back (DiffRoundTrip), independent patches commute (OrderIsFree), *)
(* and the merge kernel verifies what it admits and nothing else.  For any *)
(* sequence of calls: identities are those that the joins tell, and a      *)
(* stack keeps its changes.                                                *)
(*                                                                         *)
(* Commutation goes by layouts.  A patch that fits a base lays its hunks   *)
(* out on it, one after the other; apply splices the base by that layout   *)
(* (ApplySplices); rebase moves the layout of a patch by what the other    *)
(* adds before each hunk (RebaseShape).  Two splices, each on top of the   *)
(* other's result, have the same line in the same place (SwapLine).        *)
(* The round trip goes by the matches: LcsMatches pairs equal lines in the *)
(* order of both documents (MatchesMatch), diff cuts hunks between them,   *)
(* and up to every match the hunks so far turn the base into the target    *)
(* (DiffAligned).  Each recursive function is first shown to exist, by     *)
(* induction over a set of numbers, so that its equations may be used.     *)
(***************************************************************************)
EXTENDS Edits, TLAPS, WellFoundedInduction, SequenceTheorems


(* Induction up to n.                                                      *)
LEMMA UpTo ==
  ASSUME NEW n \in Nat, NEW S, 0 \in S,
         \A i \in 0 .. n - 1 : i \in S => i + 1 \in S
  PROVE  \A i \in 0 .. n : i \in S
<1> DEFINE T == {i \in 0 .. n : i \notin S}
<1> SUFFICES ASSUME T # {} PROVE FALSE
  OBVIOUS
<1>1. PICK m \in T : \A y \in T : ~ (<<y, m>> \in OpToRel(<, Nat))
  <2>1. T \subseteq Nat
    OBVIOUS
  <2> HIDE DEF T
  <2> QED BY <2>1, NatLessThanWellFounded, WFMin
<1>2. \A y \in T : ~ (y < m)
  <2>1. T \subseteq Nat
    OBVIOUS
  <2> HIDE DEF T
  <2> QED BY <1>1, <2>1 DEF OpToRel
<1>3. m - 1 \in 0 .. n - 1 /\ m - 1 \notin T
  BY <1>2
<1> QED BY <1>3

-----------------------------------------------------------------------------
(* Layouts: where the hunks of a patch cut a base of size lines.  Hunk k   *)
(* replaces the lines from start[k] up to end[k], and shift[k] is what the *)
(* first k add to the length.  Hunks 0 and n + 1 are empty ones at the two *)
(* ends of the base.                                                       *)

Rank(c) == 0 .. c.n + 1

LayoutOK(c) ==
  /\ c.n \in Nat /\ c.size \in Nat
  /\ c.start \in [Rank(c) -> Int] /\ c.end \in [Rank(c) -> Int] /\ c.shift \in [Rank(c) -> Int]
  /\ c.start[0] = 1 /\ c.end[0] = 1 /\ c.shift[0] = 0
  /\ c.start[c.n + 1] = c.size + 1 /\ c.end[c.n + 1] = c.size + 1
  /\ c.shift[c.n + 1] = c.shift[c.n]
  /\ \A k \in 1 .. c.n + 1 :
       /\ c.end[k - 1] <= c.start[k] /\ c.start[k] <= c.end[k]
       /\ c.start[k] + c.shift[k - 1] <= c.end[k] + c.shift[k]

(* In the base and in the result, hunks come one after the other.          *)
LEMMA InOrder ==
  ASSUME NEW c, LayoutOK(c), NEW i \in Rank(c), NEW k \in Rank(c), i < k
  PROVE  /\ c.end[i] <= c.start[k] /\ c.start[i] <= c.end[i]
         /\ c.end[i] + c.shift[i] <= c.start[k] + c.shift[k - 1]
<1> DEFINE S == {m \in 0 .. c.n + 1 :
                   m > i => /\ c.end[i] <= c.start[m]
                            /\ c.end[i] + c.shift[i] <= c.start[m] + c.shift[m - 1]}
<1>0. c.n \in Nat
  BY DEF LayoutOK
<1>1. 0 \in S
  BY <1>0 DEF Rank
<1>2. ASSUME NEW m \in 0 .. c.n, m \in S PROVE m + 1 \in S
  <2>1. m + 1 \in 1 .. c.n + 1 /\ m \in Rank(c) /\ m + 1 \in Rank(c)
    BY <1>0 DEF Rank
  <2>a. m # 0 => m \in 1 .. c.n + 1 /\ m - 1 \in Rank(c)
    BY <1>0 DEF Rank
  <2>2. c.end[m] <= c.start[m + 1]
    BY <2>1 DEF LayoutOK
  <2>3. m # 0 => c.start[m] <= c.end[m] /\ c.start[m] + c.shift[m - 1] <= c.end[m] + c.shift[m]
    BY <2>a DEF LayoutOK
  <2>4. /\ c.start[m] \in Int /\ c.end[m] \in Int /\ c.shift[m] \in Int /\ c.start[m + 1] \in Int
        /\ c.end[i] \in Int /\ c.shift[i] \in Int /\ (m # 0 => c.shift[m - 1] \in Int)
    BY <2>1, <2>a DEF LayoutOK
  <2>5. i \in 0 .. c.n + 1
    BY DEF Rank
  <2>6. (m + 1) - 1 = m
    OBVIOUS
  <2>7. CASE m + 1 > i
    <3>1. m = i \/ (m > i /\ m # 0)
      BY <2>5, <2>7
    <3>2. c.end[i] <= c.start[m + 1] /\ c.end[i] + c.shift[i] <= c.start[m + 1] + c.shift[m]
      BY <1>2, <2>2, <2>3, <2>4, <3>1
    <3> QED BY <1>0, <2>6, <3>2
  <2> QED BY <1>0, <2>7
<1>3. c.n + 1 \in Nat
  BY DEF LayoutOK
<1>4. \A m \in 0 .. c.n + 1 : m \in S
  <2>1. \A m \in 0 .. (c.n + 1) - 1 : m \in S => m + 1 \in S
    BY <1>2 DEF LayoutOK
  <2> HIDE DEF S
  <2> QED BY <1>1, <1>3, <2>1, UpTo
<1>5. c.start[i] <= c.end[i]
  BY DEF LayoutOK, Rank
<1>6. k \in S
  BY <1>4 DEF Rank
<1> QED BY <1>5, <1>6

(* Every line of the result is a line of the base that is kept between two *)
(* hunks, or one that a hunk inserts.                                      *)
KeptAt(c, k, x) == c.end[k] + c.shift[k] <= x /\ x < c.start[k + 1] + c.shift[k]

InsertedAt(c, k, x) == c.start[k] + c.shift[k - 1] <= x /\ x < c.end[k] + c.shift[k]

(* Every line of the result is a line kept between two hunks, or one that  *)
(* a hunk inserts.                                                         *)
LEMMA Covered ==
  ASSUME NEW c, LayoutOK(c), NEW x \in 1 .. c.size + c.shift[c.n]
  PROVE  (\E k \in 0 .. c.n : KeptAt(c, k, x)) \/ (\E k \in 1 .. c.n : InsertedAt(c, k, x))
<1> SUFFICES ASSUME \A k \in 0 .. c.n : ~ KeptAt(c, k, x),
                    \A k \in 1 .. c.n : ~ InsertedAt(c, k, x)
             PROVE  FALSE
  OBVIOUS
<1> DEFINE S == {k \in 0 .. c.n : c.end[k] + c.shift[k] <= x}
<1>0. c.n \in Nat
  BY DEF LayoutOK
<1>1. 0 \in S
  BY DEF LayoutOK
<1>2. ASSUME NEW k \in 0 .. c.n - 1, k \in S PROVE k + 1 \in S
  <2>1. k + 1 \in 1 .. c.n /\ k \in 0 .. c.n /\ k + 1 \in Rank(c) /\ k \in Rank(c) /\ (k + 1) - 1 = k
    BY <1>0 DEF Rank
  <2>2. ~ KeptAt(c, k, x) /\ ~ InsertedAt(c, k + 1, x)
    BY <2>1
  <2>3. c.end[k] \in Int /\ c.shift[k] \in Int /\ c.start[k + 1] \in Int /\ c.end[k + 1] \in Int /\ c.shift[k + 1] \in Int
    BY <2>1 DEF LayoutOK
  <2> QED BY <1>2, <2>1, <2>2, <2>3 DEF KeptAt, InsertedAt
<1>3. c.n \in S
  <2> HIDE DEF S
  <2> QED BY <1>0, <1>1, <1>2, UpTo
<1>4. ~ KeptAt(c, c.n, x) /\ c.n \in Rank(c)
  BY <1>0 DEF Rank
<1>5. c.shift[c.n] \in Int /\ c.size \in Nat /\ c.start[c.n + 1] = c.size + 1
  BY <1>4 DEF LayoutOK
<1> QED BY <1>0, <1>3, <1>4, <1>5 DEF KeptAt

-----------------------------------------------------------------------------
(* Two layouts of one base: the hunks of c lie between those of d, hunk j  *)
(* after the first a[j] of them; and what c becomes on top of d.           *)

Beside(c, d, a) ==
  /\ a \in [Rank(c) -> 0 .. d.n]
  /\ a[0] = 0 /\ a[c.n + 1] = d.n
  /\ \A j \in 1 .. c.n + 1 : a[j - 1] <= a[j]
  /\ \A j \in Rank(c) : d.end[a[j]] <= c.start[j] /\ c.end[j] <= d.start[a[j] + 1]

Moved(c, d, a) ==
  [n |-> c.n, size |-> d.size + d.shift[d.n], shift |-> c.shift,
   start |-> [j \in Rank(c) |-> c.start[j] + d.shift[a[j]]],
   end   |-> [j \in Rank(c) |-> c.end[j] + d.shift[a[j]]]]

Numbered(c) ==
  /\ c.n \in Nat /\ c.size \in Nat
  /\ \A k \in Rank(c) : c.start[k] \in Int /\ c.end[k] \in Int /\ c.shift[k] \in Int

(* The parts of a layout are numbers.                                      *)
LEMMA Numbers ==
  ASSUME NEW c, LayoutOK(c)
  PROVE  Numbered(c)
BY DEF LayoutOK, Numbered

(* No hunk ends before it begins, neither in the base nor in the result.   *)
LEMMA NotShrunk ==
  ASSUME NEW c, LayoutOK(c), NEW k \in Rank(c)
  PROVE  /\ c.start[k] <= c.end[k]
         /\ k # 0 => c.start[k] + c.shift[k - 1] <= c.end[k] + c.shift[k]
<1>1. c.n \in Nat
  BY DEF LayoutOK
<1>2. k = 0 \/ k \in 1 .. c.n + 1
  BY <1>1 DEF Rank
<1> QED BY <1>2 DEF LayoutOK

(* In d's result, a hunk of c is after those of d that are before it, and  *)
(* before those that are after it.                                         *)
LEMMA MovedAfter ==
  ASSUME NEW c, NEW d, NEW a, LayoutOK(c), LayoutOK(d), Beside(c, d, a),
         NEW j \in Rank(c), NEW k \in Nat, k <= a[j]
  PROVE  d.end[k] + d.shift[k] <= c.start[j] + d.shift[a[j]]
<1>r. Numbered(c) /\ Numbered(d)
  BY Numbers
<1>1. a[j] \in 0 .. d.n /\ d.end[a[j]] <= c.start[j]
  BY DEF Beside
<1>2. d.n \in Nat
  BY <1>r DEF Numbered
<1>3. k \in Rank(d) /\ a[j] \in Rank(d)
  BY <1>1, <1>2 DEF Rank
<1>4. /\ c.start[j] \in Int /\ d.end[k] \in Int /\ d.shift[k] \in Int
      /\ d.end[a[j]] \in Int /\ d.shift[a[j]] \in Int /\ d.start[a[j]] \in Int
  BY <1>3, <1>r DEF Numbered
<1>5. CASE k = a[j]
  BY <1>1, <1>4, <1>5
<1>6. CASE k < a[j]
  <2>1. d.end[k] + d.shift[k] <= d.start[a[j]] + d.shift[a[j] - 1]
    BY <1>3, <1>6, InOrder
  <2>2. a[j] # 0 /\ a[j] - 1 \in Rank(d)
    BY <1>1, <1>2, <1>6 DEF Rank
  <2>3. d.start[a[j]] + d.shift[a[j] - 1] <= d.end[a[j]] + d.shift[a[j]]
    BY <1>3, <2>2, NotShrunk
  <2>4. d.shift[a[j] - 1] \in Int
    BY <2>2, <1>r DEF Numbered
  <2> QED BY <1>1, <1>4, <2>1, <2>3, <2>4
<1> QED BY <1>1, <1>5, <1>6

(* In d's result, a hunk of c comes before those of d that are after it.   *)
LEMMA MovedBefore ==
  ASSUME NEW c, NEW d, NEW a, LayoutOK(c), LayoutOK(d), Beside(c, d, a),
         NEW j \in Rank(c), NEW k \in Rank(d), a[j] < k
  PROVE  c.end[j] + d.shift[a[j]] <= d.start[k] + d.shift[k - 1]
<1>r. Numbered(c) /\ Numbered(d)
  BY Numbers
<1>1. a[j] \in 0 .. d.n /\ c.end[j] <= d.start[a[j] + 1]
  BY DEF Beside
<1>2. d.n \in Nat
  BY <1>r DEF Numbered
<1>3. a[j] \in Rank(d) /\ a[j] + 1 \in Rank(d) /\ k - 1 \in Rank(d) /\ k \in Int
  BY <1>1, <1>2 DEF Rank
<1>4. /\ c.end[j] \in Int /\ d.start[k] \in Int /\ d.shift[k - 1] \in Int
      /\ d.shift[a[j]] \in Int /\ d.start[a[j] + 1] \in Int
  BY <1>3, <1>r DEF Numbered
<1>5. CASE k = a[j] + 1
  <2>1. k - 1 = a[j]
    BY <1>1, <1>5
  <2> QED BY <1>1, <1>4, <1>5, <2>1
<1>6. CASE a[j] + 1 < k
  <2>1. d.end[a[j] + 1] + d.shift[a[j] + 1] <= d.start[k] + d.shift[k - 1]
    BY <1>3, <1>6, InOrder
  <2>2. a[j] + 1 # 0 /\ (a[j] + 1) - 1 = a[j]
    BY <1>1
  <2>3. d.start[a[j] + 1] + d.shift[a[j]] <= d.end[a[j] + 1] + d.shift[a[j] + 1]
    BY <1>3, <2>2, NotShrunk
  <2>4. d.end[a[j] + 1] \in Int /\ d.shift[a[j] + 1] \in Int
    BY <1>3, <1>r DEF Numbered
  <2> QED BY <1>1, <1>4, <2>1, <2>3, <2>4
<1> QED BY <1>1, <1>3, <1>5, <1>6

(* The hunks of c, moved to their places in d's result, are a layout of    *)
(* it.                                                                     *)
LEMMA MovedOK ==
  ASSUME NEW c, NEW d, NEW a, LayoutOK(c), LayoutOK(d), Beside(c, d, a), c.size = d.size
  PROVE  LayoutOK(Moved(c, d, a))
<1>r. Numbered(c) /\ Numbered(d)
  BY Numbers
<1> DEFINE m == Moved(c, d, a)
<1>0. c.n \in Nat /\ d.n \in Nat /\ c.size \in Nat
  BY <1>r DEF Numbered
<1>1. Rank(m) = Rank(c) /\ m.n = c.n /\ m.shift = c.shift /\ m.size = d.size + d.shift[d.n]
  BY DEF Moved, Rank
<1>2. ASSUME NEW j \in Rank(c)
      PROVE  /\ m.start[j] = c.start[j] + d.shift[a[j]] /\ m.end[j] = c.end[j] + d.shift[a[j]]
             /\ c.start[j] \in Int /\ c.end[j] \in Int /\ c.shift[j] \in Int /\ d.shift[a[j]] \in Int
             /\ c.start[j] <= c.end[j]
  <2>0. c.start[j] <= c.end[j]
    BY NotShrunk
  <2>1. a[j] \in Rank(d)
    BY SMTT(30), <1>0 DEF Beside, Rank
  <2> QED BY <2>0, <2>1, <1>r DEF Moved, Numbered
<1>3. m.start \in [Rank(c) -> Int] /\ m.end \in [Rank(c) -> Int] /\ m.shift \in [Rank(c) -> Int]
  <2>1. \A j \in Rank(c) : c.start[j] + d.shift[a[j]] \in Int /\ c.end[j] + d.shift[a[j]] \in Int
    BY <1>2
  <2>2. c.shift \in [Rank(c) -> Int]
    BY DEF LayoutOK
  <2> QED BY <1>1, <2>1, <2>2 DEF Moved
<1>4. 0 \in Rank(c) /\ c.n + 1 \in Rank(c) /\ 0 \in Rank(d) /\ d.n \in Rank(d)
  BY <1>0 DEF Rank
<1>5. m.start[0] = 1 /\ m.end[0] = 1 /\ m.shift[0] = 0
  <2>1. a[0] = 0 /\ c.start[0] = 1 /\ c.end[0] = 1 /\ c.shift[0] = 0 /\ d.shift[0] = 0
    BY DEF LayoutOK, Beside
  <2> QED BY <1>1, <1>2, <1>4, <2>1
<1>6. m.start[c.n + 1] = m.size + 1 /\ m.end[c.n + 1] = m.size + 1 /\ m.shift[c.n + 1] = m.shift[c.n]
  <2>1. /\ a[c.n + 1] = d.n /\ c.start[c.n + 1] = c.size + 1 /\ c.end[c.n + 1] = c.size + 1
        /\ c.shift[c.n + 1] = c.shift[c.n]
    BY DEF LayoutOK, Beside
  <2>2. d.shift[d.n] \in Int
    BY <1>4, <1>r DEF Numbered
  <2> QED BY <1>0, <1>1, <1>2, <1>4, <2>1, <2>2
<1>7. m.size \in Nat
  <2>1. d.end[0] + d.shift[0] <= d.start[d.n + 1] + d.shift[(d.n + 1) - 1]
    <3>1. d.n + 1 \in Rank(d) /\ 0 < d.n + 1
      BY <1>0 DEF Rank
    <3> QED BY <1>4, <3>1, InOrder
  <2>2. d.end[0] = 1 /\ d.shift[0] = 0 /\ d.start[d.n + 1] = d.size + 1
    BY DEF LayoutOK
  <2>3. d.shift[d.n] \in Int /\ (d.n + 1) - 1 = d.n
    BY <1>0, <1>4, <1>r DEF Numbered
  <2> QED BY <1>0, <1>1, <2>1, <2>2, <2>3
<1>8. ASSUME NEW k \in 1 .. c.n + 1
      PROVE  /\ m.end[k - 1] <= m.start[k] /\ m.start[k] <= m.end[k]
             /\ m.start[k] + m.shift[k - 1] <= m.end[k] + m.shift[k]
  <2>1. k - 1 \in Rank(c) /\ k \in Rank(c) /\ k # 0
    BY <1>0 DEF Rank
  <2>2. c.start[k] + c.shift[k - 1] <= c.end[k] + c.shift[k] /\ c.end[k - 1] <= c.start[k]
    BY <2>1 DEF LayoutOK
  <2>3. a[k - 1] \in 0 .. d.n /\ a[k] \in 0 .. d.n /\ a[k - 1] <= a[k]
    BY <2>1 DEF Beside
  <2>4. c.end[k - 1] + d.shift[a[k - 1]] <= c.start[k] + d.shift[a[k]]
    <3>1. CASE a[k - 1] = a[k]
      BY <1>2, <2>1, <2>2, <3>1
    <3>2. CASE a[k - 1] < a[k]
      <4>1. a[k] \in Rank(d) /\ a[k] \in Nat /\ a[k] # 0 /\ a[k] - 1 \in Rank(d)
        BY <1>0, <2>3, <3>2 DEF Rank
      <4>2. c.end[k - 1] + d.shift[a[k - 1]] <= d.start[a[k]] + d.shift[a[k] - 1]
        BY <2>1, <3>2, <4>1, MovedBefore
      <4>3. d.end[a[k]] + d.shift[a[k]] <= c.start[k] + d.shift[a[k]]
        BY <2>1, <4>1, MovedAfter
      <4>4. d.start[a[k]] + d.shift[a[k] - 1] <= d.end[a[k]] + d.shift[a[k]]
        BY <4>1, NotShrunk
      <4>5. d.start[a[k]] \in Int /\ d.end[a[k]] \in Int /\ d.shift[a[k] - 1] \in Int
        BY <4>1, <1>r DEF Numbered
      <4> QED BY <1>2, <2>1, <4>2, <4>3, <4>4, <4>5
    <3> QED BY <2>3, <3>1, <3>2
  <2>5. /\ m.end[k - 1] = c.end[k - 1] + d.shift[a[k - 1]] /\ m.start[k] = c.start[k] + d.shift[a[k]]
        /\ m.end[k] = c.end[k] + d.shift[a[k]]
    BY <1>2, <2>1
  <2>6. c.shift[k - 1] \in Int
    BY <1>2, <2>1
  <2> HIDE DEF m
  <2> QED BY <1>1, <1>2, <2>1, <2>2, <2>4, <2>5, <2>6
<1> HIDE DEF m
<1>9. LayoutOK(m)
  BY <1>0, <1>1, <1>3, <1>5, <1>6, <1>7, <1>8 DEF LayoutOK
<1> QED BY <1>9 DEF m

(* doc is base with the hunks of c replaced by the lines of ins.           *)
Splices(c, ins, base, doc) ==
  /\ \A k \in 0 .. c.n : \A x \in Int :
       KeptAt(c, k, x) => doc[x] = base[x - c.shift[k]]
  /\ \A k \in 1 .. c.n : \A x \in Int :
       InsertedAt(c, k, x) => doc[x] = ins[k][x + 1 - (c.start[k] + c.shift[k - 1])]

(* a and b see the same order of the hunks of c and d.                     *)
Crossing(c, d, a, b) ==
  \A k \in Rank(c) : \A j \in Rank(d) :
    k \in 1 .. c.n \/ j \in 1 .. d.n => (k <= a[j] <=> b[k] < j)

(* Two patches of one base, each applied on top of the other: a line of    *)
(* the one result is in the same place of the other.                       *)
LEMMA SwapLine ==
  ASSUME NEW c, NEW d, NEW a, NEW b, LayoutOK(c), LayoutOK(d), c.size = d.size,
         Beside(d, c, a), Beside(c, d, b), Crossing(c, d, a, b),
         NEW insc, NEW insd, NEW base, NEW docc, NEW docd, NEW doccd, NEW docdc,
         Splices(c, insc, base, docc), Splices(d, insd, base, docd),
         Splices(Moved(d, c, a), insd, docc, doccd), Splices(Moved(c, d, b), insc, docd, docdc),
         NEW x \in 1 .. c.size + c.shift[c.n] + d.shift[d.n]
  PROVE  doccd[x] = docdc[x]
<1> DEFINE dc == Moved(d, c, a)
           cd == Moved(c, d, b)
<1>r. Numbered(c) /\ Numbered(d)
  BY Numbers
<1>0. c.n \in Nat /\ d.n \in Nat
  BY <1>r DEF Numbered
<1>1. LayoutOK(dc) /\ LayoutOK(cd)
  BY MovedOK
<1>2. /\ dc.n = d.n /\ dc.shift = d.shift
      /\ \A j \in Rank(d) : dc.start[j] = d.start[j] + c.shift[a[j]] /\ dc.end[j] = d.end[j] + c.shift[a[j]]
  BY DEF Moved
<1>3. /\ cd.n = c.n /\ cd.shift = c.shift
      /\ \A k \in Rank(c) : cd.start[k] = c.start[k] + d.shift[b[k]] /\ cd.end[k] = c.end[k] + d.shift[b[k]]
  BY DEF Moved
<1>4. Splices(dc, insd, docc, doccd) /\ Splices(cd, insc, docd, docdc)
  OBVIOUS
<1> HIDE DEF dc, cd
<1>5. ASSUME NEW j \in Rank(d)
      PROVE  a[j] \in 0 .. c.n /\ a[j] \in Rank(c) /\ a[j] + 1 \in Rank(c) /\ c.shift[a[j]] \in Int
  <2>1. a[j] \in 0 .. c.n
    BY DEF Beside
  <2>2. a[j] \in Rank(c) /\ a[j] + 1 \in Rank(c)
    BY <1>0, <2>1 DEF Rank
  <2> QED BY <1>r, <2>1, <2>2 DEF Numbered
<1>6. ASSUME NEW k \in Rank(c)
      PROVE  b[k] \in 0 .. d.n /\ b[k] \in Rank(d) /\ b[k] + 1 \in Rank(d) /\ d.shift[b[k]] \in Int
  <2>1. b[k] \in 0 .. d.n
    BY DEF Beside
  <2>2. b[k] \in Rank(d) /\ b[k] + 1 \in Rank(d)
    BY <1>0, <2>1 DEF Rank
  <2> QED BY <1>r, <2>1, <2>2 DEF Numbered
<1>7. x \in Int
  OBVIOUS
<1>10. x \in 1 .. dc.size + dc.shift[dc.n]
  BY <1>2 DEF Moved, dc
<1>8. ASSUME NEW j \in 1 .. d.n, InsertedAt(dc, j, x)
      PROVE  doccd[x] = docdc[x]
  <2> DEFINE k == a[j]
             y == x - c.shift[k]
  <2>1. j \in Rank(d) /\ j - 1 \in Rank(d) /\ j \in Nat
    BY <1>0 DEF Rank
  <2>2. k \in 0 .. c.n /\ k \in Rank(c) /\ k + 1 \in Rank(c) /\ c.shift[k] \in Int
    BY <1>5, <2>1
  <2>3. /\ d.start[j] \in Int /\ d.end[j] \in Int /\ d.shift[j] \in Int /\ d.shift[j - 1] \in Int
        /\ c.end[k] \in Int /\ c.start[k + 1] \in Int
    BY <1>r, <2>1, <2>2 DEF Numbered
  <2>4. dc.start[j] = d.start[j] + c.shift[k] /\ dc.end[j] = d.end[j] + c.shift[k]
    BY <1>2, <2>1
  <2> HIDE DEF k
  <2>5. y \in Int /\ InsertedAt(d, j, y)
    BY <1>2, <1>7, <1>8, <2>2, <2>3, <2>4 DEF InsertedAt
  <2>6. c.end[k] + d.shift[b[k]] <= d.start[j] + d.shift[j - 1]
    <3>1. b[k] < j
      BY <2>1, <2>2 DEF Crossing, k
    <3> QED BY <2>1, <2>2, <3>1, MovedBefore
  <2>7. d.end[j] + d.shift[j] <= c.start[k + 1] + d.shift[b[k + 1]]
    <3>1. ~ (b[k + 1] < j)
      <4>1. ~ (k + 1 <= k)
        BY <2>2
      <4> QED BY <2>1, <2>2, <4>1 DEF Crossing, k
    <3>2. j <= b[k + 1]
      BY <1>6, <2>1, <2>2, <3>1
    <3> QED BY <2>1, <2>2, <3>2, MovedAfter
  <2>8. d.shift[b[k]] \in Int /\ d.shift[b[k + 1]] \in Int
    BY <1>6, <2>2
  <2>9. KeptAt(cd, k, x)
    <3>1. cd.end[k] = c.end[k] + d.shift[b[k]] /\ cd.start[k + 1] = c.start[k + 1] + d.shift[b[k + 1]]
      BY <1>3, <2>2
    <3>2. d.start[j] + d.shift[j - 1] <= y /\ y < d.end[j] + d.shift[j]
      BY <2>5 DEF InsertedAt
    <3>3. cd.shift[k] = c.shift[k]
      BY <1>3
    <3> QED BY <1>7, <2>2, <2>3, <2>6, <2>7, <2>8, <3>1, <3>2, <3>3 DEF KeptAt
  <2>10. docdc[x] = docd[y]
    BY <1>3, <1>4, <1>7, <2>2, <2>9 DEF Splices
  <2>11. docd[y] = insd[j][y + 1 - (d.start[j] + d.shift[j - 1])]
    BY <2>5 DEF Splices
  <2>12. doccd[x] = insd[j][x + 1 - (dc.start[j] + d.shift[j - 1])]
    BY <1>2, <1>4, <1>7, <1>8 DEF Splices
  <2>13. y + 1 - (d.start[j] + d.shift[j - 1]) = x + 1 - (dc.start[j] + d.shift[j - 1])
    BY <1>7, <2>2, <2>3, <2>4
  <2> QED BY <2>10, <2>11, <2>12, <2>13
<1>9. ASSUME NEW j \in 0 .. d.n, KeptAt(dc, j, x)
      PROVE  doccd[x] = docdc[x]
  <2> DEFINE z == x - d.shift[j]
  <2>1. j \in Rank(d) /\ j + 1 \in Rank(d) /\ j \in Nat
    BY <1>0 DEF Rank
  <2>2. /\ a[j] \in 0 .. c.n /\ a[j] \in Rank(c) /\ c.shift[a[j]] \in Int
        /\ a[j + 1] \in 0 .. c.n /\ a[j + 1] \in Rank(c) /\ c.shift[a[j + 1]] \in Int
        /\ a[j] + 1 \in Rank(c)
    BY <1>5, <2>1
  <2>3. /\ d.start[j] \in Int /\ d.end[j] \in Int /\ d.shift[j] \in Int /\ d.start[j + 1] \in Int
        /\ d.end[j + 1] \in Int /\ d.shift[j + 1] \in Int
    BY <1>r, <2>1 DEF Numbered
  <2>4. z \in Int /\ d.end[j] + c.shift[a[j]] <= z /\ z < d.start[j + 1] + c.shift[a[j + 1]]
    <3>1. dc.end[j] = d.end[j] + c.shift[a[j]] /\ dc.start[j + 1] = d.start[j + 1] + c.shift[a[j + 1]]
      BY <1>2, <2>1
    <3>2. dc.shift[j] = d.shift[j]
      BY <1>2
    <3>3. dc.end[j] + dc.shift[j] <= x /\ x < dc.start[j + 1] + dc.shift[j]
      BY <1>9 DEF KeptAt
    <3> QED BY <1>7, <2>2, <2>3, <3>1, <3>2, <3>3
  <2>5. doccd[x] = docc[z]
    BY <1>2, <1>4, <1>7, <1>9 DEF Splices
  <2> HIDE DEF z
  <2>6. ASSUME NEW k \in 1 .. c.n, InsertedAt(c, k, z)
        PROVE  docc[z] = docdc[x]
    <3>1. k \in Rank(c) /\ k - 1 \in Rank(c) /\ k \in Nat
      BY <1>0 DEF Rank
    <3>2. /\ c.start[k] \in Int /\ c.end[k] \in Int /\ c.shift[k] \in Int /\ c.shift[k - 1] \in Int
          /\ c.start[k] + c.shift[k - 1] <= z /\ z < c.end[k] + c.shift[k]
      BY <1>r, <2>6, <3>1 DEF Numbered, InsertedAt
    <3>3. b[k] \in 0 .. d.n
      BY <1>6, <3>1
    <3>4. ~ (b[k] < j)
      <4>1. SUFFICES ASSUME b[k] < j PROVE FALSE
        OBVIOUS
      <4>2. k <= a[j]
        BY <2>1, <3>1, <4>1 DEF Crossing
      <4>3. c.end[k] + c.shift[k] <= d.start[j] + c.shift[a[j]]
        BY <2>1, <3>1, <4>2, MovedAfter
      <4>4. d.start[j] <= d.end[j]
        BY <2>1, NotShrunk
      <4> QED BY <2>2, <2>3, <2>4, <3>2, <4>3, <4>4
    <3>5. b[k] < j + 1
      <4>1. SUFFICES ASSUME ~ (b[k] < j + 1) PROVE FALSE
        OBVIOUS
      <4>2. ~ (k <= a[j + 1])
        BY <2>1, <3>1, <4>1 DEF Crossing
      <4>3. a[j + 1] < k
        BY <2>2, <4>2
      <4>4. d.end[j + 1] + c.shift[a[j + 1]] <= c.start[k] + c.shift[k - 1]
        BY <2>1, <3>1, <4>3, MovedBefore
      <4>5. d.start[j + 1] <= d.end[j + 1]
        BY <2>1, NotShrunk
      <4> QED BY <2>2, <2>3, <2>4, <3>2, <4>4, <4>5
    <3>6. b[k] = j
      BY <2>1, <3>3, <3>4, <3>5
    <3>7. /\ cd.start[k] = c.start[k] + d.shift[j] /\ cd.end[k] = c.end[k] + d.shift[j]
          /\ cd.shift[k] = c.shift[k] /\ cd.shift[k - 1] = c.shift[k - 1]
      BY <1>3, <3>1, <3>6
    <3>8. z = x - d.shift[j]
      BY DEF z
    <3>9. InsertedAt(cd, k, x)
      BY <1>7, <2>3, <3>2, <3>7, <3>8 DEF InsertedAt
    <3>10. docdc[x] = insc[k][x + 1 - (cd.start[k] + cd.shift[k - 1])]
      BY <1>3, <1>4, <1>7, <3>9 DEF Splices
    <3>11. docc[z] = insc[k][z + 1 - (c.start[k] + c.shift[k - 1])]
      BY <2>4, <2>6 DEF Splices
    <3>12. x + 1 - (cd.start[k] + cd.shift[k - 1]) = z + 1 - (c.start[k] + c.shift[k - 1])
      BY <1>7, <2>3, <3>2, <3>7, <3>8
    <3> QED BY <3>10, <3>11, <3>12
  <2>7. ASSUME NEW k \in 0 .. c.n, KeptAt(c, k, z)
        PROVE  docc[z] = docdc[x]
    <3> DEFINE i == z - c.shift[k]
               y == i + d.shift[j]
    <3>1. k \in Rank(c) /\ k + 1 \in Rank(c) /\ k \in Nat
      BY <1>0 DEF Rank
    <3>2. /\ c.start[k] \in Int /\ c.end[k] \in Int /\ c.shift[k] \in Int
          /\ c.start[k + 1] \in Int /\ c.end[k + 1] \in Int /\ c.shift[k + 1] \in Int
      BY <1>r, <3>1 DEF Numbered
    <3>3. i \in Int /\ c.end[k] <= i /\ i < c.start[k + 1]
      BY <2>4, <2>7, <3>2 DEF KeptAt
    <3>z. z = i + c.shift[k] /\ z = x - d.shift[j]
      BY <2>4, <3>2 DEF z
    <3> HIDE DEF i
    <3>4. a[j] <= k
      <4>1. SUFFICES ASSUME k < a[j] PROVE FALSE
        BY <2>2, <3>1
      <4>2. c.end[k + 1] + c.shift[k + 1] <= d.start[j] + c.shift[a[j]]
        <5>1. k + 1 <= a[j] /\ k + 1 \in Nat
          BY <2>2, <3>1, <4>1
        <5> QED BY <2>1, <5>1, MovedAfter
      <4>3. d.start[j] <= d.end[j]
        BY <2>1, NotShrunk
      <4>4. c.start[k + 1] + c.shift[k] <= c.end[k + 1] + c.shift[k + 1]
        <5>1. k + 1 # 0 /\ (k + 1) - 1 = k
          BY <3>1
        <5> QED BY <3>1, <5>1, NotShrunk
      <4> QED BY <2>2, <2>3, <2>4, <3>2, <3>3, <3>z, <4>2, <4>3, <4>4
    <3>5. k <= a[j + 1]
      <4>1. SUFFICES ASSUME a[j + 1] < k PROVE FALSE
        BY <2>2, <3>1
      <4>2. d.end[j + 1] + c.shift[a[j + 1]] <= c.start[k] + c.shift[k - 1]
        BY <2>1, <3>1, <4>1, MovedBefore
      <4>3. d.start[j + 1] <= d.end[j + 1]
        BY <2>1, NotShrunk
      <4>4. k # 0 /\ k - 1 \in Rank(c)
        BY <1>0, <2>2, <3>1, <4>1 DEF Rank
      <4>5. c.start[k] + c.shift[k - 1] <= c.end[k] + c.shift[k]
        BY <3>1, <4>4, NotShrunk
      <4>6. c.shift[k - 1] \in Int
        BY <1>r, <4>4 DEF Numbered
      <4> QED BY <2>2, <2>3, <2>4, <3>2, <3>3, <3>z, <4>2, <4>3, <4>5, <4>6
    <3>6. d.end[j] <= i
      <4>1. d.end[j] <= c.start[a[j] + 1]
        BY <2>1 DEF Beside
      <4>2. c.start[a[j] + 1] \in Int
        BY <1>r, <2>2 DEF Numbered
      <4>3. CASE a[j] = k
        BY <2>3, <2>4, <3>2, <3>3, <3>z, <4>3
      <4>4. CASE a[j] < k
        <5>1. c.start[a[j] + 1] <= c.end[k]
          <6>1. CASE a[j] + 1 = k
            BY <3>1, <6>1, NotShrunk
          <6>2. CASE a[j] + 1 < k
            <7>1. c.end[a[j] + 1] <= c.start[k] /\ c.start[a[j] + 1] <= c.end[a[j] + 1]
              BY <2>2, <3>1, <6>2, InOrder
            <7>2. c.start[k] <= c.end[k]
              BY <3>1, NotShrunk
            <7>3. c.end[a[j] + 1] \in Int
              BY <1>r, <2>2 DEF Numbered
            <7> QED BY <3>2, <4>2, <7>1, <7>2, <7>3
          <6> QED BY <2>2, <3>1, <4>4, <6>1, <6>2
        <5> QED BY <2>3, <3>2, <3>3, <4>1, <4>2, <5>1
      <4> QED BY <2>2, <3>1, <3>4, <4>3, <4>4
    <3>7. i < d.start[j + 1]
      <4>1. CASE k = a[j + 1]
        BY <2>3, <2>4, <3>2, <3>3, <3>z, <4>1
      <4>2. CASE k < a[j + 1]
        <5>1. c.end[a[j + 1]] <= d.start[j + 1]
          BY <2>1 DEF Beside
        <5>2. c.start[k + 1] <= c.end[a[j + 1]]
          <6>1. CASE k + 1 = a[j + 1]
            BY <2>2, <6>1, NotShrunk
          <6>2. CASE k + 1 < a[j + 1]
            <7>1. c.end[k + 1] <= c.start[a[j + 1]] /\ c.start[k + 1] <= c.end[k + 1]
              BY <2>2, <3>1, <6>2, InOrder
            <7>2. c.start[a[j + 1]] <= c.end[a[j + 1]]
              BY <2>2, NotShrunk
            <7>3. c.start[a[j + 1]] \in Int /\ c.end[a[j + 1]] \in Int
              BY <1>r, <2>2 DEF Numbered
            <7> QED BY <3>2, <7>1, <7>2, <7>3
          <6> QED BY <2>2, <3>1, <4>2, <6>1, <6>2
        <5>3. c.end[a[j + 1]] \in Int
          BY <1>r, <2>2 DEF Numbered
        <5> QED BY <2>3, <3>2, <3>3, <5>1, <5>2, <5>3
      <4> QED BY <2>2, <3>1, <3>5, <4>1, <4>2
    <3>8. docd[y] = base[i]
      <4>1. y \in Int /\ y - d.shift[j] = i
        BY <2>3, <3>3
      <4>2. KeptAt(d, j, y)
        BY <2>3, <3>3, <3>6, <3>7 DEF KeptAt
      <4> HIDE DEF y
      <4> QED BY <4>1, <4>2 DEF Splices
    <3>9. docc[z] = base[i]
      BY <2>4, <2>7, <3>2 DEF Splices, i
    <3>10. b[k] \in 0 .. d.n /\ b[k] \in Rank(d) /\ d.shift[b[k]] \in Int
      BY <1>6, <3>1
    <3>11. b[k + 1] \in 0 .. d.n /\ b[k + 1] \in Rank(d) /\ d.shift[b[k + 1]] \in Int
      BY <1>6, <3>1
    <3>12. c.end[k] + d.shift[b[k]] <= y
      <4>1. b[k] < j + 1
        <5>1. k \in 1 .. c.n \/ j + 1 \in 1 .. d.n => (k <= a[j + 1] <=> b[k] < j + 1)
          BY <2>1, <3>1 DEF Crossing
        <5>2. CASE k = 0 /\ j = d.n
          <6>1. b[0] = 0
            BY DEF Beside
          <6> QED BY <1>0, <5>2, <6>1
        <5>3. CASE ~ (k = 0 /\ j = d.n)
          BY <1>0, <3>5, <5>1, <5>3
        <5> QED BY <5>2, <5>3
      <4>2. CASE b[k] = j
        BY <2>3, <3>2, <3>3, <4>2
      <4>3. CASE b[k] < j
        <5>1. c.end[k] + d.shift[b[k]] <= d.start[j] + d.shift[j - 1]
          BY <2>1, <3>1, <4>3, MovedBefore
        <5>2. j # 0 /\ j - 1 \in Rank(d)
          BY <1>0, <3>10, <4>3 DEF Rank
        <5>3. d.start[j] + d.shift[j - 1] <= d.end[j] + d.shift[j]
          BY <2>1, <5>2, NotShrunk
        <5>4. d.shift[j - 1] \in Int
          BY <1>r, <5>2 DEF Numbered
        <5> QED BY <2>3, <3>2, <3>3, <3>6, <3>10, <5>1, <5>3, <5>4
      <4> QED BY <2>1, <3>10, <4>1, <4>2, <4>3
    <3>13. y < c.start[k + 1] + d.shift[b[k + 1]]
      <4>1. j <= b[k + 1]
        <5>1. k + 1 \in 1 .. c.n \/ j \in 1 .. d.n => (k + 1 <= a[j] <=> b[k + 1] < j)
          BY <2>1, <3>1 DEF Crossing
        <5>2. CASE k = c.n /\ j = 0
          BY <3>11, <5>2
        <5>3. CASE ~ (k = c.n /\ j = 0)
          <6>1. ~ (k + 1 <= a[j])
            BY <2>2, <3>1, <3>4
          <6> QED BY <1>0, <2>1, <3>11, <5>1, <5>3, <6>1
        <5> QED BY <5>2, <5>3
      <4>2. CASE b[k + 1] = j
        BY <2>3, <3>2, <3>3, <4>2
      <4>3. CASE j < b[k + 1]
        <5>1. d.end[j + 1] + d.shift[j + 1] <= c.start[k + 1] + d.shift[b[k + 1]]
          <6>1. j + 1 <= b[k + 1] /\ j + 1 \in Nat
            BY <2>1, <3>11, <4>3
          <6> QED BY <3>1, <6>1, MovedAfter
        <5>2. d.start[j + 1] + d.shift[j] <= d.end[j + 1] + d.shift[j + 1]
          <6>1. j + 1 # 0 /\ (j + 1) - 1 = j
            BY <2>1
          <6> QED BY <2>1, <6>1, NotShrunk
        <5> QED BY <2>3, <3>2, <3>3, <3>7, <3>11, <5>1, <5>2
      <4> QED BY <2>1, <3>11, <4>1, <4>2, <4>3
    <3>14. KeptAt(cd, k, x)
      <4>1. /\ cd.end[k] = c.end[k] + d.shift[b[k]] /\ cd.start[k + 1] = c.start[k + 1] + d.shift[b[k + 1]]
            /\ cd.shift[k] = c.shift[k]
        BY <1>3, <3>1
      <4>2. x = y + c.shift[k]
        BY <1>7, <2>3, <3>2, <3>3, <3>z
      <4>3. y \in Int
        BY <2>3, <3>3
      <4> HIDE DEF y
      <4> QED BY <3>2, <3>10, <3>11, <3>12, <3>13, <4>1, <4>2, <4>3 DEF KeptAt
    <3>15. docdc[x] = docd[y]
      <4>1. x - cd.shift[k] = y
        BY <1>3, <1>7, <2>3, <3>2, <3>3, <3>z
      <4> HIDE DEF y
      <4> QED BY <1>3, <1>4, <1>7, <3>14, <4>1 DEF Splices
    <3> QED BY <3>8, <3>9, <3>15
  <2>8. z \in 1 .. c.size + c.shift[c.n]
    <3>1. 0 \in Rank(d) /\ d.n + 1 \in Rank(d) /\ c.n \in Rank(c)
      BY <1>0 DEF Rank
    <3>2. 1 <= d.end[j] + c.shift[a[j]]
      <4>1. LayoutOK(dc) /\ 0 \in Rank(dc) /\ j \in Rank(dc) /\ dc.end[0] = 1 /\ dc.start[0] = 1
        BY <1>1, <1>2, <2>1, <3>1 DEF LayoutOK, Rank
      <4>2. 1 <= dc.end[j]
        <5>1. CASE j = 0
          BY <4>1, <5>1
        <5>2. CASE 0 < j
          <6>1. dc.end[0] <= dc.start[j]
            BY <4>1, <5>2, InOrder
          <6>2. dc.start[j] <= dc.end[j]
            BY <4>1, NotShrunk
          <6>3. dc.start[j] \in Int /\ dc.end[j] \in Int
            BY <4>1, Numbers DEF Numbered
          <6> QED BY <4>1, <6>1, <6>2, <6>3
        <5> QED BY <2>1, <5>1, <5>2
      <4> QED BY <1>2, <2>1, <4>2
    <3>3. d.start[j + 1] + c.shift[a[j + 1]] <= c.size + 1 + c.shift[c.n]
      <4>1. /\ LayoutOK(dc) /\ dc.n + 1 \in Rank(dc) /\ j + 1 \in Rank(dc) /\ dc.n \in Nat
            /\ dc.end[dc.n + 1] = dc.size + 1 /\ dc.start[dc.n + 1] = dc.size + 1
        BY <1>0, <1>1, <1>2, <2>1, <3>1 DEF LayoutOK, Rank
      <4>2. dc.start[j + 1] <= dc.size + 1
        <5>1. CASE j = d.n
          BY <1>2, <4>1, <5>1, NotShrunk
        <5>2. CASE j < d.n
          <6>1. dc.end[j + 1] <= dc.start[dc.n + 1] /\ dc.start[j + 1] <= dc.end[j + 1]
            BY <1>0, <1>2, <2>1, <4>1, <5>2, InOrder
          <6>2. dc.start[j + 1] \in Int /\ dc.end[j + 1] \in Int /\ dc.size \in Nat
            BY <4>1, Numbers DEF Numbered
          <6> QED BY <4>1, <6>1, <6>2
        <5> QED BY <1>0, <5>1, <5>2
      <4>3. dc.size = c.size + c.shift[c.n]
        BY DEF dc, Moved
      <4>4. dc.start[j + 1] = d.start[j + 1] + c.shift[a[j + 1]]
        BY <1>2, <2>1
      <4>5. c.size \in Nat /\ c.shift[c.n] \in Int
        BY <1>r, <3>1 DEF Numbered
      <4> QED BY <2>2, <2>3, <4>2, <4>3, <4>4, <4>5
    <3>4. c.size \in Nat /\ c.shift[c.n] \in Int
      BY <1>r, <3>1 DEF Numbered
    <3> QED BY <2>2, <2>3, <2>4, <3>2, <3>3, <3>4
  <2> QED BY <2>5, <2>6, <2>7, <2>8, Covered
<1> QED
  <2>1. (\E j \in 0 .. dc.n : KeptAt(dc, j, x)) \/ (\E j \in 1 .. dc.n : InsertedAt(dc, j, x))
    BY <1>1, <1>10, Covered
  <2> QED BY <1>2, <1>8, <1>9, <2>1

-----------------------------------------------------------------------------
(* Recursive functions, and the layout of a patch.                         *)

(* A function defined along 1 .. n exists.                                 *)
Follows(f, n, X, b, F) ==
  f \in [0 .. n -> X] /\ f[0] = b /\ \A k \in 1 .. n : f[k] = F[<<f[k - 1], k>>]

(* A function on 0 .. n exists whose every value follows from the one      *)
(* before: what a recursive definition needs before it means anything.     *)
LEMMA Recursion ==
  ASSUME NEW n \in Nat, NEW X, NEW b \in X, NEW F \in [X \X (1 .. n) -> X]
  PROVE  \E f : Follows(f, n, X, b, F)
<1> DEFINE Upto(f, m) == f[0] = b /\ \A k \in 1 .. m : f[k] = F[<<f[k - 1], k>>]
           S == {m \in 0 .. n : \E f \in [0 .. m -> X] : Upto(f, m)}
<1>1. 0 \in S
  <2>1. [k \in 0 .. 0 |-> b] \in [0 .. 0 -> X] /\ Upto([k \in 0 .. 0 |-> b], 0)
    OBVIOUS
  <2> HIDE DEF Upto
  <2> QED BY <2>1
<1>2. ASSUME NEW m \in 0 .. n - 1, m \in S PROVE m + 1 \in S
  <2>1. PICK f \in [0 .. m -> X] : Upto(f, m)
    BY <1>2
  <2> DEFINE g == [k \in 0 .. m + 1 |-> IF k <= m THEN f[k] ELSE F[<<f[m], m + 1>>]]
  <2>2. F[<<f[m], m + 1>>] \in X
    OBVIOUS
  <2>3. g \in [0 .. m + 1 -> X]
    BY <2>2
  <2>4. g[0] = b /\ \A k \in 1 .. m + 1 : g[k] = F[<<g[k - 1], k>>]
    <3>1. g[0] = b
      BY <2>1
    <3>2. ASSUME NEW k \in 1 .. m + 1 PROVE g[k] = F[<<g[k - 1], k>>]
      <4>1. g[k - 1] = f[k - 1]
        OBVIOUS
      <4>2. CASE k \in 1 .. m
        BY <2>1, <4>1, <4>2
      <4>3. CASE k = m + 1
        <5>1. g[k] = F[<<f[m], m + 1>>] /\ k - 1 = m
          BY <4>3
        <5> QED BY <4>1, <4>3, <5>1
      <4> QED BY <4>2, <4>3
    <3> QED BY <3>1, <3>2
  <2>5. Upto(g, m + 1)
    BY <2>4
  <2> HIDE DEF g, Upto
  <2> QED BY <2>3, <2>5
<1>3. n \in S
  <2> HIDE DEF S
  <2> QED BY <1>1, <1>2, UpTo
<1> QED BY <1>3 DEF Follows

-----------------------------------------------------------------------------
Hunks(L)   == [start : Nat \ {0}, remove : Seq(L), insert : Seq(L)]
Patches(L) == Seq(Hunks(L))

(* sum[k] is what the first k hunks add to the length.                     *)
Sums(p, sum) ==
  /\ sum \in [0 .. Len(p) -> Int]
  /\ sum[0] = 0
  /\ \A k \in 1 .. Len(p) : sum[k] = sum[k - 1] + Delta(p[k])

(* The parts of a hunk, and how it changes the length.                     *)
LEMMA HunkTypes ==
  ASSUME NEW L, NEW h \in Hunks(L)
  PROVE  /\ h.start \in Nat \ {0} /\ h.remove \in Seq(L) /\ h.insert \in Seq(L)
         /\ Len(h.remove) \in Nat /\ Len(h.insert) \in Nat
         /\ HunkEnd(h) \in Nat /\ h.start <= HunkEnd(h)
         /\ Delta(h) \in Int /\ HunkEnd(h) + Delta(h) = h.start + Len(h.insert)
<1>1. h.start \in Nat \ {0} /\ h.remove \in Seq(L) /\ h.insert \in Seq(L)
  BY DEF Hunks
<1>2. Len(h.remove) \in Nat /\ Len(h.insert) \in Nat
  BY <1>1
<1>3. HunkEnd(h) = h.start + Len(h.remove) /\ Delta(h) = Len(h.insert) - Len(h.remove)
  BY DEF HunkEnd, Delta
<1>4. /\ HunkEnd(h) \in Nat /\ h.start <= HunkEnd(h)
      /\ Delta(h) \in Int /\ HunkEnd(h) + Delta(h) = h.start + Len(h.insert)
  <2> DEFINE r == Len(h.remove)
             i == Len(h.insert)
  <2>1. r \in Nat /\ i \in Nat /\ HunkEnd(h) = h.start + r /\ Delta(h) = i - r /\ h.start \in Nat
    BY <1>1, <1>2, <1>3
  <2> HIDE DEF r, i
  <2>2. HunkEnd(h) + Delta(h) = h.start + i
    BY <2>1
  <2>3. HunkEnd(h) \in Nat /\ h.start <= HunkEnd(h) /\ Delta(h) \in Int
    BY <2>1
  <2> QED BY <2>2, <2>3 DEF i
<1> QED BY <1>1, <1>2, <1>4

(* A patch has so many hunks, each of them a hunk.                         *)
LEMMA PatchTypes ==
  ASSUME NEW L, NEW p \in Patches(L)
  PROVE  Len(p) \in Nat /\ DOMAIN p = 1 .. Len(p) /\ \A k \in 1 .. Len(p) : p[k] \in Hunks(L)
BY DEF Patches

(* The running sums of a patch's length changes exist.                     *)
LEMMA SumsExist ==
  ASSUME NEW L, NEW p \in Patches(L)
  PROVE  \E sum : Sums(p, sum)
<1> DEFINE n == Len(p)
           F == [x \in Int \X (1 .. n) |-> x[1] + Delta(p[x[2]])]
<1>1. n \in Nat /\ \A k \in 1 .. n : Delta(p[k]) \in Int
  <2>1. ASSUME NEW k \in 1 .. n PROVE Delta(p[k]) \in Int
    <3>1. p[k] \in Hunks(L)
      BY PatchTypes
    <3> QED BY <3>1, HunkTypes
  <2> QED BY <2>1, PatchTypes
<1> HIDE DEF n
<1>2. F \in [Int \X (1 .. n) -> Int]
  BY <1>1
<1>3. \A x \in Int : \A k \in 1 .. n : F[<<x, k>>] = x + Delta(p[k])
  OBVIOUS
<1> HIDE DEF F
<1>4. PICK f : Follows(f, n, Int, 0, F)
  <2> DEFINE none == 0
  <2>1. n \in Nat /\ none \in Int
    BY <1>1
  <2> HIDE DEF none
  <2>2. \E f : Follows(f, n, Int, none, F)
    BY <1>2, <2>1, Recursion
  <2> QED BY <2>2 DEF none
<1>5. ASSUME NEW k \in 1 .. n PROVE f[k] = f[k - 1] + Delta(p[k])
  <2>1. f[k - 1] \in Int
    BY <1>1, <1>4 DEF Follows
  <2> QED BY <1>3, <1>4, <2>1 DEF Follows
<1> QED BY <1>4, <1>5 DEF Sums, n, Follows

(* The layout of a patch that fits.                                        *)
LayoutOf(p, size, sum) ==
  [n |-> Len(p), size |-> size,
   start |-> [k \in 0 .. Len(p) + 1 |->
                IF k = 0 THEN 1 ELSE IF k = Len(p) + 1 THEN size + 1 ELSE p[k].start],
   end   |-> [k \in 0 .. Len(p) + 1 |->
                IF k = 0 THEN 1 ELSE IF k = Len(p) + 1 THEN size + 1 ELSE HunkEnd(p[k])],
   shift |-> [k \in 0 .. Len(p) + 1 |-> sum[IF k = Len(p) + 1 THEN Len(p) ELSE k]]]

Laid(c, p, size, sum) ==
  /\ c.n = Len(p) /\ c.size = size /\ Rank(c) = 0 .. Len(p) + 1
  /\ c.start[0] = 1 /\ c.end[0] = 1
  /\ c.start[Len(p) + 1] = size + 1 /\ c.end[Len(p) + 1] = size + 1
  /\ c.shift[Len(p) + 1] = sum[Len(p)]
  /\ \A k \in 1 .. Len(p) : c.start[k] = p[k].start /\ c.end[k] = HunkEnd(p[k])
  /\ \A k \in 0 .. Len(p) : c.shift[k] = sum[k]

(* What the layout of a patch is made of.                                  *)
LEMMA LayoutIs ==
  ASSUME NEW L, NEW p \in Patches(L), NEW size, NEW sum
  PROVE  Laid(LayoutOf(p, size, sum), p, size, sum)
<1>1. Len(p) \in Nat
  BY PatchTypes
<1> QED BY <1>1 DEF LayoutOf, Rank, Laid

(* When each hunk starts where apply still reads, and ends within the      *)
(* base, the hunks of a patch are a layout of the base.                    *)
LEMMA LayoutFits ==
  ASSUME NEW L, NEW p \in Patches(L), NEW size \in Nat, NEW sum, Sums(p, sum),
         \A k \in 1 .. Len(p) : p[k].start >= ReadFrom(p, k) /\ HunkEnd(p[k]) <= size + 1
  PROVE  LayoutOK(LayoutOf(p, size, sum))
<1> DEFINE c == LayoutOf(p, size, sum)
           n == Len(p)
<1>l. Laid(c, p, size, sum)
  BY LayoutIs
<1>1. n \in Nat /\ c.n = n /\ c.size = size /\ Rank(c) = 0 .. n + 1
  BY <1>l, PatchTypes DEF Laid
<1>2. /\ c.start[0] = 1 /\ c.end[0] = 1
      /\ c.start[n + 1] = size + 1 /\ c.end[n + 1] = size + 1 /\ c.shift[n + 1] = sum[n]
  BY <1>l DEF Laid
<1>3. \A k \in 1 .. n : c.start[k] = p[k].start /\ c.end[k] = HunkEnd(p[k])
  BY <1>l DEF Laid
<1>4. \A k \in 0 .. n : c.shift[k] = sum[k]
  BY <1>l DEF Laid
<1>5. \A k \in 1 .. n : /\ p[k].start \in Nat \ {0} /\ HunkEnd(p[k]) \in Nat /\ p[k].start <= HunkEnd(p[k])
                        /\ Delta(p[k]) \in Int /\ Len(p[k].insert) \in Nat
                        /\ HunkEnd(p[k]) + Delta(p[k]) = p[k].start + Len(p[k].insert)
  BY PatchTypes, HunkTypes
<1>6. \A k \in 0 .. n : sum[k] \in Int
  BY DEF Sums
<1>7. sum[0] = 0 /\ \A k \in 1 .. n : sum[k] = sum[k - 1] + Delta(p[k])
  BY DEF Sums
<1>8. /\ DOMAIN c.start = 0 .. n + 1 /\ DOMAIN c.end = 0 .. n + 1 /\ DOMAIN c.shift = 0 .. n + 1
      /\ c.start = [k \in 0 .. n + 1 |-> c.start[k]]
      /\ c.end = [k \in 0 .. n + 1 |-> c.end[k]]
      /\ c.shift = [k \in 0 .. n + 1 |-> c.shift[k]]
  BY DEF LayoutOf
<1> HIDE DEF c, n
<1>9. ASSUME NEW k \in 0 .. n + 1
      PROVE  c.start[k] \in Int /\ c.end[k] \in Int /\ c.shift[k] \in Int
  <2>1. k = 0 \/ k = n + 1 \/ k \in 1 .. n
    BY <1>1
  <2>2. k \in 1 .. n => c.start[k] \in Int /\ c.end[k] \in Int
    BY <1>3, <1>5
  <2>3. c.shift[k] \in Int
    BY <1>1, <1>2, <1>4, <1>6
  <2> QED BY <1>2, <2>1, <2>2, <2>3
<1>10. c.start \in [Rank(c) -> Int] /\ c.end \in [Rank(c) -> Int] /\ c.shift \in [Rank(c) -> Int]
  BY <1>1, <1>8, <1>9
<1>11. c.shift[0] = 0 /\ c.shift[n + 1] = c.shift[n]
  BY <1>1, <1>2, <1>4, <1>7
<1>12. ASSUME NEW k \in 1 .. n + 1
       PROVE  /\ c.end[k - 1] <= c.start[k] /\ c.start[k] <= c.end[k]
              /\ c.start[k] + c.shift[k - 1] <= c.end[k] + c.shift[k]
  <2>1. c.shift[k - 1] = sum[k - 1] /\ sum[k - 1] \in Int
    BY <1>1, <1>4, <1>6
  <2>2. k # 1 => k - 1 \in 1 .. n
    BY <1>1
  <2>3. CASE k = n + 1
    <3>1. c.end[n] <= size + 1
      <4>1. CASE n = 0
        BY <1>2, <4>1
      <4>2. CASE n # 0
        <5>1. n \in 1 .. n
          BY <1>1, <4>2
        <5> QED BY <1>3, <5>1 DEF n
      <4> QED BY <4>1, <4>2
    <3> QED BY <1>1, <1>2, <2>1, <2>3, <3>1
  <2>4. CASE k \in 1 .. n
    <3>1. p[k].start >= ReadFrom(p, k)
      BY <2>4 DEF n
    <3>2. ReadFrom(p, k) = c.end[k - 1]
      BY <1>2, <1>3, <2>2 DEF ReadFrom
    <3>3. c.start[k] = p[k].start /\ c.end[k] = HunkEnd(p[k]) /\ c.shift[k] = sum[k] /\ sum[k] = sum[k - 1] + Delta(p[k])
      BY <1>3, <1>4, <1>7, <2>4
    <3>4. c.end[k - 1] \in Int
      BY <1>1, <1>9
    <3>5. /\ p[k].start \in Nat /\ HunkEnd(p[k]) \in Nat /\ p[k].start <= HunkEnd(p[k])
          /\ Delta(p[k]) \in Int /\ Len(p[k].insert) \in Nat
          /\ HunkEnd(p[k]) + Delta(p[k]) = p[k].start + Len(p[k].insert)
      BY <1>5, <2>4
    <3>6. p[k].start + sum[k - 1] <= HunkEnd(p[k]) + sum[k]
      <4>1. sum[k] = sum[k - 1] + Delta(p[k])
        BY <3>3
      <4> QED BY SMTT(30), <2>1, <3>5, <4>1
    <3> QED BY <2>1, <3>1, <3>2, <3>3, <3>5, <3>6
  <2> QED BY <1>1, <2>3, <2>4
<1>13. LayoutOK(c)
  BY <1>1, <1>2, <1>10, <1>11, <1>12 DEF LayoutOK
<1> QED BY <1>13 DEF c

-----------------------------------------------------------------------------
(* Documents, and how apply splices a base.                                *)

(* A document of so many lines.                                            *)
Text(L, s, size) == s \in Seq(L) /\ size = Len(s)

(* A slice within a document: its length, and its lines.                   *)
LEMMA SliceIs ==
  ASSUME NEW L, NEW s, NEW size \in Int, Text(L, s, size), NEW from \in Int, NEW to \in Int,
         1 <= from, from <= to, to <= size + 1
  PROVE  /\ Text(L, Slice(s, from, to), to - from)
         /\ \A i \in Int : 1 <= i /\ i <= to - from => Slice(s, from, to)[i] = s[from + i - 1]
<1>0. s \in Seq(L) /\ Len(s) = size
  BY DEF Text
<1>1. \A i \in from .. to - 1 : s[i] \in L
  <2>1. \A i \in from .. to - 1 : i \in 1 .. Len(s)
    BY <1>0
  <2> QED BY <1>0, <2>1, ElementOfSeq
<1> DEFINE sub == SubSeq(s, from, to - 1)
<1>2. /\ sub \in Seq(L)
      /\ Len(sub) = IF from <= to - 1 THEN (to - 1) - from + 1 ELSE 0
      /\ \A i \in 1 .. (to - 1) - from + 1 : sub[i] = s[from + i - 1]
  <2>1. to - 1 \in Int
    OBVIOUS
  <2> QED BY <1>1, <2>1, SubSeqProperties
<1> HIDE DEF sub
<1>3. (to - 1) - from + 1 = to - from
  OBVIOUS
<1>4. Len(sub) = to - from
  BY <1>2, <1>3
<1>5. ASSUME NEW i \in Int, 1 <= i, i <= to - from PROVE sub[i] = s[from + i - 1]
  <2>1. i \in 1 .. (to - 1) - from + 1
    BY <1>3, <1>5
  <2> QED BY <1>2, <2>1
<1>6. Text(L, sub, to - from)
  BY <1>2, <1>4 DEF Text
<1> QED BY <1>5, <1>6 DEF Slice, sub

(* One text after another, and where the result has its lines from.        *)
Cat(s, t) == s \o t

Joins(out, s, t, ls, lt) ==
  /\ \A x \in Int : 1 <= x /\ x <= ls => out[x] = s[x]
  /\ \A x \in Int : ls < x /\ x <= ls + lt => out[x] = t[x - ls]

(* One document after another: its length, and its lines.                  *)
LEMMA CatIs ==
  ASSUME NEW L, NEW s, NEW t, NEW ls \in Int, NEW lt \in Int, Text(L, s, ls), Text(L, t, lt)
  PROVE  /\ Text(L, Cat(s, t), ls + lt) /\ ls \in Nat /\ lt \in Nat
         /\ Joins(Cat(s, t), s, t, ls, lt)
<1>1. s \in Seq(L) /\ t \in Seq(L) /\ Len(s) = ls /\ Len(t) = lt
  BY DEF Text
<1> DEFINE st == Cat(s, t)
<1>2. st \in Seq(L) /\ Len(st) = Len(s) + Len(t)
      /\ \A i \in 1 .. Len(s) + Len(t) : st[i] = IF i <= Len(s) THEN s[i] ELSE t[i - Len(s)]
  BY <1>1, ConcatProperties DEF Cat
<1>n. ls \in Nat /\ lt \in Nat
  BY <1>1
<1> HIDE DEF st
<1>3. Text(L, st, ls + lt)
  BY <1>1, <1>2 DEF Text
<1>4. \A i \in 1 .. ls + lt : st[i] = IF i <= ls THEN s[i] ELSE t[i - ls]
  BY <1>1, <1>2
<1>5. ASSUME NEW x \in Int
      PROVE  /\ 1 <= x /\ x <= ls => st[x] = s[x]
             /\ ls < x /\ x <= ls + lt => st[x] = t[x - ls]
  <2>1. 1 <= x /\ x <= ls => x \in 1 .. ls + lt
    BY <1>n
  <2>2. ls < x /\ x <= ls + lt => x \in 1 .. ls + lt /\ ~ (x <= ls)
    BY <1>n
  <2> QED BY <1>4, <2>1, <2>2
<1>6. Joins(st, s, t, ls, lt)
  BY <1>5 DEF Joins
<1> QED BY <1>n, <1>3, <1>6 DEF st

(* The end of a hunk, in the result, comes after those of the hunks before.*)
LEMMA EndsRise ==
  ASSUME NEW c, LayoutOK(c), NEW i \in Rank(c), NEW k \in Rank(c), i <= k
  PROVE  /\ c.end[i] + c.shift[i] <= c.end[k] + c.shift[k] /\ c.end[i] <= c.end[k]
         /\ 1 <= c.end[i] + c.shift[i] /\ 1 <= c.end[i]
<1>r. Numbered(c)
  BY Numbers
<1>0. c.n \in Nat /\ 0 \in Rank(c) /\ i \in Nat /\ k \in Nat
  BY <1>r DEF Numbered, Rank
<1>1. ASSUME NEW m \in Rank(c), NEW j \in Rank(c), m < j
      PROVE  c.end[m] + c.shift[m] <= c.end[j] + c.shift[j] /\ c.end[m] <= c.end[j]
  <2>1. j - 1 \in Rank(c) /\ j # 0
    BY <1>0, <1>1 DEF Rank
  <2>2. c.end[m] + c.shift[m] <= c.start[j] + c.shift[j - 1] /\ c.end[m] <= c.start[j]
    BY <1>1, InOrder
  <2>3. c.start[j] + c.shift[j - 1] <= c.end[j] + c.shift[j] /\ c.start[j] <= c.end[j]
    BY <2>1, NotShrunk
  <2>4. /\ c.end[m] \in Int /\ c.shift[m] \in Int /\ c.start[j] \in Int
        /\ c.shift[j - 1] \in Int /\ c.end[j] \in Int /\ c.shift[j] \in Int
    BY <1>r, <2>1 DEF Numbered
  <2> QED BY <2>2, <2>3, <2>4
<1>t. /\ c.end[i] \in Int /\ c.shift[i] \in Int /\ c.end[0] = 1 /\ c.shift[0] = 0
  BY <1>r DEF Numbered, LayoutOK
<1>2. c.end[i] + c.shift[i] <= c.end[k] + c.shift[k] /\ c.end[i] <= c.end[k]
  <2>1. CASE i = k
    BY <1>t, <2>1
  <2>2. CASE i < k
    BY <1>1, <2>2
  <2> QED BY <1>0, <2>1, <2>2
<1>3. 1 <= c.end[i] + c.shift[i] /\ 1 <= c.end[i]
  <2>1. CASE i = 0
    BY <1>t, <2>1
  <2>2. CASE i # 0
    <3>1. 0 < i
      BY <1>0, <2>2
    <3>2. c.end[0] + c.shift[0] <= c.end[i] + c.shift[i] /\ c.end[0] <= c.end[i]
      BY <1>0, <1>1, <3>1
    <3> QED BY <1>t, <3>2
  <2> QED BY <2>1, <2>2
<1> QED BY <1>2, <1>3

(* The lines kept before hunk k + 1 end where it begins, at the latest.    *)
LEMMA Between ==
  ASSUME NEW c, LayoutOK(c), NEW k \in 0 .. c.n
  PROVE  /\ 1 <= c.end[k] /\ c.end[k] <= c.start[k + 1] /\ c.start[k + 1] <= c.size + 1
         /\ 1 <= c.end[k] + c.shift[k]
         /\ c.start[k + 1] + c.shift[k] <= c.end[k + 1] + c.shift[k + 1]
<1>r. Numbered(c)
  BY Numbers
<1>0. c.n \in Nat /\ k \in Rank(c) /\ k + 1 \in Rank(c) /\ c.n + 1 \in Rank(c) /\ k < k + 1 /\ k <= k
      /\ (k + 1) - 1 = k /\ k + 1 # 0 /\ k + 1 <= c.n + 1
  BY <1>r DEF Numbered, Rank
<1>1. 1 <= c.end[k] /\ 1 <= c.end[k] + c.shift[k]
  BY <1>0, EndsRise
<1>2. c.end[k] <= c.start[k + 1]
  BY <1>0, InOrder
<1>3. c.start[k + 1] + c.shift[k] <= c.end[k + 1] + c.shift[k + 1] /\ c.start[k + 1] <= c.end[k + 1]
  BY <1>0, NotShrunk
<1>4. c.end[k + 1] <= c.end[c.n + 1] /\ c.end[c.n + 1] = c.size + 1
  BY <1>0, EndsRise DEF LayoutOK
<1>5. c.start[k + 1] \in Int /\ c.end[k + 1] \in Int /\ c.size \in Int
  BY <1>r, <1>0 DEF Numbered
<1> QED BY <1>1, <1>2, <1>3, <1>4, <1>5

(* What apply has written when it has done the first k hunks.              *)
SplicesUpto(c, ins, base, doc, k) ==
  /\ \A m \in Nat : m < k => \A x \in Int :
       KeptAt(c, m, x) => doc[x] = base[x - c.shift[m]]
  /\ \A m \in Nat \ {0} : m <= k /\ m <= c.n => \A x \in Int :
       InsertedAt(c, m, x) => doc[x] = ins[m][x + 1 - (c.start[m] + c.shift[m - 1])]

Extend(c, base, doc, piece, k) == Cat(Cat(doc, Slice(base, c.end[k], c.start[k + 1])), piece)

(* One more turn of apply: the lines kept before a hunk, and what the      *)
(* hunk inserts, extend what is spliced so far.                            *)
LEMMA SpliceOne ==
  ASSUME NEW L, NEW c, LayoutOK(c), NEW ins, NEW base, Text(L, base, c.size),
         NEW k \in 0 .. c.n, NEW doc, Text(L, doc, c.end[k] + c.shift[k] - 1),
         SplicesUpto(c, ins, base, doc, k),
         NEW piece, Text(L, piece, (c.end[k + 1] + c.shift[k + 1]) - (c.start[k + 1] + c.shift[k])),
         k < c.n => piece = ins[k + 1]
  PROVE  /\ Text(L, Extend(c, base, doc, piece, k), c.end[k + 1] + c.shift[k + 1] - 1)
         /\ SplicesUpto(c, ins, base, Extend(c, base, doc, piece, k), k + 1)
<1> DEFINE mid == Slice(base, c.end[k], c.start[k + 1])
           out == Cat(Cat(doc, mid), piece)
           e == c.end[k]
           s == c.start[k + 1]
           h == c.shift[k]
           f == c.end[k + 1] + c.shift[k + 1]
<1>r. Numbered(c)
  BY Numbers
<1>0. c.n \in Nat /\ k \in Rank(c) /\ k + 1 \in Rank(c) /\ (k + 1) - 1 = k
  BY <1>r DEF Numbered, Rank
<1>1. e \in Int /\ s \in Int /\ h \in Int /\ f \in Int /\ c.size \in Int
  BY <1>r, <1>0 DEF Numbered
<1>2. 1 <= e /\ e <= s /\ s <= c.size + 1 /\ 1 <= e + h /\ s + h <= f
  BY Between
<1>5. /\ Text(L, mid, s - e)
      /\ \A i \in Int : 1 <= i /\ i <= s - e => mid[i] = base[e + i - 1]
  BY <1>1, <1>2, SliceIs
<1>6. Text(L, doc, e + h - 1) /\ Text(L, piece, f - (s + h))
  OBVIOUS
<1> HIDE DEF e, s, h, f, mid
<1>n. e + h - 1 \in Int /\ s - e \in Int /\ f - (s + h) \in Int /\ s + h - 1 \in Int
      /\ (e + h - 1) + (s - e) = s + h - 1 /\ (s + h - 1) + (f - (s + h)) = f - 1
  BY <1>1
<1> DEFINE dm == Cat(doc, mid)
<1>c. Text(L, dm, (e + h - 1) + (s - e)) /\ Joins(dm, doc, mid, e + h - 1, s - e)
  BY <1>5, <1>6, <1>n, CatIs
<1>d. Text(L, dm, s + h - 1)
  BY <1>c, <1>n
<1> HIDE DEF dm
<1>f. Text(L, out, (s + h - 1) + (f - (s + h))) /\ Joins(out, dm, piece, s + h - 1, f - (s + h))
  BY <1>6, <1>d, <1>n, CatIs DEF dm
<1>9. Text(L, out, f - 1)
  BY <1>f, <1>n
<1> HIDE DEF out
<1>8. ASSUME NEW x \in Int
      PROVE  /\ 1 <= x /\ x < e + h => out[x] = doc[x]
             /\ e + h <= x /\ x < s + h => out[x] = mid[x + 1 - (e + h)]
             /\ s + h <= x /\ x < f => out[x] = piece[x + 1 - (s + h)]
  <2>1. 1 <= x /\ x <= s + h - 1 => out[x] = dm[x]
    BY <1>f DEF Joins
  <2>2. s + h - 1 < x /\ x <= (s + h - 1) + (f - (s + h)) => out[x] = piece[x - (s + h - 1)]
    BY <1>f DEF Joins
  <2>3. 1 <= x /\ x <= e + h - 1 => dm[x] = doc[x]
    BY <1>c DEF Joins
  <2>4. e + h - 1 < x /\ x <= (e + h - 1) + (s - e) => dm[x] = mid[x - (e + h - 1)]
    BY <1>c DEF Joins
  <2>5. x - (e + h - 1) = x + 1 - (e + h) /\ x - (s + h - 1) = x + 1 - (s + h)
    BY <1>1
  <2> QED BY <1>1, <1>2, <1>n, <2>1, <2>2, <2>3, <2>4, <2>5
<1>10. ASSUME NEW m \in Nat, m < k + 1, NEW x \in Int, KeptAt(c, m, x)
       PROVE  out[x] = base[x - c.shift[m]]
  <2>1. m \in Rank(c) /\ m + 1 \in Rank(c) /\ m \in 0 .. c.n
    BY <1>0, <1>10 DEF Rank
  <2>2. /\ c.end[m] \in Int /\ c.shift[m] \in Int /\ c.start[m + 1] \in Int
        /\ c.end[m + 1] + c.shift[m + 1] \in Int
        /\ c.end[m] + c.shift[m] <= x /\ x < c.start[m + 1] + c.shift[m]
    BY <1>r, <1>10, <2>1 DEF KeptAt, Numbered
  <2>3. CASE m = k
    <3>1. e + h <= x /\ x < s + h
      BY <2>2, <2>3 DEF e, s, h
    <3>2. out[x] = mid[x + 1 - (e + h)]
      BY <1>8, <3>1
    <3>3. x + 1 - (e + h) \in Int /\ 1 <= x + 1 - (e + h) /\ x + 1 - (e + h) <= s - e
          /\ e + (x + 1 - (e + h)) - 1 = x - h
      BY <1>1, <3>1
    <3>4. mid[x + 1 - (e + h)] = base[x - h]
      BY <1>5, <3>3
    <3> QED BY <2>3, <3>2, <3>4 DEF h
  <2>4. CASE m < k
    <3>1. 1 <= c.end[m] + c.shift[m] /\ c.start[m + 1] + c.shift[m] <= c.end[m + 1] + c.shift[m + 1]
      BY <2>1, Between
    <3>2. m + 1 <= k
      BY <1>0, <2>4
    <3>3. c.end[m + 1] + c.shift[m + 1] <= e + h
      BY <1>0, <2>1, <3>2, EndsRise DEF e, h
    <3>4. 1 <= x /\ x < e + h
      BY <1>1, <2>2, <3>1, <3>3
    <3>5. doc[x] = base[x - c.shift[m]]
      BY <1>10, <2>4 DEF SplicesUpto
    <3> QED BY <1>8, <3>4, <3>5
  <2> QED BY <1>0, <1>10, <2>3, <2>4
<1>11. ASSUME NEW m \in Nat \ {0}, m <= k + 1, m <= c.n, NEW x \in Int, InsertedAt(c, m, x)
       PROVE  out[x] = ins[m][x + 1 - (c.start[m] + c.shift[m - 1])]
  <2>1. m \in Rank(c) /\ m - 1 \in Rank(c) /\ m - 1 \in 0 .. c.n /\ (m - 1) + 1 = m
    BY <1>0, <1>11 DEF Rank
  <2>2. /\ c.end[m] \in Int /\ c.shift[m] \in Int /\ c.start[m] \in Int /\ c.shift[m - 1] \in Int
        /\ c.end[m - 1] \in Int
        /\ c.start[m] + c.shift[m - 1] <= x /\ x < c.end[m] + c.shift[m]
    BY <1>r, <1>11, <2>1 DEF InsertedAt, Numbered
  <2>3. CASE m = k + 1
    <3>1. s + h <= x /\ x < f /\ c.start[m] + c.shift[m - 1] = s + h
      BY <1>0, <2>2, <2>3 DEF f, s, h
    <3>2. piece = ins[m]
      BY <1>0, <1>11, <2>3
    <3> QED BY <1>8, <3>1, <3>2
  <2>4. CASE m <= k
    <3>1. c.end[m] + c.shift[m] <= e + h
      BY <1>0, <2>1, <2>4, EndsRise DEF e, h
    <3>2. 1 <= c.end[m - 1] + c.shift[m - 1] /\ c.end[m - 1] <= c.start[m]
      BY <2>1, Between
    <3>3. 1 <= x /\ x < e + h
      BY <1>1, <2>2, <3>1, <3>2
    <3>4. doc[x] = ins[m][x + 1 - (c.start[m] + c.shift[m - 1])]
      BY <1>11, <2>4 DEF SplicesUpto
    <3> QED BY <1>8, <3>3, <3>4
  <2> QED BY <1>0, <1>11, <2>3, <2>4
<1>12. SplicesUpto(c, ins, base, out, k + 1)
  BY <1>10, <1>11 DEF SplicesUpto
<1>13. out = Extend(c, base, doc, piece, k)
  BY DEF out, mid, Extend
<1>14. Text(L, out, c.end[k + 1] + c.shift[k + 1] - 1)
  <2>1. f - 1 = c.end[k + 1] + c.shift[k + 1] - 1
    <3>1. f = c.end[k + 1] + c.shift[k + 1]
      BY DEF f
    <3>2. c.end[k + 1] \in Int /\ c.shift[k + 1] \in Int
      BY <1>r, <1>0 DEF Numbered
    <3> QED BY <3>1, <3>2
  <2> HIDE DEF out
  <2> QED BY <1>9, <2>1
<1> HIDE DEF out
<1> QED BY <1>12, <1>13, <1>14

(* apply, one hunk after another, splices the base.                        *)
Steps(c, ins, base, out) ==
  /\ out[0] = <<>>
  /\ \A k \in 1 .. c.n : out[k] = Extend(c, base, out[k - 1], ins[k], k - 1)

Pieces(L, c, ins) ==
  \A k \in 1 .. c.n :
    Text(L, ins[k], (c.end[k] + c.shift[k]) - (c.start[k] + c.shift[k - 1]))

(* The empty document.                                                     *)
LEMMA EmptyText ==
  ASSUME NEW L
  PROVE  Text(L, <<>>, 0)
BY DEF Text

(* After its last hunk, and the rest of the base, apply has spliced the    *)
(* whole base.                                                             *)
LEMMA SplicesAll ==
  ASSUME NEW L, NEW c, LayoutOK(c), NEW ins, NEW base, Text(L, base, c.size),
         NEW out, Steps(c, ins, base, out), Pieces(L, c, ins)
  PROVE  /\ out[c.n] \in Seq(L)
         /\ Text(L, Extend(c, base, out[c.n], <<>>, c.n), c.size + c.shift[c.n])
         /\ Splices(c, ins, base, Extend(c, base, out[c.n], <<>>, c.n))
<1>r. Numbered(c)
  BY Numbers
<1>0. c.n \in Nat /\ 0 \in Rank(c) /\ c.n \in Rank(c)
  BY <1>r DEF Numbered, Rank
<1> DEFINE Done(k) == Text(L, out[k], c.end[k] + c.shift[k] - 1) /\ SplicesUpto(c, ins, base, out[k], k)
           S == {k \in 0 .. c.n : Done(k)}
<1>1. 0 \in S
  <2>1. c.end[0] + c.shift[0] - 1 = 0
    BY DEF LayoutOK
  <2>2. Text(L, out[0], 0)
    BY EmptyText DEF Steps
  <2>3. SplicesUpto(c, ins, base, out[0], 0)
    BY DEF SplicesUpto
  <2>4. Done(0)
    BY <2>1, <2>2, <2>3
  <2> QED BY <1>0, <2>4
<1>2. ASSUME NEW k \in 0 .. c.n - 1, k \in S PROVE k + 1 \in S
  <2>1. k \in 0 .. c.n /\ k + 1 \in 1 .. c.n /\ (k + 1) - 1 = k /\ k + 1 \in 0 .. c.n
    BY <1>0
  <2>2. out[k + 1] = Extend(c, base, out[k], ins[k + 1], k)
    BY <2>1 DEF Steps
  <2>3. Text(L, ins[k + 1], (c.end[k + 1] + c.shift[k + 1]) - (c.start[k + 1] + c.shift[k]))
    BY <2>1 DEF Pieces
  <2>4. Text(L, out[k], c.end[k] + c.shift[k] - 1) /\ SplicesUpto(c, ins, base, out[k], k)
    BY <1>2
  <2>5. /\ Text(L, Extend(c, base, out[k], ins[k + 1], k), c.end[k + 1] + c.shift[k + 1] - 1)
        /\ SplicesUpto(c, ins, base, Extend(c, base, out[k], ins[k + 1], k), k + 1)
    BY <2>1, <2>3, <2>4, SpliceOne
  <2>6. Done(k + 1)
    BY <2>2, <2>5
  <2> QED BY <2>1, <2>6
<1>3. c.n \in S
  <2> HIDE DEF S
  <2> QED BY <1>0, <1>1, <1>2, UpTo
<1> DEFINE n == c.n
           doc == Extend(c, base, out[n], <<>>, n)
<1>4. Text(L, out[n], c.end[n] + c.shift[n] - 1) /\ SplicesUpto(c, ins, base, out[n], n)
  BY <1>3
<1>5. n \in 0 .. c.n /\ ~ (n < c.n) /\ n + 1 \in Rank(c) /\ n \in Rank(c)
  BY <1>0 DEF Rank
<1>6. (c.end[n + 1] + c.shift[n + 1]) - (c.start[n + 1] + c.shift[n]) = 0
      /\ c.end[n + 1] + c.shift[n + 1] - 1 = c.size + c.shift[n]
  <2>1. c.end[n + 1] = c.size + 1 /\ c.start[n + 1] = c.size + 1 /\ c.shift[n + 1] = c.shift[n] /\ c.size \in Int
    BY DEF LayoutOK
  <2>2. c.shift[n] \in Int
    BY <1>5, <1>r DEF Numbered
  <2> QED BY <2>1, <2>2
<1> DEFINE piece == <<>>
<1>7. Text(L, piece, (c.end[n + 1] + c.shift[n + 1]) - (c.start[n + 1] + c.shift[n]))
  BY <1>6, EmptyText
<1> HIDE DEF n, piece
<1>8. /\ Text(L, Extend(c, base, out[n], piece, n), c.end[n + 1] + c.shift[n + 1] - 1)
      /\ SplicesUpto(c, ins, base, Extend(c, base, out[n], piece, n), n + 1)
  BY <1>4, <1>5, <1>7, SpliceOne
<1>9. Text(L, doc, c.size + c.shift[n]) /\ SplicesUpto(c, ins, base, doc, n + 1)
  BY <1>6, <1>8 DEF piece
<1> HIDE DEF doc
<1>10. Splices(c, ins, base, doc)
  <2>1. ASSUME NEW k \in 0 .. c.n, NEW x \in Int, KeptAt(c, k, x) PROVE doc[x] = base[x - c.shift[k]]
    <3>1. k \in Nat /\ k < n + 1
      BY <1>0 DEF n
    <3> QED BY <1>9, <2>1, <3>1 DEF SplicesUpto
  <2>2. ASSUME NEW k \in 1 .. c.n, NEW x \in Int, InsertedAt(c, k, x)
        PROVE  doc[x] = ins[k][x + 1 - (c.start[k] + c.shift[k - 1])]
    <3>1. k \in Nat \ {0} /\ k <= n + 1 /\ k <= c.n
      BY <1>0 DEF n
    <3> QED BY <1>9, <2>2, <3>1 DEF SplicesUpto
  <2> QED BY <2>1, <2>2 DEF Splices
<1>11. out[n] \in Seq(L)
  BY <1>4 DEF Text
<1> QED BY <1>9, <1>10, <1>11 DEF doc, n

Written(p, base) ==
  LET out[k \in 0 .. Len(p)] ==
        IF k = 0 THEN <<>>
        ELSE out[k - 1] \o Slice(base, ReadFrom(p, k), p[k].start) \o p[k].insert
  IN out

Writes(out, p, base) ==
  out = [k \in 0 .. Len(p) |->
        IF k = 0 THEN <<>>
        ELSE out[k - 1] \o Slice(base, ReadFrom(p, k), p[k].start) \o p[k].insert]

(* Apply answers what it has written, followed by the rest of the base.    *)
LEMMA ApplyWrites ==
  ASSUME NEW p, NEW base, Fits(p, base)
  PROVE  Apply(p, base) = Written(p, base)[Len(p)] \o Slice(base, ReadFrom(p, Len(p) + 1), Len(base) + 1)
BY DEF Apply, Written

(* The recursion of Apply is well defined.                                 *)
LEMMA WrittenWrites ==
  ASSUME NEW p, NEW base, NEW f, Writes(f, p, base)
  PROVE  Writes(Written(p, base), p, base)
<1> DEFINE g == CHOOSE out : Writes(out, p, base)
<1>1. Writes(g, p, base)
  BY Zenon
<1>2. g = Written(p, base)
  BY DEF Writes, Written
<1> QED BY <1>1, <1>2

(* A function that satisfies the recursion of Apply exists.                *)
LEMMA WritesExist ==
  ASSUME NEW L, NEW p \in Patches(L), NEW base \in Seq(L),
         \A k \in 1 .. Len(p) : Slice(base, ReadFrom(p, k), p[k].start) \in Seq(L)
  PROVE  \E f : Writes(f, p, base)
<1> DEFINE n == Len(p)
           X == Seq(L)
           b == <<>>
           Mid(k) == Slice(base, ReadFrom(p, k), p[k].start)
           Glue(x, k) == x \o Mid(k) \o p[k].insert
           F == [x \in X \X (1 .. n) |-> Glue(x[1], x[2])]
<1>1. n \in Nat /\ \A k \in 1 .. n : Mid(k) \in X /\ p[k].insert \in X
  BY PatchTypes, HunkTypes
<1>2. b \in X
  OBVIOUS
<1> HIDE DEF n, Mid, b
<1>g. \A x \in X : \A k \in 1 .. n : Glue(x, k) \in X
  <2>1. \A s \in X : \A t \in X : s \o t \in X
    OBVIOUS
  <2> HIDE DEF X
  <2> QED BY <1>1, <2>1
<1> HIDE DEF Glue
<1>3. \A x \in X : \A k \in 1 .. n : F[<<x, k>>] = Glue(x, k) /\ F[<<x, k>>] \in X
  BY <1>g
<1>4. F \in [X \X (1 .. n) -> X]
  BY <1>3
<1> HIDE DEF F, X
<1>5. PICK f : Follows(f, n, X, b, F)
  BY <1>1, <1>2, <1>4, Recursion
<1>6. f \in [0 .. n -> X] /\ f[0] = b /\ \A k \in 1 .. n : f[k] = F[<<f[k - 1], k>>]
  BY <1>5 DEF Follows
<1>7. ASSUME NEW k \in 1 .. n PROVE f[k] = Glue(f[k - 1], k)
  <2>1. f[k - 1] \in X
    BY <1>1, <1>6
  <2> QED BY <1>3, <1>6, <2>1
<1>8. \A k \in 0 .. n : f[k] = IF k = 0 THEN b ELSE Glue(f[k - 1], k)
  <2>1. \A k \in 0 .. n : k = 0 \/ k \in 1 .. n
    BY <1>1
  <2> QED BY <1>6, <1>7, <2>1
<1>9. f = [k \in 0 .. n |-> f[k]]
  BY <1>6
<1>10. f = [k \in 0 .. n |-> IF k = 0 THEN b ELSE Glue(f[k - 1], k)]
  BY <1>8, <1>9
<1>11. Writes(f, p, base)
  BY <1>10 DEF Writes, n, b, Mid, Glue
<1> QED BY <1>11

Inserts(p) == [k \in 1 .. Len(p) |-> p[k].insert]

(* What a hunk inserts is as long as its layout says.                      *)
LEMMA PieceSize ==
  ASSUME NEW L, NEW h \in Hunks(L), NEW z \in Int
  PROVE  Text(L, h.insert, (HunkEnd(h) + (z + Delta(h))) - (h.start + z))
<1> DEFINE l == Len(h.insert)
           e == HunkEnd(h)
           d == Delta(h)
           s == h.start
<1>1. s \in Nat /\ h.insert \in Seq(L) /\ l \in Nat /\ e \in Nat /\ d \in Int /\ e + d = s + l
  BY HunkTypes
<1>2. Text(L, h.insert, l)
  BY <1>1 DEF Text
<1> HIDE DEF l, e, d, s
<1>3. l = (e + (z + d)) - (s + z)
  BY <1>1
<1>4. Text(L, h.insert, (e + (z + d)) - (s + z))
  BY <1>2, <1>3
<1> QED BY <1>4 DEF e, d, s

(* What apply makes of a base that the patch fits.                         *)
LEMMA ApplySplices ==
  ASSUME NEW L, NEW p \in Patches(L), NEW base \in Seq(L), Fits(p, base), NEW sum, Sums(p, sum)
  PROVE  /\ LayoutOK(LayoutOf(p, Len(base), sum))
         /\ Text(L, Apply(p, base), Len(base) + sum[Len(p)])
         /\ Splices(LayoutOf(p, Len(base), sum), Inserts(p), base, Apply(p, base))
<1> DEFINE n == Len(p)
           size == Len(base)
           c == LayoutOf(p, size, sum)
           out == Written(p, base)
<1>1. n \in Nat /\ size \in Nat /\ DOMAIN p = 1 .. n /\ \A k \in 1 .. n : p[k] \in Hunks(L)
  BY PatchTypes
<1>t. Text(L, base, size)
  BY DEF Text
<1>f. \A k \in 1 .. n : p[k].start >= ReadFrom(p, k) /\ HunkEnd(p[k]) <= size + 1
  BY <1>1, Zenon DEF Fits
<1>2. LayoutOK(c)
  BY <1>1, <1>f, LayoutFits
<1>l. Laid(c, p, size, sum)
  BY LayoutIs
<1>3. /\ c.n = n /\ c.size = size /\ Rank(c) = 0 .. n + 1
      /\ c.start[0] = 1 /\ c.end[0] = 1
      /\ c.start[n + 1] = size + 1 /\ c.end[n + 1] = size + 1
      /\ \A k \in 1 .. n : c.start[k] = p[k].start /\ c.end[k] = HunkEnd(p[k])
      /\ \A k \in 0 .. n : c.shift[k] = sum[k]
  <2>1. c.n = n /\ c.size = size /\ Rank(c) = 0 .. n + 1
    BY <1>l DEF Laid
  <2>2. c.start[0] = 1 /\ c.end[0] = 1 /\ c.start[n + 1] = size + 1 /\ c.end[n + 1] = size + 1
    BY <1>l DEF Laid
  <2>3. \A k \in 1 .. n : c.start[k] = p[k].start /\ c.end[k] = HunkEnd(p[k])
    BY <1>l DEF Laid
  <2>4. \A k \in 0 .. n : c.shift[k] = sum[k]
    BY <1>l DEF Laid
  <2> HIDE DEF n, size, c
  <2> QED BY <2>1, <2>2, <2>3, <2>4
<1>s. sum[n] \in Int /\ \A k \in 1 .. n : sum[k - 1] \in Int /\ sum[k] = sum[k - 1] + Delta(p[k])
  BY <1>1 DEF Sums
<1> HIDE DEF n, size, c
<1>4. ASSUME NEW k \in 1 .. n + 1 PROVE ReadFrom(p, k) = c.end[k - 1]
  <2>1. CASE k = 1
    BY <1>3, <2>1 DEF ReadFrom
  <2>2. CASE k # 1
    <3>1. k - 1 \in 1 .. n
      BY <1>1, <2>2
    <3> QED BY <1>3, <2>2, <3>1 DEF ReadFrom
  <2> QED BY <2>1, <2>2
<1>5. ASSUME NEW k \in 1 .. n PROVE Slice(base, ReadFrom(p, k), p[k].start) \in Seq(L)
  <2>1. k - 1 \in 0 .. c.n /\ (k - 1) + 1 = k /\ k \in 1 .. n + 1
    BY <1>1, <1>3
  <2>2. 1 <= c.end[k - 1] /\ c.end[k - 1] <= c.start[k] /\ c.start[k] <= size + 1
    BY <1>2, <1>3, <2>1, Between
  <2>3. c.end[k - 1] \in Int /\ c.start[k] \in Int
    <3>1. k - 1 \in Rank(c) /\ k \in Rank(c)
      BY <1>1, <1>3
    <3> QED BY <1>2, <3>1, Numbers DEF Numbered
  <2>4. Text(L, Slice(base, c.end[k - 1], c.start[k]), c.start[k] - c.end[k - 1])
    BY <1>1, <1>t, <2>2, <2>3, SliceIs
  <2> QED BY <1>3, <1>4, <2>1, <2>4 DEF Text
<1>6. Writes(out, p, base)
  BY <1>5, WritesExist, WrittenWrites DEF n
<1>7. Steps(c, Inserts(p), base, out)
  <2>1. out[0] = <<>>
    BY <1>1, <1>6 DEF Writes, n
  <2>2. ASSUME NEW k \in 1 .. n PROVE out[k] = Extend(c, base, out[k - 1], Inserts(p)[k], k - 1)
    <3>1. k \in 0 .. Len(p) /\ k # 0 /\ (k - 1) + 1 = k /\ k \in 1 .. n + 1
      BY <1>1 DEF n
    <3>2. out[k] = out[k - 1] \o Slice(base, ReadFrom(p, k), p[k].start) \o p[k].insert
      <4> HIDE DEF out
      <4> QED BY <1>6, <3>1 DEF Writes
    <3>3. ReadFrom(p, k) = c.end[k - 1] /\ p[k].start = c.start[k] /\ Inserts(p)[k] = p[k].insert
      BY <1>3, <1>4, <3>1 DEF Inserts, n
    <3> HIDE DEF out
    <3>4. Extend(c, base, out[k - 1], Inserts(p)[k], k - 1)
            = out[k - 1] \o Slice(base, c.end[k - 1], c.start[k]) \o Inserts(p)[k]
      BY <3>1 DEF Extend, Cat
    <3> QED BY <3>2, <3>3, <3>4
  <2> QED BY <1>3, <2>1, <2>2 DEF Steps
<1>8. Pieces(L, c, Inserts(p))
  <2>1. ASSUME NEW k \in 1 .. n
        PROVE  Text(L, Inserts(p)[k], (c.end[k] + c.shift[k]) - (c.start[k] + c.shift[k - 1]))
    <3>1. Inserts(p)[k] = p[k].insert
      BY DEF Inserts, n
    <3>2. k - 1 \in 0 .. n /\ k \in 0 .. n
      BY <1>1
    <3>3. /\ c.start[k] = p[k].start /\ c.end[k] = HunkEnd(p[k])
          /\ c.shift[k] = sum[k - 1] + Delta(p[k]) /\ c.shift[k - 1] = sum[k - 1] /\ sum[k - 1] \in Int
      BY <1>3, <1>s, <3>2
    <3>4. Text(L, p[k].insert, (HunkEnd(p[k]) + (sum[k - 1] + Delta(p[k]))) - (p[k].start + sum[k - 1]))
      BY <1>1, <3>3, PieceSize
    <3> QED BY <3>1, <3>3, <3>4
  <2> QED BY <1>3, <2>1 DEF Pieces
<1> HIDE DEF out
<1>9. /\ out[n] \in Seq(L)
      /\ Text(L, Extend(c, base, out[n], <<>>, n), size + c.shift[n])
      /\ Splices(c, Inserts(p), base, Extend(c, base, out[n], <<>>, n))
  <2>1. Text(L, base, c.size)
    BY <1>3, <1>t
  <2> QED BY <1>2, <1>3, <1>7, <1>8, <2>1, SplicesAll
<1>10. Extend(c, base, out[n], <<>>, n) = Apply(p, base)
  <2>1. Apply(p, base) = out[n] \o Slice(base, ReadFrom(p, n + 1), size + 1)
    BY ApplyWrites DEF out, n, size
  <2>2. ReadFrom(p, n + 1) = c.end[n] /\ c.start[n + 1] = size + 1
    <3>1. n + 1 \in 1 .. n + 1 /\ (n + 1) - 1 = n
      BY <1>1
    <3> QED BY <1>3, <1>4, <3>1
  <2> DEFINE s == out[n]
             t == Slice(base, c.end[n], size + 1)
  <2>3. s \in Seq(L)
    BY <1>9
  <2>4. t \in Seq(L)
    <3>1. n \in 0 .. c.n /\ n \in Rank(c) /\ n + 1 \in Rank(c)
      BY <1>1, <1>3
    <3>2. 1 <= c.end[n] /\ c.end[n] <= size + 1
      BY <1>2, <1>3, <3>1, Between
    <3>3. c.end[n] \in Int /\ size + 1 \in Int /\ size + 1 <= size + 1
      BY <1>1, <1>2, <3>1, Numbers DEF Numbered
    <3>4. Text(L, t, (size + 1) - c.end[n])
      BY <1>1, <1>t, <3>2, <3>3, SliceIs
    <3> QED BY <3>4 DEF Text
  <2>5. (s \o t) \o <<>> = s \o t
    <3>1. s \o t \in Seq(L)
      BY <2>3, <2>4, ConcatProperties
    <3> HIDE DEF s, t
    <3> QED BY <3>1, ConcatEmptySeq
  <2> QED BY <2>1, <2>2, <2>5 DEF Extend, Cat
<1>11. c.shift[n] = sum[n]
  BY <1>1, <1>3
<1> QED BY <1>2, <1>9, <1>10, <1>11 DEF c, n, size

-----------------------------------------------------------------------------
(* Independent patches: their layouts lie beside each other, and rebase    *)
(* moves them.                                                             *)

(* The greatest element of 0 .. n with a property 0 has.                   *)
LEMMA LastOf ==
  ASSUME NEW n \in Nat, NEW S, 0 \in S
  PROVE  \E k \in 0 .. n : k \in S /\ \A m \in k + 1 .. n : m \notin S
<1> DEFINE T == {i \in 0 .. n : \E k \in 0 .. i : k \in S /\ \A m \in k + 1 .. i : m \notin S}
<1>1. 0 \in T
  OBVIOUS
<1>2. ASSUME NEW i \in 0 .. n - 1, i \in T PROVE i + 1 \in T
  <2>1. PICK k \in 0 .. i : k \in S /\ \A m \in k + 1 .. i : m \notin S
    BY <1>2
  <2>2. CASE i + 1 \in S
    BY <2>2
  <2>3. CASE i + 1 \notin S
    <3>1. k \in 0 .. i + 1 /\ \A m \in k + 1 .. i + 1 : m \notin S
      BY <2>1, <2>3
    <3> QED BY <2>1, <3>1
  <2> QED BY <2>2, <2>3
<1>3. n \in T
  <2> HIDE DEF T
  <2> QED BY <1>1, <1>2, UpTo
<1> QED BY <1>3

(* No two hunks of two layouts conflict.                                   *)
Apart(c, d) ==
  \A k \in 1 .. c.n : \A j \in 1 .. d.n :
    ~ ((c.end[k] <= d.start[j]) <=> (d.end[j] <= c.start[k]))

(* How many hunks of c end at or before hunk j of d.                       *)
Ahead(c, d, j) ==
  CHOOSE k \in 0 .. c.n :
    /\ c.end[k] <= d.start[j]
    /\ \A m \in k + 1 .. c.n : ~ (c.end[m] <= d.start[j])

Aheads(c, d) ==
  [j \in Rank(d) |-> IF j = 0 THEN 0 ELSE IF j = d.n + 1 THEN c.n ELSE Ahead(c, d, j)]

(* Ahead is the greatest rank of c whose hunk ends at or before hunk j of  *)
(* d.                                                                      *)
LEMMA AheadIs ==
  ASSUME NEW c, NEW d, LayoutOK(c), LayoutOK(d), NEW j \in 1 .. d.n
  PROVE  /\ Ahead(c, d, j) \in 0 .. c.n
         /\ c.end[Ahead(c, d, j)] <= d.start[j]
         /\ \A m \in Ahead(c, d, j) + 1 .. c.n : ~ (c.end[m] <= d.start[j])
<1>r. Numbered(c) /\ Numbered(d)
  BY Numbers
<1> DEFINE S == {k \in 0 .. c.n : c.end[k] <= d.start[j]}
<1>0. c.n \in Nat /\ d.n \in Nat
  BY <1>r DEF Numbered
<1>1. 0 \in S
  <2>1. j - 1 \in 0 .. d.n /\ (j - 1) + 1 = j /\ j \in Rank(d) /\ j - 1 \in Rank(d)
    BY <1>0 DEF Rank
  <2>2. 1 <= d.end[j - 1] /\ d.end[j - 1] <= d.start[j]
    BY <2>1, Between
  <2>3. d.end[j - 1] \in Int /\ d.start[j] \in Int
    BY <1>r, <2>1 DEF Numbered
  <2>4. c.end[0] = 1
    BY DEF LayoutOK
  <2>5. 1 <= d.start[j]
    BY <2>2, <2>3
  <2> QED BY <1>0, <2>4, <2>5
<1>2. \E k \in 0 .. c.n : k \in S /\ \A m \in k + 1 .. c.n : m \notin S
  <2> HIDE DEF S
  <2> QED BY <1>0, <1>1, LastOf
<1>3. \E k \in 0 .. c.n :
        /\ c.end[k] <= d.start[j]
        /\ \A m \in k + 1 .. c.n : ~ (c.end[m] <= d.start[j])
  <2>1. PICK k \in 0 .. c.n : k \in S /\ \A m \in k + 1 .. c.n : m \notin S
    BY <1>2
  <2>2. \A m \in k + 1 .. c.n : m \in 0 .. c.n
    BY <1>0
  <2> QED BY <2>1, <2>2
<1> QED BY <1>3 DEF Ahead

(* Two layouts that do not conflict lie beside each other.                 *)
LEMMA AheadsBeside ==
  ASSUME NEW c, NEW d, LayoutOK(c), LayoutOK(d), c.size = d.size, Apart(c, d)
  PROVE  Beside(d, c, Aheads(c, d))
<1> DEFINE a == Aheads(c, d)
<1>r. Numbered(c) /\ Numbered(d)
  BY Numbers
<1>0. c.n \in Nat /\ d.n \in Nat /\ c.size \in Int
  BY <1>r DEF Numbered
<1>1. a[0] = 0 /\ a[d.n + 1] = c.n
  BY <1>0 DEF Aheads, Rank
<1>2. ASSUME NEW j \in 1 .. d.n
      PROVE  /\ a[j] \in 0 .. c.n /\ c.end[a[j]] <= d.start[j]
             /\ \A m \in a[j] + 1 .. c.n : ~ (c.end[m] <= d.start[j])
  <2>1. a[j] = Ahead(c, d, j)
    BY <1>0 DEF Aheads, Rank
  <2> HIDE DEF a
  <2> QED BY <2>1, AheadIs
<1>3. \A j \in Rank(d) : j = 0 \/ j = d.n + 1 \/ j \in 1 .. d.n
  BY <1>0 DEF Rank
<1>d. a = [j \in Rank(d) |-> a[j]]
  BY DEF Aheads
<1>z. /\ c.start[0] = 1 /\ c.end[0] = 1 /\ c.start[c.n + 1] = c.size + 1 /\ c.end[c.n + 1] = c.size + 1
      /\ d.start[0] = 1 /\ d.end[0] = 1 /\ d.start[d.n + 1] = c.size + 1 /\ d.end[d.n + 1] = c.size + 1
  BY DEF LayoutOK
<1> HIDE DEF a
<1>4. a \in [Rank(d) -> 0 .. c.n]
  <2>1. \A j \in Rank(d) : a[j] \in 0 .. c.n
    BY <1>0, <1>1, <1>2, <1>3
  <2> QED BY <1>d, <2>1
<1>5. ASSUME NEW j \in Rank(d) PROVE c.end[a[j]] <= d.start[j]
  <2>1. CASE j = 0
    BY <1>1, <1>z, <2>1
  <2>2. CASE j = d.n + 1
    <3>1. c.n \in Rank(c) /\ c.n + 1 \in Rank(c) /\ c.n <= c.n + 1
      BY <1>0 DEF Rank
    <3>2. c.end[c.n] <= c.end[c.n + 1]
      BY <3>1, EndsRise
    <3> QED BY <1>1, <1>z, <2>2, <3>2
  <2>3. CASE j \in 1 .. d.n
    BY <1>2, <2>3
  <2> QED BY <1>3, <2>1, <2>2, <2>3
<1>6. ASSUME NEW j \in Rank(d) PROVE d.end[j] <= c.start[a[j] + 1]
  <2>1. CASE j = 0
    <3>1. 0 \in 0 .. c.n /\ 0 + 1 = 1 /\ 1 \in Rank(c) /\ 0 \in Rank(c)
      BY <1>0 DEF Rank
    <3> DEFINE o == 0
    <3> HIDE DEF o
    <3>2. o = 0
      BY DEF o
    <3>3. 1 <= c.end[o] /\ c.end[o] <= c.start[o + 1]
      BY <3>1, <3>2, Between
    <3> QED BY <1>1, <1>z, <2>1, <3>1, <3>2, <3>3
  <2>2. CASE j = d.n + 1
    BY <1>0, <1>1, <1>z, <2>2
  <2>3. CASE j \in 1 .. d.n
    <3>1. a[j] \in 0 .. c.n /\ \A m \in a[j] + 1 .. c.n : ~ (c.end[m] <= d.start[j])
      BY <1>2, <2>3
    <3>2. CASE a[j] = c.n
      <4>1. d.n + 1 \in Rank(d) /\ j <= d.n + 1
        BY <1>0, <2>3 DEF Rank
      <4>2. d.end[j] <= d.end[d.n + 1]
        BY <4>1, EndsRise
      <4> QED BY <1>z, <3>2, <4>2
    <3>3. CASE a[j] # c.n
      <4>1. a[j] + 1 \in a[j] + 1 .. c.n /\ a[j] + 1 \in 1 .. c.n
        BY <1>0, <3>1, <3>3
      <4>2. ~ (c.end[a[j] + 1] <= d.start[j])
        BY <3>1, <4>1
      <4> QED BY <2>3, <4>1, <4>2 DEF Apart
    <3> QED BY <3>2, <3>3
  <2> QED BY <1>3, <2>1, <2>2, <2>3
<1>7. ASSUME NEW j \in 1 .. d.n + 1 PROVE a[j - 1] <= a[j]
  <2>1. j \in Rank(d) /\ j - 1 \in Rank(d) /\ j # 0 /\ a[j] \in 0 .. c.n /\ a[j - 1] \in 0 .. c.n
    BY <1>0, <1>4 DEF Rank
  <2>2. CASE j = 1
    BY <1>1, <2>1, <2>2
  <2>3. CASE j = d.n + 1
    BY <1>1, <2>1, <2>3
  <2>4. CASE j # 1 /\ j # d.n + 1
    <3>1. j \in 1 .. d.n /\ (j - 1) + 1 = j /\ j - 1 \in 0 .. d.n
      BY <1>0, <2>4
    <3>2. c.end[a[j - 1]] <= d.start[j - 1]
      BY <1>5, <2>1
    <3>3. d.start[j - 1] <= d.end[j - 1] /\ d.end[j - 1] <= d.start[j]
      BY <2>1, <3>1, NotShrunk, Between
    <3>4. a[j - 1] \in Rank(c)
      BY <1>0, <2>1 DEF Rank
    <3>5. c.end[a[j - 1]] \in Int /\ d.start[j - 1] \in Int /\ d.end[j - 1] \in Int /\ d.start[j] \in Int
      BY <1>r, <2>1, <3>4 DEF Numbered
    <3>6. c.end[a[j - 1]] <= d.start[j]
      BY <3>2, <3>3, <3>5
    <3>7. a[j - 1] \notin a[j] + 1 .. c.n
      BY <1>2, <3>1, <3>6
    <3> QED BY <1>0, <2>1, <3>7
  <2> QED BY <2>2, <2>3, <2>4
<1>8. Beside(d, c, a)
  BY <1>1, <1>4, <1>5, <1>6, <1>7 DEF Beside
<1> QED BY <1>8 DEF a

(* And each sees the other's hunks in the same order.                      *)
LEMMA AheadsCross ==
  ASSUME NEW c, NEW d, LayoutOK(c), LayoutOK(d), c.size = d.size, Apart(c, d), Apart(d, c)
  PROVE  Crossing(c, d, Aheads(c, d), Aheads(d, c))
<1> DEFINE a == Aheads(c, d)
           b == Aheads(d, c)
<1>r. Numbered(c) /\ Numbered(d)
  BY Numbers
<1>0. c.n \in Nat /\ d.n \in Nat
  BY <1>r DEF Numbered
<1>1. Beside(d, c, a) /\ Beside(c, d, b)
  BY AheadsBeside
<1>2. \A j \in 1 .. d.n : a[j] = Ahead(c, d, j)
  BY <1>0 DEF Aheads, Rank
<1>3. \A k \in 1 .. c.n : b[k] = Ahead(d, c, k)
  BY <1>0 DEF Aheads, Rank
<1> HIDE DEF a, b
<1>4. a[0] = 0 /\ a[d.n + 1] = c.n /\ \A j \in Rank(d) : a[j] \in 0 .. c.n
  BY <1>1 DEF Beside
<1>5. b[0] = 0 /\ b[c.n + 1] = d.n /\ \A k \in Rank(c) : b[k] \in 0 .. d.n
  BY <1>1 DEF Beside
<1>6. ASSUME NEW k \in 1 .. c.n, NEW j \in 1 .. d.n PROVE k <= a[j] <=> b[k] < j
  <2>1. /\ a[j] \in 0 .. c.n /\ c.end[a[j]] <= d.start[j]
        /\ \A m \in a[j] + 1 .. c.n : ~ (c.end[m] <= d.start[j])
    BY <1>2, AheadIs
  <2>2. /\ b[k] \in 0 .. d.n /\ d.end[b[k]] <= c.start[k]
        /\ \A m \in b[k] + 1 .. d.n : ~ (d.end[m] <= c.start[k])
    BY <1>3, AheadIs
  <2>3. (c.end[k] <= d.start[j]) <=> ~ (d.end[j] <= c.start[k])
    BY DEF Apart
  <2>r. k \in Rank(c) /\ a[j] \in Rank(c) /\ j \in Rank(d) /\ b[k] \in Rank(d)
    BY <1>0, <2>1, <2>2 DEF Rank
  <2>t. /\ c.end[k] \in Int /\ c.end[a[j]] \in Int /\ d.start[j] \in Int
        /\ d.end[j] \in Int /\ d.end[b[k]] \in Int /\ c.start[k] \in Int
    BY <1>r, <2>r DEF Numbered
  <2>4. k <= a[j] <=> c.end[k] <= d.start[j]
    <3>1. CASE k <= a[j]
      <4>1. c.end[k] <= c.end[a[j]]
        BY <2>r, <3>1, EndsRise
      <4> QED BY <2>1, <2>t, <3>1, <4>1
    <3>2. CASE ~ (k <= a[j])
      <4>1. k \in a[j] + 1 .. c.n
        BY <1>0, <2>1, <3>2
      <4> QED BY <2>1, <3>2, <4>1
    <3> QED BY <3>1, <3>2
  <2>5. j <= b[k] <=> d.end[j] <= c.start[k]
    <3>1. CASE j <= b[k]
      <4>1. d.end[j] <= d.end[b[k]]
        BY <2>r, <3>1, EndsRise
      <4> QED BY <2>2, <2>t, <3>1, <4>1
    <3>2. CASE ~ (j <= b[k])
      <4>1. j \in b[k] + 1 .. d.n
        BY <1>0, <2>2, <3>2
      <4> QED BY <2>2, <3>2, <4>1
    <3> QED BY <3>1, <3>2
  <2>6. b[k] < j <=> ~ (j <= b[k])
    BY <1>0, <2>2
  <2> QED BY <2>3, <2>4, <2>5, <2>6
<1>7. ASSUME NEW k \in Rank(c), NEW j \in Rank(d), k \in 1 .. c.n \/ j \in 1 .. d.n
      PROVE  k <= a[j] <=> b[k] < j
  <2>1. /\ (k = 0 \/ k = c.n + 1 \/ k \in 1 .. c.n) /\ (j = 0 \/ j = d.n + 1 \/ j \in 1 .. d.n)
        /\ a[j] \in 0 .. c.n /\ b[k] \in 0 .. d.n
    BY <1>0, <1>4, <1>5 DEF Rank
  <2>2. CASE k \in 1 .. c.n /\ j \in 1 .. d.n
    BY <1>6, <2>2
  <2>3. CASE k = 0 /\ j \in 1 .. d.n
    BY <1>5, <2>1, <2>3
  <2>4. CASE k = c.n + 1 /\ j \in 1 .. d.n
    BY <1>0, <1>5, <2>1, <2>4
  <2>5. CASE j = 0 /\ k \in 1 .. c.n
    BY <1>4, <2>1, <2>5
  <2>6. CASE j = d.n + 1 /\ k \in 1 .. c.n
    BY <1>0, <1>4, <2>1, <2>6
  <2> QED BY <1>7, <2>1, <2>2, <2>3, <2>4, <2>5, <2>6
<1>8. Crossing(c, d, a, b)
  BY <1>7 DEF Crossing
<1> QED BY <1>8 DEF a, b

(* What deltaBefore sums.                                                  *)
Summed(p, pos) ==
  LET sum[k \in 0 .. Len(p)] ==
        IF k = 0 THEN 0
        ELSE sum[k - 1] + (IF HunkEnd(p[k]) <= pos THEN Delta(p[k]) ELSE 0)
  IN sum

Adds(sum, p, pos) ==
  sum = [k \in 0 .. Len(p) |->
        IF k = 0 THEN 0
        ELSE sum[k - 1] + (IF HunkEnd(p[k]) <= pos THEN Delta(p[k]) ELSE 0)]

(* DeltaBefore is the last of the sums.                                    *)
LEMMA DeltaBeforeSums ==
  ASSUME NEW p, NEW pos
  PROVE  DeltaBefore(p, pos) = Summed(p, pos)[Len(p)]
BY DEF DeltaBefore, Summed

(* The recursion of DeltaBefore is well defined.                           *)
LEMMA SummedAdds ==
  ASSUME NEW p, NEW pos, NEW f, Adds(f, p, pos)
  PROVE  Adds(Summed(p, pos), p, pos)
<1> DEFINE g == CHOOSE sum : Adds(sum, p, pos)
<1>1. Adds(g, p, pos)
  BY Zenon
<1>2. g = Summed(p, pos)
  BY DEF Adds, Summed
<1> QED BY <1>1, <1>2

(* The first m hunks of p, and no other, end at or before a position.      *)
EndBy(p, pos, m) ==
  /\ m \in 0 .. Len(p)
  /\ \A k \in 1 .. m : HunkEnd(p[k]) <= pos
  /\ \A k \in m + 1 .. Len(p) : ~ (HunkEnd(p[k]) <= pos)

(* When the first m hunks are those that end at or before a position,      *)
(* DeltaBefore is what they add.                                           *)
LEMMA DeltaBeforeIs ==
  ASSUME NEW L, NEW p \in Patches(L), NEW pos \in Int, NEW sum, Sums(p, sum),
         NEW m, EndBy(p, pos, m)
  PROVE  DeltaBefore(p, pos) = sum[m]
<1> DEFINE n == Len(p)
           f == [k \in 0 .. n |-> sum[IF k <= m THEN k ELSE m]]
           Step(k) == IF HunkEnd(p[k]) <= pos THEN Delta(p[k]) ELSE 0
           g == Summed(p, pos)
<1>1. n \in Nat /\ \A k \in 1 .. n : Delta(p[k]) \in Int
  BY PatchTypes, HunkTypes
<1>2. /\ sum[0] = 0 /\ (\A k \in 0 .. n : sum[k] \in Int)
      /\ \A k \in 1 .. n : sum[k] = sum[k - 1] + Delta(p[k])
  BY DEF Sums
<1>m. m \in 0 .. n
  BY DEF EndBy
<1>s. \A k \in 1 .. n : (k <= m => Step(k) = Delta(p[k])) /\ (m < k => Step(k) = 0)
  <2>1. ASSUME NEW k \in 1 .. n PROVE (k <= m => k \in 1 .. m) /\ (m < k => k \in m + 1 .. n)
    <3> HIDE DEF n
    <3> QED BY <1>1, <1>m
  <2> QED BY <2>1 DEF EndBy
<1> HIDE DEF Step, n
<1>3. ASSUME NEW k \in 0 .. n PROVE f[k] = IF k = 0 THEN 0 ELSE f[k - 1] + Step(k)
  <2>1. CASE k = 0
    BY <1>2, <1>m, <2>1
  <2>2. CASE k # 0 /\ k <= m
    <3>1. k \in 1 .. n /\ k - 1 \in 0 .. n /\ k - 1 <= m
      BY <1>1, <1>m, <2>2
    <3>2. f[k] = sum[k] /\ f[k - 1] = sum[k - 1] /\ Step(k) = Delta(p[k])
      BY <1>s, <2>2, <3>1
    <3> QED BY <1>2, <2>2, <3>1, <3>2
  <2>3. CASE k # 0 /\ ~ (k <= m)
    <3>1. k \in 1 .. n /\ k - 1 \in 0 .. n /\ m < k
      BY <1>1, <1>m, <2>3
    <3>2. f[k] = sum[m] /\ Step(k) = 0
      BY <1>s, <2>3, <3>1
    <3>3. f[k - 1] = sum[m]
      <4>1. CASE k - 1 <= m
        <5>1. k - 1 = m
          BY <1>m, <2>3, <4>1
        <5> QED BY <3>1, <5>1
      <4>2. CASE ~ (k - 1 <= m)
        BY <3>1, <4>2
      <4> QED BY <4>1, <4>2
    <3> HIDE DEF f
    <3> QED BY <1>2, <1>m, <2>3, <3>2, <3>3
  <2> QED BY <2>1, <2>2, <2>3
<1>4. f = [k \in 0 .. n |-> f[k]]
  OBVIOUS
<1>m2. f[n] = sum[m]
  BY <1>1, <1>m
<1> HIDE DEF f
<1>5. f = [k \in 0 .. n |-> IF k = 0 THEN 0 ELSE f[k - 1] + Step(k)]
  BY <1>3, <1>4
<1>6. Adds(f, p, pos)
  BY <1>5 DEF Adds, n, Step
<1>7. Adds(g, p, pos)
  BY <1>6, SummedAdds
<1> HIDE DEF g
<1>8. g[0] = 0 /\ \A k \in 1 .. n : g[k] = g[k - 1] + Step(k)
  <2>1. g = [k \in 0 .. n |-> IF k = 0 THEN 0 ELSE g[k - 1] + Step(k)]
    BY <1>7 DEF Adds, n, Step
  <2>2. 0 \in 0 .. n /\ \A k \in 1 .. n : k \in 0 .. n /\ k # 0
    BY <1>1
  <2> QED BY <2>1, <2>2
<1>9. \A k \in 0 .. n : g[k] = f[k]
  <2> DEFINE S == {k \in 0 .. n : g[k] = f[k]}
  <2>1. 0 \in S
    BY <1>1, <1>3, <1>8
  <2>2. ASSUME NEW k \in 0 .. n - 1, k \in S PROVE k + 1 \in S
    <3>1. k + 1 \in 1 .. n /\ k + 1 \in 0 .. n /\ (k + 1) - 1 = k /\ k + 1 # 0
      BY <1>1
    <3>2. g[k + 1] = g[k] + Step(k + 1)
      BY <1>8, <3>1
    <3>3. f[k + 1] = f[k] + Step(k + 1)
      BY <1>3, <3>1
    <3> QED BY <2>2, <3>1, <3>2, <3>3
  <2>3. \A k \in 0 .. n : k \in S
    <3> HIDE DEF S
    <3> QED BY <1>1, <2>1, <2>2, UpTo
  <2> QED BY <2>3
<1>10. g[n] = sum[m]
  BY <1>1, <1>9, <1>m2
<1> QED BY <1>10, DeltaBeforeSums DEF g, n

(* The clamp of a moved hunk's start does nothing to a number from 1.      *)
LEMMA AtLeastOne ==
  ASSUME NEW x \in Int, 1 <= x
  PROVE  Max({1, x}) = x
<1>1. \E y \in {1, x} : \A z \in {1, x} : y >= z
  OBVIOUS
<1> DEFINE m == CHOOSE y \in {1, x} : \A z \in {1, x} : y >= z
<1>2. m \in {1, x} /\ \A z \in {1, x} : m >= z
  <2> HIDE DEF m
  <2> QED BY <1>1 DEF m
<1> HIDE DEF m
<1>3. m = x
  BY <1>2
<1> QED BY <1>3 DEF Max, m

(* Independent patches have layouts that do not conflict.                  *)
LEMMA ApartHunks ==
  ASSUME NEW L, NEW p \in Patches(L), NEW q \in Patches(L), NEW size \in Nat,
         NEW sp, NEW sq, Sums(p, sp), Sums(q, sq), Independent(p, q)
  PROVE  /\ Apart(LayoutOf(p, size, sp), LayoutOf(q, size, sq))
         /\ Apart(LayoutOf(q, size, sq), LayoutOf(p, size, sp))
<1> DEFINE c == LayoutOf(p, size, sp)
           d == LayoutOf(q, size, sq)
<1>l. Laid(c, p, size, sp) /\ Laid(d, q, size, sq)
  BY LayoutIs
<1>1. c.n = Len(p) /\ d.n = Len(q) /\ DOMAIN p = 1 .. Len(p) /\ DOMAIN q = 1 .. Len(q)
  BY <1>l, PatchTypes DEF Laid
<1>2. \A k \in 1 .. Len(p) : c.start[k] = p[k].start /\ c.end[k] = HunkEnd(p[k])
  BY <1>l DEF Laid
<1>3. \A k \in 1 .. Len(q) : d.start[k] = q[k].start /\ d.end[k] = HunkEnd(q[k])
  BY <1>l DEF Laid
<1> HIDE DEF c, d
<1>4. \A i \in 1 .. Len(p) : \A j \in 1 .. Len(q) :
         ~ ((HunkEnd(p[i]) <= q[j].start) <=> (HunkEnd(q[j]) <= p[i].start))
  BY <1>1, Zenon DEF Independent, HunksConflict
<1>5. ASSUME NEW k \in 1 .. c.n, NEW j \in 1 .. d.n
      PROVE  ~ ((c.end[k] <= d.start[j]) <=> (d.end[j] <= c.start[k]))
  <2>1. k \in 1 .. Len(p) /\ j \in 1 .. Len(q)
    BY <1>1
  <2>2. ~ ((HunkEnd(p[k]) <= q[j].start) <=> (HunkEnd(q[j]) <= p[k].start))
    BY <1>4, <2>1
  <2> QED BY <1>2, <1>3, <2>1, <2>2
<1>6. Apart(c, d) /\ Apart(d, c)
  BY <1>5, Zenon DEF Apart
<1> QED BY <1>6 DEF c, d

(* A patch moved on top of an independent one has the layout moved.        *)
LEMMA RebasedHunk ==
  ASSUME NEW L, NEW p \in Patches(L), NEW q \in Patches(L), NEW base \in Seq(L),
         Fits(p, base), Fits(q, base), Independent(p, q),
         NEW sp, NEW sq, Sums(p, sp), Sums(q, sq), NEW j \in 1 .. Len(q)
  PROVE  LET c == LayoutOf(p, Len(base), sp)
             d == LayoutOf(q, Len(base), sq)
             a == Aheads(c, d)
         IN /\ a[j] \in 0 .. Len(p)
            /\ RebasePatch(q, p)[j] = [q[j] EXCEPT !.start = @ + sp[a[j]]]
            /\ q[j].start + sp[a[j]] \in Nat \ {0}
<1> DEFINE size == Len(base)
           c == LayoutOf(p, size, sp)
           d == LayoutOf(q, size, sq)
           a == Aheads(c, d)
           h == q[j]
           m == a[j]
<1>1. LayoutOK(c) /\ LayoutOK(d) /\ size \in Nat
  BY ApplySplices
<1>l. Laid(c, p, size, sp) /\ Laid(d, q, size, sq)
  BY LayoutIs
<1>2. Apart(c, d)
  BY <1>1, ApartHunks
<1>3. c.n = Len(p) /\ d.n = Len(q)
  <2>1. c.n = Len(p)
    BY <1>l DEF Laid
  <2>2. d.n = Len(q)
    BY <1>l DEF Laid
  <2> QED BY <2>1, <2>2
<1>4. d.start[j] = h.start
  <2>1. \A k \in 1 .. Len(q) : d.start[k] = q[k].start
    BY <1>l DEF Laid
  <2> QED BY <2>1
<1>5. \A k \in 1 .. Len(p) : c.end[k] = HunkEnd(p[k])
  BY <1>l DEF Laid
<1>6. \A k \in 0 .. Len(p) : c.shift[k] = sp[k]
  BY <1>l DEF Laid
<1>h. h \in Hunks(L) /\ h.start \in Nat /\ Len(p) \in Nat /\ DOMAIN q = 1 .. Len(q) /\ Len(q) \in Nat
  BY PatchTypes, HunkTypes
<1> HIDE DEF size, c, d, h
<1>7. m = Ahead(c, d, j)
  BY <1>3, <1>h DEF Aheads, Rank
<1> HIDE DEF a, m
<1>8. /\ m \in 0 .. Len(p) /\ c.end[m] <= h.start
      /\ \A k \in m + 1 .. Len(p) : ~ (c.end[k] <= h.start)
  BY <1>1, <1>3, <1>4, <1>7, AheadIs
<1>9. \A k \in 1 .. m : HunkEnd(p[k]) <= h.start
  <2>1. ASSUME NEW k \in 1 .. m PROVE HunkEnd(p[k]) <= h.start
    <3>1. k \in Rank(c) /\ m \in Rank(c) /\ k <= m /\ k \in 1 .. Len(p)
      BY <1>3, <1>8, <1>h DEF Rank
    <3>2. c.end[k] <= c.end[m]
      BY <1>1, <3>1, EndsRise
    <3>3. c.end[k] \in Int /\ c.end[m] \in Int
      BY <1>1, <3>1, Numbers DEF Numbered
    <3>4. c.end[k] <= h.start
      BY <1>8, <1>h, <3>2, <3>3
    <3> QED BY <1>5, <3>1, <3>4
  <2> QED BY <2>1
<1>10. \A k \in m + 1 .. Len(p) : ~ (HunkEnd(p[k]) <= h.start)
  <2>1. ASSUME NEW k \in m + 1 .. Len(p) PROVE ~ (HunkEnd(p[k]) <= h.start)
    <3>1. k \in 1 .. Len(p)
      BY <1>8, <1>h
    <3> QED BY <1>5, <1>8, <3>1
  <2> QED BY <2>1
<1>11. DeltaBefore(p, h.start) = sp[m]
  <2>1. h.start \in Int
    BY <1>h
  <2>2. EndBy(p, h.start, m)
    BY <1>8, <1>9, <1>10 DEF EndBy
  <2> QED BY <2>1, <2>2, DeltaBeforeIs
<1>12. sp[m] \in Int
  BY <1>8 DEF Sums
<1>13. 1 <= h.start + sp[m]
  <2>1. m \in Rank(c) /\ m <= m
    BY <1>3, <1>8, <1>h DEF Rank
  <2>2. 1 <= c.end[m] + c.shift[m]
    BY <1>1, <2>1, EndsRise
  <2>3. c.end[m] \in Int /\ c.shift[m] = sp[m]
    BY <1>1, <1>6, <1>8, <2>1, Numbers DEF Numbered
  <2> QED BY <1>8, <1>12, <1>h, <2>2, <2>3
<1>14. Max({1, h.start + sp[m]}) = h.start + sp[m] /\ h.start + sp[m] \in Nat \ {0}
  <2>1. h.start + sp[m] \in Int
    BY <1>12, <1>h
  <2>2. Max({1, h.start + sp[m]}) = h.start + sp[m]
    BY <1>13, <2>1, AtLeastOne
  <2>3. h.start + sp[m] \in Nat \ {0}
    BY <1>13, <2>1
  <2> QED BY <2>2, <2>3
<1>15. RebasePatch(q, p)[j] = [h EXCEPT !.start = Max({1, h.start + DeltaBefore(p, h.start)})]
  BY <1>h DEF RebasePatch, h
<1>16. RebasePatch(q, p)[j] = [h EXCEPT !.start = h.start + sp[m]]
  BY <1>11, <1>14, <1>15
<1> QED BY <1>8, <1>14, <1>16 DEF m, h, a, c, d, size

(* A hunk moved by z changes its place and nothing else.                   *)
LEMMA RebasedTypes ==
  ASSUME NEW L, NEW h \in Hunks(L), NEW z, h.start + z \in Nat \ {0}, z \in Int
  PROVE  LET r == [h EXCEPT !.start = @ + z]
         IN /\ r \in Hunks(L) /\ r.start = h.start + z /\ HunkEnd(r) = HunkEnd(h) + z
            /\ Delta(r) = Delta(h) /\ r.insert = h.insert /\ r.remove = h.remove
<1> DEFINE r == [h EXCEPT !.start = @ + z]
<1>1. h.start \in Nat /\ h.remove \in Seq(L) /\ h.insert \in Seq(L) /\ Len(h.remove) \in Nat
  BY HunkTypes
<1>2. r \in Hunks(L) /\ r.start = h.start + z /\ r.insert = h.insert /\ r.remove = h.remove
  BY DEF Hunks
<1> DEFINE l == Len(h.remove)
<1>3. HunkEnd(r) = (h.start + z) + l /\ HunkEnd(h) = h.start + l /\ l \in Nat
  <2> HIDE DEF r
  <2> QED BY <1>1, <1>2 DEF HunkEnd
<1>4. Delta(r) = Delta(h)
  <2> HIDE DEF r
  <2> QED BY <1>2 DEF Delta
<1> HIDE DEF l
<1>5. (h.start + z) + l = (h.start + l) + z
  BY <1>1, <1>3
<1> QED BY <1>2, <1>3, <1>4, <1>5

(* p and q, with their sums, both fit base, and no two of their hunks      *)
(* conflict.                                                               *)
Pair(L, p, q, base, sp, sq) ==
  /\ p \in Patches(L) /\ q \in Patches(L) /\ base \in Seq(L)
  /\ Fits(p, base) /\ Fits(q, base) /\ Independent(p, q)
  /\ Sums(p, sp) /\ Sums(q, sq)

(* What rebase (commute.rs) makes of every hunk of an independent patch:   *)
(* the same lines removed and inserted, at the places of the moved         *)
(* layout.                                                                 *)
LEMMA RebaseShape ==
  ASSUME NEW L, NEW p, NEW q, NEW base, NEW sp, NEW sq, Pair(L, p, q, base, sp, sq)
  PROVE  LET c == LayoutOf(p, Len(base), sp)
             d == LayoutOf(q, Len(base), sq)
             r == RebasePatch(q, p)
         IN /\ r \in Patches(L) /\ Len(r) = Len(q) /\ Sums(r, sq) /\ Inserts(r) = Inserts(q)
            /\ LayoutOf(r, Len(base) + sp[Len(p)], sq) = Moved(d, c, Aheads(c, d))
            /\ LayoutOK(Moved(d, c, Aheads(c, d)))
            /\ \A j \in 1 .. Len(q) : r[j].remove = q[j].remove
<1> DEFINE size == Len(base)
           c == LayoutOf(p, size, sp)
           d == LayoutOf(q, size, sq)
           a == Aheads(c, d)
           r == RebasePatch(q, p)
           n == Len(q)
           e == Moved(d, c, a)
           f == LayoutOf(r, size + sp[Len(p)], sq)
<1>p. /\ p \in Patches(L) /\ q \in Patches(L) /\ base \in Seq(L) /\ Fits(p, base) /\ Fits(q, base)
      /\ Independent(p, q) /\ Sums(p, sp) /\ Sums(q, sq)
  BY DEF Pair
<1>0. n \in Nat /\ DOMAIN q = 1 .. n /\ Len(p) \in Nat /\ size \in Nat /\ \A j \in 1 .. n : q[j] \in Hunks(L)
  BY <1>p, PatchTypes
<1>1. LayoutOK(c) /\ LayoutOK(d)
  BY <1>p, ApplySplices
<1>l. Laid(c, p, size, sp) /\ Laid(d, q, size, sq)
  BY <1>p, LayoutIs
<1>2. Apart(c, d)
  BY <1>0, <1>p, ApartHunks
<1>3. c.n = Len(p) /\ c.size = size /\ c.shift[Len(p)] = sp[Len(p)]
  <2>1. c.n = Len(p) /\ c.size = size
    BY <1>l DEF Laid
  <2>2. \A k \in 0 .. Len(p) : c.shift[k] = sp[k]
    BY <1>l DEF Laid
  <2> QED BY <1>0, <2>1, <2>2
<1>4. d.n = n /\ d.size = size /\ Rank(d) = 0 .. n + 1
  BY <1>l DEF Laid
<1>5. d.start[0] = 1 /\ d.end[0] = 1 /\ d.start[n + 1] = size + 1 /\ d.end[n + 1] = size + 1 /\ d.shift[n + 1] = sq[n]
  BY <1>l DEF Laid
<1>6. \A k \in 1 .. n : d.start[k] = q[k].start /\ d.end[k] = HunkEnd(q[k])
  BY <1>l DEF Laid
<1>7. \A k \in 0 .. n : d.shift[k] = sq[k]
  BY <1>l DEF Laid
<1>8. \A k \in 0 .. Len(p) : c.shift[k] = sp[k]
  BY <1>l DEF Laid
<1>9. Beside(d, c, a)
  BY <1>1, <1>2, <1>3, <1>4, AheadsBeside
<1>10. LayoutOK(e)
  BY <1>1, <1>3, <1>4, <1>9, MovedOK
<1>11. Len(r) = n /\ DOMAIN r = 1 .. n /\ r = [k \in 1 .. n |-> r[k]]
  <2>1. r = [k \in 1 .. n |-> [q[k] EXCEPT !.start = Max({1, @ + DeltaBefore(p, @)})]]
    BY <1>0, Zenon DEF RebasePatch
  <2> HIDE DEF r, n
  <2> QED BY <1>0, <2>1
<1>12. ASSUME NEW j \in 1 .. n
       PROVE  /\ a[j] \in 0 .. Len(p) /\ sp[a[j]] \in Int
              /\ r[j] \in Hunks(L) /\ r[j].start = q[j].start + sp[a[j]] /\ HunkEnd(r[j]) = HunkEnd(q[j]) + sp[a[j]]
              /\ Delta(r[j]) = Delta(q[j]) /\ r[j].insert = q[j].insert /\ r[j].remove = q[j].remove
  <2>1. /\ a[j] \in 0 .. Len(p)
        /\ r[j] = [q[j] EXCEPT !.start = @ + sp[a[j]]]
        /\ q[j].start + sp[a[j]] \in Nat \ {0}
    BY <1>p, RebasedHunk
  <2>2. sp[a[j]] \in Int
    BY <1>p, <2>1 DEF Sums
  <2> DEFINE z == sp[a[j]]
             h == q[j]
             g == [h EXCEPT !.start = @ + z]
  <2>3. h \in Hunks(L) /\ z \in Int /\ h.start + z \in Nat \ {0} /\ r[j] = g
    BY <1>0, <2>1, <2>2
  <2> HIDE DEF z, h, r
  <2>4. /\ g \in Hunks(L) /\ g.start = h.start + z /\ HunkEnd(g) = HunkEnd(h) + z
        /\ Delta(g) = Delta(h) /\ g.insert = h.insert /\ g.remove = h.remove
    BY <2>3, RebasedTypes
  <2> HIDE DEF g
  <2> QED BY <2>1, <2>2, <2>3, <2>4 DEF z, h
<1> HIDE DEF r, n, size, c, d, a
<1>13. r \in Patches(L)
  <2>1. r \in [1 .. n -> Hunks(L)]
    BY <1>11, <1>12
  <2> QED BY <1>0, <2>1 DEF Patches
<1>14. Sums(r, sq)
  BY <1>p, <1>11, <1>12 DEF Sums, n
<1>15. Inserts(r) = Inserts(q)
  BY <1>11, <1>12 DEF Inserts, n
<1>16. /\ \A k \in 1 .. n : f.start[k] = r[k].start /\ f.end[k] = HunkEnd(r[k])
       /\ f.n = n /\ f.size = size + sp[Len(p)]
       /\ f.start[0] = 1 /\ f.end[0] = 1
       /\ f.start[n + 1] = (size + sp[Len(p)]) + 1 /\ f.end[n + 1] = (size + sp[Len(p)]) + 1
       /\ f.shift[n + 1] = sq[n] /\ \A k \in 0 .. n : f.shift[k] = sq[k]
  BY <1>0, <1>11 DEF LayoutOf
<1>17. /\ f = [n |-> f.n, size |-> f.size, start |-> f.start, end |-> f.end, shift |-> f.shift]
       /\ f.start = [k \in 0 .. n + 1 |-> f.start[k]] /\ f.end = [k \in 0 .. n + 1 |-> f.end[k]]
       /\ f.shift = [k \in 0 .. n + 1 |-> f.shift[k]]
  BY <1>11 DEF LayoutOf
<1>18. /\ e = [n |-> e.n, size |-> e.size, start |-> e.start, end |-> e.end, shift |-> e.shift]
       /\ e.n = n /\ e.size = size + sp[Len(p)] /\ e.shift = d.shift
       /\ e.start = [k \in 0 .. n + 1 |-> e.start[k]] /\ e.end = [k \in 0 .. n + 1 |-> e.end[k]]
       /\ \A k \in 0 .. n + 1 : e.start[k] = d.start[k] + c.shift[a[k]] /\ e.end[k] = d.end[k] + c.shift[a[k]]
  BY <1>3, <1>4 DEF Moved
<1>19. d.shift = [k \in 0 .. n + 1 |-> d.shift[k]]
  BY DEF d, LayoutOf, n
<1> HIDE DEF f, e
<1>20. \A k \in 0 .. n + 1 : k = 0 \/ k = n + 1 \/ k \in 1 .. n
  BY <1>0
<1>21. ASSUME NEW k \in 0 .. n + 1 PROVE f.start[k] = e.start[k] /\ f.end[k] = e.end[k] /\ f.shift[k] = d.shift[k]
  <2>1. CASE k = 0
    <3>1. c.shift[a[0]] = 0
      BY <1>1, <1>9 DEF Beside, LayoutOK
    <3>2. 0 \in 0 .. n
      BY <1>0
    <3> QED BY <1>5, <1>7, <1>16, <1>18, <2>1, <3>1, <3>2
  <2>2. CASE k = n + 1
    <3>1. a[n + 1] = c.n
      BY <1>4, <1>9 DEF Beside
    <3>2. c.shift[a[n + 1]] = sp[Len(p)]
      BY <1>3, <3>1
    <3>3. sp[Len(p)] \in Int
      BY SMTT(30), <1>p, <1>0 DEF Sums
    <3>4. (size + 1) + sp[Len(p)] = (size + sp[Len(p)]) + 1
      BY <1>0, <3>3
    <3> QED BY <1>5, <1>16, <1>18, <2>2, <3>2, <3>4
  <2>3. CASE k \in 1 .. n
    <3>1. c.shift[a[k]] = sp[a[k]]
      BY <1>8, <1>12, <2>3
    <3>2. k \in 0 .. n
      BY <2>3
    <3> QED BY <1>6, <1>7, <1>12, <1>16, <1>18, <2>3, <3>1, <3>2
  <2> QED BY <1>20, <2>1, <2>2, <2>3
<1>22. f = e
  <2>1. f.start = e.start /\ f.end = e.end /\ f.shift = e.shift
    BY <1>17, <1>18, <1>19, <1>21
  <2> QED BY <1>16, <1>17, <1>18, <2>1
<1> QED BY <1>10, <1>11, <1>12, <1>13, <1>14, <1>15, <1>22 DEF e, f, a, c, d, r, n, size

(* Two documents with the same lines are the same.                         *)
LEMMA SameText ==
  ASSUME NEW L, NEW s, NEW t, NEW n \in Int, Text(L, s, n), Text(L, t, n),
         \A i \in Int : 1 <= i /\ i <= n => s[i] = t[i]
  PROVE  s = t
<1>1. s \in Seq(L) /\ t \in Seq(L) /\ Len(s) = n /\ Len(t) = n
  BY DEF Text
<1>2. \A i \in 1 .. Len(s) : s[i] = t[i]
  BY <1>1
<1> QED BY <1>1, <1>2, SeqEqual

(* The patch moved on top of an independent one fits what that one makes.  *)
LEMMA RebaseFits ==
  ASSUME NEW L, NEW p, NEW q, NEW base, NEW sp, NEW sq, Pair(L, p, q, base, sp, sq)
  PROVE  Fits(RebasePatch(q, p), Apply(p, base))
<1> DEFINE size == Len(base)
           c == LayoutOf(p, size, sp)
           d == LayoutOf(q, size, sq)
           a == Aheads(c, d)
           r == RebasePatch(q, p)
           n == Len(q)
           e == Moved(d, c, a)
           doc == Apply(p, base)
           dsize == size + sp[Len(p)]
<1>p. /\ p \in Patches(L) /\ q \in Patches(L) /\ base \in Seq(L) /\ Fits(p, base) /\ Fits(q, base)
      /\ Independent(p, q) /\ Sums(p, sp) /\ Sums(q, sq)
  BY DEF Pair
<1>0. n \in Nat /\ Len(p) \in Nat /\ size \in Nat /\ DOMAIN q = 1 .. n
  BY <1>p, PatchTypes
<1>1. LayoutOK(c) /\ LayoutOK(d) /\ Text(L, doc, dsize) /\ Splices(c, Inserts(p), base, doc)
  BY <1>p, ApplySplices
<1>2. /\ r \in Patches(L) /\ Len(r) = n /\ LayoutOK(e)
      /\ \A j \in 1 .. n : r[j].remove = q[j].remove
  BY RebaseShape
<1>3. LayoutOf(r, dsize, sq) = e
  BY RebaseShape
<1>l. Laid(c, p, size, sp) /\ Laid(d, q, size, sq) /\ Laid(e, r, dsize, sq)
  <2>1. Laid(c, p, size, sp) /\ Laid(d, q, size, sq)
    BY <1>p, LayoutIs
  <2>2. Laid(LayoutOf(r, dsize, sq), r, dsize, sq)
    BY <1>2, LayoutIs
  <2> QED BY <1>3, <2>1, <2>2
<1>4. Beside(d, c, a)
  <2>1. Apart(c, d)
    BY <1>0, <1>p, ApartHunks
  <2>2. c.size = d.size
    BY <1>l DEF Laid
  <2> QED BY <1>1, <2>1, <2>2, AheadsBeside
<1>5. DOMAIN r = 1 .. n /\ Len(doc) = dsize /\ Len(r) = n
  BY <1>1, <1>2, PatchTypes DEF Text
<1>t. Text(L, base, size)
  BY <1>p DEF Text
<1>e. /\ e.n = n /\ e.size = dsize /\ c.n = Len(p) /\ d.n = n /\ c.size = size /\ d.size = size
      /\ \A j \in 1 .. n : e.start[j] = r[j].start /\ e.end[j] = HunkEnd(r[j])
      /\ \A j \in 1 .. n : d.start[j] = q[j].start /\ d.end[j] = HunkEnd(q[j])
      /\ e.end[0] = 1
  <2>1. /\ e.n = Len(r) /\ e.size = dsize /\ c.n = Len(p) /\ d.n = n /\ c.size = size /\ d.size = size
        /\ e.end[0] = 1
    BY <1>l DEF Laid
  <2>2. \A j \in 1 .. Len(r) : e.start[j] = r[j].start /\ e.end[j] = HunkEnd(r[j])
    BY <1>l DEF Laid
  <2>3. \A j \in 1 .. n : d.start[j] = q[j].start /\ d.end[j] = HunkEnd(q[j])
    BY <1>l DEF Laid
  <2> QED BY <1>2, <2>1, <2>2, <2>3
<1>6. ASSUME NEW j \in Rank(d)
      PROVE  e.start[j] = d.start[j] + c.shift[a[j]] /\ e.end[j] = d.end[j] + c.shift[a[j]]
  BY DEF Moved
<1>q. \A j \in 1 .. n : Slice(base, q[j].start, HunkEnd(q[j])) = q[j].remove
  BY <1>p, <1>0 DEF Fits
<1> HIDE DEF size, c, d, a, r, n, e, doc, dsize
<1>7. ASSUME NEW j \in 1 .. n
      PROVE  /\ r[j].start >= ReadFrom(r, j)
             /\ HunkEnd(r[j]) <= dsize + 1
             /\ Slice(doc, r[j].start, HunkEnd(r[j])) = r[j].remove
  <2>1. j - 1 \in 0 .. e.n /\ (j - 1) + 1 = j /\ j \in 0 .. e.n /\ j \in Rank(e) /\ j - 1 \in Rank(e)
        /\ j \in Rank(d) /\ j - 1 \in 0 .. d.n /\ j \in 0 .. d.n
    BY <1>0, <1>e DEF Rank
  <2>2. e.end[j - 1] <= e.start[j] /\ e.start[j] <= e.end[j] /\ e.end[j] <= dsize + 1
    <3>1. e.end[j - 1] <= e.start[j] /\ e.start[j] <= e.end[j]
      BY <1>2, <2>1, Between, NotShrunk
    <3>2. e.end[j] <= e.start[j + 1] /\ e.start[j + 1] <= e.size + 1
      BY <1>2, <2>1, Between
    <3>3. j + 1 \in Rank(e)
      BY <1>0, <1>e DEF Rank
    <3>4. e.end[j] \in Int /\ e.start[j + 1] \in Int /\ e.size \in Int
      BY <1>2, <2>1, <3>3, Numbers DEF Numbered
    <3> QED BY <1>e, <3>1, <3>2, <3>4
  <2>3. ReadFrom(r, j) = e.end[j - 1]
    <3>1. CASE j = 1
      BY <1>e, <3>1 DEF ReadFrom
    <3>2. CASE j # 1
      <4>1. j - 1 \in 1 .. n
        BY <1>0, <3>2
      <4> QED BY <1>e, <3>2, <4>1 DEF ReadFrom
    <3> QED BY <3>1, <3>2
  <2> DEFINE u == e.start[j]
             v == e.end[j]
             s == d.start[j]
             t == d.end[j]
             m == a[j]
             z == c.shift[m]
             x == c.end[m]
             y == c.start[m + 1]
  <2>4. m \in 0 .. c.n /\ x <= s /\ t <= y
    BY <1>4, <2>1 DEF Beside
  <2>5. u = s + z /\ v = t + z
    BY <1>6, <2>1
  <2>6. /\ u \in Int /\ v \in Int /\ s \in Int /\ t \in Int /\ z \in Int /\ x \in Int /\ y \in Int
        /\ size \in Int /\ dsize \in Int
    <3>1. m \in Rank(c) /\ m + 1 \in Rank(c)
      BY <1>0, <1>e, <2>4 DEF Rank
    <3>2. /\ u \in Int /\ v \in Int /\ dsize \in Int
      BY <1>2, <1>e, <2>1, Numbers DEF Numbered
    <3>3. s \in Int /\ t \in Int /\ z \in Int /\ x \in Int /\ y \in Int
      BY <1>1, <2>1, <3>1, Numbers DEF Numbered
    <3> QED BY <1>0, <3>2, <3>3
  <2>7. 1 <= u /\ u <= v /\ v <= dsize + 1
    <3>1. 1 <= e.end[j - 1] /\ e.end[j - 1] \in Int
      BY <1>2, <2>1, Between, Numbers DEF Numbered
    <3> QED BY <2>2, <2>6, <3>1
  <2>8. 1 <= s /\ s <= t /\ t <= size + 1
    <3>1. 1 <= d.end[j - 1] /\ d.end[j - 1] <= s /\ s <= t
      BY <1>1, <2>1, Between, NotShrunk
    <3>2. t <= d.start[j + 1] /\ d.start[j + 1] <= d.size + 1
      BY <1>1, <2>1, Between
    <3>3. j + 1 \in Rank(d) /\ j - 1 \in Rank(d)
      BY <1>0, <1>e DEF Rank
    <3>4. d.start[j + 1] \in Int /\ d.end[j - 1] \in Int
      BY <1>1, <3>3, Numbers DEF Numbered
    <3> QED BY SMTT(30), <1>e, <2>6, <3>1, <3>2, <3>4
  <2>9. \A i \in Int : KeptAt(c, m, i) => doc[i] = base[i - z]
    BY <1>1, <2>4 DEF Splices
  <2>10. \A i \in Int : x + z <= i /\ i < y + z => doc[i] = base[i - z]
    BY <2>9 DEF KeptAt
  <2> HIDE DEF u, v, s, t, m, z, x, y
  <2>11. Text(L, Slice(doc, u, v), v - u) /\ \A i \in Int : 1 <= i /\ i <= v - u => Slice(doc, u, v)[i] = doc[u + i - 1]
    BY <1>1, <2>6, <2>7, SliceIs
  <2>12. Text(L, Slice(base, s, t), t - s) /\ \A i \in Int : 1 <= i /\ i <= t - s => Slice(base, s, t)[i] = base[s + i - 1]
    BY <1>t, <2>6, <2>8, SliceIs
  <2>13. v - u = t - s
    BY <2>5, <2>6
  <2>14. ASSUME NEW i \in Int, 1 <= i, i <= t - s
         PROVE  Slice(doc, u, v)[i] = Slice(base, s, t)[i]
    <3>1. u + i - 1 \in Int /\ x + z <= u + i - 1 /\ u + i - 1 < y + z /\ (u + i - 1) - z = s + i - 1
      BY <2>4, <2>5, <2>6, <2>14
    <3>2. doc[u + i - 1] = base[s + i - 1]
      BY <2>10, <3>1
    <3> QED BY <2>11, <2>12, <2>13, <2>14, <3>2
  <2>15. Slice(doc, u, v) = Slice(base, s, t)
    <3>1. Text(L, Slice(doc, u, v), t - s) /\ Text(L, Slice(base, s, t), t - s) /\ t - s \in Int
      BY <2>6, <2>11, <2>12, <2>13
    <3> DEFINE f == Slice(doc, u, v)
               g == Slice(base, s, t)
               l == t - s
    <3>2. \A i \in Int : 1 <= i /\ i <= l => f[i] = g[i]
      BY <2>14
    <3> HIDE DEF f, g, l
    <3> QED BY <3>1, <3>2, SameText DEF f, g, l
  <2> QED BY <1>2, <1>e, <1>q, <2>2, <2>3, <2>15 DEF u, v, s, t
<1> QED BY <1>5, <1>7, Zenon DEF Fits, r, doc

(* One patch applied, then the other moved on top of it.                   *)
LEMMA CombineIs ==
  ASSUME NEW L, Refused \notin Seq(L), NEW p, NEW q, NEW base, NEW sp, NEW sq,
         Pair(L, p, q, base, sp, sq)
  PROVE  LET c == LayoutOf(p, Len(base), sp)
             d == LayoutOf(q, Len(base), sq)
             doc == Combine(base, p, RebasePatch(q, p))
         IN /\ LayoutOK(c) /\ LayoutOK(d)
            /\ Beside(d, c, Aheads(c, d))
            /\ Text(L, doc, (Len(base) + sp[Len(p)]) + sq[Len(q)])
            /\ Splices(c, Inserts(p), base, Apply(p, base))
            /\ Splices(Moved(d, c, Aheads(c, d)), Inserts(q), Apply(p, base), doc)
<1> DEFINE size == Len(base)
           c == LayoutOf(p, size, sp)
           d == LayoutOf(q, size, sq)
           a == Aheads(c, d)
           r == RebasePatch(q, p)
           e == Moved(d, c, a)
           one == Apply(p, base)
           doc == Combine(base, p, r)
           osize == size + sp[Len(p)]
<1>p. /\ p \in Patches(L) /\ q \in Patches(L) /\ base \in Seq(L) /\ Fits(p, base) /\ Fits(q, base)
      /\ Independent(p, q) /\ Sums(p, sp) /\ Sums(q, sq)
  BY DEF Pair
<1>0. size \in Nat
  BY <1>p
<1>1. LayoutOK(c) /\ LayoutOK(d) /\ Text(L, one, osize) /\ Splices(c, Inserts(p), base, one)
  BY <1>p, ApplySplices
<1>2. /\ r \in Patches(L) /\ Len(r) = Len(q) /\ Sums(r, sq) /\ Inserts(r) = Inserts(q)
      /\ LayoutOf(r, osize, sq) = e
  BY RebaseShape
<1>3. Fits(r, one)
  BY RebaseFits
<1>4. one \in Seq(L) /\ Len(one) = osize
  BY <1>1 DEF Text
<1>5. one # Refused
  BY <1>4
<1>6. doc = Apply(r, one)
  BY <1>5 DEF Combine
<1>7. Text(L, Apply(r, one), osize + sq[Len(q)]) /\ Splices(e, Inserts(q), one, Apply(r, one))
  <2> HIDE DEF r, one, e, osize
  <2>1. /\ Text(L, Apply(r, one), Len(one) + sq[Len(r)])
        /\ Splices(LayoutOf(r, Len(one), sq), Inserts(r), one, Apply(r, one))
    BY <1>2, <1>3, <1>4, ApplySplices
  <2> QED BY <1>2, <1>4, <2>1
<1>8. Beside(d, c, a)
  <2>1. Apart(c, d)
    BY <1>0, <1>p, ApartHunks
  <2>l. Laid(c, p, size, sp) /\ Laid(d, q, size, sq)
    BY <1>p, LayoutIs
  <2>2. c.size = d.size
    BY <2>l DEF Laid
  <2> QED BY <1>1, <2>1, <2>2, AheadsBeside
<1> QED BY <1>1, <1>6, <1>7, <1>8

(* I1 for any two patches that fit a base and are independent, whether     *)
(* diff computed them or not: each can be applied, then the other moved    *)
(* on top of it, and the order makes no difference.                        *)
THEOREM OrderIsFree ==
  ASSUME NEW L, Refused \notin Seq(L), NEW p \in Patches(L), NEW q \in Patches(L),
         NEW base \in Seq(L), Fits(p, base), Fits(q, base), Independent(p, q)
  PROVE  /\ Combine(base, p, RebasePatch(q, p)) \in Seq(L)
         /\ Combine(base, p, RebasePatch(q, p)) = Combine(base, q, RebasePatch(p, q))
<1> DEFINE size == Len(base)
           pq == Combine(base, p, RebasePatch(q, p))
           qp == Combine(base, q, RebasePatch(p, q))
<1>s. PICK sp : Sums(p, sp)
  BY SumsExist
<1>t. PICK sq : Sums(q, sq)
  BY SumsExist
<1> DEFINE c == LayoutOf(p, size, sp)
           d == LayoutOf(q, size, sq)
           a == Aheads(c, d)
           b == Aheads(d, c)
<1>i. Independent(q, p)
  BY DEF Independent, HunksConflict
<1>1. Pair(L, p, q, base, sp, sq) /\ Pair(L, q, p, base, sq, sp)
  BY <1>s, <1>t, <1>i DEF Pair
<1>2. /\ LayoutOK(c) /\ LayoutOK(d) /\ Beside(d, c, a)
      /\ Text(L, pq, (size + sp[Len(p)]) + sq[Len(q)])
      /\ Splices(c, Inserts(p), base, Apply(p, base))
      /\ Splices(Moved(d, c, a), Inserts(q), Apply(p, base), pq)
  BY <1>1, CombineIs
<1>3. /\ Beside(c, d, b)
      /\ Text(L, qp, (size + sq[Len(q)]) + sp[Len(p)])
      /\ Splices(d, Inserts(q), base, Apply(q, base))
      /\ Splices(Moved(c, d, b), Inserts(p), Apply(q, base), qp)
  BY <1>1, CombineIs
<1>l. Laid(c, p, size, sp) /\ Laid(d, q, size, sq)
  BY LayoutIs
<1>n. size \in Nat /\ Len(p) \in Nat /\ Len(q) \in Nat
  BY PatchTypes
<1>4. c.size = size /\ d.size = size /\ c.shift[c.n] = sp[Len(p)] /\ d.shift[d.n] = sq[Len(q)]
  <2>1. c.n = Len(p) /\ d.n = Len(q) /\ c.size = size /\ d.size = size
    BY <1>l DEF Laid
  <2>2. \A k \in 0 .. Len(p) : c.shift[k] = sp[k]
    BY <1>l DEF Laid
  <2>3. \A k \in 0 .. Len(q) : d.shift[k] = sq[k]
    BY <1>l DEF Laid
  <2>4. Len(p) \in 0 .. Len(p) /\ Len(q) \in 0 .. Len(q)
    BY <1>n
  <2> QED BY <2>1, <2>2, <2>3, <2>4
<1>5. Crossing(c, d, a, b)
  <2>1. Apart(c, d) /\ Apart(d, c)
    BY <1>n, <1>s, <1>t, ApartHunks
  <2> QED BY <1>2, <1>4, <2>1, AheadsCross
<1>6. sp[Len(p)] \in Int /\ sq[Len(q)] \in Int
  <2>1. sp[Len(p)] \in Int
    BY <1>n, <1>s DEF Sums
  <2>2. sq[Len(q)] \in Int
    BY <1>n, <1>t DEF Sums
  <2> QED BY <2>1, <2>2
<1> DEFINE l == (size + sp[Len(p)]) + sq[Len(q)]
<1>7. (size + sq[Len(q)]) + sp[Len(p)] = l /\ l \in Int
  BY <1>6, <1>n
<1>8. \A x \in 1 .. l : pq[x] = qp[x]
  <2>1. c.size + c.shift[c.n] + d.shift[d.n] = l
    BY <1>4
  <2> HIDE DEF c, d, a, b, pq, qp, l
  <2> QED BY <1>2, <1>3, <1>4, <1>5, <2>1, SwapLine
<1>9. Text(L, pq, l) /\ Text(L, qp, l)
  BY <1>2, <1>3, <1>7
<1> HIDE DEF pq, qp, l
<1>10. pq = qp
  <2>1. \A x \in Int : 1 <= x /\ x <= l => pq[x] = qp[x]
    BY <1>7, <1>8
  <2> QED BY <1>7, <1>9, <2>1, SameText
<1>11. pq \in Seq(L)
  BY <1>9 DEF Text
<1> QED BY <1>10, <1>11 DEF pq, qp

-----------------------------------------------------------------------------
(* The matches that diff is computed from.                                 *)

Places(a, b) == (1 .. Len(a) + 1) \X (1 .. Len(b) + 1)

(* One step of the walk of LcsMatches.                                     *)
Onward(from, a, b, len, at) ==
              LET i == at[1]
                  j == at[2]
              IN IF i > Len(a) \/ j > Len(b) THEN <<>>
                 ELSE IF a[i] = b[j] THEN <<<<i, j>>>> \o from[<<i + 1, j + 1>>]
                 ELSE IF len[i + 1][j] >= len[i][j + 1] THEN from[<<i + 1, j>>]
                 ELSE from[<<i, j + 1>>]

Walks(from, a, b, len) ==
  from = [at \in Places(a, b) |-> Onward(from, a, b, len, at)]

Walk(a, b, len) == CHOOSE from : Walks(from, a, b, len)

(* LcsMatches is the walk from the first lines on.                         *)
LEMMA MatchesWalk ==
  ASSUME NEW a, NEW b
  PROVE  LcsMatches(a, b) = Walk(a, b, LcsLength(a, b))[<<1, 1>>]
BY DEF LcsMatches, Walk, Walks, Onward, Places

(* The recursion of LcsMatches is well defined.                            *)
LEMMA WalkWalks ==
  ASSUME NEW a, NEW b, NEW len, NEW f, Walks(f, a, b, len)
  PROVE  Walks(Walk(a, b, len), a, b, len)
BY Zenon DEF Walk

(* How far a place is from the ends of a and b.                            *)
Distance(a, b, at) == (Len(a) + 1 - at[1]) + (Len(b) + 1 - at[2])

Pairs == Seq(Nat \X Nat)

(* At a place, the walk depends only on places nearer to the ends.         *)
Nearer(f, g, a, b, at) ==
  \A to \in Places(a, b) : Distance(a, b, to) < Distance(a, b, at) => f[to] = g[to]

(* A place is two line numbers, each at most one past the end.             *)
LEMMA PlaceIs ==
  ASSUME NEW L, NEW a \in Seq(L), NEW b \in Seq(L), NEW at \in Places(a, b)
  PROVE  /\ Len(a) \in Nat /\ Len(b) \in Nat /\ Distance(a, b, at) \in 0 .. Len(a) + Len(b)
         /\ at[1] \in Nat \ {0} /\ at[2] \in Nat \ {0} /\ at = <<at[1], at[2]>>
         /\ at[1] <= Len(a) + 1 /\ at[2] <= Len(b) + 1
<1>1. Len(a) \in Nat /\ Len(b) \in Nat
  OBVIOUS
<1>2. at[1] \in 1 .. Len(a) + 1 /\ at[2] \in 1 .. Len(b) + 1 /\ at = <<at[1], at[2]>>
  BY DEF Places
<1> DEFINE n == Len(a)
           m == Len(b)
           i == at[1]
           j == at[2]
<1>3. n \in Nat /\ m \in Nat /\ i \in 1 .. n + 1 /\ j \in 1 .. m + 1 /\ Distance(a, b, at) = (n + 1 - i) + (m + 1 - j)
  BY <1>1, <1>2 DEF Distance
<1> HIDE DEF n, m, i, j
<1>4. /\ (n + 1 - i) + (m + 1 - j) \in 0 .. n + m /\ i \in Nat \ {0} /\ j \in Nat \ {0}
      /\ i <= n + 1 /\ j <= m + 1
  BY <1>3
<1> QED BY <1>1, <1>2, <1>3, <1>4 DEF n, m, i, j

(* The places that the walk goes on to are nearer to the ends.             *)
LEMMA PlaceNext ==
  ASSUME NEW L, NEW a \in Seq(L), NEW b \in Seq(L), NEW at \in Places(a, b),
         at[1] <= Len(a), at[2] <= Len(b)
  PROVE  /\ <<at[1] + 1, at[2] + 1>> \in Places(a, b)
         /\ <<at[1] + 1, at[2]>> \in Places(a, b) /\ <<at[1], at[2] + 1>> \in Places(a, b)
         /\ Distance(a, b, <<at[1] + 1, at[2] + 1>>) < Distance(a, b, at)
         /\ Distance(a, b, <<at[1] + 1, at[2]>>) < Distance(a, b, at)
         /\ Distance(a, b, <<at[1], at[2] + 1>>) < Distance(a, b, at)
<1> DEFINE n == Len(a)
           m == Len(b)
           i == at[1]
           j == at[2]
<1>1. n \in Nat /\ m \in Nat /\ i \in Nat \ {0} /\ j \in Nat \ {0} /\ i <= n /\ j <= m
  BY PlaceIs
<1>2. Distance(a, b, at) = (n + 1 - i) + (m + 1 - j)
  BY DEF Distance
<1>3. /\ Distance(a, b, <<i + 1, j + 1>>) = (n + 1 - (i + 1)) + (m + 1 - (j + 1))
      /\ Distance(a, b, <<i + 1, j>>) = (n + 1 - (i + 1)) + (m + 1 - j)
      /\ Distance(a, b, <<i, j + 1>>) = (n + 1 - i) + (m + 1 - (j + 1))
  BY DEF Distance
<1>p. Places(a, b) = (1 .. n + 1) \X (1 .. m + 1)
  BY DEF Places
<1> HIDE DEF n, m, i, j
<1>4. i \in 1 .. n + 1 /\ j \in 1 .. m + 1 /\ i + 1 \in 1 .. n + 1 /\ j + 1 \in 1 .. m + 1
  BY <1>1
<1>5. /\ <<i + 1, j + 1>> \in Places(a, b) /\ <<i + 1, j>> \in Places(a, b) /\ <<i, j + 1>> \in Places(a, b)
  BY <1>4, <1>p
<1>6. /\ (n + 1 - (i + 1)) + (m + 1 - (j + 1)) < (n + 1 - i) + (m + 1 - j)
      /\ (n + 1 - (i + 1)) + (m + 1 - j) < (n + 1 - i) + (m + 1 - j)
      /\ (n + 1 - i) + (m + 1 - (j + 1)) < (n + 1 - i) + (m + 1 - j)
  BY <1>1
<1> QED BY <1>2, <1>3, <1>5, <1>6 DEF i, j

(* A step of the walk looks at nearer places only.                         *)
LEMMA OnwardNearer ==
  ASSUME NEW L, NEW a \in Seq(L), NEW b \in Seq(L), NEW len, NEW at \in Places(a, b),
         NEW f, NEW g, Nearer(f, g, a, b, at)
  PROVE  Onward(f, a, b, len, at) = Onward(g, a, b, len, at)
<1>1. CASE at[1] > Len(a) \/ at[2] > Len(b)
  BY <1>1 DEF Onward
<1>2. CASE ~ (at[1] > Len(a) \/ at[2] > Len(b))
  <2>1. at[1] <= Len(a) /\ at[2] <= Len(b)
    BY <1>2, PlaceIs
  <2>2. /\ f[<<at[1] + 1, at[2] + 1>>] = g[<<at[1] + 1, at[2] + 1>>]
        /\ f[<<at[1] + 1, at[2]>>] = g[<<at[1] + 1, at[2]>>]
        /\ f[<<at[1], at[2] + 1>>] = g[<<at[1], at[2] + 1>>]
    BY <2>1, PlaceNext DEF Nearer
  <2> QED BY <1>2, <2>2 DEF Onward
<1> QED BY <1>1, <1>2

(* A step of the walk answers pairs.                                       *)
LEMMA OnwardType ==
  ASSUME NEW L, NEW a \in Seq(L), NEW b \in Seq(L), NEW len, NEW at \in Places(a, b),
         NEW f \in [Places(a, b) -> Pairs]
  PROVE  Onward(f, a, b, len, at) \in Pairs
<1>1. CASE at[1] > Len(a) \/ at[2] > Len(b)
  <2>1. <<>> \in Pairs
    BY DEF Pairs
  <2> QED BY <1>1, <2>1 DEF Onward
<1>2. CASE ~ (at[1] > Len(a) \/ at[2] > Len(b))
  <2>1. at[1] <= Len(a) /\ at[2] <= Len(b)
    BY <1>2, PlaceIs
  <2>2. /\ f[<<at[1] + 1, at[2] + 1>>] \in Pairs
        /\ f[<<at[1] + 1, at[2]>>] \in Pairs
        /\ f[<<at[1], at[2] + 1>>] \in Pairs
    BY <2>1, PlaceNext
  <2>3. <<<<at[1], at[2]>>>> \o f[<<at[1] + 1, at[2] + 1>>] \in Pairs
    <3>1. <<<<at[1], at[2]>>>> \in Pairs
      BY PlaceIs DEF Pairs
    <3> DEFINE s == <<<<at[1], at[2]>>>>
               t == f[<<at[1] + 1, at[2] + 1>>]
    <3>2. s \in Pairs /\ t \in Pairs
      BY <2>2, <3>1
    <3> HIDE DEF s, t
    <3>3. s \o t \in Pairs
      BY <3>2, ConcatProperties DEF Pairs
    <3> QED BY <3>3 DEF s, t
  <2> QED BY <1>2, <2>2, <2>3 DEF Onward
<1> QED BY <1>1, <1>2

(* A function that satisfies the recursion of LcsMatches exists: it is     *)
(* built from the ends, place by place.                                    *)
LEMMA WalksExist ==
  ASSUME NEW L, NEW a \in Seq(L), NEW b \in Seq(L), NEW len
  PROVE  \E f : Walks(f, a, b, len)
<1> DEFINE P == Places(a, b)
           X == [P -> Pairs]
           n == Len(a) + Len(b)
           Near(at, k) == Distance(a, b, at) <= k
           More(f, k) == [at \in P |-> IF Near(at, k) THEN Onward(f, a, b, len, at) ELSE <<>>]
           F == [x \in X \X (1 .. n + 1) |-> More(x[1], x[2] - 1)]
           empty == [at \in P |-> <<>>]
<1>1. n + 1 \in Nat /\ \A at \in P : Distance(a, b, at) \in 0 .. n
  BY PlaceIs
<1>2. empty \in X
  BY DEF Pairs
<1>3. \A f \in X : \A k \in Int : More(f, k) \in X
  <2>1. ASSUME NEW f \in X, NEW k \in Int PROVE More(f, k) \in X
    <3>1. \A at \in P : Onward(f, a, b, len, at) \in Pairs
      BY OnwardType
    <3>2. <<>> \in Pairs
      BY DEF Pairs
    <3> HIDE DEF P, Near
    <3> QED BY <3>1, <3>2
  <2> QED BY <2>1
<1>4. \A f : \A k : \A at \in P : More(f, k)[at] = IF Near(at, k) THEN Onward(f, a, b, len, at) ELSE <<>>
  <2> HIDE DEF P, Near
  <2> QED OBVIOUS
<1>5. \A f \in X : \A k \in 1 .. n + 1 : F[<<f, k>>] = More(f, k - 1)
  <2> HIDE DEF X, More, n
  <2> QED OBVIOUS
<1>6. F \in [X \X (1 .. n + 1) -> X]
  <2>1. \A x \in X \X (1 .. n + 1) : More(x[1], x[2] - 1) \in X
    <3> HIDE DEF X, More
    <3>1. ASSUME NEW x \in X \X (1 .. n + 1) PROVE More(x[1], x[2] - 1) \in X
      <4>1. x[1] \in X /\ x[2] \in 1 .. n + 1
        OBVIOUS
      <4>2. x[2] - 1 \in Int
        BY <4>1
      <4> QED BY <1>3, <4>1, <4>2
    <3> QED BY <3>1
  <2> HIDE DEF X, More, n
  <2> QED BY <2>1
<1> HIDE DEF F, empty, X
<1>7. PICK f : Follows(f, n + 1, X, empty, F)
  <2> DEFINE nn == n + 1
  <2>1. nn \in Nat
    BY <1>1
  <2>2. F \in [X \X (1 .. nn) -> X]
    BY <1>6
  <2> HIDE DEF nn
  <2>3. \E f : Follows(f, nn, X, empty, F)
    BY <1>2, <2>1, <2>2, Recursion
  <2> QED BY <2>3 DEF nn
<1> HIDE DEF n, More
<1>8. /\ \A k \in 0 .. n + 1 : f[k] \in X
      /\ \A k \in 1 .. n + 1 : f[k] = More(f[k - 1], k - 1)
  <2>1. f \in [0 .. n + 1 -> X] /\ \A k \in 1 .. n + 1 : f[k] = F[<<f[k - 1], k>>]
    BY <1>7 DEF Follows
  <2>2. \A k \in 1 .. n + 1 : k - 1 \in 0 .. n + 1
    BY <1>1
  <2> QED BY <1>5, <2>1, <2>2
<1>n. n \in Nat
  BY DEF n
(* Once a value is set it stays.                                           *)
<1> DEFINE S == {k \in 0 .. n : \A at \in P : Near(at, k - 1) => f[k + 1][at] = f[k][at]}
<1>9. ASSUME NEW k \in 1 .. n + 1, NEW at \in P, Near(at, k - 1)
      PROVE  f[k][at] = Onward(f[k - 1], a, b, len, at)
  BY <1>4, <1>8, <1>9
<1>10. 0 \in S
  <2>1. \A at \in P : ~ Near(at, 0 - 1)
    BY <1>1
  <2> QED BY <1>n, <2>1
<1>11. ASSUME NEW k \in 0 .. n - 1, k \in S PROVE k + 1 \in S
  <2>1. ASSUME NEW at \in P, Near(at, k) PROVE f[k + 2][at] = f[k + 1][at]
    <3>1. k + 2 \in 1 .. n + 1 /\ k + 1 \in 1 .. n + 1 /\ (k + 2) - 1 = k + 1 /\ (k + 1) - 1 = k /\ k \in 0 .. n
      BY <1>n
    <3>2. Near(at, k + 1)
      BY <1>1, <2>1
    <3>3. f[k + 2][at] = Onward(f[k + 1], a, b, len, at)
      BY <1>9, <3>1, <3>2
    <3>4. f[k + 1][at] = Onward(f[k], a, b, len, at)
      BY <1>9, <2>1, <3>1
    <3>5. Nearer(f[k + 1], f[k], a, b, at)
      <4>1. ASSUME NEW to \in P, Distance(a, b, to) < Distance(a, b, at) PROVE f[k + 1][to] = f[k][to]
        <5>1. Near(to, k - 1)
          BY <1>1, <2>1, <4>1
        <5> QED BY <1>11, <5>1
      <4> QED BY <4>1 DEF Nearer
    <3>6. Onward(f[k + 1], a, b, len, at) = Onward(f[k], a, b, len, at)
      BY <3>5, OnwardNearer
    <3> QED BY <3>3, <3>4, <3>6
  <2>2. k + 1 \in 0 .. n /\ (k + 1) - 1 = k /\ (k + 1) + 1 = k + 2
    BY <1>n
  <2> HIDE DEF P, Near
  <2> QED BY <2>1, <2>2
<1>12. n \in S
  <2> HIDE DEF S, P, Near
  <2>1. \A k \in 0 .. n - 1 : k \in S => k + 1 \in S
    BY <1>11
  <2>2. \A k \in 0 .. n : k \in S
    BY <1>n, <1>10, <2>1, UpTo
  <2> QED BY <1>n, <2>2
<1> DEFINE g == f[n + 1]
<1>13. ASSUME NEW at \in P PROVE g[at] = Onward(g, a, b, len, at)
  <2>1. n + 1 \in 1 .. n + 1 /\ (n + 1) - 1 = n
    BY <1>n
  <2>2. Near(at, n)
    BY <1>1, <1>n
  <2>3. g[at] = Onward(f[n], a, b, len, at)
    BY <1>9, <2>1, <2>2
  <2>4. Nearer(f[n], g, a, b, at)
    <3>1. ASSUME NEW to \in P, Distance(a, b, to) < Distance(a, b, at) PROVE f[n][to] = g[to]
      <4>1. Near(to, n - 1)
        BY <1>1, <1>n, <2>2, <3>1
      <4> QED BY <1>12, <4>1
    <3> QED BY <3>1 DEF Nearer
  <2>5. Onward(f[n], a, b, len, at) = Onward(g, a, b, len, at)
    BY <2>4, OnwardNearer
  <2> QED BY <2>3, <2>5
<1>14. g \in [P -> Pairs]
  <2>1. n + 1 \in 0 .. n + 1
    BY <1>n
  <2> QED BY <1>8, <2>1 DEF X
<1>15. Walks(g, a, b, len)
  <2> HIDE DEF g
  <2> QED BY <1>13, <1>14 DEF Walks
<1> QED BY <1>15

(* Pairs of equal lines from a place on, each after the one before.        *)
Matching(a, b, s, at) ==
  /\ s \in Pairs
  /\ \A k \in 1 .. Len(s) :
       /\ at[1] <= s[k][1] /\ s[k][1] <= Len(a)
       /\ at[2] <= s[k][2] /\ s[k][2] <= Len(b)
       /\ a[s[k][1]] = b[s[k][2]]
       /\ k > 1 => s[k - 1][1] < s[k][1] /\ s[k - 1][2] < s[k][2]

(* What sequences of pairs are made of.                                    *)
LEMMA PairsAre ==
  ASSUME NEW s \in Pairs
  PROVE  Len(s) \in Nat /\ \A k \in 1 .. Len(s) : s[k] \in Nat \X Nat /\ s[k][1] \in Nat /\ s[k][2] \in Nat
<1>1. Len(s) \in Nat /\ \A k \in 1 .. Len(s) : s[k] \in Nat \X Nat
  BY DEF Pairs
<1> QED BY <1>1

(* What matches from a place on matches from any earlier one.              *)
LEMMA MatchingLater ==
  ASSUME NEW a, NEW b, NEW s, NEW at, NEW to, Matching(a, b, s, to),
         at[1] \in Nat, at[2] \in Nat, to[1] \in Nat, to[2] \in Nat, at[1] <= to[1], at[2] <= to[2]
  PROVE  Matching(a, b, s, at)
<1>1. s \in Pairs /\ Len(s) \in Nat /\ \A k \in 1 .. Len(s) : s[k][1] \in Nat /\ s[k][2] \in Nat
  BY PairsAre DEF Matching
<1>2. ASSUME NEW k \in 1 .. Len(s)
      PROVE  at[1] <= s[k][1] /\ at[2] <= s[k][2]
  <2>1. to[1] <= s[k][1] /\ to[2] <= s[k][2]
    BY DEF Matching
  <2>2. s[k][1] \in Nat /\ s[k][2] \in Nat
    BY <1>1
  <2> QED BY <2>1, <2>2
<1> QED BY <1>2 DEF Matching

(* A pair before a sequence of pairs.                                      *)
LEMMA PairsCons ==
  ASSUME NEW s \in Pairs, NEW p \in Nat \X Nat
  PROVE  /\ <<p>> \o s \in Pairs /\ Len(<<p>> \o s) = Len(s) + 1 /\ (<<p>> \o s)[1] = p
         /\ \A k \in 2 .. Len(s) + 1 : (<<p>> \o s)[k] = s[k - 1]
<1> DEFINE h == <<p>>
           c == h \o s
           n == Len(s)
<1>1. h \in Seq(Nat \X Nat) /\ s \in Seq(Nat \X Nat) /\ Len(h) = 1 /\ h[1] = p /\ n \in Nat
  BY PairsAre DEF Pairs
<1>2. c \in Seq(Nat \X Nat) /\ Len(c) = Len(h) + Len(s)
      /\ \A i \in 1 .. Len(h) + Len(s) : c[i] = IF i <= Len(h) THEN h[i] ELSE s[i - Len(h)]
  <2> HIDE DEF h
  <2> QED BY <1>1, ConcatProperties
<1> HIDE DEF h, c
<1>3. Len(c) = 1 + n /\ \A i \in 1 .. 1 + n : c[i] = IF i <= 1 THEN h[i] ELSE s[i - 1]
  BY <1>1, <1>2
<1> HIDE DEF n
<1>4. Len(c) = n + 1 /\ c[1] = p
  <2>1. 1 \in 1 .. 1 + n /\ 1 <= 1 /\ 1 + n = n + 1
    BY <1>1
  <2> QED BY <1>1, <1>3, <2>1
<1>5. \A k \in 2 .. n + 1 : c[k] = s[k - 1]
  <2>1. \A k \in 2 .. n + 1 : k \in 1 .. 1 + n /\ ~ (k <= 1)
    BY <1>1
  <2> QED BY <1>3, <2>1
<1> QED BY <1>2, <1>4, <1>5 DEF c, h, n, Pairs

(* Two equal lines before a matching of what follows them.                 *)
LEMMA MatchingCons ==
  ASSUME NEW a, NEW b, NEW s, NEW at, at[1] \in Nat, at[2] \in Nat, Len(a) \in Nat, Len(b) \in Nat,
         Matching(a, b, s, <<at[1] + 1, at[2] + 1>>),
         at[1] <= Len(a), at[2] <= Len(b), a[at[1]] = b[at[2]]
  PROVE  Matching(a, b, <<<<at[1], at[2]>>>> \o s, at)
<1> DEFINE i == at[1]
           j == at[2]
           p == <<i, j>>
           c == <<p>> \o s
           n == Len(s)
<1>1. s \in Pairs /\ n \in Nat /\ \A k \in 1 .. n : s[k][1] \in Nat /\ s[k][2] \in Nat
  BY PairsAre DEF Matching
<1>p. p \in Nat \X Nat /\ p[1] = i /\ p[2] = j
  OBVIOUS
<1>2. c \in Pairs /\ Len(c) = n + 1 /\ c[1] = p /\ \A k \in 2 .. n + 1 : c[k] = s[k - 1]
  <2> HIDE DEF p
  <2> QED BY <1>1, <1>p, PairsCons
<1>3. \A k \in 1 .. n :
        /\ i + 1 <= s[k][1] /\ s[k][1] <= Len(a) /\ j + 1 <= s[k][2] /\ s[k][2] <= Len(b)
        /\ a[s[k][1]] = b[s[k][2]]
        /\ k > 1 => s[k - 1][1] < s[k][1] /\ s[k - 1][2] < s[k][2]
  BY DEF Matching
<1>t. i \in Nat /\ j \in Nat /\ i <= Len(a) /\ j <= Len(b) /\ a[i] = b[j]
  OBVIOUS
<1> HIDE DEF c, n, p, i, j
<1>4. ASSUME NEW k \in 1 .. n + 1
      PROVE  /\ i <= c[k][1] /\ c[k][1] <= Len(a) /\ j <= c[k][2] /\ c[k][2] <= Len(b)
             /\ a[c[k][1]] = b[c[k][2]]
             /\ k > 1 => c[k - 1][1] < c[k][1] /\ c[k - 1][2] < c[k][2]
  <2>1. CASE k = 1
    BY <1>2, <1>p, <1>t, <2>1
  <2>2. CASE k # 1
    <3>1. k \in 2 .. n + 1 /\ k - 1 \in 1 .. n
      BY <1>1, <2>2
    <3>2. c[k] = s[k - 1]
      BY <1>2, <3>1
    <3>3. /\ i + 1 <= s[k - 1][1] /\ s[k - 1][1] <= Len(a) /\ j + 1 <= s[k - 1][2] /\ s[k - 1][2] <= Len(b)
          /\ a[s[k - 1][1]] = b[s[k - 1][2]] /\ s[k - 1][1] \in Nat /\ s[k - 1][2] \in Nat
      BY <1>1, <1>3, <3>1
    <3>5. i <= s[k - 1][1] /\ j <= s[k - 1][2] /\ i < s[k - 1][1] /\ j < s[k - 1][2]
      <4> DEFINE u == s[k - 1][1]
                 v == s[k - 1][2]
      <4>1. u \in Nat /\ v \in Nat /\ i \in Nat /\ j \in Nat /\ i + 1 <= u /\ j + 1 <= v
        BY <1>t, <3>3
      <4> HIDE DEF u, v
      <4>2. i <= u /\ j <= v /\ i < u /\ j < v
        BY <4>1
      <4> QED BY <4>2 DEF u, v
    <3>4. c[k - 1][1] < s[k - 1][1] /\ c[k - 1][2] < s[k - 1][2]
      <4>1. CASE k = 2
        <5>1. c[k - 1] = p
          BY <1>2, <4>1
        <5> QED BY <1>p, <3>5, <5>1
      <4>2. CASE k # 2
        <5>1. k - 1 \in 2 .. n + 1 /\ k - 1 > 1 /\ (k - 1) - 1 \in 1 .. n
          BY <1>1, <3>1, <4>2
        <5>2. c[k - 1] = s[(k - 1) - 1]
          BY <1>2, <5>1
        <5> QED BY <1>3, <3>1, <5>1, <5>2
      <4> QED BY <4>1, <4>2
    <3> QED BY <3>2, <3>3, <3>4, <3>5
  <2> QED BY <2>1, <2>2
<1>5. Matching(a, b, c, at)
  BY <1>2, <1>4 DEF Matching, i, j
<1> QED BY <1>5 DEF c, p, i, j

(* The walk from any place is a matching from there, whatever lengths it   *)
(* is led by.                                                              *)
LEMMA WalkMatches ==
  ASSUME NEW L, NEW a \in Seq(L), NEW b \in Seq(L), NEW len, NEW f, Walks(f, a, b, len)
  PROVE  Matching(a, b, f[<<1, 1>>], <<1, 1>>)
<1> DEFINE n == Len(a) + Len(b)
           S == {k \in 0 .. n + 1 : \A at \in Places(a, b) : Distance(a, b, at) < k => Matching(a, b, f[at], at)}
<1>n. n \in Nat /\ Len(a) \in Nat /\ Len(b) \in Nat /\ \A at \in Places(a, b) : Distance(a, b, at) \in 0 .. n
  BY PlaceIs
<1>1. 0 \in S
  BY <1>n
<1>2. ASSUME NEW k \in 0 .. (n + 1) - 1, k \in S PROVE k + 1 \in S
  <2>1. ASSUME NEW at \in Places(a, b), Distance(a, b, at) < k + 1 PROVE Matching(a, b, f[at], at)
    <3>1. f[at] = Onward(f, a, b, len, at)
      BY DEF Walks
    <3>2. ASSUME NEW to \in Places(a, b), Distance(a, b, to) < Distance(a, b, at) PROVE Matching(a, b, f[to], to)
      <4>1. Distance(a, b, to) < k
        BY <1>n, <2>1, <3>2
      <4> QED BY <1>2, <4>1
    <3>3. CASE at[1] > Len(a) \/ at[2] > Len(b)
      <4>1. f[at] = <<>>
        BY <3>1, <3>3 DEF Onward
      <4>2. Matching(a, b, <<>>, at)
        BY DEF Matching, Pairs
      <4> QED BY <4>1, <4>2
    <3>4. CASE ~ (at[1] > Len(a) \/ at[2] > Len(b))
      <4>1. at[1] \in Nat /\ at[2] \in Nat /\ at[1] <= Len(a) /\ at[2] <= Len(b)
        BY <3>4, PlaceIs
      <4>2. /\ Matching(a, b, f[<<at[1] + 1, at[2] + 1>>], <<at[1] + 1, at[2] + 1>>)
            /\ Matching(a, b, f[<<at[1] + 1, at[2]>>], <<at[1] + 1, at[2]>>)
            /\ Matching(a, b, f[<<at[1], at[2] + 1>>], <<at[1], at[2] + 1>>)
        BY <3>2, <4>1, PlaceNext
      <4>3. CASE a[at[1]] = b[at[2]]
        <5>1. f[at] = <<<<at[1], at[2]>>>> \o f[<<at[1] + 1, at[2] + 1>>]
          BY <3>1, <3>4, <4>3 DEF Onward
        <5>2. Matching(a, b, <<<<at[1], at[2]>>>> \o f[<<at[1] + 1, at[2] + 1>>], at)
          <6> DEFINE s == f[<<at[1] + 1, at[2] + 1>>]
          <6>1. Matching(a, b, s, <<at[1] + 1, at[2] + 1>>)
            BY <4>2
          <6> HIDE DEF s
          <6>2. Matching(a, b, <<<<at[1], at[2]>>>> \o s, at)
            BY <1>n, <4>1, <4>3, <6>1, MatchingCons
          <6> QED BY <6>2 DEF s
        <5> QED BY <5>1, <5>2
      <4>4. CASE a[at[1]] # b[at[2]]
        <5>1. f[at] = f[<<at[1] + 1, at[2]>>] \/ f[at] = f[<<at[1], at[2] + 1>>]
          BY <3>1, <3>4, <4>4 DEF Onward
        <5>2. CASE f[at] = f[<<at[1] + 1, at[2]>>]
          <6> DEFINE to == <<at[1] + 1, at[2]>>
          <6>1. to[1] \in Nat /\ to[2] \in Nat /\ at[1] <= to[1] /\ at[2] <= to[2] /\ Matching(a, b, f[at], to)
            BY <4>1, <4>2, <5>2
          <6> HIDE DEF to
          <6> QED BY <4>1, <6>1, MatchingLater
        <5>3. CASE f[at] = f[<<at[1], at[2] + 1>>]
          <6> DEFINE to == <<at[1], at[2] + 1>>
          <6>1. to[1] \in Nat /\ to[2] \in Nat /\ at[1] <= to[1] /\ at[2] <= to[2] /\ Matching(a, b, f[at], to)
            BY <4>1, <4>2, <5>3
          <6> HIDE DEF to
          <6> QED BY <4>1, <6>1, MatchingLater
        <5> QED BY <5>1, <5>2, <5>3
      <4> QED BY <4>3, <4>4
    <3> QED BY <3>3, <3>4
  <2>2. k + 1 \in 0 .. n + 1
    BY <1>n
  <2> QED BY <2>1, <2>2
<1>3. n + 1 \in S
  <2> DEFINE nn == n + 1
  <2>1. nn \in Nat /\ \A k \in 0 .. nn - 1 : k \in S => k + 1 \in S
    BY <1>2, <1>n
  <2> HIDE DEF S, nn
  <2>2. \A k \in 0 .. nn : k \in S
    BY <1>1, <2>1, UpTo
  <2> QED BY <2>1, <2>2 DEF nn
<1>4. <<1, 1>> \in Places(a, b)
  BY <1>n DEF Places
<1> QED BY <1>3, <1>4, <1>n

(* LcsMatches pairs equal lines, in the order of both documents.           *)
LEMMA MatchesMatch ==
  ASSUME NEW L, NEW a \in Seq(L), NEW b \in Seq(L)
  PROVE  Matching(a, b, LcsMatches(a, b), <<1, 1>>)
<1> DEFINE len == LcsLength(a, b)
<1> HIDE DEF len
<1>1. Walks(Walk(a, b, len), a, b, len)
  BY WalksExist, WalkWalks
<1>2. Matching(a, b, Walk(a, b, len)[<<1, 1>>], <<1, 1>>)
  BY <1>1, WalkMatches
<1> QED BY <1>2, MatchesWalk DEF len

-----------------------------------------------------------------------------
(* Diff: hunks between the matches turn the base into the target.          *)

(* From one line of b up to another, t has the same lines z further on.    *)
Same(b, t, z, from, to) == \A x \in Int : from <= x /\ x < to => b[x] = t[x + z]

(* Hunk m of h turns its lines of b into those of t.                       *)
HunkTurns(h, sum, b, t, m) ==
  /\ ReadFrom(h, m) <= h[m].start /\ HunkEnd(h[m]) <= Len(b) + 1
  /\ Slice(b, h[m].start, HunkEnd(h[m])) = h[m].remove
  /\ h[m].insert = Slice(t, h[m].start + sum[m - 1], HunkEnd(h[m]) + sum[m])
  /\ 1 <= h[m].start + sum[m - 1] /\ HunkEnd(h[m]) + sum[m] <= Len(t) + 1
  /\ Same(b, t, sum[m - 1], ReadFrom(h, m), h[m].start)

(* Before line u of b and line v of t, h turns the one into the other.     *)
Aligned(L, h, sum, b, t, u, v) ==
  /\ h \in Patches(L) /\ Sums(h, sum)
  /\ u \in Nat /\ v \in Nat /\ 1 <= u /\ u <= Len(b) + 1 /\ 1 <= v /\ v <= Len(t) + 1
  /\ u + sum[Len(h)] = v
  /\ ReadFrom(h, Len(h) + 1) <= u
  /\ \A m \in 1 .. Len(h) : HunkTurns(h, sum, b, t, m)
  /\ Same(b, t, sum[Len(h)], ReadFrom(h, Len(h) + 1), u)

(* The sums of a patch are numbers.                                        *)
LEMMA SumTypes ==
  ASSUME NEW L, NEW h \in Patches(L), NEW sum, Sums(h, sum)
  PROVE  sum[0] = 0 /\ sum[Len(h)] \in Int /\ \A m \in 1 .. Len(h) : sum[m] \in Int /\ sum[m - 1] \in Int
<1> DEFINE n == Len(h)
<1>1. n \in Nat
  BY PatchTypes
<1>2. sum[0] = 0 /\ \A k \in 0 .. n : sum[k] \in Int
  BY DEF Sums
<1> HIDE DEF n
<1>3. n \in 0 .. n
  BY <1>1
<1>4. \A m \in 1 .. n : m \in 0 .. n /\ m - 1 \in 0 .. n
  BY <1>1
<1>5. sum[0] = 0 /\ sum[n] \in Int /\ \A m \in 1 .. n : sum[m] \in Int /\ sum[m - 1] \in Int
  BY <1>2, <1>3, <1>4
<1> QED BY <1>5 DEF n

(* Where apply has read to is a line number.                               *)
LEMMA ReadFromType ==
  ASSUME NEW L, NEW h \in Patches(L), NEW m \in 1 .. Len(h) + 1
  PROVE  ReadFrom(h, m) \in Nat
<1>1. Len(h) \in Nat
  BY PatchTypes
<1>2. CASE m = 1
  BY <1>2 DEF ReadFrom
<1>3. CASE m # 1
  <2>1. m - 1 \in 1 .. Len(h)
    BY <1>1, <1>3
  <2>2. HunkEnd(h[m - 1]) \in Nat
    BY <2>1, PatchTypes, HunkTypes
  <2> QED BY <1>3, <2>2 DEF ReadFrom
<1> QED BY <1>2, <1>3

(* Nothing was compared.                                                   *)
LEMMA AlignedFirst ==
  ASSUME NEW L, NEW b \in Seq(L), NEW t \in Seq(L)
  PROVE  \E sum : Aligned(L, <<>>, sum, b, t, 1, 1)
<1> DEFINE sum == [k \in 0 .. 0 |-> 0]
           h == <<>>
<1>1. h \in Patches(L) /\ Len(h) = 0
  BY DEF Patches
<1>2. Sums(h, sum) /\ sum[0] = 0
  BY <1>1 DEF Sums
<1>3. ReadFrom(h, 0 + 1) = 1
  BY DEF ReadFrom
<1>4. Len(b) \in Nat /\ Len(t) \in Nat
  OBVIOUS
<1>5. Same(b, t, 0, 1, 1)
  BY DEF Same
<1> HIDE DEF sum, h
<1>6. 1 <= Len(b) + 1 /\ 1 <= Len(t) + 1 /\ 1 \in Nat /\ 1 + 0 = 1
  BY <1>4
<1>7. \A m \in 1 .. Len(h) : HunkTurns(h, sum, b, t, m)
  BY <1>1
<1>8. Aligned(L, h, sum, b, t, 1, 1)
  BY <1>1, <1>2, <1>3, <1>5, <1>6, <1>7 DEF Aligned
<1> QED BY <1>8 DEF h

(* The next lines are equal.                                               *)
LEMMA AlignedMatch ==
  ASSUME NEW L, NEW b \in Seq(L), NEW t \in Seq(L), NEW h, NEW sum, NEW u, NEW v,
         Aligned(L, h, sum, b, t, u, v), u <= Len(b), v <= Len(t), b[u] = t[v]
  PROVE  Aligned(L, h, sum, b, t, u + 1, v + 1)
<1> DEFINE z == sum[Len(h)]
           from == ReadFrom(h, Len(h) + 1)
           lb == Len(b)
           lt == Len(t)
<1>1. /\ h \in Patches(L) /\ Sums(h, sum) /\ u \in Nat /\ v \in Nat /\ 1 <= u /\ 1 <= v
      /\ u + z = v /\ from <= u
      /\ \A m \in 1 .. Len(h) : HunkTurns(h, sum, b, t, m)
      /\ Same(b, t, z, from, u)
  BY DEF Aligned
<1>2. z \in Int /\ from \in Nat /\ lb \in Nat /\ lt \in Nat /\ u <= lb /\ v <= lt
  <2>1. Len(h) + 1 \in 1 .. Len(h) + 1
    BY <1>1, PatchTypes
  <2> QED BY <1>1, <2>1, SumTypes, ReadFromType
<1> HIDE DEF z, from, lb, lt
<1>3. /\ u + 1 \in Nat /\ v + 1 \in Nat /\ 1 <= u + 1 /\ 1 <= v + 1 /\ u + 1 <= lb + 1 /\ v + 1 <= lt + 1
      /\ (u + 1) + z = v + 1 /\ from <= u + 1
  BY <1>1, <1>2
<1>4. Same(b, t, z, from, u + 1)
  <2>1. ASSUME NEW x \in Int, from <= x, x < u + 1 PROVE b[x] = t[x + z]
    <3>1. x = u \/ x < u
      BY <1>1, <2>1
    <3>2. CASE x = u
      BY <1>1, <3>2
    <3>3. CASE x < u
      BY <1>1, <2>1, <3>3 DEF Same
    <3> QED BY <3>1, <3>2, <3>3
  <2> QED BY <2>1 DEF Same
<1> QED BY <1>1, <1>3, <1>4 DEF Aligned, z, from, lb, lt

(* The next lines, up to some place, are not: a hunk.                      *)
LEMMA AlignedHunk ==
  ASSUME NEW L, NEW b \in Seq(L), NEW t \in Seq(L), NEW h, NEW sum, NEW u, NEW v,
         Aligned(L, h, sum, b, t, u, v), NEW e \in Nat, NEW f \in Nat,
         u <= e, e <= Len(b) + 1, v <= f, f <= Len(t) + 1
  PROVE  \E s : Aligned(L, Append(h, Hunk(u, Slice(b, u, e), Slice(t, v, f))), s, b, t, e, f)
<1> DEFINE g == Hunk(u, Slice(b, u, e), Slice(t, v, f))
           p == Append(h, g)
           n == Len(h)
           lb == Len(b)
           lt == Len(t)
           z == sum[n]
           w == z + Delta(g)
           s == [k \in 0 .. n + 1 |-> IF k <= n THEN sum[k] ELSE w]
<1>1. /\ h \in Patches(L) /\ Sums(h, sum) /\ u \in Nat /\ v \in Nat /\ 1 <= u /\ 1 <= v
      /\ u + z = v /\ ReadFrom(h, n + 1) <= u
      /\ \A m \in 1 .. n : HunkTurns(h, sum, b, t, m)
      /\ Same(b, t, z, ReadFrom(h, n + 1), u)
  BY DEF Aligned
<1>2. n \in Nat /\ lb \in Nat /\ lt \in Nat /\ z \in Int
  BY <1>1, PatchTypes, SumTypes
<1>b. e <= lb + 1 /\ f <= lt + 1
  OBVIOUS
<1>3. Text(L, Slice(b, u, e), e - u)
  <2>1. Text(L, b, lb) /\ u \in Int /\ e \in Int /\ lb \in Int
    BY <1>1, <1>2 DEF Text
  <2> HIDE DEF lb
  <2> QED BY <1>1, <1>b, <2>1, SliceIs
<1>4. Text(L, Slice(t, v, f), f - v)
  <2>1. Text(L, t, lt) /\ v \in Int /\ f \in Int /\ lt \in Int
    BY <1>1, <1>2 DEF Text
  <2> HIDE DEF lt
  <2> QED BY <1>1, <1>b, <2>1, SliceIs
<1>5. g \in Hunks(L) /\ g.start = u /\ g.remove = Slice(b, u, e) /\ g.insert = Slice(t, v, f)
  <2>1. Slice(b, u, e) \in Seq(L) /\ Slice(t, v, f) \in Seq(L) /\ u \in Nat \ {0}
    BY <1>1, <1>3, <1>4 DEF Text
  <2> QED BY <2>1 DEF Hunk, Hunks
<1>6. HunkEnd(g) = e /\ Delta(g) = (f - v) - (e - u)
  <2>1. Len(g.remove) = e - u /\ Len(g.insert) = f - v
    BY <1>3, <1>4, <1>5 DEF Text
  <2>2. HunkEnd(g) = u + (e - u) /\ Delta(g) = (f - v) - (e - u)
    <3> HIDE DEF g
    <3> QED BY <1>5, <2>1 DEF HunkEnd, Delta
  <2>3. u + (e - u) = e
    BY <1>1
  <2> QED BY <2>2, <2>3
<1> HIDE DEF g
<1>7. p \in Patches(L) /\ Len(p) = n + 1 /\ p[n + 1] = g /\ \A m \in 1 .. n : p[m] = h[m]
  BY <1>1, <1>5, AppendProperties DEF Patches
<1> HIDE DEF p, n, z, lb, lt
<1>8. /\ w \in Int /\ e + w = f
  <2>1. Delta(g) \in Int
    BY <1>1, <1>6
  <2>2. e + (z + ((f - v) - (e - u))) = f
    BY <1>1, <1>2
  <2> QED BY <1>2, <1>6, <2>1, <2>2
<1> HIDE DEF w
<1>9. /\ s[n + 1] = w /\ s[n] = z /\ \A m \in 0 .. n : s[m] = sum[m]
  BY <1>2 DEF z
<1>10. s \in [0 .. n + 1 -> Int]
  <2>1. \A k \in 0 .. n : sum[k] \in Int
    BY <1>1 DEF Sums, n
  <2>2. \A k \in 0 .. n + 1 : k <= n => k \in 0 .. n
    BY <1>2
  <2> QED BY <1>8, <2>1, <2>2
<1> HIDE DEF s
<1>11. Sums(p, s)
  <2>1. ASSUME NEW k \in 1 .. n + 1 PROVE s[k] = s[k - 1] + Delta(p[k])
    <3>1. CASE k = n + 1
      <4>1. k - 1 = n
        BY <1>2, <3>1
      <4> QED BY <1>7, <1>9, <3>1, <4>1 DEF w
    <3>2. CASE k # n + 1
      <4>1. k \in 1 .. n /\ k \in 0 .. n /\ k - 1 \in 0 .. n
        BY <1>2, <3>2
      <4>2. sum[k] = sum[k - 1] + Delta(h[k])
        BY <1>1, <4>1 DEF Sums, n
      <4> QED BY <1>7, <1>9, <4>1, <4>2
    <3> QED BY <3>1, <3>2
  <2>2. s[0] = 0
    <3>1. 0 \in 0 .. n
      BY <1>2
    <3> QED BY <1>1, <1>9, <3>1 DEF Sums
  <2> QED BY <1>7, <1>10, <2>1, <2>2 DEF Sums
<1>12. ASSUME NEW m \in 1 .. n + 1 PROVE ReadFrom(p, m) = ReadFrom(h, m)
  <2>1. m # 1 => m - 1 \in 1 .. n
    BY <1>2
  <2> QED BY <1>7, <2>1 DEF ReadFrom
<1>13. ASSUME NEW m \in 1 .. n + 1 PROVE HunkTurns(p, s, b, t, m)
  <2>1. CASE m = n + 1
    <3>1. /\ p[m] = g /\ m - 1 = n /\ s[m] = w /\ s[m - 1] = z /\ ReadFrom(p, m) = ReadFrom(h, n + 1)
      BY <1>2, <1>7, <1>9, <1>12, <2>1
    <3>2. /\ ReadFrom(h, n + 1) <= u /\ e <= lb + 1
          /\ u + z = v /\ e + w = f /\ 1 <= v /\ f <= lt + 1
          /\ Same(b, t, z, ReadFrom(h, n + 1), u)
      BY <1>1, <1>8, <1>b
    <3> QED BY <1>5, <1>6, <3>1, <3>2 DEF HunkTurns, lb, lt
  <2>2. CASE m # n + 1
    <3>1. m \in 1 .. n /\ m \in 0 .. n /\ m - 1 \in 0 .. n
      BY <1>2, <2>2
    <3>2. p[m] = h[m] /\ s[m] = sum[m] /\ s[m - 1] = sum[m - 1] /\ ReadFrom(p, m) = ReadFrom(h, m)
      BY <1>7, <1>9, <1>12, <3>1
    <3>3. HunkTurns(h, sum, b, t, m)
      BY <1>1, <3>1
    <3> QED BY <3>2, <3>3 DEF HunkTurns
  <2> QED BY <2>1, <2>2
<1>14. ReadFrom(p, (n + 1) + 1) = e
  <2>1. (n + 1) + 1 # 1 /\ ((n + 1) + 1) - 1 = n + 1
    BY <1>2
  <2> QED BY <1>6, <1>7, <2>1 DEF ReadFrom
<1>15. Same(b, t, w, e, e)
  BY DEF Same
<1>16. 1 <= e /\ 1 <= f
  BY <1>1
<1>17. Aligned(L, p, s, b, t, e, f)
  BY <1>7, <1>8, <1>9, <1>11, <1>13, <1>14, <1>15, <1>16, <1>b DEF Aligned, lb, lt
<1> QED BY <1>17 DEF p, g

(* The ends of the gaps that Diff cuts, and where each gap starts.         *)
Ends(b, t) == LcsMatches(b, t) \o <<<<Len(b) + 1, Len(t) + 1>>>>

After(E, k) == IF k = 1 THEN <<1, 1>> ELSE <<E[k - 1][1] + 1, E[k - 1][2] + 1>>

Gap(b, t, E, k) == Hunk(After(E, k)[1], Slice(b, After(E, k)[1], E[k][1]),
                        Slice(t, After(E, k)[2], E[k][2]))

CutAt(h, b, t, E, k) ==
  IF After(E, k)[1] < E[k][1] \/ After(E, k)[2] < E[k][2] THEN Append(h, Gap(b, t, E, k)) ELSE h

Cuts(hunks, b, t, E) ==
  hunks = [k \in 0 .. Len(E) |-> IF k = 0 THEN <<>> ELSE CutAt(hunks[k - 1], b, t, E, k)]

CutUp(b, t, E) ==
  LET hunks[k \in 0 .. Len(E)] ==
        IF k = 0 THEN <<>> ELSE CutAt(hunks[k - 1], b, t, E, k)
  IN hunks

(* Diff is what is cut after the last gap.                                 *)
LEMMA DiffCuts ==
  ASSUME NEW b, NEW t
  PROVE  Diff(b, t) = CutUp(b, t, Ends(b, t))[Len(Ends(b, t))]
BY DEF Diff, CutUp, CutAt, Gap, After, Ends

(* The recursion of Diff is well defined.                                  *)
LEMMA CutUpCuts ==
  ASSUME NEW b, NEW t, NEW E, NEW f, Cuts(f, b, t, E)
  PROVE  Cuts(CutUp(b, t, E), b, t, E)
<1> DEFINE g == CHOOSE hunks : Cuts(hunks, b, t, E)
<1>1. Cuts(g, b, t, E)
  BY Zenon
<1>2. g = CutUp(b, t, E)
  BY DEF Cuts, CutUp
<1> QED BY <1>1, <1>2

(* Gap k lies within both documents.                                       *)
Lies(b, t, E, k) ==
  /\ After(E, k)[1] \in Nat /\ After(E, k)[2] \in Nat /\ E[k][1] \in Nat /\ E[k][2] \in Nat
  /\ 1 <= After(E, k)[1] /\ After(E, k)[1] <= E[k][1] /\ E[k][1] <= Len(b) + 1
  /\ 1 <= After(E, k)[2] /\ After(E, k)[2] <= E[k][2] /\ E[k][2] <= Len(t) + 1

(* The last gap ends with the documents, every other one at equal lines.   *)
Meet(b, t, E, k) ==
  /\ E[k][1] <= Len(b) /\ E[k][2] <= Len(t) /\ b[E[k][1]] = t[E[k][2]]
  /\ After(E, k + 1)[1] = E[k][1] + 1 /\ After(E, k + 1)[2] = E[k][2] + 1

EndsOK(b, t, E) ==
  /\ Len(E) \in Nat /\ 1 <= Len(E)
  /\ \A k \in 1 .. Len(E) : Lies(b, t, E, k)
  /\ \A k \in 1 .. Len(E) - 1 : Meet(b, t, E, k)
  /\ E[Len(E)][1] = Len(b) + 1 /\ E[Len(E)][2] = Len(t) + 1

(* The matches, and the ends of the documents, end the gaps of Diff.       *)
LEMMA EndsAre ==
  ASSUME NEW L, NEW b \in Seq(L), NEW t \in Seq(L)
  PROVE  EndsOK(b, t, Ends(b, t))
<1> DEFINE s == LcsMatches(b, t)
           lb == Len(b)
           lt == Len(t)
           n == Len(s)
           last == <<lb + 1, lt + 1>>
           one == <<last>>
           E == s \o one
<1>0. lb \in Nat /\ lt \in Nat
  OBVIOUS
<1>1. Matching(b, t, s, <<1, 1>>)
  BY MatchesMatch
<1> HIDE DEF s
<1>2. s \in Seq(Nat \X Nat) /\ n \in Nat /\ \A k \in 1 .. n : s[k][1] \in Nat /\ s[k][2] \in Nat
  BY <1>1, PairsAre DEF Matching, Pairs
<1>3. ASSUME NEW k \in 1 .. n
      PROVE  /\ 1 <= s[k][1] /\ s[k][1] <= lb /\ 1 <= s[k][2] /\ s[k][2] <= lt
             /\ b[s[k][1]] = t[s[k][2]]
             /\ k > 1 => s[k - 1][1] < s[k][1] /\ s[k - 1][2] < s[k][2]
  BY <1>1 DEF Matching
<1>4. one \in Seq(Nat \X Nat) /\ Len(one) = 1 /\ one[1] = last /\ last[1] = lb + 1 /\ last[2] = lt + 1
  <2>1. last \in Nat \X Nat /\ last[1] = lb + 1 /\ last[2] = lt + 1
    BY <1>0
  <2> HIDE DEF last
  <2> QED BY <2>1
<1> HIDE DEF one, last, lb, lt
<1>5. Len(E) = Len(s) + Len(one) /\ \A i \in 1 .. Len(s) + Len(one) : E[i] = IF i <= Len(s) THEN s[i] ELSE one[i - Len(s)]
  BY <1>2, <1>4, ConcatProperties
<1> HIDE DEF E
<1>6. Len(E) = n + 1
  BY <1>4, <1>5
<1>7. \A k \in 1 .. n : E[k] = s[k]
  <2>1. \A k \in 1 .. n : k \in 1 .. n + 1 /\ k <= n
    BY <1>2
  <2> QED BY <1>4, <1>5, <2>1
<1>8. E[n + 1] = last
  <2>1. n + 1 \in 1 .. n + 1 /\ ~ (n + 1 <= n) /\ (n + 1) - n = 1
    BY <1>2
  <2> QED BY <1>4, <1>5, <2>1
<1> HIDE DEF n
<1>9. ASSUME NEW k \in 1 .. n PROVE After(E, k + 1)[1] = s[k][1] + 1 /\ After(E, k + 1)[2] = s[k][2] + 1
  <2>1. k + 1 # 1 /\ (k + 1) - 1 = k
    BY <1>2
  <2> QED BY <1>7, <2>1 DEF After
<1>10. After(E, 1)[1] = 1 /\ After(E, 1)[2] = 1
  BY DEF After
<1>11. ASSUME NEW k \in 1 .. n + 1
       PROVE  /\ After(E, k)[1] \in Nat /\ After(E, k)[2] \in Nat
              /\ 1 <= After(E, k)[1] /\ 1 <= After(E, k)[2]
              /\ k \in 1 .. n => After(E, k)[1] <= s[k][1] /\ After(E, k)[2] <= s[k][2]
              /\ After(E, k)[1] <= lb + 1 /\ After(E, k)[2] <= lt + 1
  <2>1. CASE k = 1
    <3>1. After(E, k)[1] = 1 /\ After(E, k)[2] = 1 /\ 1 <= lb + 1 /\ 1 <= lt + 1
      BY <1>0, <1>10, <2>1
    <3> QED BY <1>3, <3>1
  <2>2. CASE k # 1
    <3> DEFINE m == k - 1
    <3>1. m \in 1 .. n /\ m + 1 = k
      BY <1>2, <2>2
    <3>2. After(E, k)[1] = s[m][1] + 1 /\ After(E, k)[2] = s[m][2] + 1
      BY <1>9, <3>1
    <3>3. /\ s[m][1] \in Nat /\ s[m][2] \in Nat /\ s[m][1] <= lb /\ s[m][2] <= lt
      BY <1>2, <1>3, <3>1
    <3>4. ASSUME k \in 1 .. n PROVE After(E, k)[1] <= s[k][1] /\ After(E, k)[2] <= s[k][2]
      <4>1. s[m][1] < s[k][1] /\ s[m][2] < s[k][2] /\ s[k][1] \in Nat /\ s[k][2] \in Nat
        BY SMTT(30), <1>2, <1>3, <2>2, <3>4
      <4> QED BY <3>2, <3>3, <4>1
    <3> DEFINE x == s[m][1]
               y == s[m][2]
    <3>5. x \in Nat /\ y \in Nat /\ x <= lb /\ y <= lt /\ After(E, k)[1] = x + 1 /\ After(E, k)[2] = y + 1
      BY <3>2, <3>3
    <3> HIDE DEF x, y
    <3>6. x + 1 \in Nat /\ y + 1 \in Nat /\ 1 <= x + 1 /\ 1 <= y + 1 /\ x + 1 <= lb + 1 /\ y + 1 <= lt + 1
      BY <1>0, <3>5
    <3> QED BY <3>4, <3>5, <3>6
  <2> QED BY <2>1, <2>2
<1>12. ASSUME NEW k \in 1 .. n + 1 PROVE Lies(b, t, E, k)
  <2>1. CASE k \in 1 .. n
    <3>1. /\ E[k] = s[k] /\ s[k][1] \in Nat /\ s[k][2] \in Nat /\ s[k][1] <= lb + 1 /\ s[k][2] <= lt + 1
      <4>1. E[k] = s[k] /\ s[k][1] \in Nat /\ s[k][2] \in Nat
        BY <1>2, <1>7, <2>1
      <4>2. s[k][1] <= lb /\ s[k][2] <= lt
        BY <1>3, <2>1
      <4>3. s[k][1] <= lb + 1 /\ s[k][2] <= lt + 1
        BY <1>0, <4>1, <4>2
      <4> QED BY <4>1, <4>3
    <3> QED BY <1>11, <2>1, <3>1 DEF Lies, lb, lt
  <2>2. CASE k \notin 1 .. n
    <3>1. k = n + 1
      BY <1>2, <2>2
    <3>2. E[k][1] = lb + 1 /\ E[k][2] = lt + 1 /\ lb + 1 \in Nat /\ lt + 1 \in Nat
      BY <1>0, <1>4, <1>8, <3>1
    <3>3. lb + 1 <= lb + 1 /\ lt + 1 <= lt + 1
      BY <1>0
    <3> QED BY <1>11, <3>2, <3>3 DEF Lies, lb, lt
  <2> QED BY <2>1, <2>2
<1>13. ASSUME NEW k \in 1 .. n PROVE Meet(b, t, E, k)
  BY <1>3, <1>7, <1>9 DEF Meet, lb, lt
<1>14. E[n + 1][1] = lb + 1 /\ E[n + 1][2] = lt + 1 /\ n + 1 \in Nat /\ 1 <= n + 1 /\ (n + 1) - 1 = n
  BY <1>2, <1>4, <1>8
<1>15. Ends(b, t) = E
  BY DEF Ends, E, s, one, last, lb, lt
<1> QED BY <1>6, <1>12, <1>13, <1>14, <1>15 DEF EndsOK, lb, lt

(* A gap is a hunk.                                                        *)
LEMMA GapTypes ==
  ASSUME NEW L, NEW b \in Seq(L), NEW t \in Seq(L), NEW E, NEW k, Lies(b, t, E, k)
  PROVE  Gap(b, t, E, k) \in Hunks(L)
<1> DEFINE u == After(E, k)[1]
           v == After(E, k)[2]
           e == E[k][1]
           f == E[k][2]
           lb == Len(b)
           lt == Len(t)
<1>1. /\ u \in Nat /\ v \in Nat /\ e \in Nat /\ f \in Nat /\ 1 <= u /\ 1 <= v
      /\ u <= e /\ e <= lb + 1 /\ v <= f /\ f <= lt + 1
  BY DEF Lies
<1>2. Text(L, b, lb) /\ Text(L, t, lt) /\ lb \in Int /\ lt \in Int
  BY DEF Text
<1> HIDE DEF u, v, e, f, lb, lt
<1>3. Text(L, Slice(b, u, e), e - u) /\ Text(L, Slice(t, v, f), f - v)
  BY <1>1, <1>2, SliceIs
<1>4. Slice(b, u, e) \in Seq(L) /\ Slice(t, v, f) \in Seq(L) /\ u \in Nat \ {0}
  BY <1>1, <1>3 DEF Text
<1>5. Hunk(u, Slice(b, u, e), Slice(t, v, f)) \in Hunks(L)
  BY <1>4 DEF Hunk, Hunks
<1> QED BY <1>5 DEF Gap, u, v, e, f

(* A function that satisfies the recursion of Diff exists.                 *)
LEMMA CutsExist ==
  ASSUME NEW L, NEW b \in Seq(L), NEW t \in Seq(L), NEW E, EndsOK(b, t, E)
  PROVE  \E f : Cuts(f, b, t, E)
<1> DEFINE n == Len(E)
           X == Patches(L)
           none == <<>>
           Cut(h, k) == CutAt(h, b, t, E, k)
           F == [x \in X \X (1 .. n) |-> Cut(x[1], x[2])]
<1>1. n \in Nat /\ none \in X
  BY DEF EndsOK, Patches
<1>2. ASSUME NEW h \in X, NEW k \in 1 .. n PROVE Cut(h, k) \in X
  <2>1. Gap(b, t, E, k) \in Hunks(L)
    BY GapTypes DEF EndsOK
  <2>2. Append(h, Gap(b, t, E, k)) \in X
    BY <2>1, AppendProperties DEF Patches
  <2> QED BY <2>2 DEF CutAt
<1> HIDE DEF n, X, none, Cut
<1>3. F \in [X \X (1 .. n) -> X]
  BY <1>2
<1>4. \A h \in X : \A k \in 1 .. n : F[<<h, k>>] = Cut(h, k)
  OBVIOUS
<1> HIDE DEF F
<1>5. PICK f : Follows(f, n, X, none, F)
  BY <1>1, <1>3, Recursion
<1>6. f \in [0 .. n -> X] /\ f[0] = none /\ \A k \in 1 .. n : f[k] = F[<<f[k - 1], k>>]
  BY <1>5 DEF Follows
<1>7. ASSUME NEW k \in 0 .. n, k # 0 PROVE f[k] = Cut(f[k - 1], k)
  <2>1. k \in 1 .. n /\ k - 1 \in 0 .. n
    BY <1>1, <1>7
  <2>2. f[k - 1] \in X
    BY <1>6, <2>1
  <2> QED BY <1>4, <1>6, <2>1, <2>2
<1>8. f = [k \in 0 .. n |-> f[k]]
  BY <1>6
<1>9. \A k \in 0 .. n : f[k] = IF k = 0 THEN none ELSE Cut(f[k - 1], k)
  BY <1>6, <1>7
<1>10. f = [k \in 0 .. n |-> IF k = 0 THEN none ELSE Cut(f[k - 1], k)]
  BY <1>8, <1>9
<1> QED BY <1>10 DEF Cuts, n, none, Cut

(* One more gap: if the hunks so far turn b into t up to its start, the    *)
(* hunks with it do up to its end.                                         *)
LEMMA AlignedCut ==
  ASSUME NEW L, NEW b \in Seq(L), NEW t \in Seq(L), NEW E, NEW k, Lies(b, t, E, k), NEW h, NEW sum,
         Aligned(L, h, sum, b, t, After(E, k)[1], After(E, k)[2])
  PROVE  \E s : Aligned(L, CutAt(h, b, t, E, k), s, b, t, E[k][1], E[k][2])
<1> DEFINE u == After(E, k)[1]
           v == After(E, k)[2]
           e == E[k][1]
           f == E[k][2]
<1>1. /\ u \in Nat /\ v \in Nat /\ e \in Nat /\ f \in Nat
      /\ u <= e /\ e <= Len(b) + 1 /\ v <= f /\ f <= Len(t) + 1
  BY DEF Lies
<1>2. CutAt(h, b, t, E, k) = IF u < e \/ v < f THEN Append(h, Hunk(u, Slice(b, u, e), Slice(t, v, f))) ELSE h
  BY DEF CutAt, Gap
<1>3. Aligned(L, h, sum, b, t, u, v)
  OBVIOUS
<1> HIDE DEF u, v, e, f
<1>4. CASE u < e \/ v < f
  <2>1. \E s : Aligned(L, Append(h, Hunk(u, Slice(b, u, e), Slice(t, v, f))), s, b, t, e, f)
    BY <1>1, <1>3, AlignedHunk
  <2> QED BY <1>2, <1>4, <2>1 DEF e, f
<1>5. CASE ~ (u < e \/ v < f)
  <2>1. u = e /\ v = f
    BY <1>1, <1>5
  <2> QED BY <1>2, <1>3, <1>5, <2>1 DEF e, f
<1> QED BY <1>4, <1>5

(* Diff turns all of b into all of t.                                      *)
LEMMA DiffAligned ==
  ASSUME NEW L, NEW b \in Seq(L), NEW t \in Seq(L)
  PROVE  \E sum : Aligned(L, Diff(b, t), sum, b, t, Len(b) + 1, Len(t) + 1)
<1> DEFINE E == Ends(b, t)
           hunks == CutUp(b, t, E)
           n == Len(E)
           l == n - 1
           S == {k \in 0 .. l : \E sum : Aligned(L, hunks[k], sum, b, t, After(E, k + 1)[1], After(E, k + 1)[2])}
<1>1. EndsOK(b, t, E)
  BY EndsAre
<1>2. Diff(b, t) = hunks[n]
  BY DiffCuts
<1> HIDE DEF E
<1>3. Cuts(hunks, b, t, E)
  BY <1>1, CutsExist, CutUpCuts
<1> HIDE DEF hunks
<1>4. n \in Nat /\ 1 <= n /\ l \in Nat /\ n \in 1 .. n /\ n \in 0 .. n /\ n # 0
  BY <1>1 DEF EndsOK
<1>5. hunks[0] = <<>> /\ \A k \in 1 .. n : hunks[k] = CutAt(hunks[k - 1], b, t, E, k)
  <2>1. hunks = [k \in 0 .. n |-> IF k = 0 THEN <<>> ELSE CutAt(hunks[k - 1], b, t, E, k)]
    BY <1>3 DEF Cuts
  <2> HIDE DEF n
  <2>2. 0 \in 0 .. n /\ \A k \in 1 .. n : k \in 0 .. n /\ k # 0
    BY <1>4
  <2> QED BY <2>1, <2>2
<1>6. /\ \A k \in 1 .. n : Lies(b, t, E, k)
      /\ \A k \in 1 .. l : Meet(b, t, E, k)
      /\ E[n][1] = Len(b) + 1 /\ E[n][2] = Len(t) + 1
  BY <1>1 DEF EndsOK
<1> HIDE DEF n
<1>7. 0 \in S
  <2>1. \E sum : Aligned(L, hunks[0], sum, b, t, 1, 1)
    BY <1>5, AlignedFirst
  <2>2. After(E, 0 + 1)[1] = 1 /\ After(E, 0 + 1)[2] = 1
    BY DEF After
  <2> QED BY <1>4, <2>1, <2>2
<1>8. ASSUME NEW k \in 0 .. l - 1, k \in S PROVE k + 1 \in S
  <2> DEFINE m == k + 1
             e == E[m][1]
             f == E[m][2]
  <2>1. m \in 1 .. l /\ m \in 1 .. n /\ m - 1 = k /\ m \in 0 .. l
    BY <1>4
  <2>2. PICK sum : Aligned(L, hunks[k], sum, b, t, After(E, m)[1], After(E, m)[2])
    BY <1>8
  <2> HIDE DEF m
  <2>3. PICK s : Aligned(L, hunks[m], s, b, t, e, f)
    <3>1. Lies(b, t, E, m)
      BY <1>6, <2>1
    <3>2. \E s : Aligned(L, CutAt(hunks[k], b, t, E, m), s, b, t, e, f)
      BY <2>2, <3>1, AlignedCut
    <3> QED BY <1>5, <2>1, <3>2
  <2>4. e <= Len(b) /\ f <= Len(t) /\ b[e] = t[f] /\ After(E, m + 1)[1] = e + 1 /\ After(E, m + 1)[2] = f + 1
    BY <1>6, <2>1 DEF Meet
  <2> HIDE DEF e, f
  <2>5. Aligned(L, hunks[m], s, b, t, e + 1, f + 1)
    BY <2>3, <2>4, AlignedMatch
  <2>6. Aligned(L, hunks[m], s, b, t, After(E, m + 1)[1], After(E, m + 1)[2])
    BY <2>4, <2>5
  <2>7. m \in S
    BY <2>1, <2>6
  <2> QED BY <2>7 DEF m
<1>9. l \in S
  <2>1. l \in 0 .. l
    BY <1>4
  <2> HIDE DEF S, l
  <2> QED BY <1>4, <1>7, <1>8, <2>1, UpTo
<1>10. l + 1 = n /\ n - 1 = l
  BY <1>4
<1>11. PICK sum : Aligned(L, hunks[l], sum, b, t, After(E, n)[1], After(E, n)[2])
  BY <1>9, <1>10
<1> HIDE DEF l, S
<1>12. \E s : Aligned(L, CutAt(hunks[l], b, t, E, n), s, b, t, E[n][1], E[n][2])
  <2>1. Lies(b, t, E, n)
    BY <1>4, <1>6
  <2> QED BY <1>11, <2>1, AlignedCut
<1>13. hunks[n] = CutAt(hunks[l], b, t, E, n)
  BY <1>4, <1>5, <1>10
<1> QED BY <1>2, <1>6, <1>12, <1>13

-----------------------------------------------------------------------------
(* The round trip.                                                         *)

(* What a patch makes of a base is all that its splices say.               *)
LEMMA SplicesUnique ==
  ASSUME NEW L, NEW c, LayoutOK(c), NEW ins, NEW base, NEW s, NEW t, NEW size,
         size = c.size + c.shift[c.n], Text(L, s, size), Text(L, t, size),
         Splices(c, ins, base, s), Splices(c, ins, base, t)
  PROVE  s = t
<1>1. size \in Int
  <2>1. Numbered(c)
    BY Numbers
  <2>2. c.n \in Rank(c)
    BY <2>1 DEF Numbered, Rank
  <2> QED BY <2>1, <2>2 DEF Numbered
<1>2. ASSUME NEW x \in Int, 1 <= x, x <= size PROVE s[x] = t[x]
  <2>1. x \in 1 .. c.size + c.shift[c.n]
    BY <1>1, <1>2
  <2>2. CASE \E k \in 0 .. c.n : KeptAt(c, k, x)
    BY <2>2 DEF Splices
  <2>3. CASE \E k \in 1 .. c.n : InsertedAt(c, k, x)
    BY <2>3 DEF Splices
  <2> QED BY <2>1, <2>2, <2>3, Covered
<1> QED BY <1>1, <1>2, SameText

(* The target, spliced from the base by the hunks that turn one into the   *)
(* other.                                                                  *)
LEMMA TurnsSplice ==
  ASSUME NEW L, NEW b \in Seq(L), NEW t \in Seq(L), NEW h, NEW sum,
         Aligned(L, h, sum, b, t, Len(b) + 1, Len(t) + 1)
  PROVE  Splices(LayoutOf(h, Len(b), sum), Inserts(h), b, t)
<1> DEFINE lb == Len(b)
           lt == Len(t)
           n == Len(h)
           c == LayoutOf(h, lb, sum)
<1>1. /\ h \in Patches(L) /\ Sums(h, sum) /\ (lb + 1) + sum[n] = lt + 1
      /\ \A m \in 1 .. n : HunkTurns(h, sum, b, t, m)
      /\ Same(b, t, sum[n], ReadFrom(h, n + 1), lb + 1)
  BY DEF Aligned
<1>2. n \in Nat /\ lb \in Nat /\ lt \in Nat /\ Text(L, t, lt)
  BY <1>1, PatchTypes DEF Text
<1>3. \A k \in 0 .. n : sum[k] \in Int
  BY <1>1 DEF Sums
<1>4. Laid(c, h, lb, sum)
  BY <1>1, LayoutIs
<1>5. /\ c.n = n /\ c.end[0] = 1 /\ c.start[n + 1] = lb + 1
      /\ \A k \in 1 .. n : c.start[k] = h[k].start /\ c.end[k] = HunkEnd(h[k])
      /\ \A k \in 0 .. n : c.shift[k] = sum[k]
  BY <1>4 DEF Laid
<1>6. \A k \in 1 .. n : h[k].start \in Nat /\ HunkEnd(h[k]) \in Nat /\ h[k].start <= HunkEnd(h[k])
  BY <1>1, PatchTypes, HunkTypes
<1>i. \A k \in 1 .. n : Inserts(h)[k] = h[k].insert
  BY DEF Inserts
<1>7. ASSUME NEW k \in 0 .. n PROVE ReadFrom(h, k + 1) = c.end[k] /\ ReadFrom(h, k + 1) \in Int
  <2>1. k + 1 \in 1 .. n + 1 /\ (k + 1) - 1 = k /\ (k + 1 = 1 <=> k = 0) /\ (k # 0 => k \in 1 .. n)
    BY <1>2
  <2>2. ReadFrom(h, k + 1) \in Nat
    BY <1>1, <2>1, ReadFromType
  <2>3. ReadFrom(h, k + 1) = c.end[k]
    BY <1>5, <2>1 DEF ReadFrom
  <2> QED BY <2>2, <2>3
<1>8. ASSUME NEW k \in 0 .. n
      PROVE  Same(b, t, sum[k], c.end[k], c.start[k + 1]) /\ c.start[k + 1] \in Int
  <2>1. CASE k = n
    BY SMTT(30), <1>1, <1>2, <1>5, <1>7, <2>1
  <2>2. CASE k # n
    <3>1. k + 1 \in 1 .. n /\ (k + 1) - 1 = k
      BY <1>2, <2>2
    <3>2. Same(b, t, sum[k], ReadFrom(h, k + 1), h[k + 1].start)
      BY <1>1, <3>1 DEF HunkTurns
    <3>3. c.start[k + 1] = h[k + 1].start /\ h[k + 1].start \in Int
      BY <1>5, <1>6, <3>1
    <3>4. ReadFrom(h, k + 1) = c.end[k]
      BY <1>7
    <3> QED BY <3>2, <3>3, <3>4
  <2> QED BY <2>1, <2>2
<1> HIDE DEF c, n, lb, lt
<1>9. ASSUME NEW k \in 0 .. n, NEW x \in Int, KeptAt(c, k, x) PROVE t[x] = b[x - c.shift[k]]
  <2> DEFINE z == sum[k]
             y == x - z
             from == c.end[k]
             to == c.start[k + 1]
  <2>1. z \in Int /\ from \in Int /\ to \in Int /\ c.shift[k] = z
    BY <1>3, <1>5, <1>7, <1>8
  <2>2. from + z <= x /\ x < to + z
    BY <1>9, <2>1 DEF KeptAt
  <2>3. Same(b, t, z, from, to)
    BY <1>8
  <2> HIDE DEF z, from, to
  <2>4. y \in Int /\ from <= y /\ y < to /\ y + z = x
    BY <2>1, <2>2
  <2>5. b[y] = t[y + z]
    <3> HIDE DEF y
    <3> QED BY <2>3, <2>4 DEF Same
  <2> QED BY <2>1, <2>4, <2>5
<1>10. ASSUME NEW k \in 1 .. n, NEW x \in Int, InsertedAt(c, k, x)
       PROVE  t[x] = Inserts(h)[k][x + 1 - (c.start[k] + c.shift[k - 1])]
  <2> DEFINE from == h[k].start + sum[k - 1]
             to == HunkEnd(h[k]) + sum[k]
             i == x + 1 - from
  <2>1. k \in 0 .. n /\ k - 1 \in 0 .. n
    BY <1>2
  <2>2. /\ sum[k] \in Int /\ sum[k - 1] \in Int /\ h[k].start \in Int /\ HunkEnd(h[k]) \in Int
        /\ c.start[k] = h[k].start /\ c.end[k] = HunkEnd(h[k])
        /\ c.shift[k] = sum[k] /\ c.shift[k - 1] = sum[k - 1]
    BY SMTT(30), <1>3, <1>5, <1>6, <2>1
  <2>3. from \in Int /\ to \in Int
    BY <2>2
  <2>4. from <= x /\ x < to
    BY <1>10, <2>2 DEF InsertedAt
  <2>5. h[k].insert = Slice(t, from, to) /\ 1 <= from /\ to <= lt + 1
    BY <1>1 DEF HunkTurns, lt
  <2>6. x + 1 - (c.start[k] + c.shift[k - 1]) = i
    BY <2>2
  <2> HIDE DEF from, to
  <2>7. i \in Int /\ 1 <= i /\ i <= to - from /\ from + i - 1 = x /\ from <= to
    BY <2>3, <2>4
  <2> HIDE DEF i
  <2>8. Slice(t, from, to)[i] = t[from + i - 1]
    <3>1. lt \in Int
      BY <1>2
    <3> QED BY <1>2, <2>3, <2>5, <2>7, <3>1, SliceIs
  <2> QED BY <1>i, <2>5, <2>6, <2>7, <2>8
<1> QED BY <1>5, <1>9, <1>10 DEF Splices, c, lb

(* diff, then apply: every document comes back from any base, and its      *)
(* diff fits the base.                                                     *)
THEOREM DiffRoundTrip ==
  ASSUME NEW L, NEW b \in Seq(L), NEW t \in Seq(L)
  PROVE  Diff(b, t) \in Patches(L) /\ Fits(Diff(b, t), b) /\ Apply(Diff(b, t), b) = t
<1> DEFINE h == Diff(b, t)
           n == Len(h)
           lb == Len(b)
           lt == Len(t)
<1>1. PICK sum : Aligned(L, h, sum, b, t, lb + 1, lt + 1)
  BY DiffAligned
<1> HIDE DEF h
<1> DEFINE c == LayoutOf(h, lb, sum)
<1>2. /\ h \in Patches(L) /\ Sums(h, sum) /\ (lb + 1) + sum[n] = lt + 1
      /\ \A m \in 1 .. n : HunkTurns(h, sum, b, t, m)
  BY <1>1 DEF Aligned
<1>3. Fits(h, b)
  <2>1. DOMAIN h = 1 .. n
    BY <1>2, PatchTypes
  <2> QED BY <1>2, <2>1 DEF Fits, HunkTurns
<1>4. LayoutOK(c) /\ Text(L, Apply(h, b), lb + sum[n]) /\ Splices(c, Inserts(h), b, Apply(h, b))
  BY <1>2, <1>3, ApplySplices
<1>5. Splices(c, Inserts(h), b, t)
  BY <1>1, TurnsSplice
<1>6. c.size = lb /\ c.n = n /\ c.shift[n] = sum[n]
  <2>1. Laid(c, h, lb, sum) /\ n \in 0 .. n
    BY <1>2, LayoutIs, PatchTypes
  <2> QED BY <2>1 DEF Laid
<1>7. sum[n] \in Int /\ lb \in Nat /\ lt \in Nat /\ lt = Len(t)
  BY <1>2, SumTypes
<1> HIDE DEF c, n, lb, lt
<1>8. lb + sum[n] = lt
  BY <1>2, <1>7
<1>9. Text(L, t, lb + sum[n])
  BY <1>7, <1>8 DEF Text
<1>10. Apply(h, b) = t
  BY <1>4, <1>5, <1>6, <1>9, SplicesUnique
<1> QED BY <1>2, <1>3, <1>10 DEF h

-----------------------------------------------------------------------------
(* The merge kernel.                                                       *)

(* Independence is symmetric.                                              *)
LEMMA IndependentBothWays ==
  ASSUME NEW p, NEW q
  PROVE  Independent(p, q) <=> Independent(q, p)
BY DEF Independent, HunksConflict

(* Two sides of one base, as OrdersAgree has them.                         *)
LEMMA SidesAgree ==
  ASSUME NEW b \in Seq(Lines), NEW l \in Seq(Lines), NEW r \in Seq(Lines)
  PROVE  /\ Apply(Diff(b, l), b) = l
         /\ Independent(Diff(b, l), Diff(b, r)) =>
              /\ Combine(b, Diff(b, l), RebasePatch(Diff(b, r), Diff(b, l))) \in Seq(Lines)
              /\ Combine(b, Diff(b, l), RebasePatch(Diff(b, r), Diff(b, l))) # Refused
              /\ Combine(b, Diff(b, l), RebasePatch(Diff(b, r), Diff(b, l)))
                   = Combine(b, Diff(b, r), RebasePatch(Diff(b, l), Diff(b, r)))
<1> DEFINE p == Diff(b, l)
           q == Diff(b, r)
<1>1. /\ p \in Patches(Lines) /\ Fits(p, b) /\ Apply(p, b) = l
      /\ q \in Patches(Lines) /\ Fits(q, b)
  BY DiffRoundTrip
<1>2. Refused \notin Seq(Lines)
  BY RefusedIsNoResult
<1> HIDE DEF p, q
<1>3. ASSUME Independent(p, q)
      PROVE  /\ Combine(b, p, RebasePatch(q, p)) \in Seq(Lines)
             /\ Combine(b, p, RebasePatch(q, p)) = Combine(b, q, RebasePatch(p, q))
  BY <1>1, <1>2, <1>3, OrderIsFree
<1>4. Independent(p, q) => Combine(b, p, RebasePatch(q, p)) # Refused
  BY <1>2, <1>3
<1> QED BY <1>1, <1>3, <1>4 DEF p, q

(* What the kernel answers.                                                *)
Joint(b, p, q) == Combine(b, p, RebasePatch(q, p))

(* The kernel says a of two patches p and q of b.                          *)
Answers(a, b, p, q) ==
  IF Independent(p, q) /\ Joint(b, p, q) # Refused
  THEN a.merged /\ a.result = Joint(b, p, q) /\ a.witness = [p |-> p, q |-> q]
  ELSE ~ a.merged

(* The kernel merges exactly when the two diffs are independent.           *)
LEMMA AdmitIs ==
  ASSUME NEW b, NEW l, NEW r, NEW p, NEW q, p = Diff(b, l), q = Diff(b, r)
  PROVE  Answers(Admit(b, l, r), b, p, q)
<1>1. Admit(b, l, r) = IF Independent(p, q) /\ Joint(b, p, q) # Refused
                       THEN AdmitMerged(Joint(b, p, q), p, q)
                       ELSE AdmitConflict(Merge3(b, l, r).conflicts)
  BY DEF Admit, Commute, Joint
<1>2. CASE Independent(p, q) /\ Joint(b, p, q) # Refused
  <2>1. Admit(b, l, r) = [merged |-> TRUE, result |-> Joint(b, p, q), witness |-> [p |-> p, q |-> q]]
    BY <1>1, <1>2 DEF AdmitMerged
  <2> QED BY <1>2, <2>1 DEF Answers
<1>3. CASE ~ (Independent(p, q) /\ Joint(b, p, q) # Refused)
  <2>1. Admit(b, l, r) = [merged |-> FALSE, conflicts |-> Merge3(b, l, r).conflicts]
    BY <1>1, <1>3 DEF AdmitConflict
  <2> QED BY <1>3, <2>1 DEF Answers
<1> QED BY <1>2, <1>3

(* What the kernel checks of a witness.                                    *)
LEMMA VerifyIs ==
  ASSUME NEW b, NEW w, NEW d
  PROVE  VerifyWitness(b, w, d) <=>
           /\ Apply(w.p, b) # Refused /\ Apply(w.q, b) # Refused
           /\ Diff(b, Apply(w.p, b)) = w.p /\ Diff(b, Apply(w.q, b)) = w.q
           /\ Independent(w.p, w.q)
           /\ Joint(b, w.p, w.q) = d
BY DEF VerifyWitness, Commute, Joint

(* What the kernel admits, it verifies, and admits with sides exchanged.   *)
LEMMA AdmittedIsVerified ==
  ASSUME NEW b \in Seq(Lines), NEW l \in Seq(Lines), NEW r \in Seq(Lines), Admit(b, l, r).merged
  PROVE  /\ VerifyWitness(b, Admit(b, l, r).witness, Admit(b, l, r).result)
         /\ Admit(b, r, l).merged /\ Admit(b, r, l).result = Admit(b, l, r).result
<1> DEFINE p == Diff(b, l)
           q == Diff(b, r)
           d == Joint(b, p, q)
           w == [p |-> p, q |-> q]
<1>1. Apply(p, b) = l /\ Apply(q, b) = r /\ l # Refused /\ r # Refused
  BY SidesAgree, RefusedIsNoResult
<1>2. Independent(p, q) /\ Admit(b, l, r).result = d /\ Admit(b, l, r).witness = w
  <2>1. Answers(Admit(b, l, r), b, p, q)
    BY AdmitIs
  <2> QED BY <2>1 DEF Answers
<1>3. Joint(b, q, p) = d /\ d # Refused
  BY <1>2, SidesAgree DEF Joint
<1>4. Diff(b, l) = p /\ Diff(b, r) = q /\ w.p = p /\ w.q = q
  OBVIOUS
<1> HIDE DEF p, q, d, w
<1>5. VerifyWitness(b, w, d)
  <2>1. Joint(b, w.p, w.q) = d
    BY <1>4 DEF d
  <2> QED BY <1>1, <1>2, <1>4, <2>1, VerifyIs
<1>6. Independent(q, p)
  BY <1>2, IndependentBothWays
<1>7. Admit(b, r, l).merged /\ Admit(b, r, l).result = d
  <2>1. Answers(Admit(b, r, l), b, q, p)
    BY <1>4, AdmitIs
  <2> QED BY <1>3, <1>6, <2>1 DEF Answers
<1> QED BY <1>2, <1>5, <1>7

(* A witness that verifies is that of a merge the kernel admits.           *)
LEMMA VerifiedIsAdmitted ==
  ASSUME NEW b, NEW w, NEW d, d # Refused, VerifyWitness(b, w, d)
  PROVE  /\ Admit(b, Apply(w.p, b), Apply(w.q, b)).merged
         /\ Admit(b, Apply(w.p, b), Apply(w.q, b)).result = d
<1> DEFINE l == Apply(w.p, b)
           r == Apply(w.q, b)
           p == w.p
           q == w.q
<1>1. p = Diff(b, l) /\ q = Diff(b, r) /\ Independent(p, q) /\ Joint(b, p, q) = d
  BY VerifyIs
<1> HIDE DEF l, r, p, q
<1>2. Admit(b, l, r).merged /\ Admit(b, l, r).result = d
  <2>1. Answers(Admit(b, l, r), b, p, q)
    BY <1>1, AdmitIs
  <2> QED BY <1>1, <2>1 DEF Answers
<1> QED BY <1>2 DEF l, r

-----------------------------------------------------------------------------
(* Stacks of changes.                                                      *)

(* The stack s has each of the changes in m once.                          *)
Holds(s, m) ==
  /\ s \in Seq(Nat)
  /\ \A j, k \in 1 .. Len(s) : s[j] = s[k] => j = k
  /\ \A j \in 1 .. Len(s) : s[j] \in m
  /\ \A c \in m : \E j \in 1 .. Len(s) : s[j] = c

(* A stack holds its members exactly when it is injective and its entries  *)
(* are they.                                                               *)
LEMMA HoldsIs ==
  ASSUME NEW s \in Seq(Nat), NEW m
  PROVE  Holds(s, m) <=> IsInjective(s) /\ ToSet(s) = m
<1>1. DOMAIN s = 1 .. Len(s)
  OBVIOUS
<1> QED BY <1>1 DEF Holds, IsInjective, ToSet

(* The entries of a stack that holds its members are they, under the name  *)
(* of this module and that of Stacks.                                      *)
LEMMA ToSetIs ==
  ASSUME NEW s, NEW m, Holds(s, m)
  PROVE  ToSet(s) = m /\ Graph!ToSet(s) = m
<1>1. DOMAIN s = 1 .. Len(s)
  BY DEF Holds
<1> QED BY <1>1 DEF Holds, ToSet, Graph!ToSet

(* Where RemoveAt and InsertAt have their entries from.                    *)
LEMMA RemoveAtIs ==
  ASSUME NEW S, NEW s \in Seq(S), NEW i \in 1 .. Len(s)
  PROVE  /\ Graph!RemoveAt(s, i) \in Seq(S) /\ Len(Graph!RemoveAt(s, i)) = Len(s) - 1
         /\ \A k \in 1 .. i - 1 : Graph!RemoveAt(s, i)[k] = s[k]
         /\ \A k \in i .. Len(s) - 1 : Graph!RemoveAt(s, i)[k] = s[k + 1]
<1> DEFINE n == Len(s)
           a == SubSeq(s, 1, i - 1)
           b == SubSeq(s, i + 1, n)
           r == a \o b
<1>1. n \in Nat /\ i \in 1 .. n /\ \A k \in 1 .. n : s[k] \in S
  BY ElementOfSeq
<1>2. a \in Seq(S) /\ Len(a) = i - 1 /\ \A k \in 1 .. i - 1 : a[k] = s[k]
  <2> DEFINE u == 1
             v == i - 1
  <2>1. u \in Int /\ v \in Int /\ \A k \in u .. v : s[k] \in S
    BY <1>1
  <2>2. (IF u <= v THEN v - u + 1 ELSE 0) = i - 1 /\ v - u + 1 = i - 1 /\ \A k \in 1 .. i - 1 : u + k - 1 = k
    BY <1>1
  <2> HIDE DEF u, v
  <2>3. /\ SubSeq(s, u, v) \in Seq(S)
        /\ Len(SubSeq(s, u, v)) = IF u <= v THEN v - u + 1 ELSE 0
        /\ \A k \in 1 .. v - u + 1 : SubSeq(s, u, v)[k] = s[u + k - 1]
    BY <2>1, SubSeqProperties
  <2> QED BY <2>2, <2>3 DEF u, v
<1>3. b \in Seq(S) /\ Len(b) = n - i /\ \A k \in 1 .. n - i : b[k] = s[i + k]
  <2> DEFINE u == i + 1
             v == n
  <2>1. u \in Int /\ v \in Int /\ \A k \in u .. v : s[k] \in S
    BY <1>1
  <2>2. (IF u <= v THEN v - u + 1 ELSE 0) = n - i /\ v - u + 1 = n - i /\ \A k \in 1 .. n - i : u + k - 1 = i + k
    BY <1>1
  <2> HIDE DEF u, v
  <2>3. /\ SubSeq(s, u, v) \in Seq(S)
        /\ Len(SubSeq(s, u, v)) = IF u <= v THEN v - u + 1 ELSE 0
        /\ \A k \in 1 .. v - u + 1 : SubSeq(s, u, v)[k] = s[u + k - 1]
    BY <2>1, SubSeqProperties
  <2> QED BY <2>2, <2>3 DEF u, v
<1>4. Graph!RemoveAt(s, i) = r
  BY DEF Graph!RemoveAt
<1> HIDE DEF a, b
<1>5. /\ r \in Seq(S) /\ Len(r) = Len(a) + Len(b)
      /\ \A k \in 1 .. Len(a) + Len(b) : r[k] = IF k <= Len(a) THEN a[k] ELSE b[k - Len(a)]
  BY <1>2, <1>3, ConcatProperties
<1> HIDE DEF r, n
<1>6. Len(a) + Len(b) = n - 1
  BY <1>1, <1>2, <1>3
<1>7. \A k \in 1 .. n - 1 : r[k] = IF k <= i - 1 THEN a[k] ELSE b[k - (i - 1)]
  BY <1>2, <1>5, <1>6
<1>8. ASSUME NEW k \in 1 .. i - 1 PROVE r[k] = s[k]
  <2>1. k \in 1 .. n - 1 /\ k <= i - 1
    BY <1>1
  <2> QED BY <1>2, <1>7, <2>1
<1>9. ASSUME NEW k \in i .. n - 1 PROVE r[k] = s[k + 1]
  <2> DEFINE m == k - (i - 1)
  <2>1. k \in 1 .. n - 1 /\ ~ (k <= i - 1) /\ m \in 1 .. n - i /\ i + m = k + 1
    BY <1>1
  <2>2. r[k] = b[m]
    BY <1>7, <2>1
  <2> HIDE DEF m
  <2> QED BY <1>3, <2>1, <2>2
<1> QED BY <1>4, <1>5, <1>6, <1>8, <1>9 DEF n

(* Where InsertAt has its entries from.                                    *)
LEMMA InsertAtIs ==
  ASSUME NEW S, NEW s \in Seq(S), NEW i \in 1 .. Len(s) + 1, NEW e \in S
  PROVE  /\ Graph!InsertAt(s, i, e) \in Seq(S) /\ Len(Graph!InsertAt(s, i, e)) = Len(s) + 1
         /\ \A k \in 1 .. i - 1 : Graph!InsertAt(s, i, e)[k] = s[k]
         /\ Graph!InsertAt(s, i, e)[i] = e
         /\ \A k \in i + 1 .. Len(s) + 1 : Graph!InsertAt(s, i, e)[k] = s[k - 1]
<1> DEFINE n == Len(s)
           a == SubSeq(s, 1, i - 1)
           o == <<e>>
           b == SubSeq(s, i, n)
           ao == a \o o
           r == ao \o b
<1>1. n \in Nat /\ i \in 1 .. n + 1 /\ \A k \in 1 .. n : s[k] \in S
  BY ElementOfSeq
<1>2. a \in Seq(S) /\ Len(a) = i - 1 /\ \A k \in 1 .. i - 1 : a[k] = s[k]
  <2> DEFINE u == 1
             v == i - 1
  <2>1. u \in Int /\ v \in Int /\ \A k \in u .. v : s[k] \in S
    BY <1>1
  <2>2. (IF u <= v THEN v - u + 1 ELSE 0) = i - 1 /\ v - u + 1 = i - 1 /\ \A k \in 1 .. i - 1 : u + k - 1 = k
    BY <1>1
  <2> HIDE DEF u, v
  <2>3. /\ SubSeq(s, u, v) \in Seq(S)
        /\ Len(SubSeq(s, u, v)) = IF u <= v THEN v - u + 1 ELSE 0
        /\ \A k \in 1 .. v - u + 1 : SubSeq(s, u, v)[k] = s[u + k - 1]
    BY <2>1, SubSeqProperties
  <2> QED BY <2>2, <2>3 DEF u, v
<1>3. b \in Seq(S) /\ Len(b) = n + 1 - i /\ \A k \in 1 .. n + 1 - i : b[k] = s[i + k - 1]
  <2> DEFINE u == i
             v == n
  <2>1. u \in Int /\ v \in Int /\ \A k \in u .. v : s[k] \in S
    BY <1>1
  <2>2. (IF u <= v THEN v - u + 1 ELSE 0) = n + 1 - i /\ v - u + 1 = n + 1 - i /\ \A k \in 1 .. n + 1 - i : u + k - 1 = i + k - 1
    BY <1>1
  <2> HIDE DEF u, v
  <2>3. /\ SubSeq(s, u, v) \in Seq(S)
        /\ Len(SubSeq(s, u, v)) = IF u <= v THEN v - u + 1 ELSE 0
        /\ \A k \in 1 .. v - u + 1 : SubSeq(s, u, v)[k] = s[u + k - 1]
    BY <2>1, SubSeqProperties
  <2> QED BY <2>2, <2>3 DEF u, v
<1>o. o \in Seq(S) /\ Len(o) = 1 /\ o[1] = e
  OBVIOUS
<1>4. Graph!InsertAt(s, i, e) = r
  BY DEF Graph!InsertAt
<1> HIDE DEF a, b, o
<1>5. /\ ao \in Seq(S) /\ Len(ao) = Len(a) + Len(o)
      /\ \A k \in 1 .. Len(a) + Len(o) : ao[k] = IF k <= Len(a) THEN a[k] ELSE o[k - Len(a)]
  BY <1>2, <1>o, ConcatProperties
<1> HIDE DEF ao
<1>6. /\ r \in Seq(S) /\ Len(r) = Len(ao) + Len(b)
      /\ \A k \in 1 .. Len(ao) + Len(b) : r[k] = IF k <= Len(ao) THEN ao[k] ELSE b[k - Len(ao)]
  <2>1. ao \in Seq(S) /\ b \in Seq(S)
    BY <1>3, <1>5
  <2> QED BY <2>1, ConcatProperties
<1> HIDE DEF r, n
<1>7. Len(ao) = i /\ Len(a) + Len(o) = i
  BY <1>1, <1>2, <1>5, <1>o
<1>8. Len(r) = n + 1 /\ Len(ao) + Len(b) = n + 1
  BY <1>1, <1>3, <1>6, <1>7
<1>9. \A k \in 1 .. i : ao[k] = IF k <= i - 1 THEN a[k] ELSE o[k - (i - 1)]
  BY <1>2, <1>5, <1>7
<1>10. \A k \in 1 .. n + 1 : r[k] = IF k <= i THEN ao[k] ELSE b[k - i]
  BY <1>6, <1>7, <1>8
<1>11. ASSUME NEW k \in 1 .. i - 1 PROVE r[k] = s[k]
  <2>1. k \in 1 .. n + 1 /\ k \in 1 .. i /\ k <= i /\ k <= i - 1
    BY <1>1
  <2> QED BY <1>2, <1>9, <1>10, <2>1
<1>12. r[i] = e
  <2>1. i \in 1 .. n + 1 /\ i \in 1 .. i /\ i <= i /\ ~ (i <= i - 1) /\ i - (i - 1) = 1
    BY <1>1
  <2> QED BY <1>9, <1>10, <1>o, <2>1
<1>13. ASSUME NEW k \in i + 1 .. n + 1 PROVE r[k] = s[k - 1]
  <2> DEFINE m == k - i
  <2>1. k \in 1 .. n + 1 /\ ~ (k <= i) /\ m \in 1 .. n + 1 - i /\ i + m - 1 = k - 1
    BY <1>1
  <2>2. r[k] = b[m]
    BY <1>10, <2>1
  <2> HIDE DEF m
  <2> QED BY <1>3, <2>1, <2>2
<1> QED BY <1>4, <1>6, <1>8, <1>11, <1>12, <1>13 DEF n

(* A pushed change is in the stack once, however often it is pushed.       *)
LEMMA PushHolds ==
  ASSUME NEW s, NEW m, Holds(s, m), NEW c \in Nat
  PROVE  Holds(Graph!Push(s, c), m \cup {c})
<1>1. Graph!ToSet(s) = m
  BY ToSetIs
<1>2. CASE c \in m
  <2>1. Graph!Push(s, c) = s /\ m \cup {c} = m
    BY <1>1, <1>2 DEF Graph!Push
  <2> QED BY <2>1
<1>3. CASE c \notin m
  <2> DEFINE t == Append(s, c)
             n == Len(s)
  <2>1. s \in Seq(Nat) /\ n \in Nat
    BY DEF Holds
  <2>2. t \in Seq(Nat) /\ Len(t) = n + 1 /\ t[n + 1] = c /\ \A k \in 1 .. n : t[k] = s[k]
    BY <2>1, AppendProperties
  <2>3. Graph!Push(s, c) = t
    BY <1>1, <1>3 DEF Graph!Push
  <2> HIDE DEF t, n
  <2>4. /\ \A j, k \in 1 .. n : s[j] = s[k] => j = k
        /\ \A j \in 1 .. n : s[j] \in m
        /\ \A d \in m : \E j \in 1 .. n : s[j] = d
    BY DEF Holds, n
  <2>5. \A j \in 1 .. n + 1 : j = n + 1 \/ j \in 1 .. n
    BY <2>1
  <2>6. ASSUME NEW j \in 1 .. n + 1, NEW k \in 1 .. n + 1, t[j] = t[k] PROVE j = k
    <3>1. t[j] = c <=> j = n + 1
      BY <1>3, <2>2, <2>4, <2>5
    <3>2. t[k] = c <=> k = n + 1
      BY <1>3, <2>2, <2>4, <2>5
    <3> QED BY <2>2, <2>4, <2>5, <2>6, <3>1, <3>2
  <2>7. ASSUME NEW j \in 1 .. n + 1 PROVE t[j] \in m \cup {c}
    BY <2>2, <2>4, <2>5
  <2>8. ASSUME NEW d \in m \cup {c} PROVE \E j \in 1 .. n + 1 : t[j] = d
    <3>1. CASE d = c
      <4>1. n + 1 \in 1 .. n + 1
        BY <2>1
      <4> QED BY <2>2, <3>1, <4>1
    <3>2. CASE d \in m
      <4>1. PICK j \in 1 .. n : s[j] = d
        BY <2>4, <3>2
      <4>2. j \in 1 .. n + 1
        BY <2>1
      <4> QED BY <2>2, <4>1, <4>2
    <3> QED BY <3>1, <3>2
  <2> QED BY SMTT(30), <2>2, <2>3, <2>6, <2>7, <2>8 DEF Holds
<1> QED BY <1>2, <1>3

(* Two neighbours change places; twice is not at all.                      *)
LEMMA ReorderHolds ==
  ASSUME NEW s, NEW m, Holds(s, m), NEW i \in 1 .. Len(s) - 1
  PROVE  Holds(Graph!Reorder(s, i), m) /\ Graph!Reorder(Graph!Reorder(s, i), i) = s
<1> DEFINE n == Len(s)
           t == [s EXCEPT ![i] = s[i + 1], ![i + 1] = s[i]]
           To(k) == IF k = i THEN i + 1 ELSE IF k = i + 1 THEN i ELSE k
<1>1. s \in Seq(Nat) /\ n \in Nat /\ DOMAIN s = 1 .. n /\ \A k \in 1 .. n : s[k] \in Nat
  BY ElementOfSeq DEF Holds
<1>2. i \in 1 .. n /\ i + 1 \in 1 .. n /\ i # i + 1 /\ ~ (i + 1 > n)
  BY <1>1
<1>3. Graph!Reorder(s, i) = t
  BY <1>2 DEF Graph!Reorder
<1>4. t \in Seq(Nat) /\ Len(t) = n /\ DOMAIN t = 1 .. n
  BY <1>1, <1>2
<1>5. t[i] = s[i + 1] /\ t[i + 1] = s[i] /\ \A k \in 1 .. n : k # i /\ k # i + 1 => t[k] = s[k]
  BY <1>1, <1>2
<1>6. Graph!Reorder(t, i) = s
  <2> DEFINE u == [t EXCEPT ![i] = t[i + 1], ![i + 1] = t[i]]
  <2>1. Graph!Reorder(t, i) = u
    BY <1>2, <1>4 DEF Graph!Reorder
  <2>2. u \in Seq(Nat) /\ Len(u) = n /\ DOMAIN u = 1 .. n
    <3> HIDE DEF t
    <3>1. t[i] \in Nat /\ t[i + 1] \in Nat
      BY <1>2, <1>4, ElementOfSeq
    <3> QED BY <1>2, <1>4, <3>1
  <2>3. \A k \in 1 .. n : u[k] = s[k]
    <3> HIDE DEF t
    <3>1. u[i] = t[i + 1] /\ u[i + 1] = t[i] /\ \A k \in 1 .. n : k # i /\ k # i + 1 => u[k] = t[k]
      BY <1>2, <1>4
    <3> QED BY <1>5, <3>1
  <2> HIDE DEF u
  <2> QED BY <1>1, <2>1, <2>2, <2>3, SeqEqual
<1> HIDE DEF t, n
<1>7. /\ \A j, k \in 1 .. n : s[j] = s[k] => j = k
      /\ \A j \in 1 .. n : s[j] \in m
      /\ \A d \in m : \E j \in 1 .. n : s[j] = d
  BY DEF Holds, n
<1>8. \A k \in 1 .. n : To(k) \in 1 .. n /\ t[k] = s[To(k)] /\ To(To(k)) = k
  BY <1>2, <1>5
<1> HIDE DEF To
<1>9. ASSUME NEW j \in 1 .. n, NEW k \in 1 .. n, t[j] = t[k] PROVE j = k
  <2>1. To(j) = To(k)
    BY <1>7, <1>8, <1>9
  <2> QED BY <1>8, <2>1
<1>10. \A j \in 1 .. n : t[j] \in m
  BY <1>7, <1>8
<1>11. ASSUME NEW d \in m PROVE \E j \in 1 .. n : t[j] = d
  <2>1. PICK j \in 1 .. n : s[j] = d
    BY <1>7
  <2>2. To(j) \in 1 .. n /\ t[To(j)] = d
    BY <1>8, <2>1
  <2> QED BY <2>2
<1>12. Holds(t, m)
  BY <1>4, <1>9, <1>10, <1>11 DEF Holds
<1> QED BY <1>3, <1>6, <1>12

(* t is s with the changes i and i + 1 become one, or i become two.        *)
Folded(t, s, i, into) ==
  /\ t \in Seq(Nat) /\ Len(t) = Len(s) - 1 /\ t[i] = into
  /\ \A k \in 1 .. i - 1 : t[k] = s[k]
  /\ \A k \in i + 1 .. Len(s) - 1 : t[k] = s[k + 1]

Divided(t, s, i, first, second) ==
  /\ t \in Seq(Nat) /\ Len(t) = Len(s) + 1 /\ t[i] = first /\ t[i + 1] = second
  /\ \A k \in 1 .. i - 1 : t[k] = s[k]
  /\ \A k \in i + 2 .. Len(s) + 1 : t[k] = s[k - 1]

(* Where Fold has its entries from.                                        *)
LEMMA FoldIs ==
  ASSUME NEW s \in Seq(Nat), NEW i \in 1 .. Len(s) - 1, NEW into \in Nat
  PROVE  Folded(Graph!Fold(s, i, into), s, i, into)
<1> DEFINE n == Len(s)
           r == Graph!RemoveAt(s, i + 1)
           t == [r EXCEPT ![i] = into]
<1>1. n \in Nat /\ i \in 1 .. n - 1 /\ i + 1 \in 1 .. n /\ ~ (i + 1 > n) /\ (i + 1) - 1 = i
  OBVIOUS
<1>2. Graph!Fold(s, i, into) = t
  BY <1>1 DEF Graph!Fold
<1>3. /\ r \in Seq(Nat) /\ Len(r) = n - 1
      /\ \A k \in 1 .. (i + 1) - 1 : r[k] = s[k]
      /\ \A k \in i + 1 .. n - 1 : r[k] = s[k + 1]
  BY <1>1, RemoveAtIs
<1> HIDE DEF r, n
<1>4. DOMAIN r = 1 .. n - 1
  BY <1>3
<1>5. t \in Seq(Nat) /\ Len(t) = n - 1 /\ t[i] = into /\ \A k \in 1 .. n - 1 : k # i => t[k] = r[k]
  BY <1>1, <1>3, <1>4
<1> HIDE DEF t
<1>6. ASSUME NEW k \in 1 .. i - 1 PROVE t[k] = s[k]
  <2>1. k \in 1 .. n - 1 /\ k # i /\ k \in 1 .. (i + 1) - 1
    BY <1>1
  <2> QED BY <1>3, <1>5, <2>1
<1>7. ASSUME NEW k \in i + 1 .. n - 1 PROVE t[k] = s[k + 1]
  <2>1. k \in 1 .. n - 1 /\ k # i
    BY <1>1
  <2> QED BY <1>3, <1>5, <2>1
<1> QED BY <1>2, <1>5, <1>6, <1>7 DEF n, Folded

(* Where Split has its entries from.                                       *)
LEMMA SplitIs ==
  ASSUME NEW s \in Seq(Nat), NEW i \in 1 .. Len(s), NEW first \in Nat, NEW second \in Nat
  PROVE  Divided(Graph!Split(s, i, first, second), s, i, first, second)
<1> DEFINE n == Len(s)
           r == [s EXCEPT ![i] = first]
           l == i + 1
           t == Graph!InsertAt(r, l, second)
<1>1. n \in Nat /\ i \in 1 .. n /\ ~ (i > n) /\ DOMAIN s = 1 .. n
  OBVIOUS
<1>2. Graph!Split(s, i, first, second) = t
  BY <1>1 DEF Graph!Split
<1>3. r \in Seq(Nat) /\ Len(r) = n /\ r[i] = first /\ \A k \in 1 .. n : k # i => r[k] = s[k]
  BY <1>1
<1> HIDE DEF r
<1>4. l \in 1 .. Len(r) + 1 /\ l \in Nat /\ i \in 1 .. l - 1
  BY <1>1, <1>3
<1> HIDE DEF l
<1>5. /\ t \in Seq(Nat) /\ Len(t) = Len(r) + 1
      /\ \A k \in 1 .. l - 1 : t[k] = r[k]
      /\ t[l] = second
      /\ \A k \in l + 1 .. Len(r) + 1 : t[k] = r[k - 1]
  <2> DEFINE S == Nat
  <2>1. r \in Seq(S) /\ second \in S
    BY <1>3
  <2> HIDE DEF S
  <2>2. t \in Seq(S)
    BY <1>4, <2>1, InsertAtIs
  <2>3. Len(t) = Len(r) + 1
    BY <1>4, <2>1, InsertAtIs
  <2>4. t[l] = second
    BY <1>4, <2>1, InsertAtIs
  <2>5. \A k \in 1 .. l - 1 : t[k] = r[k]
    BY <1>4, <2>1, InsertAtIs
  <2>6. \A k \in l + 1 .. Len(r) + 1 : t[k] = r[k - 1]
    BY <1>4, <2>1, InsertAtIs
  <2> QED BY <2>2, <2>3, <2>4, <2>5, <2>6 DEF S
<1> HIDE DEF t, n
<1>6. t[i] = first
  BY <1>3, <1>4, <1>5
<1>7. t[i + 1] = second
  BY <1>5 DEF l
<1>8. ASSUME NEW k \in 1 .. i - 1 PROVE t[k] = s[k]
  <2>1. k \in 1 .. n /\ k # i /\ k \in 1 .. l - 1
    BY <1>1 DEF l
  <2> QED BY <1>3, <1>5, <2>1
<1>9. ASSUME NEW k \in i + 2 .. n + 1 PROVE t[k] = s[k - 1]
  <2>1. k - 1 \in 1 .. n /\ k - 1 # i /\ k \in l + 1 .. n + 1
    BY <1>1 DEF l
  <2> QED BY <1>3, <1>5, <2>1
<1> QED BY <1>2, <1>3, <1>5, <1>6, <1>7, <1>8, <1>9 DEF n, Divided

(* Two neighbours become one that is not elsewhere in the stack.           *)
LEMMA FoldHolds ==
  ASSUME NEW s, NEW m, Holds(s, m), NEW i \in 1 .. Len(s) - 1, NEW into \in Nat,
         into \notin m \ {s[i], s[i + 1]}
  PROVE  Holds(Graph!Fold(s, i, into), (m \ {s[i], s[i + 1]}) \cup {into})
<1> DEFINE n == Len(s)
           t == Graph!Fold(s, i, into)
           w == (m \ {s[i], s[i + 1]}) \cup {into}
           From(k) == IF k < i THEN k ELSE k + 1
           To(k) == IF k < i THEN k ELSE k - 1
<1>1. s \in Seq(Nat) /\ n \in Nat /\ i \in 1 .. n - 1 /\ i \in 1 .. n /\ i + 1 \in 1 .. n
  BY DEF Holds
<1>2. /\ t \in Seq(Nat) /\ Len(t) = n - 1 /\ t[i] = into
      /\ \A k \in 1 .. i - 1 : t[k] = s[k]
      /\ \A k \in i + 1 .. n - 1 : t[k] = s[k + 1]
  <2>1. Folded(t, s, i, into)
    BY <1>1, FoldIs
  <2> QED BY <2>1 DEF Folded
<1>3. /\ \A j, k \in 1 .. n : s[j] = s[k] => j = k
      /\ \A j \in 1 .. n : s[j] \in m
      /\ \A d \in m : \E j \in 1 .. n : s[j] = d
  BY DEF Holds
<1> HIDE DEF t, n
<1>4. ASSUME NEW k \in 1 .. n - 1, k # i
      PROVE  From(k) \in 1 .. n /\ From(k) # i /\ From(k) # i + 1 /\ t[k] = s[From(k)] /\ To(From(k)) = k
  <2>1. k \in 1 .. i - 1 \/ k \in i + 1 .. n - 1
    BY <1>1, <1>4
  <2> QED BY <1>1, <1>2, <2>1
<1>5. ASSUME NEW k \in 1 .. n, k # i, k # i + 1
      PROVE  To(k) \in 1 .. n - 1 /\ To(k) # i /\ From(To(k)) = k
  BY <1>1, <1>5
<1> HIDE DEF From, To
<1>6. ASSUME NEW k \in 1 .. n - 1, k # i PROVE t[k] \in m \ {s[i], s[i + 1]}
  BY SMTT(30), <1>1, <1>3, <1>4, <1>6
<1>7. ASSUME NEW j \in 1 .. n - 1, NEW k \in 1 .. n - 1, t[j] = t[k] PROVE j = k
  <2>1. CASE j = i \/ k = i
    BY <1>2, <1>6, <1>7, <2>1
  <2>2. CASE j # i /\ k # i
    <3>1. From(j) = From(k)
      BY <1>3, <1>4, <1>7, <2>2
    <3> QED BY <1>4, <2>2, <3>1
  <2> QED BY <2>1, <2>2
<1>8. ASSUME NEW k \in 1 .. n - 1 PROVE t[k] \in w
  BY <1>2, <1>6
<1>9. ASSUME NEW d \in w PROVE \E k \in 1 .. n - 1 : t[k] = d
  <2>1. CASE d = into
    BY <1>1, <1>2, <2>1
  <2>2. CASE d # into
    <3>1. PICK j \in 1 .. n : s[j] = d /\ j # i /\ j # i + 1
      BY <1>3, <2>2
    <3>2. To(j) \in 1 .. n - 1 /\ t[To(j)] = d
      BY <1>4, <1>5, <3>1
    <3> QED BY <3>2
  <2> QED BY <2>1, <2>2
<1> HIDE DEF w
<1>10. Holds(t, w)
  BY <1>2, <1>7, <1>8, <1>9 DEF Holds
<1> QED BY <1>10 DEF t, w

(* One becomes two that are not elsewhere in the stack.                    *)
LEMMA SplitHolds ==
  ASSUME NEW s, NEW m, Holds(s, m), NEW i \in 1 .. Len(s), NEW first \in Nat, NEW second \in Nat,
         first # second, first \notin m \ {s[i]}, second \notin m \ {s[i]}
  PROVE  Holds(Graph!Split(s, i, first, second), (m \ {s[i]}) \cup {first, second})
<1> DEFINE n == Len(s)
           t == Graph!Split(s, i, first, second)
           w == (m \ {s[i]}) \cup {first, second}
           From(k) == IF k < i THEN k ELSE k - 1
           To(k) == IF k < i THEN k ELSE k + 1
<1>1. s \in Seq(Nat) /\ n \in Nat /\ i \in 1 .. n /\ i \in 1 .. n + 1 /\ i + 1 \in 1 .. n + 1
  BY DEF Holds
<1>2. /\ t \in Seq(Nat) /\ Len(t) = n + 1 /\ t[i] = first /\ t[i + 1] = second
      /\ \A k \in 1 .. i - 1 : t[k] = s[k]
      /\ \A k \in i + 2 .. n + 1 : t[k] = s[k - 1]
  <2>1. Divided(t, s, i, first, second)
    BY <1>1, SplitIs
  <2> QED BY <2>1 DEF Divided
<1>3. /\ \A j, k \in 1 .. n : s[j] = s[k] => j = k
      /\ \A j \in 1 .. n : s[j] \in m
      /\ \A d \in m : \E j \in 1 .. n : s[j] = d
  BY DEF Holds
<1> HIDE DEF t, n
<1>4. ASSUME NEW k \in 1 .. n + 1, k # i, k # i + 1
      PROVE  From(k) \in 1 .. n /\ From(k) # i /\ t[k] = s[From(k)] /\ To(From(k)) = k
  <2>1. CASE k \in 1 .. i - 1
    <3>1. t[k] = s[k]
      BY <1>2, <2>1
    <3>2. From(k) = k /\ k \in 1 .. n /\ k # i /\ To(k) = k
      BY <1>1, <2>1
    <3> QED BY <3>1, <3>2
  <2>2. CASE k \in i + 2 .. n + 1
    <3>1. t[k] = s[k - 1]
      BY <1>2, <2>2
    <3>2. From(k) = k - 1 /\ k - 1 \in 1 .. n /\ k - 1 # i /\ To(k - 1) = k
      BY <1>1, <2>2
    <3> QED BY <3>1, <3>2
  <2>3. k \in 1 .. i - 1 \/ k \in i + 2 .. n + 1
    BY <1>1, <1>4
  <2> QED BY <2>1, <2>2, <2>3
<1>5. ASSUME NEW k \in 1 .. n, k # i
      PROVE  To(k) \in 1 .. n + 1 /\ To(k) # i /\ To(k) # i + 1 /\ From(To(k)) = k
  BY <1>1, <1>5
<1> HIDE DEF From, To
<1>6. ASSUME NEW k \in 1 .. n + 1, k # i, k # i + 1 PROVE t[k] \in m \ {s[i]}
  BY SMTT(30), <1>1, <1>3, <1>4, <1>6
<1>7. ASSUME NEW j \in 1 .. n + 1, NEW k \in 1 .. n + 1, t[j] = t[k] PROVE j = k
  <2>1. CASE j = i \/ k = i \/ j = i + 1 \/ k = i + 1
    BY <1>2, <1>6, <1>7, <2>1
  <2>2. CASE j # i /\ k # i /\ j # i + 1 /\ k # i + 1
    <3>1. From(j) = From(k)
      BY <1>3, <1>4, <1>7, <2>2
    <3> QED BY <1>4, <2>2, <3>1
  <2> QED BY <2>1, <2>2
<1>8. ASSUME NEW k \in 1 .. n + 1 PROVE t[k] \in w
  BY <1>2, <1>6
<1>9. ASSUME NEW d \in w PROVE \E k \in 1 .. n + 1 : t[k] = d
  <2>1. CASE d = first \/ d = second
    BY <1>1, <1>2, <2>1
  <2>2. CASE d # first /\ d # second
    <3>1. PICK j \in 1 .. n : s[j] = d /\ j # i
      BY <1>3, <2>2
    <3>2. To(j) \in 1 .. n + 1 /\ t[To(j)] = d
      BY <1>4, <1>5, <3>1
    <3> QED BY <3>2
  <2> QED BY <2>1, <2>2
<1> HIDE DEF w
<1>10. Holds(t, w)
  BY <1>2, <1>7, <1>8, <1>9 DEF Holds
<1> QED BY <1>10 DEF t, w

(* A fold undoes a split.                                                  *)
LEMMA SplitFold ==
  ASSUME NEW s \in Seq(Nat), NEW i \in 1 .. Len(s), NEW first \in Nat, NEW second \in Nat
  PROVE  Graph!Fold(Graph!Split(s, i, first, second), i, s[i]) = s
<1> DEFINE n == Len(s)
           t == Graph!Split(s, i, first, second)
           e == s[i]
           u == Graph!Fold(t, i, e)
<1>1. n \in Nat /\ i \in 1 .. n /\ e \in Nat
  BY ElementOfSeq
<1>2. /\ t \in Seq(Nat) /\ Len(t) = n + 1
      /\ \A k \in 1 .. i - 1 : t[k] = s[k]
      /\ \A k \in i + 2 .. n + 1 : t[k] = s[k - 1]
  <2>1. Divided(t, s, i, first, second)
    BY <1>1, SplitIs
  <2> QED BY <2>1 DEF Divided
<1> HIDE DEF t, e
<1>3. i \in 1 .. Len(t) - 1 /\ Len(t) - 1 = n
  BY <1>1, <1>2
<1>4. /\ u \in Seq(Nat) /\ Len(u) = Len(t) - 1 /\ u[i] = e
      /\ \A k \in 1 .. i - 1 : u[k] = t[k]
      /\ \A k \in i + 1 .. Len(t) - 1 : u[k] = t[k + 1]
  <2>1. Folded(u, t, i, e)
    BY <1>1, <1>2, <1>3, FoldIs
  <2> QED BY <2>1 DEF Folded
<1> HIDE DEF u
<1>5. Len(u) = n
  BY <1>3, <1>4
<1>6. ASSUME NEW k \in 1 .. n PROVE u[k] = s[k]
  <2>1. CASE k = i
    BY <1>4, <2>1 DEF e
  <2>2. CASE k < i
    <3>1. k \in 1 .. i - 1
      BY <1>1, <2>2
    <3> QED BY <1>2, <1>4, <3>1
  <2>3. CASE k > i
    <3>1. k \in i + 1 .. Len(t) - 1 /\ k + 1 \in i + 2 .. n + 1 /\ (k + 1) - 1 = k
      BY <1>1, <1>3, <2>3
    <3> QED BY <1>2, <1>4, <3>1
  <2> QED BY <1>1, <2>1, <2>2, <2>3
<1>7. u = s
  <2> HIDE DEF n
  <2>1. \A k \in 1 .. Len(u) : u[k] = s[k]
    BY <1>5, <1>6
  <2> QED BY <1>4, <1>5, <2>1, SeqEqual DEF n
<1> QED BY <1>7 DEF u, t, e

-----------------------------------------------------------------------------
(* The graph of definitions.                                               *)

(* The identities of g are those that same says.                           *)
Tells(g, same) ==
  /\ g \in [identity : Seq(Nat), minted : Nat]
  /\ \A o \in 1 .. Len(g.identity) : g.identity[o] <= g.minted
  /\ \A p \in same : p \in (1 .. Len(g.identity)) \X (1 .. Len(g.identity))
  /\ \A a, b \in 1 .. Len(g.identity) : g.identity[a] = g.identity[b] <=> <<a, b>> \in same

(* A new occurrence has an identity of its own.                            *)
LEMMA AddTells ==
  ASSUME NEW g, NEW same, Tells(g, same)
  PROVE  Tells(Graph!Add(g), same \cup {<<Len(Graph!Add(g).identity), Len(Graph!Add(g).identity)>>})
<1> DEFINE ids == g.identity
           n == Len(ids)
           top == g.minted
           h == Append(ids, top + 1)
           new == same \cup {<<n + 1, n + 1>>}
<1>1. ids \in Seq(Nat) /\ n \in Nat /\ top \in Nat /\ \A o \in 1 .. n : ids[o] \in Nat
  BY ElementOfSeq DEF Tells
<1>2. /\ \A o \in 1 .. n : ids[o] <= top
      /\ \A p \in same : p \in (1 .. n) \X (1 .. n)
      /\ \A a, b \in 1 .. n : ids[a] = ids[b] <=> <<a, b>> \in same
  BY DEF Tells
<1>3. Graph!Add(g) = [identity |-> h, minted |-> top + 1]
  BY DEF Graph!Add
<1>4. h \in Seq(Nat) /\ Len(h) = n + 1 /\ h[n + 1] = top + 1 /\ \A o \in 1 .. n : h[o] = ids[o]
  BY <1>1, AppendProperties
<1> HIDE DEF h, n, ids, top
<1>5. \A o \in 1 .. n + 1 : o = n + 1 \/ o \in 1 .. n
  BY <1>1
<1>6. ASSUME NEW o \in 1 .. n + 1 PROVE h[o] <= top + 1 /\ (h[o] = top + 1 <=> o = n + 1)
  <2>1. CASE o = n + 1
    BY <1>1, <1>4, <2>1
  <2>2. CASE o \in 1 .. n
    <3>1. ids[o] \in Nat /\ ids[o] <= top /\ h[o] = ids[o]
      BY <1>1, <1>2, <1>4, <2>2
    <3>2. o # n + 1
      BY <1>1, <2>2
    <3> QED BY <1>1, <3>1, <3>2
  <2> QED BY <1>5, <2>1, <2>2
<1>7. ASSUME NEW p \in new PROVE p \in (1 .. n + 1) \X (1 .. n + 1)
  <2>1. 1 .. n \subseteq 1 .. n + 1 /\ n + 1 \in 1 .. n + 1
    BY <1>1
  <2> QED BY <1>2, <2>1
<1>8. ASSUME NEW a \in 1 .. n + 1, NEW b \in 1 .. n + 1 PROVE h[a] = h[b] <=> <<a, b>> \in new
  <2>1. n + 1 \notin 1 .. n
    BY <1>1
  <2>2. CASE a = n + 1 \/ b = n + 1
    <3>1. h[a] = h[b] <=> a = n + 1 /\ b = n + 1
      BY <1>6, <2>2
    <3>2. <<a, b>> \notin same
      BY <1>2, <2>1, <2>2
    <3>3. <<a, b>> = <<n + 1, n + 1>> <=> a = n + 1 /\ b = n + 1
      OBVIOUS
    <3> QED BY <3>1, <3>2, <3>3
  <2>3. CASE a \in 1 .. n /\ b \in 1 .. n
    <3>1. <<a, b>> # <<n + 1, n + 1>>
      BY <2>1, <2>3
    <3> QED BY <1>2, <1>4, <2>3, <3>1
  <2> QED BY <1>5, <2>2, <2>3
<1> HIDE DEF new
<1>9. top + 1 \in Nat
  BY <1>1
<1>10. Tells([identity |-> h, minted |-> top + 1], new)
  BY <1>4, <1>6, <1>7, <1>8, <1>9 DEF Tells
<1>11. Graph!Add(g).identity = h
  BY <1>3
<1> QED BY <1>3, <1>4, <1>10, <1>11 DEF new

(* A join makes one class of those of its two occurrences.                 *)
LEMMA JoinTells ==
  ASSUME NEW g, NEW same, Tells(g, same), NEW a \in DOMAIN g.identity, NEW b \in DOMAIN g.identity,
         NEW near,
         near = {p \in DOMAIN g.identity : <<a, p>> \in same} \cup {p \in DOMAIN g.identity : <<b, p>> \in same}
  PROVE  Tells(Graph!Join(g, a, b), same \cup (near \X near))
<1> DEFINE ids == g.identity
           n == Len(ids)
           top == g.minted
           h == [o \in 1 .. n |-> IF ids[o] = ids[b] THEN ids[a] ELSE ids[o]]
           new == same \cup (near \X near)
<1>1. /\ ids \in Seq(Nat) /\ n \in Nat /\ top \in Nat /\ DOMAIN ids = 1 .. n
      /\ \A o \in 1 .. n : ids[o] \in Nat
  BY ElementOfSeq DEF Tells
<1>2. /\ \A o \in 1 .. n : ids[o] <= top
      /\ \A p \in same : p \in (1 .. n) \X (1 .. n)
      /\ \A x, y \in 1 .. n : ids[x] = ids[y] <=> <<x, y>> \in same
  BY DEF Tells
<1>3. Graph!Join(g, a, b) = [identity |-> h, minted |-> top]
  <2>1. g = [identity |-> ids, minted |-> top]
    BY DEF Tells
  <2>2. Graph!Join(g, a, b) = [g EXCEPT !.identity = h]
    BY <1>1 DEF Graph!Join
  <2> HIDE DEF h
  <2> QED BY <2>1, <2>2
<1>4. /\ h \in Seq(Nat) /\ Len(h) = n
      /\ \A o \in 1 .. n : h[o] = IF ids[o] = ids[b] THEN ids[a] ELSE ids[o]
  BY <1>1
<1>5. a \in 1 .. n /\ b \in 1 .. n
  BY <1>1
<1> HIDE DEF h, n, ids, top
<1>6. \A p \in 1 .. n : p \in near <=> ids[p] = ids[a] \/ ids[p] = ids[b]
  BY <1>1, <1>2, <1>5 DEF ids
<1>7. near \subseteq 1 .. n
  BY <1>1 DEF ids
<1>8. ASSUME NEW x \in 1 .. n, NEW y \in 1 .. n PROVE h[x] = h[y] <=> <<x, y>> \in new
  <2>1. <<x, y>> \in new <=> ids[x] = ids[y] \/ (x \in near /\ y \in near)
    BY <1>2
  <2> QED BY <1>4, <1>6, <2>1
<1>9. ASSUME NEW p \in new PROVE p \in (1 .. n) \X (1 .. n)
  BY <1>2, <1>7
<1>10. ASSUME NEW o \in 1 .. n PROVE h[o] <= top
  BY <1>2, <1>4, <1>5
<1> HIDE DEF new
<1>11. Tells([identity |-> h, minted |-> top], new)
  BY <1>1, <1>4, <1>8, <1>9, <1>10 DEF Tells
<1> QED BY <1>3, <1>11 DEF new

(* A severed occurrence is alone, and no other two are put together or     *)
(* apart.                                                                  *)
LEMMA SeverTells ==
  ASSUME NEW g, NEW same, Tells(g, same), NEW o \in DOMAIN g.identity
  PROVE  Tells(Graph!Sever(g, o), {p \in same : p = <<o, o>> \/ (p[1] # o /\ p[2] # o)})
<1> DEFINE ids == g.identity
           n == Len(ids)
           top == g.minted
           h == [ids EXCEPT ![o] = top + 1]
           new == {p \in same : p = <<o, o>> \/ (p[1] # o /\ p[2] # o)}
<1>1. /\ ids \in Seq(Nat) /\ n \in Nat /\ top \in Nat /\ DOMAIN ids = 1 .. n
      /\ \A k \in 1 .. n : ids[k] \in Nat
  BY ElementOfSeq DEF Tells
<1>2. /\ \A k \in 1 .. n : ids[k] <= top
      /\ \A p \in same : p \in (1 .. n) \X (1 .. n)
      /\ \A x, y \in 1 .. n : ids[x] = ids[y] <=> <<x, y>> \in same
  BY DEF Tells
<1>3. Graph!Sever(g, o) = [identity |-> h, minted |-> top + 1]
  BY <1>1 DEF Graph!Sever
<1>4. /\ h \in Seq(Nat) /\ Len(h) = n /\ h[o] = top + 1
      /\ \A k \in 1 .. n : k # o => h[k] = ids[k]
  BY <1>1
<1>5. o \in 1 .. n
  BY <1>1
<1> HIDE DEF h, n, ids, top
<1>6. ASSUME NEW k \in 1 .. n PROVE h[k] <= top + 1 /\ (h[k] = top + 1 <=> k = o)
  <2>1. CASE k = o
    BY <1>1, <1>4, <2>1
  <2>2. CASE k # o
    <3>1. h[k] \in Nat /\ h[k] <= top
      BY <1>1, <1>2, <1>4, <2>2
    <3> QED BY <1>1, <2>2, <3>1
  <2> QED BY <2>1, <2>2
<1>7. ASSUME NEW x \in 1 .. n, NEW y \in 1 .. n PROVE h[x] = h[y] <=> <<x, y>> \in new
  <2>1. <<x, y>> \in new <=> ids[x] = ids[y] /\ ((x = o /\ y = o) \/ (x # o /\ y # o))
    BY <1>2
  <2>2. CASE x = o \/ y = o
    <3>1. h[x] = h[y] <=> x = o /\ y = o
      BY <1>6, <2>2
    <3> QED BY <2>1, <2>2, <3>1
  <2>3. CASE x # o /\ y # o
    BY <1>4, <2>1, <2>3
  <2> QED BY <2>2, <2>3
<1>8. \A p \in new : p \in (1 .. n) \X (1 .. n)
  BY <1>2
<1> HIDE DEF new
<1>9. top + 1 \in Nat
  BY <1>1
<1>10. Tells([identity |-> h, minted |-> top + 1], new)
  BY <1>4, <1>6, <1>7, <1>8, <1>9 DEF Tells
<1> QED BY <1>3, <1>10 DEF new

-----------------------------------------------------------------------------
(* What each input keeps: documents are documents, the graph tells what    *)
(* its joins say, the stack holds its members.                             *)
DocumentsOK ==
  /\ input = [kind |-> "documents", base |-> input.base, left |-> input.left, right |-> input.right]
  /\ input.base \in Seq(Lines) /\ input.left \in Seq(Lines) /\ input.right \in Seq(Lines)

GraphOK ==
  /\ input = [kind |-> "graph", graph |-> input.graph, same |-> input.same, ops |-> input.ops]
  /\ Tells(input.graph, input.same)

StackOK ==
  /\ input = [kind |-> "stack", stack |-> input.stack, members |-> input.members, ops |-> input.ops]
  /\ input.members \subseteq Nat
  /\ Holds(input.stack, input.members)

EditsInv ==
  \/ Is("documents") /\ DocumentsOK
  \/ Is("graph") /\ GraphOK
  \/ Is("stack") /\ StackOK

(* The part of the invariant that is about an input is that of its kind.   *)
LEMMA KindsApart ==
  ASSUME EditsInv
  PROVE  /\ Is("documents") => DocumentsOK
         /\ Is("graph") => GraphOK
         /\ Is("stack") => StackOK
BY DEF EditsInv, Is

(* Bounded documents are documents.                                        *)
LEMMA DocsAreTexts ==
  ASSUME NEW d \in Docs
  PROVE  d \in Seq(Lines)
<1>1. PICK n \in 0 .. MaxLen : d \in [1 .. n -> Lines]
  BY DEF Docs
<1> QED BY <1>1

(* The invariant is enough for OrdersAgree.                                *)
LEMMA Agreed ==
  ASSUME EditsInv
  PROVE  OrdersAgree
<1> SUFFICES ASSUME Is("documents") PROVE OrdersAgree
  BY DEF OrdersAgree
<1> DEFINE b == input.base
           l == input.left
           r == input.right
<1>1. b \in Seq(Lines) /\ l \in Seq(Lines) /\ r \in Seq(Lines)
  BY KindsApart DEF DocumentsOK
<1>2. /\ Apply(Mine, b) = l
      /\ Independent(Mine, Onto) =>
           /\ Combine(b, Mine, RebasePatch(Onto, Mine)) # Refused
           /\ Combine(b, Mine, RebasePatch(Onto, Mine)) = Combine(b, Onto, RebasePatch(Mine, Onto))
  BY <1>1, SidesAgree DEF Mine, Onto
<1> QED BY <1>2 DEF OrdersAgree, Commute

(* The invariant is enough for AdmissionsVerify.                           *)
LEMMA Verified ==
  ASSUME EditsInv
  PROVE  AdmissionsVerify
<1> SUFFICES ASSUME Is("documents") PROVE AdmissionsVerify
  BY DEF AdmissionsVerify
<1> DEFINE b == input.base
           l == input.left
           r == input.right
<1>1. b \in Seq(Lines) /\ l \in Seq(Lines) /\ r \in Seq(Lines)
  BY KindsApart DEF DocumentsOK
<1>2. ASSUME Admit(b, l, r).merged
      PROVE  /\ VerifyWitness(b, Admit(b, l, r).witness, Admit(b, l, r).result)
             /\ Admit(b, r, l).merged /\ Admit(b, r, l).result = Admit(b, l, r).result
  BY <1>1, <1>2, AdmittedIsVerified
<1>3. ASSUME NEW w \in Forgeries, NEW d \in {b, l, r}, VerifyWitness(b, w, d)
      PROVE  Admit(b, Apply(w.p, b), r).merged /\ Admit(b, Apply(w.p, b), r).result = d
  <2>1. w.q = Diff(b, r)
    BY DEF Forgeries, Onto
  <2>2. Apply(w.q, b) = r
    BY <1>1, <2>1, SidesAgree
  <2>3. d # Refused
    BY <1>1, RefusedIsNoResult
  <2> HIDE DEF b, l, r
  <2> QED BY <1>3, <2>2, <2>3, VerifiedIsAdmitted
<1> QED BY <1>2, <1>3 DEF AdmissionsVerify

(* The invariant is enough for IdentityFollowsJoins.                       *)
LEMMA Identified ==
  ASSUME EditsInv
  PROVE  IdentityFollowsJoins
<1> SUFFICES ASSUME Is("graph") PROVE IdentityFollowsJoins
  BY DEF IdentityFollowsJoins
<1>1. Tells(input.graph, input.same)
  BY KindsApart DEF GraphOK
<1>2. DOMAIN input.graph.identity = 1 .. Len(input.graph.identity)
  BY <1>1 DEF Tells
<1> QED BY <1>1, <1>2 DEF Tells, IdentityFollowsJoins

(* The invariant is enough for StackKeepsItsChanges.                       *)
LEMMA Kept ==
  ASSUME EditsInv
  PROVE  StackKeepsItsChanges
<1> SUFFICES ASSUME Is("stack") PROVE StackKeepsItsChanges
  BY DEF StackKeepsItsChanges
<1> DEFINE s == input.stack
           m == input.members
<1>1. Holds(s, m) /\ m \subseteq Nat
  BY KindsApart DEF StackOK
<1> HIDE DEF s, m
<1>2. s \in Seq(Nat) /\ Len(s) \in Nat /\ DOMAIN s = 1 .. Len(s)
  BY <1>1 DEF Holds
<1>3. IsInjective(s) /\ ToSet(s) = m
  BY <1>1, <1>2, HoldsIs
<1>4. ASSUME NEW i \in DOMAIN s, NEW first \in Fresh, NEW second \in Fresh
      PROVE  Graph!Fold(Graph!Split(s, i, first, second), i, s[i]) = s
  <2>1. first \in Nat /\ second \in Nat /\ i \in 1 .. Len(s)
    BY <1>2 DEF Fresh
  <2> QED BY <1>2, <2>1, SplitFold
<1>5. ASSUME NEW i \in 1 .. Len(s) - 1
      PROVE  Graph!Reorder(Graph!Reorder(s, i), i) = s
  BY <1>1, ReorderHolds
<1>6. ASSUME NEW c \in 1 .. MaxOps
      PROVE  Graph!Absorb(s, <<c>>) # Refused <=> c \in m
  <2>1. Graph!ToSet(<<c>>) = {c}
    BY DEF Graph!ToSet
  <2>2. Graph!ToSet(s) = m
    BY <1>1, ToSetIs
  <2>3. Len(<<c>>) = 1 /\ Refused # 1
    BY RefusedIsNoResult
  <2> QED BY <2>1, <2>2, <2>3 DEF Graph!Absorb
<1> QED BY <1>3, <1>4, <1>5, <1>6 DEF StackKeepsItsChanges, s, m

-----------------------------------------------------------------------------
(* An input with some of its parts exchanged.                              *)
LEMMA DocumentParts ==
  ASSUME NEW b, NEW l, NEW r, NEW d, NEW x,
         x = [kind |-> "documents", base |-> b, left |-> l, right |-> r]
  PROVE  /\ [x EXCEPT !.left = d] = [kind |-> "documents", base |-> b, left |-> d, right |-> r]
         /\ [x EXCEPT !.right = d] = [kind |-> "documents", base |-> b, left |-> l, right |-> d]
OBVIOUS

GraphGrown(x, h, t) == [x EXCEPT !.graph = h, !.same = t]

GraphWith(x, h, m, t) == [x EXCEPT !.graph = h, !.ops = m, !.same = t]

StackWith(x, m, v, t) == [x EXCEPT !.ops = m, !.members = v, !.stack = t]

(* A graph with some of its parts exchanged.                               *)
LEMMA GraphParts ==
  ASSUME NEW g, NEW s, NEW n, NEW h, NEW t, NEW m, NEW x,
         x = [kind |-> "graph", graph |-> g, same |-> s, ops |-> n]
  PROVE  /\ GraphGrown(x, h, t) = [kind |-> "graph", graph |-> h, same |-> t, ops |-> n]
         /\ GraphWith(x, h, m, t) = [kind |-> "graph", graph |-> h, same |-> t, ops |-> m]
<1> DEFINE y == [x EXCEPT !.graph = h]
           z == [y EXCEPT !.ops = m]
<1>1. y = [kind |-> "graph", graph |-> h, same |-> s, ops |-> n]
  OBVIOUS
<1>2. GraphGrown(x, h, t) = [y EXCEPT !.same = t]
  BY DEF GraphGrown
<1>3. GraphWith(x, h, m, t) = [z EXCEPT !.same = t]
  BY DEF GraphWith
<1> HIDE DEF y
<1>4. z = [kind |-> "graph", graph |-> h, same |-> s, ops |-> m]
  BY <1>1
<1>5. [y EXCEPT !.same = t] = [kind |-> "graph", graph |-> h, same |-> t, ops |-> n]
  BY <1>1
<1> HIDE DEF z
<1>6. [z EXCEPT !.same = t] = [kind |-> "graph", graph |-> h, same |-> t, ops |-> m]
  BY <1>4
<1> QED BY <1>2, <1>3, <1>5, <1>6

(* A stack with some of its parts exchanged.                               *)
LEMMA StackParts ==
  ASSUME NEW s, NEW w, NEW n, NEW t, NEW v, NEW m, NEW x,
         x = [kind |-> "stack", stack |-> s, members |-> w, ops |-> n]
  PROVE  StackWith(x, m, v, t)
           = [kind |-> "stack", stack |-> t, members |-> v, ops |-> m]
<1> DEFINE y == [x EXCEPT !.ops = m]
           z == [y EXCEPT !.members = v]
<1>1. y = [kind |-> "stack", stack |-> s, members |-> w, ops |-> m]
  OBVIOUS
<1>2. StackWith(x, m, v, t) = [z EXCEPT !.stack = t]
  BY DEF StackWith
<1> HIDE DEF y
<1>3. z = [kind |-> "stack", stack |-> s, members |-> v, ops |-> m]
  BY <1>1
<1> HIDE DEF z
<1>4. [z EXCEPT !.stack = t] = [kind |-> "stack", stack |-> t, members |-> v, ops |-> m]
  BY <1>3
<1> QED BY <1>2, <1>4

(* The invariant is inductive.                                             *)
LEMMA EditsBegin ==
  ASSUME EditsInit
  PROVE  EditsInv
<1>1. CASE input \in Documents0
  <2>1. PICK d \in Docs : input = [kind |-> "documents", base |-> d, left |-> d, right |-> d]
    BY <1>1 DEF Documents0
  <2>2. d \in Seq(Lines)
    BY DocsAreTexts
  <2> QED BY <2>1, <2>2 DEF EditsInv, Is, DocumentsOK
<1>2. CASE input \in Definitions0
  <2> DEFINE g == [identity |-> <<>>, minted |-> 0]
  <2>1. input = [kind |-> "graph", graph |-> g, same |-> {}, ops |-> 0]
    BY <1>2 DEF Definitions0, Graph!NoDefinitions
  <2>2. Tells(g, {})
    <3>1. g.identity = <<>> /\ g.minted = 0 /\ <<>> \in Seq(Nat) /\ Len(<<>>) = 0
      OBVIOUS
    <3>2. g \in [identity : Seq(Nat), minted : Nat]
      BY <3>1
    <3> QED BY <3>1, <3>2 DEF Tells
  <2> HIDE DEF g
  <2> QED BY <2>1, <2>2 DEF EditsInv, Is, GraphOK
<1>3. CASE input \in ChangeStacks
  <2>1. input = [kind |-> "stack", stack |-> <<>>, members |-> {}, ops |-> 0]
    BY <1>3 DEF ChangeStacks
  <2>2. Holds(<<>>, {})
    BY DEF Holds
  <2> QED BY <2>1, <2>2 DEF EditsInv, Is, StackOK
<1> QED BY <1>1, <1>2, <1>3 DEF EditsInit

(* A side rewritten once is still a document.                              *)
LEMMA RewriteStep ==
  ASSUME EditsInv, Rewrite
  PROVE  EditsInv'
<1>1. Is("documents") /\ DocumentsOK
  BY KindsApart DEF Rewrite
<1>2. PICK side \in {"left", "right"}, doc \in Docs : input' = [input EXCEPT ![side] = doc]
  BY DEF Rewrite
<1>3. doc \in Seq(Lines)
  BY DocsAreTexts
<1>4. input.kind = "documents"
  BY <1>1 DEF Is
<1> DEFINE b == input.base
           l == input.left
           r == input.right
<1>5. input = [kind |-> "documents", base |-> b, left |-> l, right |-> r]
      /\ b \in Seq(Lines) /\ l \in Seq(Lines) /\ r \in Seq(Lines)
  BY <1>1 DEF DocumentsOK
<1> HIDE DEF b, l, r
<1>6. CASE side = "left"
  <2>1. input' = [kind |-> "documents", base |-> b, left |-> doc, right |-> r]
    BY <1>2, <1>5, <1>6, DocumentParts
  <2> QED BY <1>3, <1>5, <2>1 DEF EditsInv, Is, DocumentsOK
<1>7. CASE side = "right"
  <2>1. input' = [kind |-> "documents", base |-> b, left |-> l, right |-> doc]
    BY <1>2, <1>5, <1>7, DocumentParts
  <2> QED BY <1>3, <1>5, <2>1 DEF EditsInv, Is, DocumentsOK
<1> QED BY <1>6, <1>7

(* Adding, joining and severing occurrences keep the invariant.            *)
LEMMA GraphStep ==
  ASSUME EditsInv, AddOccurrence \/ JoinOccurrences \/ SeverOccurrence
  PROVE  EditsInv'
<1> DEFINE g == input.graph
           same == input.same
           n == input.ops
<1>1. Is("graph") /\ GraphOK
  BY KindsApart DEF AddOccurrence, JoinOccurrences, SeverOccurrence
<1>2. Tells(g, same) /\ input = [kind |-> "graph", graph |-> g, same |-> same, ops |-> n]
  BY <1>1 DEF GraphOK
<1>3. ASSUME NEW h, NEW s, NEW k, Tells(h, s), input' = [kind |-> "graph", graph |-> h, same |-> s, ops |-> k]
      PROVE  EditsInv'
  <2>1. Is("graph")' /\ GraphOK'
    BY <1>3 DEF Is, GraphOK
  <2> QED BY <2>1 DEF EditsInv
<1>4. CASE AddOccurrence
  <2> DEFINE h == Graph!Add(g)
             s == same \cup {<<Len(h.identity), Len(h.identity)>>}
  <2>1. Tells(h, s)
    BY <1>2, AddTells
  <2>2. input' = GraphGrown(input, h, s)
    BY <1>4 DEF AddOccurrence, GraphGrown
  <2> HIDE DEF h, s, g, same, n
  <2>3. input' = [kind |-> "graph", graph |-> h, same |-> s, ops |-> n]
    BY <1>2, <2>2, GraphParts
  <2> QED BY <1>3, <2>1, <2>3
<1>5. CASE JoinOccurrences
  <2>1. PICK a \in DOMAIN g.identity, b \in DOMAIN g.identity :
          LET Near(o) == {p \in DOMAIN g.identity : <<o, p>> \in same}
          IN input' = [input EXCEPT
               !.graph = Graph!Join(g, a, b), !.ops = @ + 1,
               !.same = same \cup ((Near(a) \cup Near(b)) \X (Near(a) \cup Near(b)))]
    BY <1>5 DEF JoinOccurrences
  <2> DEFINE near == {p \in DOMAIN g.identity : <<a, p>> \in same} \cup {p \in DOMAIN g.identity : <<b, p>> \in same}
             h == Graph!Join(g, a, b)
             s == same \cup (near \X near)
  <2>2. Tells(h, s)
    BY <1>2, JoinTells
  <2>3. input' = GraphWith(input, h, n + 1, s)
    BY <2>1 DEF GraphWith
  <2> HIDE DEF h, s, g, same, n
  <2>4. input' = [kind |-> "graph", graph |-> h, same |-> s, ops |-> n + 1]
    BY <1>2, <2>3, GraphParts
  <2> QED BY <1>3, <2>2, <2>4
<1>6. CASE SeverOccurrence
  <2>1. PICK o \in DOMAIN g.identity :
          input' = [input EXCEPT
            !.graph = Graph!Sever(g, o), !.ops = @ + 1,
            !.same = {p \in same : p = <<o, o>> \/ (p[1] # o /\ p[2] # o)}]
    BY <1>6 DEF SeverOccurrence
  <2> DEFINE h == Graph!Sever(g, o)
             s == {p \in same : p = <<o, o>> \/ (p[1] # o /\ p[2] # o)}
  <2>2. Tells(h, s)
    BY <1>2, SeverTells
  <2>3. input' = GraphWith(input, h, n + 1, s)
    BY <2>1 DEF GraphWith
  <2> HIDE DEF h, s, g, same, n
  <2>4. input' = [kind |-> "graph", graph |-> h, same |-> s, ops |-> n + 1]
    BY <1>2, <2>3, GraphParts
  <2> QED BY <1>3, <2>2, <2>4
<1> QED BY <1>4, <1>5, <1>6

(* An operation of the stack that refuses leaves it, another holds what it *)
(* should.                                                                 *)
LEMMA SurgeryStep ==
  ASSUME EditsInv, Is("stack"), NEW t, NEW w, Surgery(t, w), t = Refused \/ Holds(t, w), w \subseteq Nat
  PROVE  EditsInv'
<1>1. StackOK
  BY KindsApart
<1> DEFINE s == input.stack
           m == input.members
           k == input.ops
           n == k + 1
<1>2. Holds(s, m) /\ m \subseteq Nat /\ input = [kind |-> "stack", stack |-> s, members |-> m, ops |-> k]
  BY <1>1 DEF StackOK
<1>3. CASE t = Refused
  <2>1. input' = StackWith(input, n, m, s)
    BY <1>3 DEF Surgery, StackWith
  <2> HIDE DEF s, m, n, k
  <2>2. input' = [kind |-> "stack", stack |-> s, members |-> m, ops |-> n]
    BY <1>2, <2>1, StackParts
  <2>3. Is("stack")' /\ StackOK'
    BY <1>2, <2>2 DEF Is, StackOK
  <2> QED BY <2>3 DEF EditsInv
<1>4. CASE t # Refused
  <2>1. input' = StackWith(input, n, w, t)
    BY <1>4 DEF Surgery, StackWith
  <2> HIDE DEF s, m, n, k
  <2>2. input' = [kind |-> "stack", stack |-> t, members |-> w, ops |-> n]
    BY <1>2, <2>1, StackParts
  <2>3. Is("stack")' /\ StackOK'
    BY <1>4, <2>2 DEF Is, StackOK
  <2> QED BY <2>3 DEF EditsInv
<1> QED BY <1>3, <1>4

(* Pushing, reordering, folding and splitting changes keep the invariant.  *)
LEMMA StackStep ==
  ASSUME EditsInv, PushChange \/ ReorderChanges \/ FoldChanges \/ SplitChange
  PROVE  EditsInv'
<1> DEFINE s == input.stack
           m == input.members
<1>1. Is("stack")
  BY DEF PushChange, ReorderChanges, FoldChanges, SplitChange
<1>2. Holds(s, m) /\ m \subseteq Nat
  BY <1>1, KindsApart DEF StackOK
<1>3. s \in Seq(Nat) /\ Len(s) \in Nat /\ DOMAIN s = 1 .. Len(s) /\ \A j \in 1 .. Len(s) : s[j] \in Nat /\ s[j] \in m
  BY <1>2, ElementOfSeq DEF Holds
<1>4. CASE PushChange
  <2>1. PICK c \in 1 .. MaxOps : Surgery(Graph!Push(s, c), m \cup {c})
    BY <1>4 DEF PushChange
  <2>2. c \in Nat
    OBVIOUS
  <2>3. Holds(Graph!Push(s, c), m \cup {c}) /\ m \cup {c} \subseteq Nat
    BY <1>2, <2>2, PushHolds
  <2> QED BY <1>1, <2>1, <2>3, SurgeryStep
<1>5. CASE ReorderChanges
  <2>1. PICK i \in 1 .. Len(s) : Surgery(Graph!Reorder(s, i), m)
    BY <1>5 DEF ReorderChanges
  <2>2. CASE i = Len(s)
    <3>1. i + 1 > Len(s)
      BY <1>3, <2>2
    <3>2. Graph!Reorder(s, i) = Refused
      BY <3>1 DEF Graph!Reorder
    <3> QED BY <1>1, <1>2, <2>1, <3>2, SurgeryStep
  <2>3. CASE i # Len(s)
    <3>1. i \in 1 .. Len(s) - 1
      BY <1>3, <2>3
    <3>2. Holds(Graph!Reorder(s, i), m)
      BY <1>2, <3>1, ReorderHolds
    <3> QED BY <1>1, <1>2, <2>1, <3>2, SurgeryStep
  <2> QED BY <2>2, <2>3
<1>6. CASE FoldChanges
  <2>0. PICK i \in 1 .. Len(s) - 1 : \E into \in Least(Fresh) \cup {s[i], s[i + 1]} :
          Surgery(Graph!Fold(s, i, into), (m \ {s[i], s[i + 1]}) \cup {into})
    BY <1>6 DEF FoldChanges
  <2>1. PICK into \in Least(Fresh) \cup {s[i], s[i + 1]} :
          Surgery(Graph!Fold(s, i, into), (m \ {s[i], s[i + 1]}) \cup {into})
    BY <2>0
  <2>2. i \in 1 .. Len(s) /\ i + 1 \in 1 .. Len(s)
    BY <1>3
  <2>3. into \in Nat /\ into \notin m \ {s[i], s[i + 1]}
    <3>1. Fresh \subseteq Nat \ m
      BY DEF Fresh
    <3>2. Least(Fresh) \subseteq Fresh
      BY DEF Least
    <3> QED BY <1>3, <2>2, <3>1, <3>2
  <2>4. Holds(Graph!Fold(s, i, into), (m \ {s[i], s[i + 1]}) \cup {into})
    BY <1>2, <2>3, FoldHolds
  <2>5. (m \ {s[i], s[i + 1]}) \cup {into} \subseteq Nat
    BY <1>2, <2>3
  <2> QED BY <1>1, <2>1, <2>4, <2>5, SurgeryStep
<1>7. CASE SplitChange
  <2>0. PICK i \in 1 .. Len(s) : \E first \in Least(Fresh) \cup {s[i]} : \E second \in Least(Fresh \ {first}) :
          Surgery(Graph!Split(s, i, first, second), (m \ {s[i]}) \cup {first, second})
    BY <1>7 DEF SplitChange
  <2>a. PICK first \in Least(Fresh) \cup {s[i]} : \E second \in Least(Fresh \ {first}) :
          Surgery(Graph!Split(s, i, first, second), (m \ {s[i]}) \cup {first, second})
    BY <2>0
  <2>1. PICK second \in Least(Fresh \ {first}) :
          Surgery(Graph!Split(s, i, first, second), (m \ {s[i]}) \cup {first, second})
    BY <2>a
  <2>2. /\ first \in Nat /\ first \notin m \ {s[i]}
        /\ second \in Nat /\ second \notin m \ {s[i]} /\ first # second
    <3>1. Fresh \subseteq Nat \ m
      BY DEF Fresh
    <3>2. Least(Fresh) \subseteq Fresh /\ Least(Fresh \ {first}) \subseteq Fresh \ {first}
      BY DEF Least
    <3> QED BY <1>3, <2>1, <3>1, <3>2
  <2>3. Holds(Graph!Split(s, i, first, second), (m \ {s[i]}) \cup {first, second})
    BY <1>2, <2>2, SplitHolds
  <2>4. (m \ {s[i]}) \cup {first, second} \subseteq Nat
    BY <1>2, <2>2
  <2> QED BY <1>1, <2>1, <2>3, <2>4, SurgeryStep
<1> QED BY <1>4, <1>5, <1>6, <1>7

(* Whatever is rewritten, joined, severed, pushed, reordered, folded and   *)
(* split, the documents are documents, the identities are those that the   *)
(* joins tell, and the stack holds each of its changes once.               *)
THEOREM EditsHold == EditsSpec => []EditsInv
<1>1. EditsInit => EditsInv
  BY EditsBegin
<1>2. EditsInv /\ [EditsNext]_input => EditsInv'
  <2>1. CASE UNCHANGED input
    BY <2>1 DEF EditsInv, Is, DocumentsOK, GraphOK, StackOK
  <2> QED BY <2>1, RewriteStep, GraphStep, StackStep DEF EditsNext
<1> QED BY <1>1, <1>2, PTL DEF EditsSpec

(* I1, of diff, apply, independent and rebase (patch.rs, commute.rs):      *)
(* every side comes back when its diff is applied to the base, and two     *)
(* independent diffs, in either order, make the same document and are      *)
(* never refused.                                                          *)
THEOREM OrdersAlwaysAgree == EditsSpec => []OrdersAgree
<1>1. EditsInv => OrdersAgree
  BY Agreed
<1> QED BY <1>1, EditsHold, PTL

(* I8, of admit and verify_witness (kernel.rs): what is admitted           *)
(* verifies, and is admitted the same with the sides exchanged; and a      *)
(* witness that verifies, wherever it came from, is that of a merge that   *)
(* would be admitted.                                                      *)
THEOREM AdmissionsAlwaysVerify == EditsSpec => []AdmissionsVerify
<1>1. EditsInv => AdmissionsVerify
  BY Verified
<1> QED BY <1>1, EditsHold, PTL

(* Joins and severs (definition.rs) keep the identities an equivalence:    *)
(* two occurrences have the same one exactly when joins connect them that  *)
(* no sever undid.                                                         *)
THEOREM IdentityAlwaysFollowsJoins == EditsSpec => []IdentityFollowsJoins
<1>1. EditsInv => IdentityFollowsJoins
  BY Identified
<1> QED BY <1>1, EditsHold, PTL

(* No sequence of pushes, reorders, folds and splits of a change stack     *)
(* (stack.rs) loses a change or has one twice; a fold undoes a split and   *)
(* a second reorder the first; absorb takes exactly the stack's changes.   *)
THEOREM StackAlwaysKeepsItsChanges == EditsSpec => []StackKeepsItsChanges
<1>1. EditsInv => StackKeepsItsChanges
  BY Kept
<1> QED BY <1>1, EditsHold, PTL
=============================================================================
