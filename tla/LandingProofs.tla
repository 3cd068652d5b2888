--------------------------- MODULE LandingProofs ---------------------------
(***************************************************************************)
(* Proofs about Landing, for any processes, changes, queues, submissions,  *)
(* trees and commands, and a log without bound: what is public has passed  *)
(* the gates of its queue, whatever runs at the same time, and the trunk   *)
(* is made of what landed or was pushed; a landing adds its changes' own   *)
(* edits to it.                                                            *)
(***************************************************************************)
EXTENDS Landing, TLAPS, WellFoundedInduction, FiniteSetTheorems

(* A nonempty set of natural numbers has a least element.                  *)
LEMMA LeastExists ==
  ASSUME NEW S \in SUBSET Nat, S # {}
  PROVE  \E m \in S : \A s \in S : m <= s
<1>1. PICK m \in S : \A y \in S : ~ (<<y, m>> \in OpToRel(<, Nat))
  BY NatLessThanWellFounded, WFMin
<1>2. \A y \in S : ~ (y < m)
  BY <1>1 DEF OpToRel
<1> QED BY <1>2

(* A nonempty set of numbers up to n has a greatest element.               *)
LEMMA GreatestExists ==
  ASSUME NEW n \in Nat, NEW S \in SUBSET (0 .. n), S # {}
  PROVE  \E m \in S : \A s \in S : s <= m
<1> DEFINE T == {n - s : s \in S}
<1>1. T \subseteq Nat /\ T # {}
  <2>1. \A s \in S : n - s \in Nat
    OBVIOUS
  <2> QED BY <2>1
<1>2. PICK t \in T : \A y \in T : t <= y
  <2> HIDE DEF T
  <2> QED BY <1>1, LeastExists
<1>3. PICK m \in S : t = n - m
  OBVIOUS
<1>4. \A s \in S : n - m <= n - s
  BY <1>2, <1>3
<1> QED BY <1>4

(* Induction up to n.                                                      *)
LEMMA UpTo ==
  ASSUME NEW n \in Nat, NEW S, 0 \in S,
         \A i \in 0 .. n - 1 : i \in S => i + 1 \in S
  PROVE  \A i \in 0 .. n : i \in S
<1> DEFINE T == {i \in 0 .. n : i \notin S}
<1> SUFFICES ASSUME T # {} PROVE FALSE
  OBVIOUS
<1>0. T \subseteq Nat
  OBVIOUS
<1>1. PICK m \in T : \A i \in T : m <= i
  <2> HIDE DEF T
  <2> QED BY <1>0, LeastExists
<1>2. m - 1 \in 0 .. n - 1 /\ m - 1 \notin T
  BY <1>1
<1> QED BY <1>1, <1>2

(* Recursion from the last position to the first: what holds of a position *)
(* is told by how many of the later ones that name it it holds of.         *)
Even(S) == Cardinality(S) % 2 = 0

Later(undos, n) ==
  /\ DOMAIN undos = 0 .. n - 1
  /\ \A s \in 0 .. n - 1 : undos[s] \subseteq s + 1 .. n - 1

LEMMA ParityExists ==
  ASSUME NEW n \in Nat, NEW undos, Later(undos, n)
  PROVE  \E f : f = [s \in DOMAIN undos |-> Even({u \in undos[s] : f[u]})]
<1> DEFINE From(k) == {f \in [n - k .. n - 1 -> BOOLEAN] :
                         \A s \in n - k .. n - 1 : f[s] = Even({u \in undos[s] : f[u]})}
           S == {k \in 0 .. n : From(k) # {}}
<1>1. 0 \in S
  <2>1. [x \in {} |-> TRUE] \in From(0)
    <3>1. n - 0 .. n - 1 = {}
      OBVIOUS
    <3>2. [x \in {} |-> TRUE] \in [{} -> BOOLEAN]
      OBVIOUS
    <3> QED BY <3>1, <3>2
  <2>2. From(0) # {}
    <3> HIDE DEF From
    <3> QED BY <2>1
  <2> HIDE DEF From
  <2> QED BY <2>2
<1>2. ASSUME NEW k \in 0 .. n - 1, k \in S
      PROVE  k + 1 \in S
  <2>1. PICK f \in From(k) : TRUE
    BY <1>2
  <2> DEFINE m == n - (k + 1)
             v == Even({u \in undos[m] : f[u]})
             g == [s \in m .. n - 1 |-> IF s = m THEN v ELSE f[s]]
  <2>2. m \in 0 .. n - 1 /\ n - k = m + 1
    OBVIOUS
  <2>3. v \in BOOLEAN
    BY DEF Even
  <2>4. g \in [m .. n - 1 -> BOOLEAN]
    <3>1. \A s \in m .. n - 1 : s = m \/ s \in n - k .. n - 1
      BY <2>2
    <3>2. \A s \in n - k .. n - 1 : f[s] \in BOOLEAN
      BY <2>1
    <3> HIDE DEF v, m
    <3> QED BY <2>3, <3>1, <3>2
  <2>5. ASSUME NEW s \in m .. n - 1
        PROVE  {u \in undos[s] : g[u]} = {u \in undos[s] : f[u]}
    <3>1. undos[s] \subseteq m + 1 .. n - 1
      BY <2>2 DEF Later
    <3>2. \A u \in undos[s] : g[u] = f[u]
      BY <2>2, <3>1
    <3> HIDE DEF g
    <3> QED BY <3>2
  <2>6. ASSUME NEW s \in m .. n - 1
        PROVE  g[s] = Even({u \in undos[s] : g[u]})
    <3>1. CASE s = m
      BY <2>5, <3>1
    <3>2. CASE s # m
      <4>1. s \in n - k .. n - 1
        BY <2>2, <3>2
      <4>2. g[s] = f[s]
        BY <3>2
      <4>3. f[s] = Even({u \in undos[s] : f[u]})
        BY <2>1, <4>1
      <4> HIDE DEF g
      <4> QED BY <2>5, <4>2, <4>3
    <3> QED BY <3>1, <3>2
  <2> HIDE DEF g
  <2>7. From(k + 1) # {}
    BY <2>4, <2>6
  <2>8. k + 1 \in 0 .. n
    OBVIOUS
  <2> HIDE DEF From
  <2> QED BY <2>7, <2>8
<1>3. n \in S
  <2> HIDE DEF S
  <2> QED BY <1>1, <1>2, UpTo
<1>4. PICK f \in From(n) : TRUE
  BY <1>3
<1>5. n - n .. n - 1 = DOMAIN undos
  BY DEF Later
<1>6. f = [s \in DOMAIN undos |-> f[s]]
  BY <1>4, <1>5
<1>7. \A s \in DOMAIN undos : f[s] = Even({u \in undos[s] : f[u]})
  BY <1>4, <1>5
<1> HIDE DEF From
<1> QED BY <1>6, <1>7

-----------------------------------------------------------------------------
(* Folds over a sequence: FoldLeft applies its operator along the finite   *)
(* sets of positions, the greatest position last.                          *)

LEMMA MaxOf ==
  ASSUME NEW n \in Nat, NEW s \in SUBSET (1 .. n), s # {}
  PROVE  Max(s) \in s /\ \A i \in s : i <= Max(s)
<1>1. s \in SUBSET (0 .. n)
  OBVIOUS
<1>2. \E m \in s : \A i \in s : m >= i
  <2>1. PICK m \in s : \A i \in s : i <= m
    BY <1>1, GreatestExists
  <2>2. \A i \in s : m >= i
    BY <2>1
  <2> QED BY <2>2
<1>3. Max(s) \in s /\ \A i \in s : Max(s) >= i
  BY <1>2 DEF Max
<1> QED BY <1>3

LEMMA Shorter ==
  ASSUME NEW n \in Nat, NEW k \in 0 .. n - 1, NEW s \in SUBSET (1 .. k + 1), s # {}
  PROVE  /\ Max(s) \in 1 .. n
         /\ s \ {Max(s)} \in SUBSET (1 .. k)
         /\ s \in SUBSET (1 .. k) \/ Max(s) = k + 1
<1>1. k + 1 \in Nat
  OBVIOUS
<1>2. Max(s) \in s /\ \A i \in s : i <= Max(s)
  BY <1>1, MaxOf
<1>3. ASSUME NEW i \in s \ {Max(s)} PROVE i \in 1 .. k
  <2>1. i \in 1 .. k + 1 /\ Max(s) \in 1 .. k + 1 /\ i <= Max(s) /\ i # Max(s)
    BY <1>2
  <2> QED BY <2>1
<1>4. ASSUME Max(s) # k + 1, NEW i \in s PROVE i \in 1 .. k
  <2>1. i \in 1 .. k + 1 /\ Max(s) \in 1 .. k + 1 /\ i <= Max(s)
    BY <1>2
  <2> QED BY <1>4, <2>1
<1>5. Max(s) \in 1 .. n
  <2>1. Max(s) \in 1 .. k + 1
    BY <1>2
  <2> QED BY <2>1
<1> QED BY <1>3, <1>4, <1>5

(* it maps sets of positions to what F folds to along them, from b on.     *)
FoldOf(it, n, X, b, F) ==
  /\ it \in [SUBSET (1 .. n) -> X]
  /\ \A s \in SUBSET (1 .. n) :
       it[s] = IF s = {} THEN b ELSE F[<<it[s \ {Max(s)}], Max(s)>>]

(* The function that FoldLeft chooses exists.                              *)
LEMMA FoldExists ==
  ASSUME NEW n \in Nat, NEW X, NEW b \in X, NEW F \in [X \X (1 .. n) -> X]
  PROVE  \E it : FoldOf(it, n, X, b, F)
<1> DEFINE Folds(it, k) ==
             \A s \in SUBSET (1 .. k) :
               it[s] = IF s = {} THEN b ELSE F[<<it[s \ {Max(s)}], Max(s)>>]
           S == {k \in 0 .. n : \E it \in [SUBSET (1 .. k) -> X] : Folds(it, k)}
<1>1. 0 \in S
  <2> DEFINE it == [s \in SUBSET (1 .. 0) |-> b]
  <2>1. it \in [SUBSET (1 .. 0) -> X]
    OBVIOUS
  <2>2. \A s \in SUBSET (1 .. 0) : s = {}
    OBVIOUS
  <2>3. Folds(it, 0)
    BY <2>2
  <2> HIDE DEF it, Folds
  <2>4. 0 \in 0 .. n
    OBVIOUS
  <2> QED BY <2>1, <2>3, <2>4
<1>2. ASSUME NEW k \in 0 .. n - 1, k \in S PROVE k + 1 \in S
  <2>1. PICK it \in [SUBSET (1 .. k) -> X] : Folds(it, k)
    BY <1>2
  <2> DEFINE next(s) == F[<<it[s \ {Max(s)}], Max(s)>>]
             jt == [s \in SUBSET (1 .. k + 1) |-> IF s \in SUBSET (1 .. k) THEN it[s] ELSE next(s)]
  <2>2. ASSUME NEW s \in SUBSET (1 .. k + 1), s # {}
        PROVE  /\ s \ {Max(s)} \in SUBSET (1 .. k) /\ s \ {Max(s)} \in SUBSET (1 .. k + 1)
               /\ next(s) \in X
    <3>1. Max(s) \in 1 .. n /\ s \ {Max(s)} \in SUBSET (1 .. k)
      BY <2>2, Shorter
    <3>2. it[s \ {Max(s)}] \in X
      BY <3>1
    <3> QED BY <3>1, <3>2
  <2>3. ASSUME NEW s \in SUBSET (1 .. k + 1), s \notin SUBSET (1 .. k) PROVE s # {}
    BY <2>3
  <2>4. jt \in [SUBSET (1 .. k + 1) -> X]
    <3> HIDE DEF next
    <3> QED BY <2>2, <2>3
  <2>5. ASSUME NEW s \in SUBSET (1 .. k + 1)
        PROVE  jt[s] = IF s = {} THEN b ELSE F[<<jt[s \ {Max(s)}], Max(s)>>]
    <3>1. s # {} => jt[s \ {Max(s)}] = it[s \ {Max(s)}]
      BY <2>2
    <3>2. CASE s \in SUBSET (1 .. k)
      <4>1. jt[s] = it[s]
        BY <3>2
      <4>2. it[s] = IF s = {} THEN b ELSE next(s)
        BY <2>1, <3>2
      <4> QED BY <3>1, <4>1, <4>2
    <3>3. CASE s \notin SUBSET (1 .. k)
      <4>1. jt[s] = next(s) /\ s # {}
        BY <2>3, <3>3
      <4> QED BY <3>1, <4>1
    <3> QED BY <3>2, <3>3
  <2>6. Folds(jt, k + 1)
    BY <2>5
  <2> HIDE DEF jt, Folds
  <2> QED BY <2>4, <2>6
<1>3. n \in S
  <2>1. \A k \in 0 .. n - 1 : k \in S => k + 1 \in S
    BY <1>2
  <2> HIDE DEF S
  <2>2. \A k \in 0 .. n : k \in S
    BY <1>1, <2>1, UpTo
  <2> QED BY <2>2
<1>4. PICK it \in [SUBSET (1 .. n) -> X] : Folds(it, n)
  BY <1>3
<1> QED BY <1>4 DEF FoldOf

(* What holds of the start and is kept by every application holds of what  *)
(* FoldLeft computes.  R[s] is what may come of the positions s.           *)
LEMMA FoldKeeps ==
  ASSUME NEW n \in Nat, NEW it, NEW R, it[{}] \in R[{}],
         \A s \in SUBSET (1 .. n) :
           s # {} /\ it[s \ {Max(s)}] \in R[s \ {Max(s)}] => it[s] \in R[s]
  PROVE  it[1 .. n] \in R[1 .. n]
<1> DEFINE S == {k \in 0 .. n : \A s \in SUBSET (1 .. k) : it[s] \in R[s]}
<1>1. 0 \in S
  <2>1. \A s \in SUBSET (1 .. 0) : s = {}
    OBVIOUS
  <2>2. \A s \in SUBSET (1 .. 0) : it[s] \in R[s]
    BY <2>1
  <2> QED BY <2>2
<1>2. ASSUME NEW k \in 0 .. n - 1, k \in S PROVE k + 1 \in S
  <2>1. ASSUME NEW s \in SUBSET (1 .. k + 1) PROVE it[s] \in R[s]
    <3>1. CASE s = {}
      BY <3>1
    <3>2. CASE s # {}
      <4>1. s \ {Max(s)} \in SUBSET (1 .. k)
        BY <3>2, Shorter
      <4>2. 1 .. k + 1 \subseteq 1 .. n
        OBVIOUS
      <4>3. s \in SUBSET (1 .. n)
        BY <4>2
      <4> QED BY <1>2, <3>2, <4>1, <4>3
    <3> QED BY <3>1, <3>2
  <2> QED BY <2>1
<1>3. n \in S
  <2>1. \A k \in 0 .. n - 1 : k \in S => k + 1 \in S
    BY <1>2
  <2> HIDE DEF S
  <2>2. \A k \in 0 .. n : k \in S
    BY <1>1, <2>1, UpTo
  <2> QED BY <2>2
<1> QED BY <1>3

LEMMA FoldIn ==
  ASSUME NEW n \in Nat, NEW it, NEW G, it[{}] \in G,
         \A s \in SUBSET (1 .. n) : s # {} /\ it[s \ {Max(s)}] \in G => it[s] \in G
  PROVE  it[1 .. n] \in G
<1> DEFINE R == [s \in SUBSET (1 .. n) |-> G]
<1>1. \A s \in SUBSET (1 .. n) : R[s] = G /\ s \ {Max(s)} \in SUBSET (1 .. n)
  OBVIOUS
<1>2. {} \in SUBSET (1 .. n) /\ 1 .. n \in SUBSET (1 .. n)
  OBVIOUS
<1> HIDE DEF R
<1>3. it[{}] \in R[{}]
  BY <1>1, <1>2
<1>4. \A s \in SUBSET (1 .. n) :
        s # {} /\ it[s \ {Max(s)}] \in R[s \ {Max(s)}] => it[s] \in R[s]
  BY <1>1
<1>5. it[1 .. n] \in R[1 .. n]
  BY <1>3, <1>4, FoldKeeps
<1> QED BY <1>1, <1>2, <1>5

-----------------------------------------------------------------------------
(* The log: what a ref holds was written by an entry for that ref.         *)

LEMMA LatestIn ==
  ASSUME NEW n \in Nat, NEW S \in SUBSET (0 .. n), S # {}
  PROVE  Latest(S) \in S
BY GreatestExists DEF Latest

LEMMA RefsHold ==
  ASSUME NEW log \in Seq(Operation), NEW r \in AllRefs, RefsNow(log)[r] # None
  PROVE  \E i \in 1 .. Len(log) : /\ log[i].op.kind \in RefKinds
                                  /\ log[i].op.ref = r
                                  /\ log[i].op.new = RefsNow(log)[r]
<1> DEFINE n  == NoLimit(log)
           ws == Writers(log, n, r)
<1>1. RefsNow(log)[r] = OpAt(log, Latest(ws)).new /\ ws # {}
  BY DEF RefsNow, FoldRefs
<1>2. ws \in SUBSET (0 .. n) /\ n \in Int
  BY DEF Writers, NoLimit
<1>3. n \in Nat
  BY <1>1, <1>2
<1>4. Latest(ws) \in ws
  <2> HIDE DEF ws, n
  <2> QED BY <1>1, <1>2, <1>3, LatestIn
<1>5. /\ OpAt(log, Latest(ws)).kind \in RefKinds
      /\ OpAt(log, Latest(ws)).ref = r
      /\ Latest(ws) + 1 \in 1 .. Len(log)
  BY <1>4 DEF Writers, NoLimit
<1> QED BY <1>1, <1>5 DEF OpAt

LEMMA RefsType ==
  ASSUME NEW log \in Seq(Operation), NEW r \in AllRefs
  PROVE  RefsNow(log)[r] \in Tree \cup {None}
<1> SUFFICES ASSUME RefsNow(log)[r] # None PROVE RefsNow(log)[r] \in Tree \cup {None}
  OBVIOUS
<1>1. PICK i \in 1 .. Len(log) : log[i].op.kind \in RefKinds /\ log[i].op.new = RefsNow(log)[r]
  BY RefsHold
<1>2. log[i] \in Operation
  OBVIOUS
<1>3. \A o \in OpKind : o.kind \in RefKinds => o.new \in Tree \cup {None}
  BY DEF OpKind, RefKinds
<1> QED BY <1>1, <1>2, <1>3 DEF Operation

(* log2 is log with entries of E after it.                                 *)
Grows(log, log2, E) ==
  /\ log2 \in Seq(Operation)
  /\ Len(log) <= Len(log2)
  /\ \A i \in 1 .. Len(log) : log2[i] = log[i]
  /\ \A i \in Len(log) + 1 .. Len(log2) : log2[i].op \in E

LEMMA GrowsNot ==
  ASSUME NEW log \in Seq(Operation), NEW E
  PROVE  Grows(log, log, E)
BY DEF Grows

LEMMA GrowsByOne ==
  ASSUME NEW log \in Seq(Operation), NEW E \in SUBSET OpKind, NEW log2,
         Grows(log, log2, E), NEW op \in E
  PROVE  /\ Grows(log, Appended(log2, op), E)
         /\ Grows(log2, Appended(log2, op), E)
         /\ Appended(log2, op)[Len(log2) + 1].op = op
         /\ Len(Appended(log2, op)) = Len(log2) + 1
<1> DEFINE log3 == Appended(log2, op)
           n    == Len(log2)
<1>1. log2 \in Seq(Operation) /\ Len(log) \in Nat /\ n \in Nat /\ Len(log) <= n
  BY DEF Grows
<1>2. [seq |-> n, op |-> op] \in Operation
  BY <1>1 DEF Operation
<1>3. /\ log3 \in Seq(Operation) /\ Len(log3) = n + 1 /\ log3[n + 1].op = op
      /\ \A i \in 1 .. n : log3[i] = log2[i]
  BY <1>1, <1>2 DEF Appended, NextSeq
<1> HIDE DEF log3
<1>4. \A i \in 1 .. Len(log) : log3[i] = log[i]
  BY <1>1, <1>3 DEF Grows
<1>5. ASSUME NEW i \in Len(log) + 1 .. n + 1 PROVE log3[i].op \in E
  <2>1. CASE i = n + 1
    BY <1>3, <2>1
  <2>2. CASE i # n + 1
    <3>1. i \in Len(log) + 1 .. n /\ i \in 1 .. n
      BY <1>1, <2>2
    <3> QED BY <1>3, <3>1 DEF Grows
  <2> QED BY <2>1, <2>2
<1>6. \A i \in n + 1 .. n + 1 : log3[i].op \in E
  BY <1>1, <1>3
<1>7. Grows(log, log3, E) /\ Grows(log2, log3, E)
  BY <1>1, <1>3, <1>4, <1>5, <1>6 DEF Grows
<1> QED BY <1>3, <1>7 DEF log3

(* The entries that a snapshot, a push and a landing write.                *)
CommitsOfCopies == {op \in OpKind : op.kind = "commit" /\ op.ref \in Changes \ Remote}

SetRefs(r, new) == {op \in OpKind : op.kind = "set_ref" /\ op.ref = r /\ op.new = new}

LEMMA SetRefType ==
  ASSUME NEW log \in Seq(Operation), NEW r \in AllRefs, NEW new \in Tree \cup {None}
  PROVE  SetRefOp(r, RefsNow(log)[r], new) \in SetRefs(r, new)
<1>1. RefsNow(log)[r] \in Tree \cup {None}
  BY RefsType
<1> QED BY <1>1 DEF SetRefs, SetRefOp, OpKind, RefKinds

LEMMA SnapshotType ==
  ASSUME copy \in [Changes -> Tree], NEW log \in Seq(Operation), NEW c \in Changes
  PROVE  Grows(log, Snapshot(log, c), CommitsOfCopies)
<1> DEFINE tip == RefsNow(log)[c]
           op  == CommitOp(c, tip, copy[c])
<1>1. c \in AllRefs
  BY DEF AllRefs
<1>2. tip \in Tree \cup {None}
  BY <1>1, RefsType
<1>3. c \notin Remote => op \in CommitsOfCopies
  BY <1>1, <1>2 DEF CommitsOfCopies, CommitOp, OpKind, RefKinds
<1>4. Snapshot(log, c) = log \/ (c \notin Remote /\ Snapshot(log, c) = Appended(log, op))
  BY DEF Snapshot
<1>5. CommitsOfCopies \in SUBSET OpKind
  BY DEF CommitsOfCopies
<1> HIDE DEF op
<1> QED BY <1>3, <1>4, <1>5, GrowsNot, GrowsByOne

LEMMA GrowsTrans ==
  ASSUME NEW l1 \in Seq(Operation), NEW l2, NEW l3, NEW E, Grows(l1, l2, E), Grows(l2, l3, E)
  PROVE  Grows(l1, l3, E)
<1>1. /\ l2 \in Seq(Operation) /\ l3 \in Seq(Operation)
      /\ Len(l1) <= Len(l2) /\ Len(l2) <= Len(l3)
  BY DEF Grows
<1>2. Len(l1) \in Nat /\ Len(l2) \in Nat /\ Len(l3) \in Nat
  BY <1>1
<1>3. ASSUME NEW i \in 1 .. Len(l1) PROVE l3[i] = l1[i]
  <2>1. i \in 1 .. Len(l2)
    BY <1>1, <1>2
  <2> QED BY <2>1 DEF Grows
<1>4. ASSUME NEW i \in Len(l1) + 1 .. Len(l3) PROVE l3[i].op \in E
  <2>1. CASE i \in Len(l2) + 1 .. Len(l3)
    BY <2>1 DEF Grows
  <2>2. CASE i \notin Len(l2) + 1 .. Len(l3)
    <3>1. i \in Len(l1) + 1 .. Len(l2) /\ i \in 1 .. Len(l2)
      BY <1>1, <1>2, <2>2
    <3> QED BY <3>1 DEF Grows
  <2> QED BY <2>1, <2>2
<1>5. Len(l1) <= Len(l3)
  BY <1>1, <1>2
<1> QED BY <1>1, <1>3, <1>4, <1>5 DEF Grows

(* Some entry of the log is one of W.                                      *)
Holds(log, W) == \E j \in 1 .. Len(log) : log[j].op \in W

LEMMA HoldsOn ==
  ASSUME NEW log, NEW log2, NEW E, NEW W, log \in Seq(Operation), Grows(log, log2, E), Holds(log, W)
  PROVE  Holds(log2, W)
<1>1. PICK j \in 1 .. Len(log) : log[j].op \in W
  BY DEF Holds
<1>2. Len(log) \in Nat /\ Len(log2) \in Nat /\ Len(log) <= Len(log2) /\ log2[j] = log[j]
  BY DEF Grows
<1>3. j \in 1 .. Len(log2)
  BY <1>2
<1> QED BY <1>1, <1>2, <1>3 DEF Holds

(* A fold that writes to the log: what each position adds, the log has at  *)
(* the end.                                                                *)
LEMMA LogFold ==
  ASSUME NEW n \in Nat, NEW it, NEW log \in Seq(Operation), it[{}] = log,
         NEW E, NEW W, NEW Done,
         \A s \in SUBSET (1 .. n) :
           s # {} /\ it[s \ {Max(s)}] \in Seq(Operation) =>
             /\ Grows(it[s \ {Max(s)}], it[s], E)
             /\ Max(s) \in Done \/ Holds(it[s], W[Max(s)])
  PROVE  /\ Grows(log, it[1 .. n], E)
         /\ \A i \in 1 .. n : i \in Done \/ Holds(it[1 .. n], W[i])
<1> DEFINE Has(l, s) == \A i \in s : i \in Done \/ Holds(l, W[i])
           R == [s \in SUBSET (1 .. n) |-> {l \in Seq(Operation) : Grows(log, l, E) /\ Has(l, s)}]
<1>1. it[{}] \in R[{}]
  BY GrowsNot
<1>2. ASSUME NEW s \in SUBSET (1 .. n), s # {}, it[s \ {Max(s)}] \in R[s \ {Max(s)}]
      PROVE  it[s] \in R[s]
  <2> DEFINE t == s \ {Max(s)}
  <2>1. t \in SUBSET (1 .. n) /\ \A i \in s : i = Max(s) \/ i \in t
    OBVIOUS
  <2>2. it[t] \in Seq(Operation) /\ Grows(log, it[t], E) /\ Has(it[t], t)
    BY <1>2, <2>1
  <2>3. Grows(it[t], it[s], E) /\ (Max(s) \in Done \/ Holds(it[s], W[Max(s)]))
    BY <1>2, <2>2
  <2>4. Grows(log, it[s], E)
    <3> HIDE DEF t, Has, R
    <3> QED BY <2>2, <2>3, GrowsTrans
  <2>6. it[s] \in Seq(Operation)
    BY <2>3 DEF Grows
  <2>5. ASSUME NEW i \in s PROVE i \in Done \/ Holds(it[s], W[i])
    <3>1. CASE i = Max(s)
      BY <2>3, <3>1
    <3>2. CASE i \in t
      BY <2>2, <2>3, <3>2, HoldsOn
    <3> QED BY <2>1, <3>1, <3>2
  <2> QED BY <2>4, <2>5, <2>6
<1>3. it[1 .. n] \in R[1 .. n]
  <2> HIDE DEF R
  <2> QED BY <1>1, <1>2, FoldKeeps
<1>4. 1 .. n \in SUBSET (1 .. n)
  OBVIOUS
<1> QED BY <1>3, <1>4

LEMMA SnapshotsGrow ==
  ASSUME ops \in Seq(Operation), copy \in [Changes -> Tree], NEW changes \in Seq(Changes)
  PROVE  Grows(ops, Snapshots(changes), CommitsOfCopies)
<1> DEFINE n == Len(changes)
           next(log, i) == Snapshot(log, changes[i])
           F == [x \in Seq(Operation) \X (1 .. n) |-> next(x[1], x[2])]
           step(it) == [s \in SUBSET DOMAIN changes |->
                          IF s = {} THEN ops ELSE next(it[s \ {Max(s)}], Max(s))]
           it == CHOOSE it : it = step(it)
           W  == [i \in 1 .. n |-> CommitsOfCopies]
           All == 1 .. n
<1>1. n \in Nat /\ DOMAIN changes = 1 .. n
  OBVIOUS
<1>2. Snapshots(changes) = it[1 .. n]
  BY <1>1 DEF Snapshots, FoldLeft, MapThenFoldSet
<1>3. ASSUME NEW log \in Seq(Operation), NEW i \in 1 .. n
      PROVE  Grows(log, next(log, i), CommitsOfCopies)
  BY SnapshotType
<1> HIDE DEF next
<1>4. F \in [Seq(Operation) \X (1 .. n) -> Seq(Operation)]
  BY <1>3 DEF Grows
<1>5. \E f : f = step(f)
  <2> HIDE DEF F
  <2>1. PICK f : FoldOf(f, n, Seq(Operation), ops, F)
    BY <1>1, <1>4, FoldExists
  <2>2. ASSUME NEW s \in SUBSET (1 .. n), s # {}
        PROVE  F[<<f[s \ {Max(s)}], Max(s)>>] = next(f[s \ {Max(s)}], Max(s))
    <3>1. Max(s) \in 1 .. n /\ s \ {Max(s)} \in SUBSET (1 .. n)
      BY <1>1, <2>2, MaxOf
    <3>2. f[s \ {Max(s)}] \in Seq(Operation)
      BY <2>1, <3>1 DEF FoldOf
    <3> QED BY <3>1, <3>2 DEF F
  <2>3. f = step(f)
    BY <1>1, <2>1, <2>2 DEF FoldOf
  <2> QED BY <2>3
<1>6. it = step(it)
  BY <1>5
<1> HIDE DEF it, n
<1>7. it[{}] = ops
  BY <1>6
<1>8. ASSUME NEW s \in SUBSET (1 .. n), s # {}, it[s \ {Max(s)}] \in Seq(Operation)
      PROVE  Grows(it[s \ {Max(s)}], it[s], CommitsOfCopies)
  <2>1. it[s] = next(it[s \ {Max(s)}], Max(s)) /\ Max(s) \in 1 .. n
    BY <1>1, <1>6, <1>8, MaxOf
  <2> QED BY <1>3, <1>8, <2>1
<1>9. \A s \in SUBSET (1 .. n) : s # {} => Max(s) \in 1 .. n
  BY <1>1, MaxOf
<1>10. \A s \in SUBSET (1 .. n) :
        s # {} /\ it[s \ {Max(s)}] \in Seq(Operation) =>
          /\ Grows(it[s \ {Max(s)}], it[s], CommitsOfCopies)
          /\ Max(s) \in All \/ Holds(it[s], W[Max(s)])
  BY <1>8, <1>9
<1>11. Grows(ops, it[1 .. n], CommitsOfCopies)
  <2> HIDE DEF W, All
  <2> QED BY <1>1, <1>7, <1>10, LogFold
<1> QED BY <1>2, <1>11

Ends(log, W) == Len(log) \in Nat \ {0} /\ log[Len(log)].op \in W

LEMMA SetRefGrows ==
  ASSUME NEW log \in Seq(Operation), NEW r \in AllRefs, NEW new \in Tree \cup {None},
         NEW E \in SUBSET OpKind, SetRefs(r, new) \subseteq E
  PROVE  /\ Grows(log, WithSetRef(log, r, new), E)
         /\ Holds(WithSetRef(log, r, new), SetRefs(r, new))
         /\ Ends(WithSetRef(log, r, new), SetRefs(r, new))
<1> DEFINE op == SetRefOp(r, RefsNow(log)[r], new)
<1>1. op \in SetRefs(r, new)
  BY SetRefType
<1> HIDE DEF op
<1>2. op \in E
  BY <1>1
<1>3. /\ Grows(log, Appended(log, op), E)
      /\ Appended(log, op)[Len(log) + 1].op = op
      /\ Len(Appended(log, op)) = Len(log) + 1
  BY <1>2, GrowsNot, GrowsByOne
<1>4. Len(log) + 1 \in 1 .. Len(log) + 1
  OBVIOUS
<1> QED BY <1>1, <1>3, <1>4 DEF WithSetRef, Holds, Ends, op

(* What a push records.                                                    *)
Recordings(changes, tips) == UNION {SetRefs(c, tips[c]) : c \in ToSet(changes)}

LEMMA RecordsGrow ==
  ASSUME ops \in Seq(Operation), NEW changes \in Seq(Changes), NEW tips,
         \A c \in ToSet(changes) : tips[c] \in Tree \cup {None}
  PROVE  Grows(ops, Records(changes, tips), Recordings(changes, tips))
<1> DEFINE n == Len(changes)
           next(x, i) == IF RefsNow(ops)[changes[i]] = tips[changes[i]] THEN x
                         ELSE WithSetRef(x, changes[i], tips[changes[i]])
           F == [y \in Seq(Operation) \X (1 .. n) |-> next(y[1], y[2])]
           step(it) == [s \in SUBSET DOMAIN changes |->
                          IF s = {} THEN ops ELSE next(it[s \ {Max(s)}], Max(s))]
           it == CHOOSE it : it = step(it)
           E  == Recordings(changes, tips)
           W  == [i \in 1 .. n |-> E]
           All == 1 .. n
<1>1. n \in Nat /\ DOMAIN changes = 1 .. n
  OBVIOUS
<1>2. Records(changes, tips) = it[1 .. n]
  BY <1>1 DEF Records, FoldLeft, MapThenFoldSet
<1>0. E \in SUBSET OpKind
  BY DEF Recordings, SetRefs
<1>3. ASSUME NEW x \in Seq(Operation), NEW i \in 1 .. n PROVE Grows(x, next(x, i), E)
  <2> DEFINE c == changes[i]
  <2>1. c \in Changes /\ c \in ToSet(changes) /\ c \in AllRefs
    BY <1>1 DEF ToSet, AllRefs
  <2>2. tips[c] \in Tree \cup {None} /\ SetRefs(c, tips[c]) \subseteq E
    BY <2>1 DEF Recordings
  <2>3. next(x, i) = x \/ next(x, i) = WithSetRef(x, c, tips[c])
    OBVIOUS
  <2> HIDE DEF E, c, next
  <2> QED BY <1>0, <2>1, <2>2, <2>3, SetRefGrows, GrowsNot
<1> HIDE DEF next, E
<1>4. F \in [Seq(Operation) \X (1 .. n) -> Seq(Operation)]
  BY <1>3 DEF Grows
<1>5. \E f : f = step(f)
  <2> HIDE DEF F
  <2>1. PICK f : FoldOf(f, n, Seq(Operation), ops, F)
    BY <1>1, <1>4, FoldExists
  <2>2. ASSUME NEW s \in SUBSET (1 .. n), s # {}
        PROVE  F[<<f[s \ {Max(s)}], Max(s)>>] = next(f[s \ {Max(s)}], Max(s))
    <3>1. Max(s) \in 1 .. n /\ s \ {Max(s)} \in SUBSET (1 .. n)
      BY <1>1, <2>2, MaxOf
    <3>2. f[s \ {Max(s)}] \in Seq(Operation)
      BY <2>1, <3>1 DEF FoldOf
    <3> QED BY <3>1, <3>2 DEF F
  <2>3. f = step(f)
    BY <1>1, <2>1, <2>2 DEF FoldOf
  <2> QED BY <2>3
<1>6. it = step(it)
  BY <1>5
<1> HIDE DEF it, n
<1>7. it[{}] = ops
  BY <1>6
<1>8. ASSUME NEW s \in SUBSET (1 .. n), s # {}
      PROVE  it[s] = next(it[s \ {Max(s)}], Max(s)) /\ Max(s) \in 1 .. n
  BY <1>1, <1>6, <1>8, MaxOf
<1>9. \A s \in SUBSET (1 .. n) :
        s # {} /\ it[s \ {Max(s)}] \in Seq(Operation) =>
          /\ Grows(it[s \ {Max(s)}], it[s], E)
          /\ Max(s) \in All \/ Holds(it[s], W[Max(s)])
  BY <1>3, <1>8
<1>10. Grows(ops, it[1 .. n], E)
  <2> HIDE DEF W, All
  <2> QED BY <1>1, <1>7, <1>9, LogFold
<1> QED BY <1>2, <1>10 DEF E

(* What a landing writes: every change's tip, and the merged trunk.        *)
PublicRefs(q, changes, tips) == UNION {SetRefs(Public(q, c), tips[c]) : c \in ToSet(changes)}

LandingOps(q, changes, tips, tip) ==
  PublicRefs(q, changes, tips) \cup SetRefs(Reconciled(q), tip)

LEMMA LandedGrows ==
  ASSUME ops \in Seq(Operation), NEW q \in Queues, NEW changes \in Seq(Changes), NEW tips,
         \A c \in ToSet(changes) : tips[c] \in Tree \cup {None}, NEW tip \in Tree
  PROVE  /\ Grows(ops, Landed(q, changes, tips, tip), LandingOps(q, changes, tips, tip))
         /\ \A c \in ToSet(changes) :
              Holds(Landed(q, changes, tips, tip), SetRefs(Public(q, c), tips[c]))
         /\ Ends(Landed(q, changes, tips, tip), SetRefs(Reconciled(q), tip))
<1> DEFINE n == Len(changes)
           next(x, i) == WithSetRef(x, Public(q, changes[i]), tips[changes[i]])
           F == [y \in Seq(Operation) \X (1 .. n) |-> next(y[1], y[2])]
           step(it) == [s \in SUBSET DOMAIN changes |->
                          IF s = {} THEN ops ELSE next(it[s \ {Max(s)}], Max(s))]
           it == CHOOSE it : it = step(it)
           E  == LandingOps(q, changes, tips, tip)
           W  == [i \in 1 .. n |-> SetRefs(Public(q, changes[i]), tips[changes[i]])]
           Never == {}
<1>1. n \in Nat /\ DOMAIN changes = 1 .. n
  OBVIOUS
<1>2. Landed(q, changes, tips, tip) = WithSetRef(it[1 .. n], Reconciled(q), tip)
  BY <1>1 DEF Landed, FoldLeft, MapThenFoldSet
<1>0. E \in SUBSET OpKind
  BY DEF LandingOps, PublicRefs, SetRefs
<1>3. ASSUME NEW x \in Seq(Operation), NEW i \in 1 .. n
      PROVE  Grows(x, next(x, i), E) /\ Holds(next(x, i), W[i])
  <2> DEFINE c == changes[i]
  <2>0. c \in Changes /\ c \in ToSet(changes)
    BY <1>1 DEF ToSet
  <2>1. c \in ToSet(changes) /\ Public(q, c) \in AllRefs
    <3> HIDE DEF c
    <3> QED BY <2>0 DEF AllRefs, Public
  <2>2. tips[c] \in Tree \cup {None} /\ SetRefs(Public(q, c), tips[c]) \subseteq E
    BY <2>1 DEF LandingOps, PublicRefs
  <2>3. next(x, i) = WithSetRef(x, Public(q, c), tips[c]) /\ W[i] = SetRefs(Public(q, c), tips[c])
    OBVIOUS
  <2> HIDE DEF E, c, next, W
  <2> QED BY <1>0, <2>1, <2>2, <2>3, SetRefGrows
<1> HIDE DEF next, E, W
<1>4. F \in [Seq(Operation) \X (1 .. n) -> Seq(Operation)]
  BY <1>3 DEF Grows
<1>5. \E f : f = step(f)
  <2> HIDE DEF F
  <2>1. PICK f : FoldOf(f, n, Seq(Operation), ops, F)
    BY <1>1, <1>4, FoldExists
  <2>2. ASSUME NEW s \in SUBSET (1 .. n), s # {}
        PROVE  F[<<f[s \ {Max(s)}], Max(s)>>] = next(f[s \ {Max(s)}], Max(s))
    <3>1. Max(s) \in 1 .. n /\ s \ {Max(s)} \in SUBSET (1 .. n)
      BY <1>1, <2>2, MaxOf
    <3>2. f[s \ {Max(s)}] \in Seq(Operation)
      BY <2>1, <3>1 DEF FoldOf
    <3> QED BY <3>1, <3>2 DEF F
  <2>3. f = step(f)
    BY <1>1, <2>1, <2>2 DEF FoldOf
  <2> QED BY <2>3
<1>6. it = step(it)
  BY <1>5
<1> HIDE DEF it, n
<1>7. it[{}] = ops
  BY <1>6
<1>8. ASSUME NEW s \in SUBSET (1 .. n), s # {}
      PROVE  it[s] = next(it[s \ {Max(s)}], Max(s)) /\ Max(s) \in 1 .. n
  BY <1>1, <1>6, <1>8, MaxOf
<1>9. \A s \in SUBSET (1 .. n) :
        s # {} /\ it[s \ {Max(s)}] \in Seq(Operation) =>
          /\ Grows(it[s \ {Max(s)}], it[s], E)
          /\ Max(s) \in Never \/ Holds(it[s], W[Max(s)])
  BY <1>3, <1>8
<1>10. Grows(ops, it[1 .. n], E) /\ \A i \in 1 .. n : i \in Never \/ Holds(it[1 .. n], W[i])
  <2> HIDE DEF Never
  <2> QED BY <1>1, <1>7, <1>9, LogFold
<1> DEFINE log == it[1 .. n]
           end == WithSetRef(log, Reconciled(q), tip)
<1>11. log \in Seq(Operation)
  BY <1>10 DEF Grows
<1>12. Grows(log, end, E) /\ Ends(end, SetRefs(Reconciled(q), tip))
  <2>1. Reconciled(q) \in AllRefs /\ tip \in Tree \cup {None}
    BY DEF AllRefs
  <2>2. SetRefs(Reconciled(q), tip) \subseteq E
    BY DEF E, LandingOps
  <2> HIDE DEF log
  <2> QED BY <1>0, <1>11, <2>1, <2>2, SetRefGrows
<1>13. Grows(ops, end, E)
  <2> HIDE DEF end
  <2> QED BY <1>10, <1>12, GrowsTrans
<1>14. ASSUME NEW c \in ToSet(changes) PROVE Holds(end, SetRefs(Public(q, c), tips[c]))
  <2>1. PICK i \in 1 .. n : c = changes[i]
    BY <1>1 DEF ToSet
  <2>2. Holds(log, W[i])
    BY <1>10
  <2>3. W[i] = SetRefs(Public(q, c), tips[c])
    BY <2>1 DEF W
  <2> HIDE DEF end, log
  <2> QED BY <1>11, <1>12, <2>2, <2>3, HoldsOn
<1> QED BY <1>2, <1>12, <1>13, <1>14 DEF E

-----------------------------------------------------------------------------
(* The trunk of a queue, and what a merge makes of it.                     *)

LEMMA OverlayIs ==
  ASSUME NEW refs, NEW q, NEW d \in Paths
  PROVE  \/ Overlay(refs, q)[d] = {}
         \/ \E c \in Changes : /\ refs[Public(q, c)] # None
                             /\ Overlay(refs, q)[d] = refs[Public(q, c)][d]
<1> DEFINE Tip(i) == refs[Public(q, Names[i])]
           having == {i \in DOMAIN Names : Tip(i) # None /\ Tip(i)[d] # {}}
           last   == CHOOSE i \in having : \A j \in having : j <= i
<1>1. Overlay(refs, q)[d] = IF having = {} THEN {} ELSE Tip(last)[d]
  BY DEF Overlay
<1>2. having # {} => last \in having
  <2>1. DOMAIN Names = 1 .. Len(Names) /\ Len(Names) \in Nat
    BY LandingAssumption
  <2>2. having \in SUBSET (0 .. Len(Names))
    BY <2>1
  <2> HIDE DEF having
  <2>3. having # {} => \E i \in having : \A j \in having : j <= i
    BY <2>1, <2>2, GreatestExists
  <2> QED BY <2>3
<1>3. \A i \in DOMAIN Names : Names[i] \in Changes
  BY DEF Changes, ToSet
<1>4. having # {} => Names[last] \in Changes /\ Tip(last) # None
  <2> HIDE DEF last
  <2> QED BY <1>2, <1>3
<1> HIDE DEF having, last
<1> QED BY <1>1, <1>4

LEMMA TrunkType ==
  ASSUME NEW log \in Seq(Operation), NEW q \in Queues
  PROVE  Trunk(RefsNow(log), q) \in Tree
<1> DEFINE refs == RefsNow(log)
<1>1. Reconciled(q) \in AllRefs /\ \A c \in Changes : Public(q, c) \in AllRefs
  BY DEF AllRefs, Public
<1>2. refs[Reconciled(q)] \in Tree \cup {None} /\ \A c \in Changes : refs[Public(q, c)] \in Tree \cup {None}
  BY <1>1, RefsType
<1> HIDE DEF refs
<1>3. \A d \in Paths : Overlay(refs, q)[d] \in SUBSET (Versions \cup {NoText})
  BY <1>2, OverlayIs DEF Tree
<1>4. Overlay(refs, q) = [d \in Paths |-> Overlay(refs, q)[d]]
  <2> DEFINE Tip(i) == refs[Public(q, Names[i])]
             Having(d) == {i \in DOMAIN Names : Tip(i) # None /\ Tip(i)[d] # {}}
             text(d) == IF Having(d) = {} THEN {}
                        ELSE Tip(CHOOSE i \in Having(d) : \A j \in Having(d) : j <= i)[d]
  <2>1. Overlay(refs, q) = [d \in Paths |-> text(d)]
    BY DEF Overlay
  <2> HIDE DEF text
  <2> QED BY <2>1
<1>5. Overlay(refs, q) \in Tree
  BY <1>3, <1>4 DEF Tree
<1> QED BY <1>2, <1>5 DEF Trunk, refs

(* A merge invents nothing: what it makes of a path comes from the trunk,  *)
(* from the change's tip, or says that a side deleted the definition.      *)
MergeOf(tips, changes, trunk) ==
  {t \in Tree : \A d \in Paths : \A v \in t[d] :
     \/ v \in trunk[d]
     \/ v = NoText
     \/ \E c \in ToSet(changes) : tips[c] # None /\ v \in tips[c][d]}

LEMMA MergeTextIs ==
  ASSUME NEW base, NEW left, NEW right, NEW v \in MergeText(base, left, right)
  PROVE  v \in left \/ v \in right \/ v = NoText
BY DEF MergeText

LEMMA MergeTextType ==
  ASSUME NEW base, NEW T, NoText \in T, NEW left \in SUBSET T, NEW right \in SUBSET T
  PROVE  MergeText(base, left, right) \in SUBSET T
BY DEF MergeText

LEMMA MergeChangeIs ==
  ASSUME NEW log \in Seq(Operation), NEW q, NEW changes \in Seq(Changes), NEW trunk,
         NEW c \in ToSet(changes), NEW acc \in MergeOf(RefsNow(log), changes, trunk)
  PROVE  MergeChange(log, q, acc, c) \in MergeOf(RefsNow(log), changes, trunk)
<1> DEFINE tips == RefsNow(log)
           tip  == tips[c]
           base == Base(log, q, c, acc)
           t    == MergeChange(log, q, acc, c)
<1> SUFFICES ASSUME tip # None PROVE t \in MergeOf(tips, changes, trunk)
  BY DEF MergeChange
<1>1. c \in AllRefs /\ acc \in Tree
  <2>1. c \in Changes
    BY DEF ToSet
  <2> QED BY <2>1 DEF AllRefs, MergeOf
<1>2. tip \in Tree
  BY <1>1, RefsType
<1> DEFINE text(d) == IF tip[d] = {} THEN acc[d] ELSE MergeText(base[d], acc[d], tip[d])
<1>3. t = [d \in Paths |-> text(d)]
  BY DEF MergeChange
<1>4. ASSUME NEW d \in Paths
      PROVE  /\ text(d) \in SUBSET (Versions \cup {NoText})
             /\ \A v \in text(d) : v \in acc[d] \/ v \in tip[d] \/ v = NoText
  <2> HIDE DEF tip, base
  <2>1. acc[d] \in SUBSET (Versions \cup {NoText}) /\ tip[d] \in SUBSET (Versions \cup {NoText})
    BY <1>1, <1>2 DEF Tree
  <2>2. text(d) = acc[d] \/ text(d) = MergeText(base[d], acc[d], tip[d])
    OBVIOUS
  <2>3. NoText \in Versions \cup {NoText}
    OBVIOUS
  <2> HIDE DEF text
  <2> QED BY <2>1, <2>2, <2>3, MergeTextIs, MergeTextType
<1> HIDE DEF text, t, base
<1>5. t \in Tree
  BY <1>3, <1>4 DEF Tree
<1>6. ASSUME NEW d \in Paths, NEW v \in t[d]
      PROVE  \/ v \in trunk[d]
             \/ v = NoText
             \/ \E e \in ToSet(changes) : tips[e] # None /\ v \in tips[e][d]
  <2>1. v \in acc[d] \/ v \in tip[d] \/ v = NoText
    BY <1>3, <1>4, <1>6
  <2>2. v \in acc[d] =>
          \/ v \in trunk[d]
          \/ v = NoText
          \/ \E e \in ToSet(changes) : tips[e] # None /\ v \in tips[e][d]
    BY DEF MergeOf
  <2> HIDE DEF tips
  <2> QED BY <2>1, <2>2
<1> HIDE DEF tips
<1> QED BY <1>5, <1>6 DEF MergeOf

(* The merge goes through the changes in their order.                      *)
MergesAlong(it, log, q, changes) ==
  /\ it[{}] = Trunk(RefsNow(log), q)
  /\ \A s \in SUBSET (1 .. Len(changes)) : s # {} =>
       /\ Max(s) \in 1 .. Len(changes)
       /\ it[s] = MergeChange(log, q, it[s \ {Max(s)}], changes[Max(s)])

LEMMA ReconcileFold ==
  ASSUME NEW log \in Seq(Operation), NEW q \in Queues, NEW changes \in Seq(Changes)
  PROVE  \E it : /\ MergesAlong(it, log, q, changes)
                 /\ Reconcile(log, q, changes) = it[1 .. Len(changes)]
<1> DEFINE n == Len(changes)
           trunk == Trunk(RefsNow(log), q)
           X  == MergeOf(RefsNow(log), changes, trunk)
           next(x, i) == MergeChange(log, q, x, changes[i])
           F == [y \in X \X (1 .. n) |-> next(y[1], y[2])]
           step(it) == [s \in SUBSET DOMAIN changes |->
                          IF s = {} THEN trunk ELSE next(it[s \ {Max(s)}], Max(s))]
           it == CHOOSE it : it = step(it)
<1>1. n \in Nat /\ DOMAIN changes = 1 .. n
  OBVIOUS
<1>2. Reconcile(log, q, changes) = it[1 .. n]
  BY <1>1 DEF Reconcile, FoldLeft, MapThenFoldSet
<1>3. ASSUME NEW x \in X, NEW i \in 1 .. n PROVE next(x, i) \in X
  <2>1. changes[i] \in ToSet(changes)
    BY <1>1 DEF ToSet
  <2> QED BY <2>1, MergeChangeIs
<1>0. trunk \in X
  BY TrunkType DEF MergeOf
<1> HIDE DEF next, X, trunk
<1>4. F \in [X \X (1 .. n) -> X]
  BY <1>3
<1>5. \E f : f = step(f)
  <2> HIDE DEF F
  <2>1. PICK f : FoldOf(f, n, X, trunk, F)
    BY <1>0, <1>1, <1>4, FoldExists
  <2>2. ASSUME NEW s \in SUBSET (1 .. n), s # {}
        PROVE  F[<<f[s \ {Max(s)}], Max(s)>>] = next(f[s \ {Max(s)}], Max(s))
    <3>1. Max(s) \in 1 .. n /\ s \ {Max(s)} \in SUBSET (1 .. n)
      BY <1>1, <2>2, MaxOf
    <3>2. f[s \ {Max(s)}] \in X
      BY <2>1, <3>1 DEF FoldOf
    <3> QED BY <3>1, <3>2 DEF F
  <2>3. f = step(f)
    BY <1>1, <2>1, <2>2 DEF FoldOf
  <2> QED BY <2>3
<1>6. it = step(it)
  BY <1>5
<1> HIDE DEF it, n
<1>7. it[{}] = trunk
  BY <1>6
<1>8. ASSUME NEW s \in SUBSET (1 .. n), s # {}
      PROVE  it[s] = next(it[s \ {Max(s)}], Max(s)) /\ Max(s) \in 1 .. n
  BY <1>1, <1>6, <1>8, MaxOf
<1> QED BY <1>2, <1>7, <1>8 DEF MergesAlong, next, n, trunk

LEMMA ReconcileIs ==
  ASSUME NEW log \in Seq(Operation), NEW q \in Queues, NEW changes \in Seq(Changes)
  PROVE  Reconcile(log, q, changes) \in MergeOf(RefsNow(log), changes, Trunk(RefsNow(log), q))
<1> DEFINE n == Len(changes)
           X == MergeOf(RefsNow(log), changes, Trunk(RefsNow(log), q))
<1>1. PICK it : MergesAlong(it, log, q, changes) /\ Reconcile(log, q, changes) = it[1 .. n]
  BY ReconcileFold
<1>2. n \in Nat /\ DOMAIN changes = 1 .. n
  OBVIOUS
<1>3. ASSUME NEW s \in SUBSET (1 .. n), s # {}, it[s \ {Max(s)}] \in X PROVE it[s] \in X
  <2>1. /\ it[s] = MergeChange(log, q, it[s \ {Max(s)}], changes[Max(s)])
        /\ changes[Max(s)] \in ToSet(changes)
    BY <1>1, <1>2, <1>3 DEF MergesAlong, ToSet
  <2> QED BY <1>3, <2>1, MergeChangeIs
<1>4. it[{}] \in X
  BY <1>1, TrunkType DEF MergesAlong, MergeOf
<1> HIDE DEF X, n
<1>5. it[1 .. n] \in X
  BY <1>2, <1>3, <1>4, FoldIn
<1> QED BY <1>1, <1>5 DEF X

LEMMA ChangesOfType ==
  ASSUME NEW batch \in Seq(Subs)
  PROVE  ChangesOf(batch) \in Seq(Changes)
<1> DEFINE n == Len(batch)
           X  == Seq(Changes)
           next(x, i) == x \o SubChanges[batch[i]]
           F == [y \in X \X (1 .. n) |-> next(y[1], y[2])]
           step(it) == [s \in SUBSET DOMAIN batch |->
                          IF s = {} THEN << >> ELSE next(it[s \ {Max(s)}], Max(s))]
           it == CHOOSE it : it = step(it)
<1>1. n \in Nat /\ DOMAIN batch = 1 .. n
  OBVIOUS
<1>2. ChangesOf(batch) = it[1 .. n]
  BY <1>1 DEF ChangesOf, FoldLeft, MapThenFoldSet
<1>3. ASSUME NEW x \in X, NEW i \in 1 .. n PROVE next(x, i) \in X
  <2>1. SubChanges[batch[i]] \in Seq(Changes)
    BY <1>1, LandingAssumption
  <2> QED BY <2>1
<1>0. << >> \in X
  OBVIOUS
<1> HIDE DEF next, X
<1>4. F \in [X \X (1 .. n) -> X]
  BY <1>3
<1>5. \E f : f = step(f)
  <2> HIDE DEF F
  <2>1. PICK f : FoldOf(f, n, X, << >>, F)
    BY <1>0, <1>1, <1>4, FoldExists
  <2>2. ASSUME NEW s \in SUBSET (1 .. n), s # {}
        PROVE  F[<<f[s \ {Max(s)}], Max(s)>>] = next(f[s \ {Max(s)}], Max(s))
    <3>1. Max(s) \in 1 .. n /\ s \ {Max(s)} \in SUBSET (1 .. n)
      BY <1>1, <2>2, MaxOf
    <3>2. f[s \ {Max(s)}] \in X
      BY <2>1, <3>1 DEF FoldOf
    <3> QED BY <3>1, <3>2 DEF F
  <2>3. f = step(f)
    BY <1>1, <2>1, <2>2 DEF FoldOf
  <2> QED BY <2>3
<1>6. it = step(it)
  BY <1>5
<1> HIDE DEF it, n
<1>7. it[{}] = << >>
  BY <1>6
<1>8. ASSUME NEW s \in SUBSET (1 .. n), s # {}
      PROVE  it[s] = next(it[s \ {Max(s)}], Max(s)) /\ Max(s) \in 1 .. n
  BY <1>1, <1>6, <1>8, MaxOf
<1>9. it[1 .. n] \in X
  <2>1. ASSUME NEW s \in SUBSET (1 .. n), s # {}, it[s \ {Max(s)}] \in X PROVE it[s] \in X
    BY <1>3, <1>8, <2>1
  <2>2. it[{}] \in X
    BY <1>0, <1>7
  <2> QED BY <1>1, <2>1, <2>2, FoldIn
<1> QED BY <1>2, <1>9 DEF X

-----------------------------------------------------------------------------
(* The states a process goes through, and what it has in hand in each.     *)

TipsOf == UNION {[S -> Tree \cup {None}] : S \in SUBSET Changes}

SubmitJob == [kind : {"submit"}, sub : Subs, status : {"pending", "approved"}]

BatchJob(kinds) == [kind : kinds, queue : Queues, changes : Seq(Changes)]

PushJob ==
  {j \in [kind : {"push"}, queue : Queues, changes : Seq(Changes), tips : TipsOf,
          sub : Subs, status : {"pending", "approved"}] :
     \A c \in ToSet(j.changes) : c \in Remote /\ j.tips[c] \in Tree}

MergedJob ==
  {j \in [kind : {"land", "push", "reconcile"}, queue : Queues, changes : Seq(Changes),
          tips : TipsOf, merged : Tree, seen : Tree] :
     \A c \in ToSet(j.changes) : j.tips[c] \in Tree \cup {None}}

HasJob(step, j) ==
  \/ step = "idle"     /\ j = Idle
  \/ step = "save"     /\ j \in SubmitJob
  \/ step = "snapshot" /\ j \in BatchJob({"land"})
  \/ step = "record"   /\ j \in PushJob
  \/ step = "read"     /\ j \in BatchJob({"land", "reconcile"}) \cup PushJob
  \/ step = "commit"   /\ j \in MergedJob

(* What is ever written to the log: snapshots of the changes with a        *)
(* workspace here, and refs.                                               *)
Entries == {op \in OpKind : /\ op.kind \in {"commit", "set_ref", "undo"}
                            /\ op.kind = "commit" => op.ref \in Changes \ Remote}

Types ==
  /\ ops \in Seq(Operation)
  /\ \A i \in 1 .. Len(ops) : ops[i].op \in Entries
  /\ copy \in [Changes -> Tree]
  /\ built \in [Changes -> Tree \cup {None}]
  /\ subs \in [Subs -> {"absent", "pending", "approved"}]
  /\ DOMAIN pc = Procs /\ DOMAIN job = Procs
  /\ \A p \in Procs : HasJob(pc[p], job[p])

LEMMA InitTypes == Init => Types
<1> SUFFICES ASSUME Init PROVE Types
  OBVIOUS
<1>1. NoFiles \in Tree
  BY DEF NoFiles, Tree
<1>2. Len(ops) = 0 /\ ops \in Seq(Operation)
  BY DEF Init
<1> QED BY <1>1, <1>2 DEF Init, Types, HasJob

(* A step that changes the job of one process keeps those of the others.   *)
LEMMA OneJob ==
  ASSUME DOMAIN pc = Procs, DOMAIN job = Procs, \A q \in Procs : HasJob(pc[q], job[q]),
         NEW p \in Procs, NEW step, NEW j, HasJob(step, j),
         pc' = [pc EXCEPT ![p] = step], job' = [job EXCEPT ![p] = j]
  PROVE  DOMAIN pc' = Procs /\ DOMAIN job' = Procs /\ \A q \in Procs : HasJob(pc'[q], job'[q])
<1>1. \A q \in Procs : IF q = p THEN pc'[q] = step /\ job'[q] = j
                       ELSE pc'[q] = pc[q] /\ job'[q] = job[q]
  OBVIOUS
<1> QED BY <1>1

LEMMA EntriesGrow ==
  ASSUME Types, NEW log, NEW E \in SUBSET Entries, Grows(ops, log, E)
  PROVE  log \in Seq(Operation) /\ \A i \in 1 .. Len(log) : log[i].op \in Entries
<1>1. log \in Seq(Operation) /\ Len(ops) \in Nat /\ Len(log) \in Nat
  BY DEF Grows, Types
<1>2. ASSUME NEW i \in 1 .. Len(log) PROVE log[i].op \in Entries
  <2>1. CASE i \in 1 .. Len(ops)
    BY <2>1 DEF Grows, Types
  <2>2. CASE i \notin 1 .. Len(ops)
    <3>1. i \in Len(ops) + 1 .. Len(log)
      BY <1>1, <2>2
    <3> QED BY <3>1 DEF Grows
  <2> QED BY <2>1, <2>2
<1> QED BY <1>1, <1>2

LEMMA SetRefsAreEntries ==
  /\ CommitsOfCopies \in SUBSET Entries
  /\ \A r, new : SetRefs(r, new) \in SUBSET Entries
BY DEF CommitsOfCopies, SetRefs, Entries

(* What each step adds to the log.                                         *)
Undos == {op \in OpKind : op.kind = "undo" /\ op.target < Len(ops)}

Added(op) ==
  \/ op \in CommitsOfCopies \cup Undos
  \/ \E p \in Procs :
       \/ pc[p] = "record" /\ op \in Recordings(job[p].changes, job[p].tips)
       \/ /\ pc[p] = "commit" /\ pc'[p] = "idle"
          /\ job[p].kind # "reconcile" => PassesGates(p)
          /\ \/ /\ job[p].kind # "reconcile"
                /\ op \in PublicRefs(job[p].queue, job[p].changes, job[p].tips)
             \/ op \in SetRefs(Reconciled(job[p].queue), job[p].merged)

AddedOps == {op \in OpKind : Added(op)}

LEMMA SubsetGrows ==
  ASSUME NEW log, NEW log2, NEW E, NEW E2, E \subseteq E2, Grows(log, log2, E)
  PROVE  Grows(log, log2, E2)
BY DEF Grows

LEMMA AddedBySnapshots ==
  ASSUME Types, NEW changes \in Seq(Changes), ops' = Snapshots(changes)
  PROVE  Grows(ops, ops', AddedOps)
<1>1. Grows(ops, ops', CommitsOfCopies)
  BY SnapshotsGrow DEF Types
<1>2. CommitsOfCopies \subseteq AddedOps
  BY DEF AddedOps, Added, CommitsOfCopies
<1> QED BY <1>1, <1>2, SubsetGrows

LEMMA JobAt ==
  ASSUME Types, NEW p \in Procs
  PROVE  /\ pc[p] = "idle" => job[p] = Idle
         /\ pc[p] = "save" => job[p] \in SubmitJob
         /\ pc[p] = "snapshot" => job[p] \in BatchJob({"land"})
         /\ pc[p] = "record" => job[p] \in PushJob
         /\ pc[p] = "read" => job[p] \in BatchJob({"land", "reconcile"}) \cup PushJob
         /\ pc[p] = "commit" => job[p] \in MergedJob
<1>1. HasJob(pc[p], job[p])
  BY DEF Types
<1> QED BY <1>1 DEF HasJob

LEMMA AddedByRecord ==
  ASSUME Types, NEW p \in Procs, PushRecord(p)
  PROVE  Grows(ops, ops', AddedOps)
<1> DEFINE changes == job[p].changes
           tips    == job[p].tips
<1>1. pc[p] = "record" /\ ops' = Records(changes, tips)
  BY DEF PushRecord, Save
<1>2. changes \in Seq(Changes) /\ \A c \in ToSet(changes) : tips[c] \in Tree
  BY <1>1, JobAt DEF PushJob
<1>3. Recordings(changes, tips) \subseteq AddedOps
  BY <1>1 DEF AddedOps, Added, Recordings, SetRefs
<1> HIDE DEF changes, tips
<1>4. Grows(ops, ops', Recordings(changes, tips))
  BY <1>1, <1>2, RecordsGrow DEF Types
<1> QED BY <1>3, <1>4, SubsetGrows

LEMMA AddedByCommit ==
  ASSUME Types, NEW p \in Procs, Commit(p)
  PROVE  /\ Grows(ops, ops', AddedOps)
         /\ \A c \in ToSet(job[p].changes) :
              Holds(ops', SetRefs(Public(job[p].queue, c), job[p].tips[c]))
         /\ Ends(ops', SetRefs(Reconciled(job[p].queue), job[p].merged))
<1> DEFINE changes == job[p].changes
           tips    == job[p].tips
           q       == job[p].queue
           tip     == job[p].merged
<1>1. /\ pc[p] = "commit" /\ PassesGates(p) /\ job[p].kind # "reconcile"
      /\ ops' = Landed(q, changes, tips, tip)
      /\ pc'[p] = "idle"
  BY DEF Commit, Save, Finish, Types
<1>2. /\ changes \in Seq(Changes) /\ \A c \in ToSet(changes) : tips[c] \in Tree \cup {None}
      /\ q \in Queues /\ tip \in Tree
  BY <1>1, JobAt DEF MergedJob
<1>3. LandingOps(q, changes, tips, tip) \subseteq AddedOps
  <2>1. LandingOps(q, changes, tips, tip) \subseteq OpKind
    BY DEF LandingOps, PublicRefs, SetRefs
  <2> QED BY <1>1, <2>1 DEF AddedOps, Added, LandingOps
<1> HIDE DEF changes, tips, q, tip
<1>4. /\ Grows(ops, ops', LandingOps(q, changes, tips, tip))
      /\ \A c \in ToSet(changes) : Holds(ops', SetRefs(Public(q, c), tips[c]))
      /\ Ends(ops', SetRefs(Reconciled(q), tip))
  BY <1>1, <1>2, LandedGrows DEF Types
<1>5. Grows(ops, ops', AddedOps)
  BY <1>3, <1>4, SubsetGrows
<1> QED BY <1>4, <1>5 DEF changes, tips, q, tip

LEMMA AddedByReconcile ==
  ASSUME Types, NEW p \in Procs, CommitReconciled(p)
  PROVE  /\ Grows(ops, ops', AddedOps)
         /\ Ends(ops', SetRefs(Reconciled(job[p].queue), job[p].merged))
<1> DEFINE q   == job[p].queue
           tip == job[p].merged
<1>1. /\ pc[p] = "commit" /\ job[p].kind = "reconcile" /\ pc'[p] = "idle"
      /\ ops' = WithSetRef(ops, Reconciled(q), tip)
  BY DEF CommitReconciled, Save, Finish, Types
<1>2. q \in Queues /\ tip \in Tree
  BY <1>1, JobAt DEF MergedJob
<1>3. SetRefs(Reconciled(q), tip) \subseteq AddedOps
  BY <1>1 DEF AddedOps, Added, SetRefs
<1> HIDE DEF q, tip
<1>4. Reconciled(q) \in AllRefs /\ AddedOps \in SUBSET OpKind
  BY <1>2 DEF AllRefs, AddedOps
<1>5. Grows(ops, ops', AddedOps) /\ Ends(ops', SetRefs(Reconciled(q), tip))
  BY <1>1, <1>2, <1>3, <1>4, SetRefGrows DEF Types
<1> QED BY <1>5 DEF q, tip

LEMMA AddedByUndo ==
  ASSUME Types, Undo
  PROVE  Grows(ops, ops', AddedOps)
<1> DEFINE s == Latest(InEffect(ops))
<1>1. ops' = Appended(ops, UndoOp(s)) /\ InEffect(ops) # {}
  BY DEF Undo, Save
<1>2. NoLimit(ops) \in Int /\ InEffect(ops) \in SUBSET (0 .. NoLimit(ops))
  BY DEF InEffect, NoLimit, Types
<1>3. NoLimit(ops) \in Nat
  BY <1>1, <1>2
<1>4. s \in InEffect(ops)
  <2> DEFINE n == NoLimit(ops)
             S == InEffect(ops)
  <2>1. n \in Nat /\ S \in SUBSET (0 .. n) /\ S # {}
    BY <1>1, <1>2, <1>3
  <2> HIDE DEF n, S
  <2>2. Latest(S) \in S
    BY <2>1, LatestIn
  <2> QED BY <2>2 DEF S
<1>6. s \in Nat /\ s < Len(ops)
  BY <1>2, <1>3, <1>4 DEF NoLimit, Types
<1> HIDE DEF s
<1>5. UndoOp(s) \in AddedOps /\ AddedOps \in SUBSET OpKind
  BY <1>6 DEF AddedOps, Added, Undos, UndoOp, OpKind
<1> QED BY <1>1, <1>5, GrowsNot, GrowsByOne DEF Types

(* Every step appends what it may, or nothing.                             *)
LEMMA LogStep ==
  ASSUME Types, [Next]_vars
  PROVE  Grows(ops, ops', AddedOps)
<1>0. Grows(ops, ops, AddedOps)
  BY GrowsNot DEF Types
<1>1. CASE UNCHANGED vars
  BY <1>0, <1>1 DEF vars
<1>2. ASSUME NEW w \in Writes, NEW q \in Queues, Edit(w[1], w[2], w[3]) \/ Author(w[1], q, w[2], w[3])
      PROVE  ops' = ops
  BY <1>2 DEF Edit, Author
<1>3. ASSUME NEW s \in Subs, Approve(s) PROVE ops' = ops
  BY <1>3 DEF Approve
<1>4. ASSUME NEW p \in Procs, NEW s \in Subs, NEW status, SubmitSnapshot(p, s, status)
      PROVE  Grows(ops, ops', AddedOps)
  <2>1. SubChanges[s] \in Seq(Changes) /\ ops' = Snapshots(SubChanges[s])
    BY <1>4, LandingAssumption DEF SubmitSnapshot, Save
  <2> QED BY <2>1, AddedBySnapshots
<1>5. ASSUME NEW p \in Procs, LandSnapshot(p) PROVE Grows(ops, ops', AddedOps)
  <2>1. job[p].changes \in Seq(Changes) /\ ops' = Snapshots(job[p].changes)
    BY <1>5, JobAt DEF LandSnapshot, Save, BatchJob
  <2> QED BY <2>1, AddedBySnapshots
<1>6. ASSUME NEW p \in Procs, NEW batch, NEW q, NEW s, NEW approved,
             \/ SubmitSave(p) \/ LandStart(p, batch, q) \/ ReconcileStart(p, batch, q)
             \/ PushStart(p, s, q, approved) \/ Read(p) \/ ReadRefuses(p) \/ CommitRefuses(p)
      PROVE  ops' = ops
  BY <1>6 DEF SubmitSave, LandStart, ReconcileStart, PushStart, Read, ReadRefuses, CommitRefuses
<1>7. ASSUME NEW w \in Writes, Edit(w[1], w[2], w[3]) PROVE ops' = ops
  BY <1>7 DEF Edit
<1> QED BY <1>0, <1>1, <1>2, <1>3, <1>4, <1>5, <1>6, <1>7, AddedByUndo, AddedByRecord,
           AddedByCommit, AddedByReconcile DEF Next

-----------------------------------------------------------------------------
(* Types.                                                                  *)

LEMMA TreeWith ==
  ASSUME NEW tree \in Tree, NEW d \in Paths, NEW text \in SUBSET Versions
  PROVE  [tree EXCEPT ![d] = text] \in Tree
BY DEF Tree

LEMMA AddedAreEntries == ASSUME Types PROVE AddedOps \in SUBSET Entries
<1>1. ASSUME NEW op \in OpKind, Added(op) PROVE op \in Entries
  <2>1. CASE op \in CommitsOfCopies \cup Undos
    BY <2>1 DEF CommitsOfCopies, Undos, Entries
  <2>2. CASE op.kind = "set_ref"
    BY <2>2 DEF Entries
  <2>3. op \in CommitsOfCopies \cup Undos \/ op.kind = "set_ref"
    BY <1>1 DEF Added, Recordings, PublicRefs, SetRefs
  <2> QED BY <2>1, <2>2, <2>3
<1> QED BY <1>1 DEF AddedOps

LEMMA TypesStep ==
  ASSUME Types, [Next]_vars
  PROVE  Types'
<1>1. ops' \in Seq(Operation) /\ \A i \in 1 .. Len(ops') : ops'[i].op \in Entries
  BY LogStep, AddedAreEntries, EntriesGrow
<1> DEFINE CopyOK == copy' \in [Changes -> Tree] /\ built' \in [Changes -> Tree \cup {None}]
           SubsOK == subs' \in [Subs -> {"absent", "pending", "approved"}]
           JobsOK == /\ DOMAIN pc' = Procs /\ DOMAIN job' = Procs
                     /\ \A p \in Procs : HasJob(pc'[p], job'[p])
<1>2. SUFFICES ASSUME TRUE PROVE CopyOK /\ SubsOK /\ JobsOK
  BY <1>1 DEF Types
<1>3. (UNCHANGED << copy, built >> => CopyOK) /\ (UNCHANGED subs => SubsOK)
      /\ (UNCHANGED << pc, job >> => JobsOK)
  BY DEF Types
<1>4. ASSUME NEW p \in Procs, NEW step, NEW j, HasJob(step, j),
             pc' = [pc EXCEPT ![p] = step], job' = [job EXCEPT ![p] = j]
      PROVE  JobsOK
  BY <1>4, OneJob DEF Types
<1>5. ASSUME NEW p \in Procs, Finish(p) PROVE JobsOK
  <2>1. HasJob("idle", Idle)
    BY DEF HasJob
  <2> QED BY <1>4, <1>5, <2>1 DEF Finish
<1>6. CASE UNCHANGED vars
  BY <1>3, <1>6 DEF vars
<1>7. ASSUME NEW w \in Writes, Edit(w[1], w[2], w[3])
      PROVE  CopyOK /\ SubsOK /\ JobsOK
  <2>1. w[1] \in Changes /\ w[2] \in Paths /\ w[3] \in SUBSET Versions
    BY LandingAssumption
  <2>2. [copy[w[1]] EXCEPT ![w[2]] = w[3]] \in Tree
    BY <2>1, TreeWith DEF Types
  <2>3. copy' = [copy EXCEPT ![w[1]] = [copy[w[1]] EXCEPT ![w[2]] = w[3]]]
        /\ UNCHANGED << subs, pc, job, built >>
    BY <1>7, <2>1 DEF Edit, Types
  <2> QED BY <1>3, <2>1, <2>2, <2>3 DEF Types
<1>8. ASSUME NEW w \in Writes, NEW q \in Queues, Author(w[1], q, w[2], w[3])
      PROVE  CopyOK /\ SubsOK /\ JobsOK
  <2> DEFINE trunk == Trunk(Refs, q)
  <2>1. w[1] \in Changes /\ w[2] \in Paths /\ w[3] \in SUBSET Versions
    BY LandingAssumption
  <2>2. trunk \in Tree
    BY TrunkType DEF Types, Refs
  <2>3. /\ copy' = [copy EXCEPT ![w[1]] = [trunk EXCEPT ![w[2]] = w[3]]]
        /\ built' = [built EXCEPT ![w[1]] = trunk]
        /\ UNCHANGED << subs, pc, job >>
    BY <1>8 DEF Author
  <2> HIDE DEF trunk
  <2>4. [trunk EXCEPT ![w[2]] = w[3]] \in Tree
    BY <2>1, <2>2, TreeWith
  <2> QED BY <1>3, <2>1, <2>2, <2>3, <2>4 DEF Types
<1>9. ASSUME NEW s \in Subs, Approve(s) PROVE CopyOK /\ SubsOK /\ JobsOK
  <2>1. subs' = [subs EXCEPT ![s] = "approved"] /\ UNCHANGED << copy, built, pc, job >>
    BY <1>9 DEF Approve, users
  <2> QED BY <1>3, <2>1 DEF Types
<1>10. CASE Undo
  BY <1>3, <1>10 DEF Undo, users
<1>11. ASSUME NEW p \in Procs, NEW s \in Subs, NEW status \in {"pending", "approved"},
              SubmitSnapshot(p, s, status)
       PROVE  CopyOK /\ SubsOK /\ JobsOK
  <2>1. HasJob("save", [kind |-> "submit", sub |-> s, status |-> status])
    BY DEF HasJob, SubmitJob
  <2> QED BY <1>3, <1>4, <1>11, <2>1 DEF SubmitSnapshot, Start, users
<1>12. ASSUME NEW p \in Procs, SubmitSave(p) PROVE CopyOK /\ SubsOK /\ JobsOK
  <2>1. job[p].sub \in Subs /\ job[p].status \in {"pending", "approved"}
    BY <1>12, JobAt DEF SubmitSave, SubmitJob
  <2>2. SubsOK
    BY <1>12, <2>1 DEF SubmitSave, Types
  <2> QED BY <1>3, <1>5, <1>12, <2>2 DEF SubmitSave, users
<1>13. ASSUME NEW p \in Procs, NEW batch \in Batches, NEW q \in Queues,
              LandStart(p, batch, q) \/ ReconcileStart(p, batch, q)
       PROVE  CopyOK /\ SubsOK /\ JobsOK
  <2>1. ChangesOf(batch) \in Seq(Changes)
    BY ChangesOfType, LandingAssumption
  <2>2. /\ HasJob("snapshot", [kind |-> "land", queue |-> q, changes |-> ChangesOf(batch)])
        /\ HasJob("read", [kind |-> "reconcile", queue |-> q, changes |-> ChangesOf(batch)])
    BY <2>1 DEF HasJob, BatchJob
  <2> QED BY <1>3, <1>4, <1>13, <2>2 DEF LandStart, ReconcileStart, Start, users
<1>14. ASSUME NEW p \in Procs, NEW s \in Subs, NEW q \in Queues, NEW approved \in BOOLEAN,
              PushStart(p, s, q, approved)
       PROVE  CopyOK /\ SubsOK /\ JobsOK
  <2> DEFINE changes == SubChanges[s]
             tips    == [c \in ToSet(changes) |-> copy[c]]
             j == [kind |-> "push", queue |-> q, changes |-> changes, tips |-> tips, sub |-> s,
                   status |-> IF approved THEN "approved" ELSE "pending"]
  <2>1. changes \in Seq(Changes)
    BY LandingAssumption
  <2>2. ToSet(changes) \in SUBSET Changes
    BY <2>1 DEF ToSet
  <2>3. \A c \in ToSet(changes) : c \in Remote /\ copy[c] \in Tree
    BY <1>14, <2>2 DEF PushStart, Types
  <2>4. tips \in TipsOf /\ \A c \in ToSet(changes) : c \in Remote /\ tips[c] \in Tree
    <3> HIDE DEF changes
    <3>1. tips \in [ToSet(changes) -> Tree \cup {None}]
      BY <2>3
    <3> QED BY <2>2, <2>3, <3>1 DEF TipsOf
  <2>5. j \in PushJob
    <3> HIDE DEF changes, tips
    <3> QED BY <2>1, <2>4 DEF PushJob
  <2>6. HasJob("record", j)
    BY <2>5 DEF HasJob
  <2> QED BY <1>3, <1>4, <1>14, <2>6 DEF PushStart, Start, users
<1>15. ASSUME NEW p \in Procs, LandSnapshot(p) \/ PushRecord(p)
       PROVE  CopyOK /\ SubsOK /\ JobsOK
  <2>1. HasJob("read", job[p])
    BY <1>15, JobAt DEF LandSnapshot, PushRecord, HasJob, BatchJob
  <2>2. job' = job /\ pc' = [pc EXCEPT ![p] = "read"] /\ UNCHANGED << copy, built, subs >>
    BY <1>15 DEF LandSnapshot, PushRecord, Goto, users
  <2>3. JobsOK
    BY <2>1, <2>2 DEF Types
  <2> QED BY <1>3, <2>2, <2>3
<1>16. ASSUME NEW p \in Procs, Read(p) PROVE CopyOK /\ SubsOK /\ JobsOK
  <2> DEFINE q == job[p].queue
             changes == job[p].changes
             j == [kind |-> job[p].kind, queue |-> q, changes |-> changes,
                   tips |-> Tips(p), merged |-> Merged(p), seen |-> Trunk(Refs, q)]
  <2>1. /\ job[p].kind \in {"land", "push", "reconcile"} /\ q \in Queues /\ changes \in Seq(Changes)
        /\ job[p].kind = "push" => job[p] \in PushJob
    BY <1>16, JobAt DEF Read, BatchJob, PushJob
  <2>2. Merged(p) \in Tree /\ Trunk(Refs, q) \in Tree
    BY <2>1, ReconcileIs, TrunkType DEF Merged, MergeOf, Types, Refs
  <2>3. Tips(p) \in TipsOf /\ \A c \in ToSet(changes) : Tips(p)[c] \in Tree \cup {None}
    <3>1. CASE job[p].kind = "push"
      BY <2>1, <3>1 DEF PushJob, Tips
    <3>2. CASE job[p].kind # "push"
      <4>1. ToSet(changes) \in SUBSET Changes
        BY <2>1 DEF ToSet
      <4>2. \A c \in ToSet(changes) : Refs[c] \in Tree \cup {None}
        BY <4>1, RefsType DEF AllRefs, Refs, Types
      <4> HIDE DEF changes
      <4>3. Tips(p) = [c \in ToSet(changes) |-> Refs[c]]
        BY <3>2 DEF Tips, changes
      <4>4. Tips(p) \in [ToSet(changes) -> Tree \cup {None}]
        BY <4>2, <4>3
      <4> QED BY <4>1, <4>2, <4>3, <4>4 DEF TipsOf
    <3> QED BY <3>1, <3>2
  <2>4. j \in MergedJob
    <3> HIDE DEF q, changes
    <3> QED BY <2>1, <2>2, <2>3 DEF MergedJob
  <2>5. HasJob("commit", j)
    BY <2>4 DEF HasJob
  <2>6. SubsOK
    <3>1. CASE job[p].kind = "push"
      BY <1>16, <2>1, <3>1 DEF Read, PushJob, Types
    <3>2. CASE job[p].kind # "push"
      BY <1>16, <3>2 DEF Read, Types
    <3> QED BY <3>1, <3>2
  <2>7. pc' = [pc EXCEPT ![p] = "commit"] /\ job' = [job EXCEPT ![p] = j]
    BY <1>16 DEF Read, Goto
  <2> QED BY <1>3, <1>4, <1>16, <2>5, <2>6, <2>7 DEF Read, users
<1>17. ASSUME NEW p \in Procs,
              ReadRefuses(p) \/ Commit(p) \/ CommitRefuses(p) \/ CommitReconciled(p)
       PROVE  CopyOK /\ SubsOK /\ JobsOK
  BY <1>3, <1>5, <1>17 DEF ReadRefuses, Commit, CommitRefuses, CommitReconciled, users
<1> HIDE DEF CopyOK, SubsOK, JobsOK
<1> QED BY <1>6, <1>7, <1>8, <1>9, <1>10, <1>11, <1>12, <1>13, <1>14, <1>15, <1>16, <1>17 DEF Next

(* Types: every process has in hand what its next step needs - the job of  *)
(* each state of cmd_submit, cmd_land, accept_push and cmd_reconcile - and *)
(* the log only holds commits of changes with a workspace here, refs and   *)
(* undos.                                                                  *)
THEOREM TypeCorrect == Spec => []Types
BY InitTypes, TypesStep, PTL DEF Spec

-----------------------------------------------------------------------------
(* What passed the gates.                                                  *)

(* What one step may do to a process.                                      *)
Moves(p) ==
  \/ pc'[p] = pc[p] /\ job'[p] = job[p]
  \/ pc'[p] \in {"idle", "save"}
  \/ \E batch \in Batches, q \in Queues :
       /\ pc'[p] = "snapshot"
       /\ job'[p] = [kind |-> "land", queue |-> q, changes |-> ChangesOf(batch)]
  \/ \E batch \in Batches, q \in Queues :
       /\ pc'[p] = "read" /\ "reconcile" \in Commands
       /\ job'[p] = [kind |-> "reconcile", queue |-> q, changes |-> ChangesOf(batch)]
  \/ pc'[p] = "record" /\ \E s \in Subs : job'[p].changes = SubChanges[s]
  \/ pc[p] \in {"snapshot", "record"} /\ pc'[p] = "read" /\ job'[p] = job[p]
  \/ Read(p)

LEMMA ProcessStep ==
  ASSUME Types, [Next]_vars, NEW p \in Procs
  PROVE  Moves(p)
<1>1. UNCHANGED << pc, job >> => Moves(p)
  BY DEF Moves
<1>2. ASSUME NEW q \in Procs, q # p, NEW step, NEW j,
             pc' = [pc EXCEPT ![q] = step], job' = [job EXCEPT ![q] = j] \/ job' = job
      PROVE  pc'[p] = pc[p] /\ job'[p] = job[p]
  BY <1>2 DEF Types
<1>3. ASSUME NEW q \in Procs, NEW step, NEW j, pc' = [pc EXCEPT ![q] = step],
             job' = [job EXCEPT ![q] = j] \/ job' = job
      PROVE  Moves(p) \/ (q = p /\ pc'[p] = step /\ (job'[p] = j \/ job' = job))
  BY <1>2, <1>3 DEF Types, Moves
<1>4. ASSUME NEW q \in Procs, NEW step, NEW j, Start(q, step, j)
      PROVE  Moves(p) \/ (pc'[p] = step /\ job'[p] = j)
  BY <1>2, <1>4 DEF Start, Types, Moves
<1>5. ASSUME NEW q \in Procs, Finish(q) PROVE Moves(p)
  BY <1>3, <1>5 DEF Finish, Moves
<1>6. ASSUME NEW w \in Writes, NEW q \in Queues, Edit(w[1], w[2], w[3]) \/ Author(w[1], q, w[2], w[3])
      PROVE  UNCHANGED << pc, job >>
  BY <1>6 DEF Edit, Author
<1>7. ASSUME NEW w \in Writes, Edit(w[1], w[2], w[3]) PROVE UNCHANGED << pc, job >>
  BY <1>7 DEF Edit
<1>8. ASSUME NEW s \in Subs, Approve(s) PROVE UNCHANGED << pc, job >>
  BY <1>8 DEF Approve
<1>9. Undo \/ UNCHANGED vars => UNCHANGED << pc, job >>
  BY DEF Undo, vars
<1>10. ASSUME NEW q \in Procs, NEW s, NEW status, SubmitSnapshot(q, s, status) PROVE Moves(p)
  BY <1>4, <1>10 DEF SubmitSnapshot, Moves
<1>11. ASSUME NEW q \in Procs, NEW batch \in Batches, NEW t \in Queues, LandStart(q, batch, t)
       PROVE  Moves(p)
  BY <1>4, <1>11 DEF LandStart, Moves
<1>12. ASSUME NEW q \in Procs, NEW batch \in Batches, NEW t \in Queues, ReconcileStart(q, batch, t)
       PROVE  Moves(p)
  BY <1>4, <1>12 DEF ReconcileStart, Moves
<1>13. ASSUME NEW q \in Procs, NEW s \in Subs, NEW t, NEW approved, PushStart(q, s, t, approved)
       PROVE  Moves(p)
  <2> DEFINE j == [kind |-> "push", queue |-> t, changes |-> SubChanges[s],
                   tips |-> [c \in ToSet(SubChanges[s]) |-> copy[c]], sub |-> s,
                   status |-> IF approved THEN "approved" ELSE "pending"]
  <2>1. Start(q, "record", j)
    BY <1>13 DEF PushStart
  <2>2. j.changes = SubChanges[s]
    OBVIOUS
  <2> HIDE DEF j
  <2>3. Moves(p) \/ (pc'[p] = "record" /\ job'[p] = j)
    BY <1>4, <2>1
  <2> QED BY <2>2, <2>3 DEF Moves
<1>14. ASSUME NEW q \in Procs, LandSnapshot(q) \/ PushRecord(q) PROVE Moves(p)
  <2>1. /\ pc[q] \in {"snapshot", "record"} /\ job' = job
        /\ pc' = [pc EXCEPT ![q] = "read"]
    BY <1>14 DEF LandSnapshot, PushRecord, Goto
  <2> QED BY <2>1 DEF Types, Moves
<1>15. ASSUME NEW q \in Procs,
              \/ SubmitSave(q) \/ ReadRefuses(q)
              \/ Commit(q) \/ CommitRefuses(q) \/ CommitReconciled(q)
       PROVE  Moves(p)
  BY <1>5, <1>15 DEF SubmitSave, ReadRefuses, Commit, CommitRefuses, CommitReconciled
<1>16. ASSUME NEW q \in Procs, Read(q) PROVE Moves(p)
  <2>1. q # p => pc'[p] = pc[p] /\ job'[p] = job[p]
    BY <1>16 DEF Read, Goto, Types
  <2> QED BY <1>16, <2>1 DEF Moves
<1> QED BY <1>1, <1>6, <1>7, <1>8, <1>9, <1>10, <1>11, <1>12, <1>13, <1>14, <1>15, <1>16 DEF Next

(* A process that is about to write has just read, or waits since then.    *)
LEMMA ReadStep ==
  ASSUME Types, [Next]_vars, NEW p \in Procs, pc'[p] = "commit"
  PROVE  \/ pc[p] = "commit" /\ job'[p] = job[p]
         \/ /\ pc[p] = "read" /\ ~RefusesMerge(p) /\ ops' = ops
            /\ job'[p].kind = job[p].kind
            /\ job'[p].queue = job[p].queue
            /\ job'[p].changes = job[p].changes
            /\ job'[p].tips = Tips(p)
            /\ job'[p].merged = Merged(p)
            /\ job'[p].seen = Trunk(Refs, job[p].queue)
<1>1. CASE Read(p)
  <2>1. job'[p] = [kind |-> job[p].kind, queue |-> job[p].queue, changes |-> job[p].changes,
                   tips |-> Tips(p), merged |-> Merged(p), seen |-> Trunk(Refs, job[p].queue)]
    BY <1>1 DEF Read, Types
  <2> QED BY <1>1, <2>1 DEF Read
<1>2. (pc[p] = "commit" /\ job'[p] = job[p]) \/ Read(p)
  BY ProcessStep DEF Moves
<1> QED BY <1>1, <1>2

(* A ref that is not a change's was written by a set_ref.                  *)
LEMMA RefWritten ==
  ASSUME Types, NEW r \in AllRefs, r \notin Changes \/ r \in Remote, Refs[r] # None
  PROVE  \E i \in 1 .. Len(ops) : /\ ops[i].op.kind = "set_ref"
                                  /\ ops[i].op.ref = r
                                  /\ ops[i].op.new = Refs[r]
<1>1. PICK i \in 1 .. Len(ops) : /\ ops[i].op.kind \in RefKinds
                                 /\ ops[i].op.ref = r
                                 /\ ops[i].op.new = Refs[r]
  BY RefsHold DEF Types, Refs
<1>2. ops[i].op \in Entries
  BY DEF Types
<1> QED BY <1>1, <1>2 DEF Entries, RefKinds

LEMMA QueueRefs ==
  ASSUME NEW q \in Queues, NEW c \in Changes
  PROVE  /\ Reconciled(q) \in AllRefs /\ Reconciled(q) \notin Changes
         /\ Public(q, c) \in AllRefs /\ Public(q, c) \notin Changes
<1>1. /\ Reconciled(q) \in {Reconciled(r) : r \in Queues}
      /\ Public(q, c) \in Queues \X Changes
  BY DEF Public
<1>2. Changes \cap ((Queues \X Changes) \cup {Reconciled(r) : r \in Queues}) = {}
  BY LandingAssumption
<1> QED BY <1>1, <1>2 DEF AllRefs

(* A new entry is one that the step may add, an old one was there.         *)
LEMMA EntryAt ==
  ASSUME Types, [Next]_vars, NEW i \in 1 .. Len(ops')
  PROVE  \/ i \in 1 .. Len(ops) /\ ops'[i] = ops[i]
         \/ Added(ops'[i].op) /\ i \in Len(ops) + 1 .. Len(ops')
<1>1. Grows(ops, ops', AddedOps)
  BY LogStep
<1>2. Len(ops) \in Nat /\ Len(ops') \in Nat
  BY <1>1 DEF Types, Grows
<1>3. CASE i \in 1 .. Len(ops)
  BY <1>1, <1>3 DEF Grows
<1>4. CASE i \notin 1 .. Len(ops)
  <2>1. i \in Len(ops) + 1 .. Len(ops')
    BY <1>2, <1>4
  <2> QED BY <1>1, <2>1 DEF Grows, AddedOps
<1> QED BY <1>3, <1>4

(* What a queue's refs hold passed the queue's gates when it was written.  *)
GatedEntry(op) ==
  op.kind = "set_ref" /\ op.new # None =>
    \A q \in Queues :
      /\ q \in Strict /\ op.ref = Reconciled(q) => ~Carries(op.new)
      /\ \A c \in Changes : op.ref = Public(q, c) =>
           /\ q \in Strict => ~Carries(op.new)
           /\ q \in Validating => op.new \notin FailsToBuild

(* Inductive: the entries, and the merge that a process is about to write. *)
Gated ==
  /\ \A i \in 1 .. Len(ops) : GatedEntry(ops[i].op)
  /\ \A p \in Procs : pc[p] = "commit" /\ job[p].queue \in Strict => ~Carries(job[p].merged)

LEMMA AddedIsGated ==
  ASSUME Types, Gated, NEW op, Added(op)
  PROVE  GatedEntry(op)
<1> SUFFICES ASSUME op.kind = "set_ref", op.new # None, NEW q \in Queues
             PROVE  /\ q \in Strict /\ op.ref = Reconciled(q) => ~Carries(op.new)
                    /\ \A c \in Changes : op.ref = Public(q, c) =>
                         /\ q \in Strict => ~Carries(op.new)
                         /\ q \in Validating => op.new \notin FailsToBuild
  BY DEF GatedEntry
<1>1. op \notin CommitsOfCopies \cup Undos
  BY DEF CommitsOfCopies, Undos
<1>2. ASSUME NEW p \in Procs, pc[p] = "record", op \in Recordings(job[p].changes, job[p].tips)
      PROVE  op.ref # Reconciled(q) /\ \A c \in Changes : op.ref # Public(q, c)
  <2>1. job[p].changes \in Seq(Changes)
    BY <1>2, JobAt DEF PushJob
  <2>2. op.ref \in Changes
    BY <1>2, <2>1 DEF Recordings, SetRefs, ToSet
  <2> QED BY <2>2, QueueRefs
<1>3. ASSUME NEW p \in Procs, pc[p] = "commit", PassesGates(p),
             op \in PublicRefs(job[p].queue, job[p].changes, job[p].tips)
      PROVE  /\ op.ref # Reconciled(q)
             /\ \A c \in Changes : op.ref = Public(q, c) =>
                  /\ q \in Strict => ~Carries(op.new)
                  /\ q \in Validating => op.new \notin FailsToBuild
  <2>1. PICK e \in ToSet(job[p].changes) : op.ref = Public(job[p].queue, e) /\ op.new = job[p].tips[e]
    BY <1>3 DEF PublicRefs, SetRefs
  <2>2. op.ref # Reconciled(q)
    BY <2>1 DEF Public, Reconciled
  <2>3. \A c \in Changes : op.ref = Public(q, c) => q = job[p].queue
    BY <2>1 DEF Public
  <2>4. op.new \in {job[p].tips[c] : c \in ToSet(job[p].changes)} \ {None}
    BY <2>1
  <2> QED BY <1>3, <2>2, <2>3, <2>4 DEF PassesGates
<1>4. ASSUME NEW p \in Procs, pc[p] = "commit",
             op \in SetRefs(Reconciled(job[p].queue), job[p].merged)
      PROVE  /\ \A c \in Changes : op.ref # Public(q, c)
             /\ q \in Strict /\ op.ref = Reconciled(q) => ~Carries(op.new)
  <2>1. op.ref = Reconciled(job[p].queue) /\ op.new = job[p].merged
    BY <1>4 DEF SetRefs
  <2>2. \A c \in Changes : op.ref # Public(q, c)
    BY <2>1 DEF Public, Reconciled
  <2>3. op.ref = Reconciled(q) => q = job[p].queue
    BY <2>1 DEF Reconciled
  <2> QED BY <1>4, <2>1, <2>2, <2>3 DEF Gated
<1>5. PICK p \in Procs :
        \/ pc[p] = "record" /\ op \in Recordings(job[p].changes, job[p].tips)
        \/ /\ pc[p] = "commit"
           /\ \/ PassesGates(p) /\ op \in PublicRefs(job[p].queue, job[p].changes, job[p].tips)
              \/ op \in SetRefs(Reconciled(job[p].queue), job[p].merged)
  BY <1>1 DEF Added
<1> QED BY <1>2, <1>3, <1>4, <1>5

LEMMA GatedStep ==
  ASSUME Types, Gated, [Next]_vars
  PROVE  Gated'
<1>1. ASSUME NEW i \in 1 .. Len(ops') PROVE GatedEntry(ops'[i].op)
  <2>1. CASE i \in 1 .. Len(ops) /\ ops'[i] = ops[i]
    BY <2>1 DEF Gated
  <2>2. CASE Added(ops'[i].op)
    BY <2>2, AddedIsGated
  <2> QED BY <2>1, <2>2, EntryAt
<1>2. ASSUME NEW p \in Procs, pc'[p] = "commit", job'[p].queue \in Strict
      PROVE  ~Carries(job'[p].merged)
  <2>1. CASE pc[p] = "commit" /\ job'[p] = job[p]
    BY <1>2, <2>1 DEF Gated
  <2>2. CASE ~RefusesMerge(p) /\ job'[p].queue = job[p].queue /\ job'[p].merged = Merged(p)
    BY <1>2, <2>2 DEF RefusesMerge
  <2> QED BY <1>2, <2>1, <2>2, ReadStep
<1> QED BY <1>1, <1>2 DEF Gated, GatedEntry

LEMMA GatedHolds == Spec => [](Types /\ Gated)
<1>1. Init => Gated
  BY DEF Init, Gated
<1>2. Types /\ Gated /\ [Next]_vars => Gated'
  BY GatedStep
<1> QED BY <1>1, <1>2, InitTypes, TypesStep, PTL DEF Spec

LEMMA TrunkRef ==
  ASSUME NEW q \in Queues
  PROVE  Reconciled(q) \in AllRefs /\ Reconciled(q) \notin Changes
<1>1. Reconciled(q) \in {Reconciled(r) : r \in Queues}
  OBVIOUS
<1>2. Changes \cap ((Queues \X Changes) \cup {Reconciled(r) : r \in Queues}) = {}
  BY LandingAssumption
<1> QED BY <1>1, <1>2 DEF AllRefs

LEMMA NoConflictInNothing == Cardinality({}) = 0
BY FS_EmptySet

LEMMA StrictTrunkIsClean ==
  ASSUME Types, Gated
  PROVE  StrictStaysClean
<1> SUFFICES ASSUME NEW q \in Strict
             PROVE  /\ ~Carries(Trunk(Refs, q))
                    /\ \A c \in Changes : Refs[Public(q, c)] # None => ~Carries(Refs[Public(q, c)])
  BY DEF StrictStaysClean
<1>1. q \in Queues
  BY LandingAssumption
<1>2. ASSUME NEW c \in Changes, Refs[Public(q, c)] # None PROVE ~Carries(Refs[Public(q, c)])
  BY <1>1, <1>2, QueueRefs, RefWritten DEF Gated, GatedEntry
<1>3. CASE Refs[Reconciled(q)] # None
  <2>1. Reconciled(q) \in AllRefs /\ Reconciled(q) \notin Changes
    BY <1>1, TrunkRef
  <2>2. ~Carries(Refs[Reconciled(q)])
    BY <1>1, <1>3, <2>1, RefWritten DEF Gated, GatedEntry
  <2> QED BY <1>2, <1>3, <2>2 DEF Trunk
<1>4. CASE Refs[Reconciled(q)] = None
  <2>1. ASSUME NEW d \in Paths PROVE ~(Cardinality(Overlay(Refs, q)[d]) > 1)
    <3>1. CASE Overlay(Refs, q)[d] = {}
      BY <3>1, NoConflictInNothing
    <3>2. ASSUME NEW c \in Changes, Refs[Public(q, c)] # None,
                 Overlay(Refs, q)[d] = Refs[Public(q, c)][d]
          PROVE  ~(Cardinality(Overlay(Refs, q)[d]) > 1)
      BY <1>2, <3>2 DEF Carries
    <3> QED BY <3>1, <3>2, OverlayIs
  <2> QED BY <1>2, <1>4, <2>1 DEF Trunk, Carries
<1> QED BY <1>3, <1>4

(* StrictStaysClean: no conflict value is in the trunk or under a public   *)
(* ref of a strict queue, though the merge is scanned before, and without, *)
(* the lock of the write, the tips are gated on their own, and others land,*)
(* push, reconcile and undo in between (cmd_land, land_pushed,             *)
(* cmd_reconcile).                                                         *)
THEOREM StrictQueuesStayClean == Spec => []StrictStaysClean
<1>1. Types /\ Gated => StrictStaysClean
  BY StrictTrunkIsClean
<1> QED BY <1>1, GatedHolds, PTL

(* PublicPassedValidation: the tip that becomes public is the tip the      *)
(* validator saw, wherever the change has moved to since                   *)
(* (land_submission_in_queue).                                             *)
THEOREM PublicIsValidated == Spec => []PublicPassedValidation
<1>1. ASSUME Types, Gated, NEW q \in Validating, NEW c \in Changes
      PROVE  Refs[Public(q, c)] \notin FailsToBuild
  <2>1. q \in Queues /\ None \notin FailsToBuild
    BY LandingAssumption
  <2>2. CASE Refs[Public(q, c)] = None
    BY <2>1, <2>2
  <2>3. CASE Refs[Public(q, c)] # None
    BY <1>1, <2>1, <2>3, QueueRefs, RefWritten DEF Gated, GatedEntry
  <2> QED BY <2>2, <2>3
<1>2. Types /\ Gated => PublicPassedValidation
  BY <1>1 DEF PublicPassedValidation
<1> QED BY <1>2, GatedHolds, PTL

-----------------------------------------------------------------------------
(* What the trunk is made of.                                              *)

(* A ref of the given ones was set to a tree with v in it.                 *)
Wrote(log, refs, d, v) ==
  \E i \in 1 .. Len(log) : /\ log[i].op.kind = "set_ref"
                           /\ log[i].op.ref \in refs
                           /\ log[i].op.new # None
                           /\ v \in log[i].op.new[d]

PublicIn(q) == {Public(q, c) : c \in Changes}

Known(log, q, d, v) ==
  v = NoText \/ Wrote(log, PublicIn(q), d, v) \/ Wrote(log, Changes, d, v)

LEMMA WrittenIs ==
  ASSUME Types, NEW refs, NEW d, NEW v, Wrote(ops, refs, d, v)
  PROVE  v \in WrittenTo(refs, d)
<1>1. PICK i \in 1 .. Len(ops) : /\ ops[i].op.kind = "set_ref"
                                 /\ ops[i].op.ref \in refs
                                 /\ ops[i].op.new # None
                                 /\ v \in ops[i].op.new[d]
  BY DEF Wrote
<1> DEFINE s == i - 1
<1>2. Len(ops) \in Nat
  BY DEF Types
<1>3. s \in 0 .. Len(ops) - 1 /\ s + 1 = i
  BY <1>2
<1> HIDE DEF s
<1>4. OpAt(ops, s) = ops[i].op
  BY <1>3 DEF OpAt
<1> QED BY <1>1, <1>3, <1>4 DEF WrittenTo

LEMMA WroteOn ==
  ASSUME NEW log \in Seq(Operation), NEW log2, NEW E, Grows(log, log2, E),
         NEW refs, NEW d, NEW v, Wrote(log, refs, d, v)
  PROVE  Wrote(log2, refs, d, v)
<1>1. PICK i \in 1 .. Len(log) : /\ log[i].op.kind = "set_ref"
                                 /\ log[i].op.ref \in refs
                                 /\ log[i].op.new # None
                                 /\ v \in log[i].op.new[d]
  BY DEF Wrote
<1>2. log2[i] = log[i] /\ Len(log) \in Nat /\ Len(log2) \in Nat /\ Len(log) <= Len(log2)
  BY DEF Grows
<1>3. i \in 1 .. Len(log2)
  BY <1>2
<1> QED BY <1>1, <1>2, <1>3 DEF Wrote

LEMMA KnownOn ==
  ASSUME NEW log \in Seq(Operation), NEW log2, NEW E, Grows(log, log2, E),
         NEW q, NEW d, NEW v, Known(log, q, d, v)
  PROVE  Known(log2, q, d, v)
BY WroteOn DEF Known

(* Inductive: the merged trunks in the log, and what a process is about to *)
(* write, hold known versions, or such as it will land itself.             *)
RootedEntry(log, op) ==
  op.kind = "set_ref" /\ op.new # None =>
    \A q \in Queues : op.ref = Reconciled(q) =>
      \A d \in Paths : \A v \in op.new[d] : Known(log, q, d, v)

WillLand(j, d, v) ==
  /\ j.kind = "land"
  /\ \E c \in ToSet(j.changes) : j.tips[c] # None /\ v \in j.tips[c][d]

Rooted ==
  /\ \A i \in 1 .. Len(ops) : RootedEntry(ops, ops[i].op)
  /\ \A p \in Procs : pc[p] \in {"read", "commit"} => job[p].kind # "reconcile"
  /\ \A p \in Procs : pc[p] = "commit" =>
       \A d \in Paths : \A v \in job[p].merged[d] :
         Known(ops, job[p].queue, d, v) \/ WillLand(job[p], d, v)

LEMMA TrunkIsKnown ==
  ASSUME Types, Rooted, NEW q \in Queues, NEW d \in Paths, NEW v \in Trunk(Refs, q)[d]
  PROVE  Known(ops, q, d, v)
<1>1. CASE Refs[Reconciled(q)] # None
  <2>1. Reconciled(q) \in AllRefs /\ Reconciled(q) \notin Changes
    BY TrunkRef
  <2>2. PICK i \in 1 .. Len(ops) : /\ ops[i].op.kind = "set_ref"
                                   /\ ops[i].op.ref = Reconciled(q)
                                   /\ ops[i].op.new = Refs[Reconciled(q)]
    BY <1>1, <2>1, RefWritten
  <2>3. v \in ops[i].op.new[d]
    BY <1>1, <2>2 DEF Trunk
  <2> QED BY <1>1, <2>2, <2>3 DEF Rooted, RootedEntry
<1>2. CASE Refs[Reconciled(q)] = None
  <2>1. v \in Overlay(Refs, q)[d]
    BY <1>2 DEF Trunk
  <2>2. PICK c \in Changes : Refs[Public(q, c)] # None /\ v \in Refs[Public(q, c)][d]
    BY <2>1, OverlayIs
  <2>3. Public(q, c) \in PublicIn(q)
    BY DEF PublicIn
  <2>4. Wrote(ops, PublicIn(q), d, v)
    BY <2>2, <2>3, QueueRefs, RefWritten DEF Wrote
  <2> QED BY <2>4 DEF Known
<1> QED BY <1>1, <1>2

(* Which step starts from which: no reconcile begins unless it is in use.  *)
LEMMA KindStep ==
  ASSUME Types, Rooted, [Next]_vars, "reconcile" \notin Commands,
         NEW p \in Procs, pc'[p] \in {"read", "commit"}
  PROVE  job'[p].kind # "reconcile"
<1>1. CASE pc'[p] = pc[p] /\ job'[p] = job[p]
  BY <1>1 DEF Rooted
<1>2. CASE pc[p] \in {"snapshot", "record"} /\ job'[p] = job[p]
  BY <1>2, JobAt DEF BatchJob, PushJob
<1>3. CASE Read(p)
  <2>1. pc[p] = "read" /\ job'[p].kind = job[p].kind
    BY <1>3 DEF Read, Types
  <2> QED BY <2>1 DEF Rooted
<1> QED BY <1>1, <1>2, <1>3, ProcessStep DEF Moves

(* A process that leaves the last step has committed, or was refused.      *)
LEMMA CommitStep ==
  ASSUME Types, [Next]_vars, NEW p \in Procs, pc[p] = "commit", pc'[p] = "idle", ops' # ops
  PROVE  Commit(p) \/ CommitReconciled(p)
<1>1. ASSUME NEW q \in Procs, q # p, NEW step, pc' = [pc EXCEPT ![q] = step] PROVE FALSE
  BY <1>1 DEF Types
<1>2. ASSUME NEW q \in Procs, NEW s, NEW t, NEW batch, NEW x,
             \/ SubmitSnapshot(q, s, x) \/ SubmitSave(q) \/ LandStart(q, batch, t)
             \/ ReconcileStart(q, batch, t) \/ PushStart(q, s, t, x)
             \/ LandSnapshot(q) \/ PushRecord(q) \/ Read(q) \/ ReadRefuses(q)
      PROVE  FALSE
  <2>1. pc[q] # "commit" /\ \E step : pc' = [pc EXCEPT ![q] = step]
    BY <1>2 DEF SubmitSnapshot, SubmitSave, LandStart, ReconcileStart, PushStart, LandSnapshot,
                PushRecord, Read, ReadRefuses, Start, Goto, Finish
  <2> QED BY <1>1, <2>1
<1>3. ASSUME NEW q \in Procs, Commit(q) \/ CommitRefuses(q) \/ CommitReconciled(q)
      PROVE  Commit(p) \/ CommitReconciled(p)
  <2>1. q = p
    BY <1>1, <1>3 DEF Commit, CommitRefuses, CommitReconciled, Finish
  <2> QED BY <1>3, <2>1 DEF CommitRefuses
<1>4. ASSUME NEW w \in Writes, NEW q \in Queues, Edit(w[1], w[2], w[3]) \/ Author(w[1], q, w[2], w[3])
      PROVE  FALSE
  BY <1>4 DEF Edit, Author
<1>5. ASSUME NEW w \in Writes, Edit(w[1], w[2], w[3]) PROVE FALSE
  BY <1>5 DEF Edit
<1>6. ASSUME NEW s \in Subs, Approve(s) PROVE FALSE
  BY <1>6 DEF Approve
<1>7. ~Undo /\ ~UNCHANGED vars
  BY DEF Undo, vars
<1> QED BY <1>2, <1>3, <1>4, <1>5, <1>6, <1>7 DEF Next

(* What is merged is in the trunk that was read, or in a tip: the tip that *)
(* a landing publishes, or one that a push recorded.                       *)
LEMMA MergedIsKnown ==
  ASSUME Types, Rooted, NEW p \in Procs, pc[p] = "read",
         NEW d \in Paths, NEW v \in Merged(p)[d]
  PROVE  \/ Known(ops, job[p].queue, d, v)
         \/ /\ job[p].kind = "land"
            /\ \E c \in ToSet(job[p].changes) : Tips(p)[c] # None /\ v \in Tips(p)[c][d]
<1> DEFINE q       == job[p].queue
           changes == job[p].changes
<1>1. /\ job[p].kind \in {"land", "push"} /\ q \in Queues /\ changes \in Seq(Changes)
      /\ job[p].kind = "push" => \A c \in ToSet(changes) : c \in Remote
  BY JobAt DEF BatchJob, PushJob, Rooted
<1>2. Merged(p) \in MergeOf(Refs, changes, Trunk(Refs, q))
  BY <1>1, ReconcileIs DEF Merged, Types, Refs
<1>3. CASE v \in Trunk(Refs, q)[d] \/ v = NoText
  BY <1>1, <1>3, TrunkIsKnown DEF Known
<1>4. ASSUME NEW c \in ToSet(changes), Refs[c] # None, v \in Refs[c][d], job[p].kind = "land"
      PROVE  Tips(p)[c] # None /\ v \in Tips(p)[c][d]
  BY <1>4 DEF Tips
<1>5. ASSUME NEW c \in ToSet(changes), Refs[c] # None, v \in Refs[c][d], job[p].kind = "push"
      PROVE  Known(ops, q, d, v)
  <2>1. c \in Changes /\ c \in Remote
    BY <1>1, <1>5 DEF ToSet
  <2>2. c \in AllRefs
    BY <2>1 DEF AllRefs
  <2>3. Wrote(ops, Changes, d, v)
    BY <1>5, <2>1, <2>2, RefWritten DEF Wrote
  <2> QED BY <2>3 DEF Known
<1>6. \/ v \in Trunk(Refs, q)[d]
      \/ v = NoText
      \/ \E c \in ToSet(changes) : Refs[c] # None /\ v \in Refs[c][d]
  BY <1>2 DEF MergeOf
<1> QED BY <1>1, <1>3, <1>4, <1>5, <1>6

LEMMA RootedStep ==
  ASSUME Types, Rooted, [Next]_vars, "reconcile" \notin Commands
  PROVE  Rooted'
<1>0. Grows(ops, ops', AddedOps) /\ ops \in Seq(Operation)
  BY LogStep DEF Types
<1>1. ASSUME NEW i \in 1 .. Len(ops'), NEW q \in Queues, NEW d \in Paths,
             ops'[i].op.kind = "set_ref", ops'[i].op.new # None,
             ops'[i].op.ref = Reconciled(q), NEW v \in ops'[i].op.new[d]
      PROVE  Known(ops', q, d, v)
  <2> DEFINE op == ops'[i].op
  <2>1. CASE i \in 1 .. Len(ops) /\ ops'[i] = ops[i]
    <3>1. Known(ops, q, d, v)
      BY <1>1, <2>1 DEF Rooted, RootedEntry
    <3> QED BY <1>0, <3>1, KnownOn
  <2>2. CASE Added(op) /\ i \in Len(ops) + 1 .. Len(ops')
    <3>1. op \notin CommitsOfCopies \cup Undos
      BY <1>1 DEF CommitsOfCopies, Undos
    <3>2. ASSUME NEW p \in Procs, pc[p] = "record", op \in Recordings(job[p].changes, job[p].tips)
          PROVE  FALSE
      <4>1. job[p].changes \in Seq(Changes)
        BY <3>2, JobAt DEF PushJob
      <4>2. op.ref \in Changes
        BY <3>2, <4>1 DEF Recordings, SetRefs, ToSet
      <4> QED BY <1>1, <4>2, QueueRefs
    <3>3. PICK p \in Procs :
            /\ pc[p] = "commit" /\ pc'[p] = "idle"
            /\ op \in PublicRefs(job[p].queue, job[p].changes, job[p].tips)
                 \cup SetRefs(Reconciled(job[p].queue), job[p].merged)
      BY <2>2, <3>1, <3>2 DEF Added
    <3>4. op.ref = Reconciled(job[p].queue) /\ op.new = job[p].merged /\ q = job[p].queue
      <4>3. \A c : op.ref # Public(job[p].queue, c)
        BY <1>1 DEF Public, Reconciled
      <4>1. op \notin PublicRefs(job[p].queue, job[p].changes, job[p].tips)
        BY <4>3 DEF PublicRefs, SetRefs
      <4>2. op.ref = Reconciled(job[p].queue) /\ op.new = job[p].merged
        BY <3>3, <4>1 DEF SetRefs
      <4> QED BY <1>1, <4>2 DEF Reconciled
    <3>5. ops' # ops
      <4>1. Len(ops) \in Nat
        BY <1>0
      <4> QED BY <2>2, <4>1
    <3>6. Commit(p)
      BY <3>3, <3>5, CommitStep DEF Rooted, CommitReconciled
    <3>7. CASE Known(ops, q, d, v)
      BY <1>0, <3>7, KnownOn
    <3>8. CASE WillLand(job[p], d, v)
      <4>1. PICK c \in ToSet(job[p].changes) : job[p].tips[c] # None /\ v \in job[p].tips[c][d]
        BY <3>8 DEF WillLand
      <4>2. Holds(ops', SetRefs(Public(q, c), job[p].tips[c]))
        BY <3>4, <3>6, AddedByCommit
      <4>3. Public(q, c) \in PublicIn(q)
        <5>1. job[p].changes \in Seq(Changes)
          BY <3>3, JobAt DEF MergedJob
        <5> QED BY <5>1 DEF PublicIn, ToSet
      <4>4. Wrote(ops', PublicIn(q), d, v)
        BY <4>1, <4>2, <4>3 DEF Wrote, Holds, SetRefs
      <4> QED BY <4>4 DEF Known
    <3> QED BY <1>1, <3>3, <3>4, <3>7, <3>8 DEF Rooted
  <2> QED BY <2>1, <2>2, EntryAt
<1>2. ASSUME NEW p \in Procs, pc'[p] = "commit", NEW d \in Paths, NEW v \in job'[p].merged[d]
      PROVE  Known(ops', job'[p].queue, d, v) \/ WillLand(job'[p], d, v)
  <2>1. CASE pc[p] = "commit" /\ job'[p] = job[p]
    <3>1. Known(ops, job[p].queue, d, v) \/ WillLand(job[p], d, v)
      BY <1>2, <2>1 DEF Rooted
    <3> QED BY <1>0, <2>1, <3>1, KnownOn
  <2>2. CASE /\ pc[p] = "read" /\ ops' = ops
             /\ job'[p].kind = job[p].kind
             /\ job'[p].queue = job[p].queue
             /\ job'[p].changes = job[p].changes
             /\ job'[p].tips = Tips(p)
             /\ job'[p].merged = Merged(p)
    BY <1>2, <2>2, MergedIsKnown DEF WillLand
  <2> QED BY <1>2, <2>1, <2>2, ReadStep
<1>3. \A p \in Procs : pc'[p] \in {"read", "commit"} => job'[p].kind # "reconcile"
  BY KindStep
<1> QED BY <1>1, <1>2, <1>3 DEF Rooted, RootedEntry

(* TrunkIsLanded: unless omo reconcile moves it, the merged trunk of a     *)
(* queue is made of versions that landed in the queue or that a push       *)
(* recorded, in any interleaving of landings, pushes and undos (cmd_land,  *)
(* land_pushed, reconcile_core).                                           *)
THEOREM TrunkHoldsWhatLanded ==
  ASSUME "reconcile" \notin Commands
  PROVE  Spec => []TrunkIsLanded
<1>1. Init => Rooted
  BY DEF Init, Rooted
<1>2. Types /\ Rooted /\ [Next]_vars => Rooted'
  BY RootedStep
<1>3. ASSUME Types, Rooted PROVE TrunkIsLanded
  <2>1. ASSUME NEW q \in Queues, NEW d \in Paths, NEW v \in Trunk(Refs, q)[d]
        PROVE  v \in LandedIn(q, d) \cup Pushed(d) \cup {NoText}
    BY <1>3, <2>1, TrunkIsKnown, WrittenIs DEF Known, LandedIn, Pushed, PublicIn
  <2> QED BY <2>1 DEF TrunkIsLanded
<1>4. Types /\ Rooted => TrunkIsLanded
  BY <1>3
<1> QED BY <1>1, <1>2, <1>4, InitTypes, TypesStep, PTL DEF Spec

-----------------------------------------------------------------------------
(* A landing contributes exactly its own edits.                            *)

(* The trunk of q when c was first committed.                              *)
From(log, q, c) == Trunk(RefsAt(log, FirstCommit(log, c)), q)

Changed(log, q, tips, c, d) == tips[c] # None /\ tips[c][d] # From(log, q, c)[d]

(* A merge of the changes into the trunk that was seen alters only what    *)
(* they altered, and what one of them alone altered, it adds.              *)
OwnEdits(log, q, changes, tips, seen, merged) ==
  \A d \in Paths :
    /\ (\A c \in ToSet(changes) : ~Changed(log, q, tips, c, d)) => merged[d] = seen[d]
    /\ \A c \in ToSet(changes) :
         /\ Changed(log, q, tips, c, d)
         /\ \A e \in ToSet(changes) \ {c} : ~Changed(log, q, tips, e, d)
         => /\ tips[c][d] \subseteq merged[d]
            /\ seen[d] # From(log, q, c)[d] => seen[d] \subseteq merged[d]

Once(changes) == \A i, j \in DOMAIN changes : changes[i] = changes[j] => i = j

HaveCommits(log, changes, tips) ==
  \A c \in ToSet(changes) : tips[c] # None => CommitsOf(log, c) # {}

(* What a change makes of one path.                                        *)
LEMMA MergedPath ==
  ASSUME NEW log, NEW q, NEW c, NEW acc, NEW d \in Paths,
         RefsNow(log)[c] # None => CommitsOf(log, c) # {}
  PROVE  LET tip == RefsNow(log)[c]
             new == MergeChange(log, q, acc, c)
         IN  /\ ~Changed(log, q, RefsNow(log), c, d) => new[d] = acc[d]
             /\ Changed(log, q, RefsNow(log), c, d) =>
                  new[d] = IF tip[d] = {} THEN acc[d]
                           ELSE MergeText(From(log, q, c)[d], acc[d], tip[d])
<1> DEFINE tip == RefsNow(log)[c]
           new == MergeChange(log, q, acc, c)
           base == From(log, q, c)
<1>1. CASE tip = None
  BY <1>1 DEF MergeChange, Changed
<1>2. CASE tip # None
  <2>1. Base(log, q, c, acc) = base
    BY <1>2 DEF Base, From
  <2> DEFINE text(e) == IF tip[e] = {} THEN acc[e] ELSE MergeText(base[e], acc[e], tip[e])
  <2>2. new = [e \in Paths |-> text(e)]
    BY <1>2, <2>1 DEF MergeChange
  <2>3. new[d] = text(d)
    <3> HIDE DEF text, new
    <3> QED BY <2>2
  <2>4. ASSUME tip[d] = base[d] PROVE text(d) = acc[d]
    BY <2>4 DEF MergeText
  <2> HIDE DEF base, new
  <2>5. Changed(log, q, RefsNow(log), c, d) <=> tip[d] # base[d]
    BY <1>2 DEF Changed, base
  <2> QED BY <2>3, <2>4, <2>5 DEF base, new
<1> QED BY <1>1, <1>2

LEMMA ReconcileOwns ==
  ASSUME NEW log \in Seq(Operation), NEW q \in Queues, NEW changes \in Seq(Changes),
         Once(changes), HaveCommits(log, changes, RefsNow(log))
  PROVE  OwnEdits(log, q, changes, RefsNow(log), Trunk(RefsNow(log), q), Reconcile(log, q, changes))
<1> DEFINE n    == Len(changes)
           tips == RefsNow(log)
           seen == Trunk(tips, q)
           X    == MergeOf(tips, changes, seen)
           Alters(i, d) == Changed(log, q, tips, changes[i], d)
<1>1. PICK it : MergesAlong(it, log, q, changes) /\ Reconcile(log, q, changes) = it[1 .. n]
  BY ReconcileFold
<1>2. n \in Nat /\ DOMAIN changes = 1 .. n
  OBVIOUS
<1>3. it[{}] = seen /\ seen \in Tree
  BY <1>1, TrunkType DEF MergesAlong
<1>4. ASSUME NEW d \in Paths, NEW s \in SUBSET (1 .. n), s # {}
      PROVE  LET i   == Max(s)
                 old == it[s \ {i}]
                 c   == changes[i]
             IN  /\ i \in 1 .. n /\ i \in s
                 /\ ~Alters(i, d) => it[s][d] = old[d]
                 /\ Alters(i, d) => it[s][d] = IF tips[c][d] = {} THEN old[d]
                                               ELSE MergeText(From(log, q, c)[d], old[d], tips[c][d])
  <2>1. /\ it[s] = MergeChange(log, q, it[s \ {Max(s)}], changes[Max(s)])
        /\ Max(s) \in 1 .. n /\ Max(s) \in s
    BY <1>1, <1>2, <1>4, MaxOf DEF MergesAlong
  <2>2. changes[Max(s)] \in ToSet(changes)
    BY <1>2, <2>1 DEF ToSet
  <2>3. tips[changes[Max(s)]] # None => CommitsOf(log, changes[Max(s)]) # {}
    BY <2>2 DEF HaveCommits
  <2> DEFINE c   == changes[Max(s)]
             old == it[s \ {Max(s)}]
             new == MergeChange(log, q, old, c)
  <2>4. /\ ~Changed(log, q, tips, c, d) => new[d] = old[d]
        /\ Changed(log, q, tips, c, d) =>
             new[d] = IF tips[c][d] = {} THEN old[d]
                      ELSE MergeText(From(log, q, c)[d], old[d], tips[c][d])
    <3> HIDE DEF c, old
    <3> QED BY <2>3, MergedPath DEF c
  <2> QED BY <2>1, <2>4
<1> HIDE DEF n, tips, seen
<1>5. ASSUME NEW d \in Paths, \A c \in ToSet(changes) : ~Changed(log, q, tips, c, d)
      PROVE  it[1 .. n][d] = seen[d]
  <2> DEFINE G == {x \in {it[s] : s \in SUBSET (1 .. n)} : x[d] = seen[d]}
  <2>1. \A i \in 1 .. n : ~Alters(i, d)
    BY <1>2, <1>5 DEF ToSet
  <2>2. it[{}] \in G
    BY <1>3
  <2>3. ASSUME NEW s \in SUBSET (1 .. n), s # {}, it[s \ {Max(s)}] \in G PROVE it[s] \in G
    BY <1>4, <2>1, <2>3
  <2> HIDE DEF G
  <2>4. it[1 .. n] \in G
    BY <1>2, <2>2, <2>3, FoldIn
  <2> QED BY <2>4 DEF G
<1>6. ASSUME NEW d \in Paths, NEW c \in ToSet(changes), Changed(log, q, tips, c, d),
             \A e \in ToSet(changes) \ {c} : ~Changed(log, q, tips, e, d)
      PROVE  it[1 .. n][d] = IF tips[c][d] = {} THEN seen[d]
                             ELSE MergeText(From(log, q, c)[d], seen[d], tips[c][d])
  <2> DEFINE own == IF tips[c][d] = {} THEN seen[d]
                    ELSE MergeText(From(log, q, c)[d], seen[d], tips[c][d])
  <2>1. PICK k \in 1 .. n : c = changes[k]
    BY <1>2 DEF ToSet
  <2>2. \A i \in 1 .. n : i # k => ~Alters(i, d)
    <3>1. ASSUME NEW i \in 1 .. n, i # k PROVE changes[i] \in ToSet(changes) \ {c}
      BY <1>2, <2>1, <3>1 DEF Once, ToSet
    <3> QED BY <1>6, <3>1
  <2> DEFINE R == [s \in SUBSET (1 .. n) |->
                     {x \in {it[t] : t \in SUBSET (1 .. n)} :
                        x[d] = IF k \in s THEN own ELSE seen[d]}]
  <2> HIDE DEF own
  <2>3. it[{}] \in R[{}]
    BY <1>3
  <2>4. ASSUME NEW s \in SUBSET (1 .. n), s # {}, it[s \ {Max(s)}] \in R[s \ {Max(s)}]
        PROVE  it[s] \in R[s]
    <3> DEFINE i   == Max(s)
               old == it[s \ {i}]
    <3>1. i \in 1 .. n /\ i \in s /\ s \ {i} \in SUBSET (1 .. n)
      BY <1>4, <2>4
    <3>2. old[d] = IF k \in s \ {i} THEN own ELSE seen[d]
      BY <2>4, <3>1
    <3>3. it[s][d] = IF k \in s THEN own ELSE seen[d]
      <4>1. CASE i # k
        <5>1. it[s][d] = old[d]
          BY <1>4, <2>2, <2>4, <3>1, <4>1
        <5> HIDE DEF i, old
        <5> QED BY <3>1, <3>2, <4>1, <5>1
      <4>2. CASE i = k
        <5>1. it[s][d] = IF tips[c][d] = {} THEN old[d]
                         ELSE MergeText(From(log, q, c)[d], old[d], tips[c][d])
          BY <1>4, <1>6, <2>1, <2>4, <4>2
        <5> HIDE DEF i, old
        <5>2. old[d] = seen[d]
          BY <3>2, <4>2
        <5> QED BY <3>1, <4>2, <5>1, <5>2 DEF own
      <4> QED BY <4>1, <4>2
    <3> QED BY <3>3
  <2> HIDE DEF R
  <2>5. it[1 .. n] \in R[1 .. n]
    BY <1>2, <2>3, <2>4, FoldKeeps
  <2> QED BY <1>2, <2>1, <2>5 DEF R, own
<1>7. ASSUME NEW d \in Paths, NEW c \in ToSet(changes), Changed(log, q, tips, c, d),
             \A e \in ToSet(changes) \ {c} : ~Changed(log, q, tips, e, d)
      PROVE  /\ tips[c][d] \subseteq it[1 .. n][d]
             /\ seen[d] # From(log, q, c)[d] => seen[d] \subseteq it[1 .. n][d]
  <2>1. tips[c][d] # From(log, q, c)[d]
    BY <1>7 DEF Changed
  <2> DEFINE base == From(log, q, c)[d]
             left == seen[d]
             right == tips[c][d]
             made == it[1 .. n][d]
  <2>2. made = IF right = {} THEN left ELSE MergeText(base, left, right)
    BY <1>6, <1>7
  <2> HIDE DEF base, left, right, made
  <2>3. right # base
    BY <2>1 DEF right, base
  <2>4. right \subseteq made /\ (left # base => left \subseteq made)
    BY <2>2, <2>3 DEF MergeText
  <2> QED BY <2>4 DEF base, left, right, made
<1> QED BY <1>1, <1>5, <1>7 DEF OwnEdits, n, tips, seen

(* A later log agrees on what was read at an earlier time.                 *)
LEMMA OldEntries ==
  ASSUME NEW log \in Seq(Operation), NEW log2, NEW E, Grows(log, log2, E)
  PROVE  /\ Len(log) \in Nat /\ Len(log2) \in Nat /\ Len(log) <= Len(log2)
         /\ \A s \in 0 .. Len(log) - 1 : OpAt(log2, s) = OpAt(log, s)
<1>1. Len(log) \in Nat /\ Len(log2) \in Nat /\ Len(log) <= Len(log2)
  BY DEF Grows
<1>2. ASSUME NEW s \in 0 .. Len(log) - 1 PROVE log2[s + 1] = log[s + 1]
  <2>1. s + 1 \in 1 .. Len(log)
    BY <1>1
  <2> QED BY <2>1 DEF Grows
<1> QED BY <1>1, <1>2 DEF OpAt

LEMMA PastIsStable ==
  ASSUME NEW log \in Seq(Operation), NEW log2, NEW E, Grows(log, log2, E),
         NEW t \in 0 .. Len(log) - 1
  PROVE  RefsAt(log2, t) = RefsAt(log, t)
<1>1. \A s \in 0 .. t : OpAt(log2, s) = OpAt(log, s)
  <2>1. 0 .. t \subseteq 0 .. Len(log) - 1
    BY OldEntries
  <2> QED BY <2>1, OldEntries
<1>2. \A s, u \in 0 .. t : IsUndoOf(log2, u, s) <=> IsUndoOf(log, u, s)
  BY <1>1 DEF IsUndoOf
<1>3. UndosOf(log2, t) = UndosOf(log, t)
  BY <1>2 DEF UndosOf
<1>4. \A r \in AllRefs : Writers(log2, t, r) = Writers(log, t, r)
  BY <1>1, <1>3 DEF Writers, IsActive
<1>5. ASSUME NEW r \in AllRefs, Writers(log, t, r) # {}
      PROVE  OpAt(log2, Latest(Writers(log, t, r))) = OpAt(log, Latest(Writers(log, t, r)))
  <2>1. Writers(log, t, r) \in SUBSET (0 .. t)
    BY DEF Writers
  <2>2. t \in Nat
    OBVIOUS
  <2>3. Latest(Writers(log, t, r)) \in 0 .. t
    BY <1>5, <2>1, <2>2, LatestIn
  <2> QED BY <1>1, <2>3
<1> QED BY <1>4, <1>5 DEF RefsAt, FoldRefs

LEMMA FirstCommitIn ==
  ASSUME NEW log \in Seq(Operation), NEW c, CommitsOf(log, c) # {}
  PROVE  /\ FirstCommit(log, c) \in CommitsOf(log, c)
         /\ \A s \in CommitsOf(log, c) : FirstCommit(log, c) <= s
<1>1. CommitsOf(log, c) \in SUBSET Nat
  BY DEF CommitsOf
<1>2. \E m \in CommitsOf(log, c) : \A s \in CommitsOf(log, c) : m <= s
  BY <1>1, LeastExists
<1> QED BY <1>2 DEF FirstCommit

LEMMA FromIsStable ==
  ASSUME NEW log \in Seq(Operation), NEW log2, NEW E, Grows(log, log2, E), NEW q,
         NEW c, CommitsOf(log, c) # {}
  PROVE  CommitsOf(log2, c) # {} /\ From(log2, q, c) = From(log, q, c)
<1> DEFINE m  == FirstCommit(log, c)
           m2 == FirstCommit(log2, c)
<1>1. /\ Len(log) \in Nat /\ Len(log2) \in Nat /\ Len(log) <= Len(log2)
      /\ \A s \in 0 .. Len(log) - 1 : OpAt(log2, s) = OpAt(log, s)
  BY OldEntries
<1>2. \A s \in 0 .. Len(log) - 1 : s \in CommitsOf(log2, c) <=> s \in CommitsOf(log, c)
  BY <1>1 DEF CommitsOf
<1>3. m \in CommitsOf(log, c) /\ \A s \in CommitsOf(log, c) : m <= s
  BY FirstCommitIn
<1>4. m \in 0 .. Len(log) - 1
  BY <1>3 DEF CommitsOf
<1>5. m \in CommitsOf(log2, c)
  BY <1>2, <1>3, <1>4
<1>6. m2 \in CommitsOf(log2, c) /\ m2 <= m
  <2>1. log2 \in Seq(Operation)
    BY DEF Grows
  <2> QED BY <1>5, <2>1, FirstCommitIn
<1>7. m2 \in 0 .. Len(log) - 1
  <2>1. m2 \in 0 .. Len(log2) - 1
    BY <1>6 DEF CommitsOf
  <2> HIDE DEF m, m2
  <2> QED BY <1>1, <1>4, <1>6, <2>1
<1>8. m <= m2
  BY <1>2, <1>3, <1>6, <1>7
<1>9. m2 = m
  <2> HIDE DEF m, m2
  <2> QED BY <1>4, <1>6, <1>7, <1>8
<1>10. RefsAt(log2, m) = RefsAt(log, m)
  <2> HIDE DEF m, m2
  <2> QED BY <1>4, PastIsStable
<1> QED BY <1>5, <1>9, <1>10 DEF From

LEMMA OwnEditsOn ==
  ASSUME NEW log \in Seq(Operation), NEW log2, NEW E, Grows(log, log2, E), NEW q, NEW changes,
         NEW tips, NEW tips2, \A c \in ToSet(changes) : tips2[c] = tips[c], NEW seen, NEW merged,
         HaveCommits(log, changes, tips), OwnEdits(log, q, changes, tips, seen, merged)
  PROVE  /\ HaveCommits(log2, changes, tips2)
         /\ OwnEdits(log2, q, changes, tips2, seen, merged)
<1>1. ASSUME NEW c \in ToSet(changes), tips[c] # None
      PROVE  CommitsOf(log2, c) # {} /\ From(log2, q, c) = From(log, q, c)
  <2>1. CommitsOf(log, c) # {}
    BY <1>1 DEF HaveCommits
  <2>2. CommitsOf(log2, c) # {}
    BY <2>1, FromIsStable
  <2>3. From(log2, q, c) = From(log, q, c)
    BY <2>1, FromIsStable
  <2> QED BY <2>2, <2>3
<1>2. HaveCommits(log2, changes, tips2)
  BY <1>1 DEF HaveCommits
<1>3. \A c \in ToSet(changes), d \in Paths :
        Changed(log2, q, tips2, c, d) <=> Changed(log, q, tips, c, d)
  BY <1>1 DEF Changed
<1>4. \A c \in ToSet(changes), d \in Paths : Changed(log, q, tips, c, d) => tips[c] # None
  BY DEF Changed
<1>5. ASSUME NEW d \in Paths, \A c \in ToSet(changes) : ~Changed(log2, q, tips2, c, d)
      PROVE  merged[d] = seen[d]
  BY <1>3, <1>5 DEF OwnEdits
<1>6. ASSUME NEW d \in Paths, NEW c \in ToSet(changes), Changed(log2, q, tips2, c, d),
             \A e \in ToSet(changes) \ {c} : ~Changed(log2, q, tips2, e, d)
      PROVE  /\ tips2[c][d] \subseteq merged[d]
             /\ seen[d] # From(log2, q, c)[d] => seen[d] \subseteq merged[d]
  <2>1. /\ Changed(log, q, tips, c, d)
        /\ \A e \in ToSet(changes) \ {c} : ~Changed(log, q, tips, e, d)
    BY <1>3, <1>6
  <2>2. /\ tips[c][d] \subseteq merged[d]
        /\ seen[d] # From(log, q, c)[d] => seen[d] \subseteq merged[d]
    BY <2>1 DEF OwnEdits
  <2> QED BY <1>1, <1>4, <2>1, <2>2
<1> QED BY <1>2, <1>5, <1>6 DEF OwnEdits

-----------------------------------------------------------------------------
(* The newest entry is in force, if undos name earlier entries.            *)
UndosLookBack(log) ==
  \A i \in 1 .. Len(log) : log[i].op.kind = "undo" => log[i].op.target < i - 1

LEMMA InForceIs ==
  ASSUME NEW n \in Nat, NEW undos, Later(undos, n), NEW s \in 0 .. n - 1
  PROVE  InForce(undos)[s] = Even({u \in undos[s] : InForce(undos)[u]})
<1> DEFINE Fits(f) == f = [x \in DOMAIN undos |-> Even({u \in undos[x] : f[u]})]
<1>1. \E f : Fits(f)
  BY ParityExists
<1>2. InForce(undos) = CHOOSE f : Fits(f)
  BY DEF InForce, Even
<1>3. Fits(InForce(undos))
  <2> HIDE DEF Fits
  <2> QED BY <1>1, <1>2
<1> HIDE DEF InForce
<1>4. s \in DOMAIN undos
  BY DEF Later
<1> QED BY <1>3, <1>4

LEMMA NewestHolds ==
  ASSUME NEW log \in Seq(Operation), UndosLookBack(log),
         NEW r \in AllRefs, NEW new, Ends(log, SetRefs(r, new))
  PROVE  RefsNow(log)[r] = new
<1> DEFINE n     == Len(log)
           last  == NoLimit(log)
           undos == UndosOf(log, last)
           ws    == Writers(log, last, r)
<1>1. n \in Nat /\ last = n - 1 /\ last \in 0 .. last /\ last + 1 = n
  BY DEF Ends, NoLimit
<1>2. OpAt(log, last).kind = "set_ref" /\ OpAt(log, last).ref = r /\ OpAt(log, last).new = new
  BY <1>1 DEF OpAt, Ends, SetRefs
<1>3. Later(undos, n) /\ undos[last] = {}
  <2>1. undos = [s \in 0 .. last |-> {u \in 0 .. last : IsUndoOf(log, u, s)}]
    BY DEF UndosOf
  <2>2. ASSUME NEW s \in 0 .. last, NEW u \in 0 .. last, IsUndoOf(log, u, s) PROVE s < u
    <3>1. u + 1 \in 1 .. n
      BY <1>1
    <3>2. log[u + 1].op.kind = "undo" /\ log[u + 1].op.target = s
      BY <2>2 DEF IsUndoOf, OpAt
    <3>3. s < u + 1 - 1
      BY <3>1, <3>2 DEF UndosLookBack
    <3> QED BY <3>3
  <2> HIDE DEF undos, last, n
  <2>3. \A s \in 0 .. n - 1 : undos[s] \subseteq s + 1 .. n - 1
    BY <1>1, <2>1, <2>2
  <2>4. undos[last] = {}
    BY <1>1, <2>1, <2>2
  <2> QED BY <1>1, <2>1, <2>3, <2>4 DEF Later
<1>4. IsActive(log, last)[last]
  <2>1. InForce(undos)[last] = Even({u \in undos[last] : InForce(undos)[u]})
    <3> HIDE DEF undos, last, n
    <3> QED BY <1>1, <1>3, InForceIs
  <2>2. Even({})
    BY NoConflictInNothing DEF Even
  <2>3. {u \in undos[last] : InForce(undos)[u]} = {}
    BY <1>3
  <2> QED BY <2>1, <2>2, <2>3 DEF IsActive
<1>5. last \in ws /\ \A s \in ws : s <= last
  BY <1>1, <1>2, <1>4 DEF Writers, RefKinds
<1>6. Latest(ws) = last
  <2>1. \A s \in ws : s \in Int
    BY DEF Writers
  <2> HIDE DEF ws, last
  <2>2. Latest(ws) \in ws /\ last <= Latest(ws)
    BY <1>5 DEF Latest
  <2>3. Latest(ws) <= last /\ last \in Int
    BY <1>5, <2>1, <2>2
  <2> QED BY <2>1, <2>2, <2>3
<1> QED BY <1>2, <1>5, <1>6 DEF RefsNow, FoldRefs

-----------------------------------------------------------------------------
(* No landing names a change twice.                                        *)
NamedOnce ==
  /\ \A batch \in Batches : Once(ChangesOf(batch))
  /\ \A s \in Subs : Once(SubChanges[s])

(* Inductive: an undo names an earlier entry, only a push sets a change's  *)
(* tip, and what a process is about to write is its changes' own edits on  *)
(* the trunk it saw - unless a change of another repository is among them, *)
(* which has no commits here.                                              *)
PushesAreRemote(log) ==
  \A i \in 1 .. Len(log) :
    log[i].op.kind = "set_ref" /\ log[i].op.ref \in Changes => log[i].op.ref \in Remote

HasOwnEdits(p) ==
  /\ HaveCommits(ops, job[p].changes, job[p].tips)
  /\ OwnEdits(ops, job[p].queue, job[p].changes, job[p].tips, job[p].seen, job[p].merged)

Owned ==
  /\ UndosLookBack(ops)
  /\ PushesAreRemote(ops)
  /\ \A p \in Procs : pc[p] \in {"snapshot", "record", "read"} => Once(job[p].changes)
  /\ \A p \in Procs : pc[p] = "commit" => Of(p) \cap Remote # {} \/ HasOwnEdits(p)

LEMMA EntriesStep ==
  ASSUME Types, [Next]_vars, UndosLookBack(ops), PushesAreRemote(ops)
  PROVE  UndosLookBack(ops') /\ PushesAreRemote(ops')
<1>1. ASSUME NEW i \in 1 .. Len(ops'), ops'[i].op.kind = "undo" PROVE ops'[i].op.target < i - 1
  <2>1. CASE i \in 1 .. Len(ops) /\ ops'[i] = ops[i]
    BY <1>1, <2>1 DEF UndosLookBack
  <2>2. CASE Added(ops'[i].op) /\ i \in Len(ops) + 1 .. Len(ops')
    <3>1. ops'[i].op \in Undos
      BY <1>1, <2>2 DEF Added, CommitsOfCopies, Recordings, PublicRefs, SetRefs
    <3>2. Len(ops) \in Nat /\ ops'[i].op.target \in Nat /\ ops'[i].op.target < Len(ops)
      BY <1>1, <3>1 DEF Undos, OpKind, Types, RefKinds
    <3>3. i - 1 >= Len(ops) /\ i \in Int
      BY <2>2, <3>2
    <3> QED BY <3>2, <3>3
  <2> QED BY <2>1, <2>2, EntryAt
<1>2. ASSUME NEW i \in 1 .. Len(ops'), ops'[i].op.kind = "set_ref", ops'[i].op.ref \in Changes
      PROVE  ops'[i].op.ref \in Remote
  <2> DEFINE op == ops'[i].op
  <2>1. CASE i \in 1 .. Len(ops) /\ ops'[i] = ops[i]
    BY <1>2, <2>1 DEF PushesAreRemote
  <2>2. CASE Added(op)
    <3>1. op \notin CommitsOfCopies \cup Undos
      BY <1>2 DEF CommitsOfCopies, Undos
    <3>2. ASSUME NEW p \in Procs, pc[p] = "record", op \in Recordings(job[p].changes, job[p].tips)
          PROVE  op.ref \in Remote
      <4>1. \A c \in ToSet(job[p].changes) : c \in Remote
        BY <3>2, JobAt DEF PushJob
      <4> QED BY <3>2, <4>1 DEF Recordings, SetRefs
    <3>3. ASSUME NEW p \in Procs, pc[p] = "commit",
                 op \in PublicRefs(job[p].queue, job[p].changes, job[p].tips)
                   \cup SetRefs(Reconciled(job[p].queue), job[p].merged)
          PROVE  FALSE
      <4>1. job[p].queue \in Queues /\ job[p].changes \in Seq(Changes)
        BY <3>3, JobAt DEF MergedJob
      <4>2. \A c \in ToSet(job[p].changes) : c \in Changes
        BY <4>1 DEF ToSet
      <4>3. op.ref = Reconciled(job[p].queue)
              \/ \E c \in ToSet(job[p].changes) : op.ref = Public(job[p].queue, c)
        BY <3>3 DEF PublicRefs, SetRefs
      <4> QED BY <1>2, <4>1, <4>2, <4>3, QueueRefs, TrunkRef
    <3> QED BY <2>2, <3>1, <3>2, <3>3 DEF Added
  <2> QED BY <2>1, <2>2, EntryAt
<1> QED BY <1>1, <1>2 DEF UndosLookBack, PushesAreRemote

(* A change's tip is a commit of it, unless the change is of another       *)
(* repository; those have none.                                            *)
LEMMA TipsAreCommits ==
  ASSUME Types, PushesAreRemote(ops), NEW c \in Changes
  PROVE  /\ c \notin Remote /\ Refs[c] # None => CommitsOf(ops, c) # {}
         /\ c \in Remote => CommitsOf(ops, c) = {}
<1>0. Len(ops) \in Nat /\ c \in AllRefs
  BY DEF Types, AllRefs
<1>1. ASSUME c \notin Remote, Refs[c] # None PROVE CommitsOf(ops, c) # {}
  <2>1. PICK i \in 1 .. Len(ops) : ops[i].op.kind \in RefKinds /\ ops[i].op.ref = c
    BY <1>0, <1>1, RefsHold DEF Types, Refs
  <2>2. ops[i].op.kind = "commit"
    <3>1. ops[i].op \in Entries
      BY DEF Types
    <3> QED BY <1>1, <2>1, <3>1 DEF Entries, RefKinds, PushesAreRemote
  <2> DEFINE s == i - 1
  <2>3. s \in 0 .. Len(ops) - 1 /\ s + 1 = i
    BY <1>0
  <2> HIDE DEF s
  <2>4. s \in CommitsOf(ops, c)
    BY <2>1, <2>2, <2>3 DEF CommitsOf, OpAt
  <2> QED BY <2>4
<1>2. ASSUME c \in Remote, NEW s \in CommitsOf(ops, c) PROVE FALSE
  <2>1. s + 1 \in 1 .. Len(ops) /\ ops[s + 1].op.kind = "commit" /\ ops[s + 1].op.ref = c
    BY <1>0 DEF CommitsOf, OpAt
  <2>2. ops[s + 1].op \in Entries
    BY <2>1 DEF Types
  <2> QED BY <1>2, <2>1, <2>2 DEF Entries
<1> QED BY <1>1, <1>2

LEMMA OnceStep ==
  ASSUME Types, Owned, NamedOnce, [Next]_vars,
         NEW p \in Procs, pc'[p] \in {"snapshot", "record", "read"}
  PROVE  Once(job'[p].changes)
<1>1. CASE pc[p] \in {"snapshot", "record", "read"} /\ job'[p] = job[p]
  BY <1>1 DEF Owned
<1>2. ASSUME NEW kind, NEW batch \in Batches, NEW q,
             job'[p] = [kind |-> kind, queue |-> q, changes |-> ChangesOf(batch)]
      PROVE  Once(job'[p].changes)
  <2>1. job'[p].changes = ChangesOf(batch)
    BY <1>2
  <2> QED BY <2>1 DEF NamedOnce
<1>3. CASE \E s \in Subs : job'[p].changes = SubChanges[s]
  BY <1>3 DEF NamedOnce
<1>4. ~Read(p)
  BY DEF Read, Goto, Types
<1> QED BY <1>1, <1>2, <1>3, <1>4, ProcessStep DEF Moves

(* What is read and merged is the changes' own edits.                      *)
LEMMA ReadOwns ==
  ASSUME Types, Owned, NEW p \in Procs, pc[p] = "read", Of(p) \cap Remote = {}
  PROVE  /\ HaveCommits(ops, job[p].changes, Tips(p))
         /\ OwnEdits(ops, job[p].queue, job[p].changes, Tips(p), Trunk(Refs, job[p].queue), Merged(p))
<1> DEFINE q       == job[p].queue
           changes == job[p].changes
<1>1. /\ q \in Queues /\ changes \in Seq(Changes)
      /\ job[p].kind = "push" => ToSet(changes) = {}
  BY JobAt DEF BatchJob, PushJob, Of
<1>2. ops \in Seq(Operation) /\ Once(changes) /\ Grows(ops, ops, {})
  BY GrowsNot DEF Types, Owned
<1>3. HaveCommits(ops, changes, Refs)
  <2>1. ASSUME NEW c \in ToSet(changes) PROVE c \in Changes /\ c \notin Remote
    BY <1>1 DEF Of, ToSet
  <2> QED BY <2>1, TipsAreCommits DEF HaveCommits, Owned
<1>4. OwnEdits(ops, q, changes, Refs, Trunk(Refs, q), Merged(p))
  BY <1>1, <1>2, <1>3, ReconcileOwns DEF Merged, Refs
<1>5. \A c \in ToSet(changes) : Tips(p)[c] = Refs[c]
  BY <1>1 DEF Tips
<1> HIDE DEF q, changes
<1> QED BY <1>2, <1>3, <1>4, <1>5, OwnEditsOn DEF q, changes

LEMMA OwnedStep ==
  ASSUME Types, Owned, NamedOnce, [Next]_vars
  PROVE  Owned'
<1>1. UndosLookBack(ops') /\ PushesAreRemote(ops')
  BY EntriesStep DEF Owned
<1>2. ASSUME NEW p \in Procs, pc'[p] = "commit", ToSet(job'[p].changes) \cap Remote = {}
      PROVE  HasOwnEdits(p)'
  <2>1. ops \in Seq(Operation) /\ Grows(ops, ops', AddedOps)
    BY LogStep DEF Types
  <2>2. CASE pc[p] = "commit" /\ job'[p] = job[p]
    <3>1. /\ HaveCommits(ops, job[p].changes, job[p].tips)
          /\ OwnEdits(ops, job[p].queue, job[p].changes, job[p].tips, job[p].seen, job[p].merged)
      BY <1>2, <2>2 DEF Owned, HasOwnEdits, Of
    <3>2. /\ HaveCommits(ops', job[p].changes, job[p].tips)
          /\ OwnEdits(ops', job[p].queue, job[p].changes, job[p].tips, job[p].seen, job[p].merged)
      BY <2>1, <3>1, OwnEditsOn
    <3> QED BY <2>2, <3>2 DEF HasOwnEdits
  <2>3. CASE /\ pc[p] = "read" /\ ops' = ops
             /\ job'[p].queue = job[p].queue
             /\ job'[p].changes = job[p].changes
             /\ job'[p].tips = Tips(p)
             /\ job'[p].merged = Merged(p)
             /\ job'[p].seen = Trunk(Refs, job[p].queue)
    <3>1. /\ HaveCommits(ops, job[p].changes, Tips(p))
          /\ OwnEdits(ops, job[p].queue, job[p].changes, Tips(p), Trunk(Refs, job[p].queue), Merged(p))
      BY <1>2, <2>3, ReadOwns DEF Of
    <3> QED BY <2>3, <3>1 DEF HasOwnEdits
  <2> QED BY <1>2, <2>2, <2>3, ReadStep
<1>3. \A p \in Procs : pc'[p] = "commit" => Of(p)' \cap Remote # {} \/ HasOwnEdits(p)'
  BY <1>2 DEF Of
<1>4. \A p \in Procs : pc'[p] \in {"snapshot", "record", "read"} => Once(job'[p].changes)
  BY OnceStep
<1> QED BY <1>1, <1>3, <1>4 DEF Owned

(* The trunk that a landing leaves is what it merged.                      *)
LEMMA AfterIs ==
  ASSUME Types, Types', Owned', [Next]_vars, NEW p \in Procs, Lands(p)
  PROVE  After(p) = job[p].merged
<1> DEFINE q   == job[p].queue
           tip == job[p].merged
<1>1. pc[p] = "commit" /\ pc'[p] = "idle" /\ ops' # ops
  BY DEF Lands
<1>2. q \in Queues /\ tip \in Tree
  BY <1>1, JobAt DEF MergedJob
<1>3. Ends(ops', SetRefs(Reconciled(q), tip))
  BY <1>1, CommitStep, AddedByCommit, AddedByReconcile
<1>4. RefsNow(ops')[Reconciled(q)] = tip
  <2>1. ops' \in Seq(Operation) /\ UndosLookBack(ops') /\ Reconciled(q) \in AllRefs
    BY <1>2, TrunkRef DEF Types, Owned
  <2> HIDE DEF q, tip
  <2> QED BY <1>3, <2>1, NewestHolds
<1> QED BY <1>2, <1>4, LandingAssumption DEF After, Trunk

LEMMA LandingOwns ==
  ASSUME Types, Types', Owned, Owned', [Next]_vars, NEW p \in Procs,
         Lands(p), Undisturbed(p), InTime(p)
  PROVE  KeepsOthersWork(p) /\ MergesOwnWork(p)
<1> DEFINE q       == job[p].queue
           changes == job[p].changes
           tips    == job[p].tips
           seen    == job[p].seen
           merged  == job[p].merged
<1>1. After(p) = merged /\ Before(p) = seen
  BY AfterIs DEF Undisturbed
<1>2. pc[p] = "commit" /\ changes \in Seq(Changes)
  BY JobAt DEF Lands, MergedJob
<1>3. \A c \in Of(p) : built[c] = From(ops, q, c) /\ c \notin Remote
  <2>1. Of(p) \subseteq Changes
    BY <1>2 DEF Of, ToSet
  <2>2. \A c \in Of(p) : CommitsOf(ops, c) # {} /\ built[c] = From(ops, q, c)
    BY DEF InTime, From
  <2> QED BY <2>1, <2>2, TipsAreCommits DEF Owned
<1>4. OwnEdits(ops, q, changes, tips, seen, merged)
  BY <1>2, <1>3 DEF Owned, HasOwnEdits
<1>5. \A c \in Of(p), d \in Paths : Edits(p, c, d) <=> Changed(ops, q, tips, c, d)
  BY <1>3 DEF Edits, Changed
<1> HIDE DEF q, changes, tips, seen, merged
<1>6. Of(p) = ToSet(changes)
  BY DEF Of, changes
<1>7. KeepsOthersWork(p)
  BY <1>1, <1>4, <1>5, <1>6 DEF KeepsOthersWork, OwnEdits
<1>8. ASSUME NEW d \in Paths, NEW c \in Of(p), Edits(p, c, d),
             \A e \in Of(p) \ {c} : ~Edits(p, e, d)
      PROVE  /\ tips[c][d] \subseteq After(p)[d]
             /\ Before(p)[d] # built[c][d] => Before(p)[d] \subseteq After(p)[d]
  <2>1. Changed(ops, q, tips, c, d) /\ \A e \in ToSet(changes) \ {c} : ~Changed(ops, q, tips, e, d)
    BY <1>5, <1>6, <1>8
  <2>2. /\ tips[c][d] \subseteq merged[d]
        /\ seen[d] # From(ops, q, c)[d] => seen[d] \subseteq merged[d]
    BY <1>4, <1>6, <2>1 DEF OwnEdits
  <2> QED BY <1>1, <1>3, <2>2
<1> QED BY <1>7, <1>8 DEF MergesOwnWork, tips

(* ExactlyOwnEditsLand: a landing alters what its own changes altered, and *)
(* keeps what landed since their authors started, in every landing and     *)
(* reconcile whose trunk stood still and whose changes were first          *)
(* snapshotted in time - whatever was committed, undone, pushed, landed in *)
(* other queues or moved on meanwhile (reconcile_core, cross-time bases).  *)
(* A pushed change has no commits here, so it is never in time.            *)
THEOREM LandingsAddTheirOwnEdits ==
  ASSUME NamedOnce
  PROVE  Spec => ExactlyOwnEditsLand
<1>1. Init => Owned
  <2> SUFFICES ASSUME Init PROVE Owned
    OBVIOUS
  <2>1. Len(ops) = 0
    BY DEF Init
  <2> QED BY <2>1 DEF Init, Owned, UndosLookBack, PushesAreRemote
<1>2. Types /\ Owned /\ [Next]_vars => Owned'
  BY OwnedStep
<1>3. Types /\ Owned /\ Types' /\ Owned' /\ [Next]_vars =>
        [\A p \in Procs : Lands(p) /\ Undisturbed(p) /\ InTime(p) =>
           KeepsOthersWork(p) /\ MergesOwnWork(p)]_vars
  BY LandingOwns
<1> QED BY <1>1, <1>2, <1>3, InitTypes, TypesStep, PTL DEF Spec, ExactlyOwnEditsLand
=============================================================================
