---------------------------- MODULE OpLogProofs ----------------------------
(***************************************************************************)
(* Proofs about OpLog, for any refs, changes and commits and a log of any  *)
(* length: what an entry once appended guarantees for ever.                *)
(***************************************************************************)
EXTENDS OpLog, TLAPS, WellFoundedInduction, SequenceTheorems, FiniteSetTheorems

(* A nonempty set of natural numbers has a least element.                  *)
LEMMA LeastExists ==
  ASSUME NEW S \in SUBSET Nat, S # {}
  PROVE  \E m \in S : \A s \in S : m <= s
<1>1. PICK m \in S : \A y \in S : ~ (<<y, m>> \in OpToRel(<, Nat))
  BY NatLessThanWellFounded, WFMin
<1>2. \A y \in S : ~ (y < m)
  BY <1>1 DEF OpToRel
<1> QED BY <1>2

(* A nonempty set of numbers up to n has a greatest element.               *)
LEMMA GreatestExists ==
  ASSUME NEW n \in Nat, NEW S \in SUBSET (0 .. n), S # {}
  PROVE  \E m \in S : \A s \in S : s <= m
<1> DEFINE T == {n - s : s \in S}
<1>1. T \subseteq Nat /\ T # {}
  <2>1. \A s \in S : n - s \in Nat
    OBVIOUS
  <2> QED BY <2>1
<1>2. PICK t \in T : \A y \in T : t <= y
  <2> HIDE DEF T
  <2> QED BY <1>1, LeastExists
<1>3. PICK m \in S : t = n - m
  OBVIOUS
<1>4. \A s \in S : n - m <= n - s
  BY <1>2, <1>3
<1> QED BY <1>4

(* Induction up to n.                                                      *)
LEMMA UpTo ==
  ASSUME NEW n \in Nat, NEW S, 0 \in S,
         \A i \in 0 .. n - 1 : i \in S => i + 1 \in S
  PROVE  \A i \in 0 .. n : i \in S
<1> DEFINE T == {i \in 0 .. n : i \notin S}
<1> SUFFICES ASSUME T # {} PROVE FALSE
  OBVIOUS
<1>0. T \subseteq Nat
  OBVIOUS
<1>1. PICK m \in T : \A i \in T : m <= i
  <2> HIDE DEF T
  <2> QED BY <1>0, LeastExists
<1>2. m - 1 \in 0 .. n - 1 /\ m - 1 \notin T
  BY <1>1
<1> QED BY <1>1, <1>2

(* Recursion from the last position to the first: what holds of a position *)
(* is told by how many of the later ones that name it it holds of.         *)
Even(S) == Cardinality(S) % 2 = 0

Later(undos, n) ==
  /\ DOMAIN undos = 0 .. n - 1
  /\ \A s \in 0 .. n - 1 : undos[s] \subseteq s + 1 .. n - 1

LEMMA ParityExists ==
  ASSUME NEW n \in Nat, NEW undos, Later(undos, n)
  PROVE  \E f : f = [s \in DOMAIN undos |-> Even({u \in undos[s] : f[u]})]
<1> DEFINE From(k) == {f \in [n - k .. n - 1 -> BOOLEAN] :
                         \A s \in n - k .. n - 1 : f[s] = Even({u \in undos[s] : f[u]})}
           S == {k \in 0 .. n : From(k) # {}}
<1>1. 0 \in S
  <2>1. [x \in {} |-> TRUE] \in From(0)
    <3>1. n - 0 .. n - 1 = {}
      OBVIOUS
    <3>2. [x \in {} |-> TRUE] \in [{} -> BOOLEAN]
      OBVIOUS
    <3> QED BY <3>1, <3>2
  <2>2. From(0) # {}
    <3> HIDE DEF From
    <3> QED BY <2>1
  <2> HIDE DEF From
  <2> QED BY <2>2
<1>2. ASSUME NEW k \in 0 .. n - 1, k \in S
      PROVE  k + 1 \in S
  <2>1. PICK f \in From(k) : TRUE
    BY <1>2
  <2> DEFINE m == n - (k + 1)
             v == Even({u \in undos[m] : f[u]})
             g == [s \in m .. n - 1 |-> IF s = m THEN v ELSE f[s]]
  <2>2. m \in 0 .. n - 1 /\ n - k = m + 1
    OBVIOUS
  <2>3. v \in BOOLEAN
    BY DEF Even
  <2>4. g \in [m .. n - 1 -> BOOLEAN]
    <3>1. \A s \in m .. n - 1 : s = m \/ s \in n - k .. n - 1
      BY <2>2
    <3>2. \A s \in n - k .. n - 1 : f[s] \in BOOLEAN
      BY <2>1
    <3> HIDE DEF v, m
    <3> QED BY <2>3, <3>1, <3>2
  <2>5. ASSUME NEW s \in m .. n - 1
        PROVE  {u \in undos[s] : g[u]} = {u \in undos[s] : f[u]}
    <3>1. undos[s] \subseteq m + 1 .. n - 1
      BY <2>2 DEF Later
    <3>2. \A u \in undos[s] : g[u] = f[u]
      BY <2>2, <3>1
    <3> HIDE DEF g
    <3> QED BY <3>2
  <2>6. ASSUME NEW s \in m .. n - 1
        PROVE  g[s] = Even({u \in undos[s] : g[u]})
    <3>1. CASE s = m
      BY <2>5, <3>1
    <3>2. CASE s # m
      <4>1. s \in n - k .. n - 1
        BY <2>2, <3>2
      <4>2. g[s] = f[s]
        BY <3>2
      <4>3. f[s] = Even({u \in undos[s] : f[u]})
        BY <2>1, <4>1
      <4> HIDE DEF g
      <4> QED BY <2>5, <4>2, <4>3
    <3> QED BY <3>1, <3>2
  <2> HIDE DEF g
  <2>7. From(k + 1) # {}
    BY <2>4, <2>6
  <2>8. k + 1 \in 0 .. n
    OBVIOUS
  <2> HIDE DEF From
  <2> QED BY <2>7, <2>8
<1>3. n \in S
  <2> HIDE DEF S
  <2> QED BY <1>1, <1>2, UpTo
<1>4. PICK f \in From(n) : TRUE
  BY <1>3
<1>5. n - n .. n - 1 = DOMAIN undos
  BY DEF Later
<1>6. f = [s \in DOMAIN undos |-> f[s]]
  BY <1>4, <1>5
<1>7. \A s \in DOMAIN undos : f[s] = Even({u \in undos[s] : f[u]})
  BY <1>4, <1>5
<1> HIDE DEF From
<1> QED BY <1>6, <1>7

-----------------------------------------------------------------------------
USE NoneAssumption, OpLogAssumption

-----------------------------------------------------------------------------
(* A nonempty set of positions of a log has a latest one.                  *)
LEMMA LatestExists ==
  ASSUME NEW n \in Nat, NEW S \in SUBSET (0 .. n), S # {}
  PROVE  Latest(S) \in S /\ \A t \in S : t <= Latest(S)
<1>1. PICK m \in S : \A t \in S : t <= m
  BY GreatestExists
<1> QED BY <1>1 DEF Latest

(* Two logs that agree up to t have the same entries in force, and refs, as *)
(* of t.                                                                    *)
LEMMA ActiveAgree ==
  ASSUME NEW log, NEW log2, NEW t \in Int,
         \A s \in 0 .. t : log2[s + 1] = log[s + 1]
  PROVE  IsActive(log2, t) = IsActive(log, t)
<1>1. \A s \in 0 .. t : OpAt(log2, s) = OpAt(log, s)
  BY DEF OpAt
<1>2. UndosOf(log2, t) = UndosOf(log, t)
  BY <1>1 DEF UndosOf, IsUndoOf
<1> QED BY <1>2 DEF IsActive

LEMMA RefsAtAgree ==
  ASSUME NEW log, NEW log2, NEW t \in Int,
         \A s \in 0 .. t : log2[s + 1] = log[s + 1]
  PROVE  RefsAt(log2, t) = RefsAt(log, t)
<1>1. \A s \in 0 .. t : OpAt(log2, s) = OpAt(log, s)
  BY DEF OpAt
<1>3. IsActive(log2, t) = IsActive(log, t)
  BY ActiveAgree
<1>4. \A r \in Refs : Writers(log2, t, r) = Writers(log, t, r)
  BY <1>1, <1>3 DEF Writers
<1>5. ASSUME NEW r \in Refs, Writers(log, t, r) # {}
      PROVE  OpAt(log2, Latest(Writers(log, t, r))) = OpAt(log, Latest(Writers(log, t, r)))
  <2>1. Writers(log, t, r) \subseteq 0 .. t
    BY DEF Writers
  <2>2. t \in Nat
    BY <1>5, <2>1
  <2>3. Latest(Writers(log, t, r)) \in 0 .. t
    BY <1>5, <2>1, <2>2, LatestExists
  <2> QED BY <1>1, <2>3
<1> QED BY <1>4, <1>5 DEF RefsAt, FoldRefs

-----------------------------------------------------------------------------
(* Which entries are in force.                                             *)

(* is_active: an entry is in force if an even number of its undos are.     *)
LEMMA InForceIs ==
  ASSUME NEW n \in Nat, NEW undos, Later(undos, n)
  PROVE  /\ DOMAIN InForce(undos) = 0 .. n - 1
         /\ \A s \in 0 .. n - 1 :
              InForce(undos)[s] = (Cardinality({u \in undos[s] : InForce(undos)[u]}) % 2 = 0)
<1> DEFINE Fits(f) == f = [s \in DOMAIN undos |-> Even({u \in undos[s] : f[u]})]
<1>1. \E f : Fits(f)
  BY ParityExists
<1>2. InForce(undos) = CHOOSE f : Fits(f)
  BY DEF InForce, Even
<1>3. Fits(InForce(undos))
  <2> HIDE DEF Fits
  <2> QED BY <1>1, <1>2
<1>4. \A s \in DOMAIN undos : InForce(undos)[s] = Even({u \in undos[s] : InForce(undos)[u]})
  BY <1>3
<1> QED BY <1>3, <1>4 DEF Later, Even
(* A log in which undos name earlier entries, up to limit.                 *)
UndosAreLater(log, limit) ==
  \A s \in 0 .. limit : OpAt(log, s).kind = "undo" => OpAt(log, s).target < s

LEMMA ActiveIs ==
  ASSUME NEW log, NEW last \in Int, last >= -1, UndosAreLater(log, last),
         NEW s \in 0 .. last
  PROVE  LET A == IsActive(log, last)
         IN  A[s] = (Cardinality({u \in s + 1 .. last : IsUndoOf(log, u, s) /\ A[u]}) % 2 = 0)
<1> DEFINE undos == UndosOf(log, last)
           A == IsActive(log, last)
<1>1. \A x \in 0 .. last : undos[x] = {u \in 0 .. last : IsUndoOf(log, u, x)}
  BY DEF UndosOf
<1>2. \A x, u \in 0 .. last : IsUndoOf(log, u, x) => x < u
  BY DEF UndosAreLater, IsUndoOf
<1>3. \A x \in 0 .. last : undos[x] = {u \in x + 1 .. last : IsUndoOf(log, u, x)}
  BY <1>1, <1>2
<1>4. DOMAIN undos = 0 .. last
  BY DEF UndosOf
<1>5. Later(undos, last + 1)
  <2>1. (last + 1) - 1 = last
    OBVIOUS
  <2> HIDE DEF undos
  <2> QED BY <1>3, <1>4, <2>1 DEF Later
<1>6. A[s] = (Cardinality({u \in undos[s] : A[u]}) % 2 = 0)
  <2> HIDE DEF undos
  <2>0. last + 1 \in Nat /\ s \in 0 .. (last + 1) - 1
    OBVIOUS
  <2>1. InForce(undos)[s] = (Cardinality({u \in undos[s] : InForce(undos)[u]}) % 2 = 0)
    BY <1>5, <2>0, InForceIs
  <2>2. A = InForce(undos)
    BY DEF IsActive, undos
  <2> QED BY <2>1, <2>2
<1> HIDE DEF undos, A
<1>7. {u \in undos[s] : A[u]} = {u \in s + 1 .. last : IsUndoOf(log, u, s) /\ A[u]}
  BY <1>3
<1>8. A[s] = (Cardinality({u \in s + 1 .. last : IsUndoOf(log, u, s) /\ A[u]}) % 2 = 0)
  BY <1>6, <1>7
<1> QED BY <1>8 DEF A

(* The newest entry is always in force: nothing has undone it yet.         *)
LEMMA NewestInForce ==
  ASSUME NEW log, NEW last \in Nat, UndosAreLater(log, last)
  PROVE  IsActive(log, last)[last]
<1> DEFINE A == IsActive(log, last)
<1>1. A[last] = (Cardinality({u \in last + 1 .. last : IsUndoOf(log, u, last) /\ A[u]}) % 2 = 0)
  BY ActiveIs
<1> HIDE DEF A
<1>2. {u \in last + 1 .. last : IsUndoOf(log, u, last) /\ A[u]} = {}
  OBVIOUS
<1>3. Cardinality({}) % 2 = 0
  BY FS_EmptySet
<1> QED BY <1>1, <1>2, <1>3 DEF A

(* An undo of the entry before it takes back that entry, and, if that was  *)
(* an undo too, what it had taken back: what is in force is what was.      *)
LEMMA UndoReverts ==
  ASSUME NEW log, NEW t \in Nat, UndosAreLater(log, t + 1),
         OpAt(log, t + 1).kind = "undo", OpAt(log, t + 1).target = t
  PROVE  /\ ~IsActive(log, t + 1)[t]
         /\ \A s \in 0 .. t - 1 : IsActive(log, t + 1)[s] = IsActive(log, t - 1)[s]
<1> DEFINE u == t + 1
           A == IsActive(log, u)
           C == IsActive(log, t - 1)
           Undoing(s, f, last) == {w \in s + 1 .. last : IsUndoOf(log, w, s) /\ f[w]}
<1>1. UndosAreLater(log, t - 1)
  BY DEF UndosAreLater
<1>2. \A s \in 0 .. u : A[s] = (Cardinality(Undoing(s, A, u)) % 2 = 0)
  BY ActiveIs
<1>3. \A s \in 0 .. t - 1 : C[s] = (Cardinality(Undoing(s, C, t - 1)) % 2 = 0)
  <2>1. t - 1 \in Int /\ t - 1 >= -1
    OBVIOUS
  <2> QED BY <1>1, <2>1, ActiveIs
<1>4. \A s \in 0 .. t - 1 : ~IsUndoOf(log, u, s)
  BY DEF IsUndoOf
<1>5. IsUndoOf(log, u, t)
  BY DEF IsUndoOf
<1> HIDE DEF A, C
<1>6. A[u]
  <2>1. Undoing(u, A, u) = {}
    OBVIOUS
  <2>2. Cardinality({}) % 2 = 0
    BY FS_EmptySet
  <2>3. u \in 0 .. u
    OBVIOUS
  <2>4. A[u] = (Cardinality(Undoing(u, A, u)) % 2 = 0)
    BY <1>2, <2>3
  <2> HIDE DEF Undoing, u
  <2> QED BY <2>1, <2>2, <2>4
<1>7. ~A[t]
  <2>1. Undoing(t, A, u) = {u}
    BY <1>5, <1>6
  <2>2. Cardinality({u}) % 2 # 0
    <3> HIDE DEF u
    <3>1. Cardinality({u}) = 1
      BY FS_Singleton
    <3> QED BY <3>1
  <2>3. t \in 0 .. u
    OBVIOUS
  <2>4. A[t] = (Cardinality(Undoing(t, A, u)) % 2 = 0)
    BY <1>2, <2>3
  <2> HIDE DEF Undoing, u
  <2> QED BY <2>1, <2>2, <2>4
<1>8. \A s \in 0 .. t - 1 : A[s] = C[s]
  <2> DEFINE S == {s \in 0 .. t - 1 : A[s] # C[s]}
  <2> SUFFICES ASSUME S # {} PROVE FALSE
    OBVIOUS
  <2>1. S \in SUBSET (0 .. t)
    OBVIOUS
  <2>2. PICK m \in S : \A s \in S : s <= m
    <3> HIDE DEF S
    <3> QED BY <2>1, GreatestExists
  <2>3. \A w \in m + 1 .. t - 1 : A[w] = C[w]
    BY <2>2
  <2>4. Undoing(m, A, u) = Undoing(m, C, t - 1)
    <3>1. \A w \in m + 1 .. u : w \in m + 1 .. t - 1 \/ w = t \/ w = u
      OBVIOUS
    <3>2. m + 1 .. t - 1 \subseteq m + 1 .. u
      OBVIOUS
    <3>3. ~IsUndoOf(log, u, m)
      BY <1>4
    <3> HIDE DEF u, S
    <3> QED BY <1>7, <2>3, <3>1, <3>2, <3>3
  <2>5. m \in 0 .. t - 1 /\ m \in 0 .. u /\ A[m] # C[m]
    OBVIOUS
  <2> HIDE DEF Undoing, u, S
  <2> QED BY <1>2, <1>3, <2>4, <2>5
<1> QED BY <1>7, <1>8 DEF A, C

(* The refs before an entry was appended.                                  *)
RefsBefore(log, s) == IF s = 0 THEN [r \in Refs |-> None] ELSE RefsAt(log, s - 1)

LEMMA UndoneRefs ==
  ASSUME NEW log, NEW t \in Nat, UndosAreLater(log, t + 1),
         OpAt(log, t + 1).kind = "undo", OpAt(log, t + 1).target = t
  PROVE  RefsAt(log, t + 1) = RefsBefore(log, t)
<1>1. /\ ~IsActive(log, t + 1)[t]
      /\ \A s \in 0 .. t - 1 : IsActive(log, t + 1)[s] = IsActive(log, t - 1)[s]
  BY UndoReverts
<1>2. OpAt(log, t + 1).kind \notin RefKinds
  BY DEF RefKinds
<1>3. ASSUME NEW r \in Refs
      PROVE  Writers(log, t + 1, r) = Writers(log, t - 1, r)
  <2>1. \A s \in 0 .. t + 1 : s \in 0 .. t - 1 \/ s = t \/ s = t + 1
    OBVIOUS
  <2>2. \A s \in 0 .. t - 1 : s \in 0 .. t + 1
    OBVIOUS
  <2> QED BY <1>1, <1>2, <2>1, <2>2 DEF Writers
<1>4. RefsAt(log, t + 1) = RefsAt(log, t - 1)
  BY <1>3 DEF RefsAt, FoldRefs
<1>5. ASSUME t = 0 PROVE RefsAt(log, t - 1) = [r \in Refs |-> None]
  <2>1. \A r \in Refs : Writers(log, t - 1, r) = {}
    BY <1>5 DEF Writers
  <2> QED BY <2>1 DEF RefsAt, FoldRefs
<1> QED BY <1>4, <1>5 DEF RefsBefore

-----------------------------------------------------------------------------
(* The operation of an entry, by its position in the sequence.             *)
LEMMA EntryType ==
  ASSUME NEW log \in Seq(Operation), NEW i \in 1 .. Len(log)
  PROVE  log[i].op \in OpKind /\ log[i].seq \in Nat
<1>1. log[i] \in Operation
  OBVIOUS
<1> QED BY <1>1 DEF Operation

(* What a ref holds is a commit or nothing.                                *)
LEMMA RefsType ==
  ASSUME NEW log \in Seq(Operation), NEW r \in Refs
  PROVE  RefsNow(log)[r] \in Commits \cup {None}
<1> DEFINE n == NoLimit(log)
           ws == Writers(log, n, r)
<1>1. RefsNow(log)[r] = IF ws = {} THEN None ELSE OpAt(log, Latest(ws)).new
  BY DEF RefsNow, FoldRefs
<1>2. CASE ws # {}
  <2>1. ws \subseteq 0 .. n /\ n \in Int
    BY DEF Writers, NoLimit
  <2>2. n \in Nat
    BY <1>2, <2>1
  <2>3. Latest(ws) \in ws
    BY <1>2, <2>1, <2>2, LatestExists
  <2>4. Latest(ws) \in 0 .. n /\ OpAt(log, Latest(ws)).kind \in RefKinds
    BY <2>3 DEF Writers
  <2>5. Latest(ws) + 1 \in 1 .. Len(log)
    BY <2>4 DEF NoLimit
  <2>6. OpAt(log, Latest(ws)) \in OpKind
    BY <2>5, EntryType DEF OpAt
  <2>7. OpAt(log, Latest(ws)).new \in Commits \cup {None}
    <3>1. \A o \in OpKind : o.kind \in RefKinds => o.new \in Commits \cup {None}
      BY DEF OpKind, RefKinds
    <3> QED BY <2>4, <2>6, <3>1
  <2> QED BY <1>1, <1>2, <2>7
<1> QED BY <1>1, <1>2

(* What is about to be appended finds the refs of now before it.           *)
LEMMA RefsNowIsBefore ==
  ASSUME NEW log \in Seq(Operation)
  PROVE  RefsNow(log) = RefsBefore(log, Len(log))
<1>1. CASE Len(log) = 0
  <2>1. \A r \in Refs : Writers(log, NoLimit(log), r) = {}
    BY <1>1 DEF Writers, NoLimit
  <2> QED BY <1>1, <2>1 DEF RefsNow, FoldRefs, RefsBefore
<1>2. CASE Len(log) # 0
  BY <1>2 DEF RefsNow, RefsBefore, RefsAt, NoLimit
<1> QED BY <1>1, <1>2

-----------------------------------------------------------------------------
(* What every step appends: a sound entry.                                 *)

Sound(log, op) ==
  /\ op \in OpKind
  /\ op.kind = "undo" => op.target = Len(log) - 1
  /\ op.kind \in {"set_ref", "commit"} => op.old = RefsNow(log)[op.ref]

SoundLog(log) ==
  /\ log \in Seq(Operation)
  /\ \A s \in 0 .. Len(log) - 1 :
       /\ log[s + 1].seq = s
       /\ OpAt(log, s).kind = "undo" => OpAt(log, s).target = s - 1
       /\ OpAt(log, s).kind \in {"set_ref", "commit"} =>
            OpAt(log, s).old = RefsBefore(log, s)[OpAt(log, s).ref]

Extends(log, log2) ==
  /\ Len(log2) > Len(log)
  /\ \A s \in 0 .. Len(log) - 1 : log2[s + 1] = log[s + 1]

LEMMA AppendedIsSound ==
  ASSUME NEW log, SoundLog(log), NEW op, Sound(log, op)
  PROVE  SoundLog(Appended(log, op)) /\ Extends(log, Appended(log, op))
<1> DEFINE log2 == Appended(log, op)
           n    == Len(log)
<1>1. log \in Seq(Operation) /\ n \in Nat
  BY DEF SoundLog
<1>2. [seq |-> n, op |-> op] \in Operation
  BY <1>1 DEF Sound, Operation
<1>3. /\ log2 \in Seq(Operation)
      /\ Len(log2) = n + 1
      /\ log2[n + 1] = [seq |-> n, op |-> op]
      /\ \A i \in 1 .. n : log2[i] = log[i]
  BY <1>1, <1>2 DEF Appended, NextSeq
<1> HIDE DEF log2
<1>4. \A s \in 0 .. n - 1 : log2[s + 1] = log[s + 1]
  BY <1>1, <1>3
<1>5. Extends(log, log2)
  BY <1>1, <1>3, <1>4 DEF Extends
<1>6. ASSUME NEW s \in 0 .. n
      PROVE  RefsBefore(log2, s) = RefsBefore(log, s)
  <2>1. \A t \in 0 .. s - 1 : log2[t + 1] = log[t + 1]
    BY <1>1, <1>4
  <2>2. s - 1 \in Int
    BY <1>1
  <2>3. RefsAt(log2, s - 1) = RefsAt(log, s - 1)
    BY <2>1, <2>2, RefsAtAgree
  <2> QED BY <2>3 DEF RefsBefore
<1>7. ASSUME NEW s \in 0 .. Len(log2) - 1
      PROVE  /\ log2[s + 1].seq = s
             /\ OpAt(log2, s).kind = "undo" => OpAt(log2, s).target = s - 1
             /\ OpAt(log2, s).kind \in {"set_ref", "commit"} =>
                  OpAt(log2, s).old = RefsBefore(log2, s)[OpAt(log2, s).ref]
  <2>1. CASE s \in 0 .. n - 1
    <3>1. log2[s + 1] = log[s + 1] /\ OpAt(log2, s) = OpAt(log, s)
      BY <1>4, <2>1 DEF OpAt
    <3>2. RefsBefore(log2, s) = RefsBefore(log, s)
      BY <1>1, <1>6, <2>1
    <3> QED BY <2>1, <3>1, <3>2 DEF SoundLog
  <2>2. CASE s = n
    <3>1. log2[s + 1].seq = s /\ OpAt(log2, s) = op
      BY <1>3, <2>2 DEF OpAt
    <3>2. RefsBefore(log2, s) = RefsNow(log)
      BY <1>1, <1>6, <2>2, RefsNowIsBefore
    <3> QED BY <2>2, <3>1, <3>2 DEF Sound
  <2> QED BY <1>1, <1>3, <2>1, <2>2
<1>8. SoundLog(log2)
  BY <1>3, <1>7 DEF SoundLog
<1> QED BY <1>5, <1>8 DEF log2

(* Every step appends one sound entry, or two.                             *)
LEMMA SetRefIsSound ==
  ASSUME NEW log \in Seq(Operation), NEW r \in Refs, NEW new \in Commits \cup {None}
  PROVE  Sound(log, SetRefOp(r, RefsNow(log)[r], new))
<1>1. RefsNow(log)[r] \in Commits \cup {None}
  BY RefsType
<1> QED BY <1>1 DEF Sound, SetRefOp, OpKind, RefKinds

Grows(log, log2) == SoundLog(log2) /\ Extends(log, log2)

LEMMA ExtendsTwice ==
  ASSUME NEW log, SoundLog(log), NEW log2, SoundLog(log2), NEW log3,
         Extends(log, log2), Extends(log2, log3), SoundLog(log3)
  PROVE  Extends(log, log3)
<1>1. Len(log) \in Nat /\ Len(log2) \in Nat /\ Len(log3) \in Nat
  BY DEF SoundLog
<1> QED BY <1>1 DEF Extends

LEMMA StepGrows ==
  ASSUME SoundLog(ops), Next
  PROVE  Grows(ops, ops')
<1> USE DEF Grows
<1>0. ops \in Seq(Operation) /\ Len(ops) \in Nat
  BY DEF SoundLog
<1>1. ASSUME NEW r \in Refs, NEW new \in Commits \cup {None}, RefSet(r, new)
      PROVE  Grows(ops, ops')
  <2>1. Sound(ops, SetRefOp(r, RefsNow(ops)[r], new))
    BY <1>0, SetRefIsSound
  <2> QED BY <1>1, <2>1, AppendedIsSound DEF RefSet, WithSetRef
<1>2. ASSUME NEW c \in Changes, NEW seen \in Commits, NEW tree \in Commits,
             AutoSnapshot(c, seen, tree)
      PROVE  Grows(ops, ops')
  <2>1. c \in Refs
    OBVIOUS
  <2>2. RefsNow(ops)[c] \in Commits \cup {None}
    BY <1>0, <2>1, RefsType
  <2>3. Sound(ops, CommitOp(c, RefsNow(ops)[c], tree))
    BY <2>1, <2>2 DEF Sound, CommitOp, OpKind, RefKinds
  <2> QED BY <1>2, <2>3, AppendedIsSound DEF AutoSnapshot
<1>3. ASSUME NEW c \in Changes, NEW oldTip \in Commits, NEW newTip \in Commits,
             AutoRebase(c, oldTip, newTip)
      PROVE  Grows(ops, ops')
  <2> DEFINE anchored == IF RefsNow(ops)[c] = None THEN WithSetRef(ops, c, oldTip) ELSE ops
             rebase   == RebaseOp(c, oldTip, newTip)
  <2>1. c \in Refs
    OBVIOUS
  <2>2. /\ SoundLog(anchored)
        /\ anchored = ops \/ Extends(ops, anchored)
    <3>1. Sound(ops, SetRefOp(c, RefsNow(ops)[c], oldTip))
      BY <1>0, <2>1, SetRefIsSound
    <3> QED BY <3>1, AppendedIsSound DEF WithSetRef
  <2>3. ops' = Appended(anchored, rebase)
    BY <1>3 DEF AutoRebase
  <2>4. rebase.kind = "rebase" /\ rebase \in OpKind
    BY <2>1 DEF RebaseOp, OpKind, RefKinds
  <2> HIDE DEF anchored, rebase
  <2>5. Sound(anchored, rebase)
    BY <2>4 DEF Sound
  <2>6. SoundLog(ops') /\ Extends(anchored, ops')
    BY <2>2, <2>3, <2>5, AppendedIsSound
  <2> QED BY <2>2, <2>6, ExtendsTwice
<1>4. ASSUME Undo
      PROVE  Grows(ops, ops')
  <2>1. PICK s \in InEffect(ops) : /\ \A t \in InEffect(ops) : t <= s
                                  /\ ops' = Appended(ops, UndoOp(s))
    BY <1>4 DEF Undo
  <2>2. s \in 0 .. Len(ops) - 1
    BY <1>0, <2>1 DEF InEffect, NoLimit
  <2>3. UndosAreLater(ops, Len(ops) - 1)
    BY <1>0 DEF SoundLog, UndosAreLater
  <2>4. Len(ops) - 1 \in InEffect(ops)
    <3>1. Len(ops) - 1 \in Nat
      BY <1>0, <2>2
    <3> QED BY <2>3, <3>1, NewestInForce DEF InEffect, NoLimit
  <2>5. s = Len(ops) - 1
    BY <1>0, <2>1, <2>2, <2>4
  <2>6. Sound(ops, UndoOp(s))
    BY <2>2, <2>5 DEF Sound, UndoOp, OpKind
  <2> QED BY <2>1, <2>6, AppendedIsSound
<1> QED BY <1>1, <1>2, <1>3, <1>4 DEF Next

-----------------------------------------------------------------------------
LEMMA SoundLogIsInv ==
  SoundLog(ops) => TypeOK /\ RecordsBefore
<1> SUFFICES ASSUME SoundLog(ops) PROVE TypeOK /\ RecordsBefore
  OBVIOUS
<1>1. ASSUME NEW s \in Seqs, Kind(s) = "undo" PROVE OpAt(ops, s).target < s
  BY <1>1 DEF SoundLog, Seqs, Kind
<1> QED BY <1>1 DEF SoundLog, TypeOK, RecordsBefore, Seqs, Kind, Before, RefsBefore

(* The inductive invariant: every entry is sound.                          *)
THEOREM Invariant == Spec => []SoundLog(ops)
<1>1. Init => SoundLog(ops)
  BY DEF Init, SoundLog
<1>2. SoundLog(ops) /\ [Next]_ops => SoundLog(ops)'
  BY StepGrows DEF Grows, SoundLog
<1> QED BY <1>1, <1>2, PTL DEF Spec

(* The log is well typed: transaction times are 0, 1, 2, .. and an undo    *)
(* names an earlier entry, so that is_active always ends.                  *)
THEOREM TypeCorrect == Spec => []TypeOK
BY Invariant, SoundLogIsInv, PTL

(* Every SetRef and Commit records the value its ref had before it.        *)
THEOREM BeforeValuesAreRight == Spec => []RecordsBefore
BY Invariant, SoundLogIsInv, PTL

(* Undo is an inverse (I7): the refs after an undo are those before the    *)
(* entry it names, which is the newest one and always in force, so an undo *)
(* of an undo is a redo (OpLog::undo, is_active).                          *)
THEOREM UndoInverts == Spec => []UndoIsInverse
<1>1. SoundLog(ops) => UndoIsInverse
  <2> SUFFICES ASSUME SoundLog(ops), NEW u \in Seqs, Kind(u) = "undo"
               PROVE  RefsAt(ops, u) = Before(OpAt(ops, u).target)
    BY DEF UndoIsInverse
  <2> DEFINE t == OpAt(ops, u).target
  <2>1. u \in 0 .. Len(ops) - 1 /\ t = u - 1
    BY DEF SoundLog, Seqs, Kind
  <2>2. t \in Nat /\ u = t + 1
    <3>1. OpAt(ops, u) \in OpKind
      <4>1. u + 1 \in 1 .. Len(ops) /\ ops \in Seq(Operation)
        BY <2>1 DEF SoundLog
      <4> QED BY <4>1, EntryType DEF OpAt
    <3>2. t \in Nat
      BY <3>1 DEF OpKind, RefKinds, Kind
    <3> QED BY <2>1, <3>2
  <2>3. UndosAreLater(ops, u)
    BY <2>1 DEF SoundLog, UndosAreLater
  <2>4. RefsAt(ops, u) = RefsBefore(ops, t)
    <3>1. OpAt(ops, t + 1).kind = "undo" /\ OpAt(ops, t + 1).target = t
      BY <2>2 DEF Kind
    <3> HIDE DEF t
    <3> QED BY <2>2, <2>3, <3>1, UndoneRefs
  <2> QED BY <2>4 DEF RefsBefore, Before
<1> QED BY <1>1, Invariant, PTL

(* Undo is not erasure: the log only ever grows at its end.                *)
THEOREM LogOnlyGrows == Spec => AppendOnly
<1>1. SoundLog(ops) /\ [Next]_ops =>
        [ /\ Len(ops') > Len(ops)
          /\ \A s \in Seqs : ops'[s + 1] = ops[s + 1] ]_ops
  BY StepGrows DEF Grows, Extends, Seqs
<1> QED BY <1>1, Invariant, PTL DEF Spec, AppendOnly

(* refs_at(t) never changes its answer, whatever is appended or undone.    *)
THEOREM AsOfIsStable == Spec => HistoryIsStable
<1>1. ASSUME SoundLog(ops), Next
      PROVE  \A t \in Seqs : RefsAt(ops, t) = RefsAt(ops', t)
  <2> SUFFICES ASSUME NEW t \in Seqs
               PROVE  RefsAt(ops', t) = RefsAt(ops, t)
    OBVIOUS
  <2>1. Len(ops) \in Nat
    BY <1>1 DEF SoundLog
  <2>2. t \in Int /\ \A s \in 0 .. t : s \in 0 .. Len(ops) - 1
    BY <2>1 DEF Seqs
  <2>3. \A s \in 0 .. t : ops'[s + 1] = ops[s + 1]
    BY <1>1, <2>2, StepGrows DEF Grows, Extends
  <2> QED BY <2>2, <2>3, RefsAtAgree
<1>2. SoundLog(ops) /\ [Next]_ops =>
        [\A t \in Seqs : RefsAt(ops, t) = RefsAt(ops', t)]_ops
  BY <1>1
<1> QED BY <1>2, Invariant, PTL DEF Spec, HistoryIsStable
=============================================================================
