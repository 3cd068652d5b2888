------------------------- MODULE ReplicationProofs -------------------------
(***************************************************************************)
(* Proofs about Replication, for any objects, changes and processes and    *)
(* any number of moves and faults: what a copy leaves behind, wherever it  *)
(* is cut short, and what may travel.                                      *)
(***************************************************************************)
EXTENDS Replication, TLAPS, FunctionTheorems, FiniteSetTheorems, SequenceTheorems

-----------------------------------------------------------------------------
(* Sequences and the sets of their elements.                               *)

(* A finite set as a sequence, in some order.                              *)
LEMMA SequenceOfSet ==
  ASSUME NEW S, IsFiniteSet(S)
  PROVE  SetToSeq(S) \in Seq(S) /\ ToSet(SetToSeq(S)) = S
<1> DEFINE n == Cardinality(S)
           D == 1 .. n
<1>1. n \in Nat /\ ExistsBijection(D, S)
  BY FS_CardinalityType
<1>2. PICK g \in Bijection(D, S) : TRUE
  BY <1>1 DEF ExistsBijection
<1>3. g \in [D -> S] /\ IsInjective(g)
  BY <1>2 DEF Bijection, Injection, IsInjective
<1>4. SetToSeq(S) \in [D -> S] /\ IsInjective(SetToSeq(S))
  BY <1>3 DEF SetToSeq
<1> DEFINE f == SetToSeq(S)
<1>5. f \in Injection(D, S)
  BY <1>4 DEF Injection, IsInjective
<1>6. IsFiniteSet(D) /\ Cardinality(D) = n
  BY <1>1, FS_Interval
<1>7. f \in Surjection(D, S)
  BY <1>5, <1>6, FS_Injection
<1>8. f \in Seq(S) /\ DOMAIN f = D
  BY <1>1, <1>4
<1>9. ToSet(f) = S
  BY <1>7, <1>8 DEF ToSet, Surjection
<1> QED BY <1>8, <1>9

(* Popping the top of a stack and pushing others on what is left.          *)
LEMMA PoppedStack ==
  ASSUME NEW S, NEW s \in Seq(S), s # << >>, NEW t \in Seq(S)
  PROVE  /\ Last(s) \in S
         /\ Front(s) \o t \in Seq(S)
         /\ ToSet(Front(s) \o t) = ToSet(Front(s)) \cup ToSet(t)
         /\ ToSet(s) = ToSet(Front(s)) \cup {Last(s)}
<1>1. Len(s) \in Nat \ {0} /\ DOMAIN s = 1 .. Len(s)
  OBVIOUS
<1>2. /\ Front(s) \in Seq(S) /\ Len(Front(s)) = Len(s) - 1
      /\ \A i \in 1 .. Len(s) - 1 : Front(s)[i] = s[i]
  BY <1>1 DEF Front
<1>3. Last(s) \in S
  BY <1>1 DEF Last
<1>4. ToSet(s) = ToSet(Front(s)) \cup {Last(s)}
  <2>1. DOMAIN Front(s) = 1 .. Len(s) - 1
    BY <1>1, <1>2
  <2>2. \A i \in 1 .. Len(s) - 1 : Front(s)[i] = s[i] /\ i \in 1 .. Len(s)
    BY <1>1, <1>2
  <2>3. ToSet(Front(s)) \cup {Last(s)} \subseteq ToSet(s)
    <3>1. ToSet(Front(s)) \subseteq ToSet(s)
      BY <1>1, <2>1, <2>2 DEF ToSet
    <3>2. Len(s) \in DOMAIN s
      BY <1>1
    <3> QED BY <3>1, <3>2 DEF ToSet, Last
  <2>4. \A n \in Nat \ {0} : \A i \in 1 .. n : i = n \/ i \in 1 .. n - 1
    OBVIOUS
  <2>5. ToSet(s) \subseteq ToSet(Front(s)) \cup {Last(s)}
    BY <1>1, <2>1, <2>2, <2>4 DEF ToSet, Last
  <2> QED BY <2>3, <2>5
<1>5. ASSUME NEW a \in Seq(S), NEW b \in Seq(S)
      PROVE  a \o b \in Seq(S) /\ ToSet(a \o b) = ToSet(a) \cup ToSet(b)
  <2>1. /\ a \o b \in Seq(S) /\ Len(a \o b) = Len(a) + Len(b)
        /\ \A i \in 1 .. Len(a) + Len(b) :
             (a \o b)[i] = IF i <= Len(a) THEN a[i] ELSE b[i - Len(a)]
    OBVIOUS
  <2>2. \A i \in 1 .. Len(b) : (a \o b)[i + Len(a)] = b[i] /\ i + Len(a) \in 1 .. Len(a) + Len(b)
    BY <2>1
  <2>3. \A i \in 1 .. Len(a) : (a \o b)[i] = a[i] /\ i \in 1 .. Len(a) + Len(b)
    BY <2>1
  <2>4. DOMAIN (a \o b) = 1 .. Len(a) + Len(b) /\ DOMAIN a = 1 .. Len(a) /\ DOMAIN b = 1 .. Len(b)
    BY <2>1
  <2>5. ToSet(a \o b) \subseteq ToSet(a) \cup ToSet(b)
    BY <2>1, <2>4 DEF ToSet
  <2>6. ToSet(a) \subseteq ToSet(a \o b)
    BY <2>3, <2>4 DEF ToSet
  <2>7. ToSet(b) \subseteq ToSet(a \o b)
    BY <2>2, <2>4 DEF ToSet
  <2> QED BY <2>1, <2>5, <2>6, <2>7
<1> QED BY <1>2, <1>3, <1>4, <1>5

-----------------------------------------------------------------------------
USE ReplicationAssumption

(* An object's entries are objects, and its closure is closed.             *)
LEMMA EntriesAreObjects ==
  ASSUME NEW o \in Objects
  PROVE  Entries[o] \in Seq(Objects) /\ ToSet(Entries[o]) \subseteq Objects
  BY DEF ToSet

LEMMA ClosureIsClosed ==
  ASSUME NEW o \in Objects
  PROVE  o \in Closure(o) /\ Closure(o) \subseteq Objects /\ Closed(Closure(o))
<1>1. \A x \in Closure(o) : ToSet(Entries[x]) \subseteq Closure(o)
  BY EntriesAreObjects DEF Closure, Closed
<1> QED BY <1>1 DEF Closure, Closed

-----------------------------------------------------------------------------
(* Types.                                                                  *)

Tips == UNION {[S -> Objects] : S \in SUBSET Changes}

(* What a process holds, by what it is doing.                              *)
LEMMA Jobs ==
  ASSUME TypeOK, NEW p \in Procs
  PROVE  /\ job[p].kind = "none" <=> job[p] = Idle
         /\ job[p].kind = "snapshot" => job[p] \in SnapshotJob
         /\ job[p].kind = "fetch" => job[p] \in CopyJob({"fetch"}, There, Here)
         /\ job[p].kind \in {"push", "land"} => job[p] \in CopyJob({"push", "land"}, Here, There)
         /\ job[p].kind \in {"none", "snapshot", "fetch", "push", "land"}
<1>1. Idle.kind = "none"
  BY DEF Idle
<1>2. \A j \in SnapshotJob : j.kind = "snapshot"
  BY DEF SnapshotJob
<1>3. /\ \A j \in CopyJob({"fetch"}, There, Here) : j.kind = "fetch"
      /\ \A j \in CopyJob({"push", "land"}, Here, There) : j.kind \in {"push", "land"}
  BY DEF CopyJob
<1> QED BY <1>1, <1>2, <1>3 DEF TypeOK

(* The tips of some changes, as a fetch or a push begins with them.        *)
LEMMA CopyingType ==
  ASSUME NEW kinds, NEW kind \in kinds, NEW from, NEW to, NEW tips \in Tips
  PROVE  /\ Copying(kind, from, to, tips) \in CopyJob(kinds, from, to)
         /\ \A c \in DOMAIN tips : tips[c] \in ToSet(Copying(kind, from, to, tips).stack)
<1> DEFINE T == {tips[c] : c \in DOMAIN tips}
<1>1. DOMAIN tips \subseteq Changes /\ T \subseteq Objects
  BY DEF Tips
<1>2. IsFiniteSet(DOMAIN tips)
  BY <1>1, FS_Subset
<1>3. tips \in Surjection(DOMAIN tips, T)
  BY <1>1 DEF Surjection, Tips
<1>4. IsFiniteSet(T)
  BY <1>2, <1>3, FS_Surjection
<1>5. SetToSeq(T) \in Seq(T) /\ ToSet(SetToSeq(T)) = T
  BY <1>4, SequenceOfSet
<1>6. SetToSeq(T) \in Seq(Objects)
  BY <1>1, <1>5
<1> QED BY <1>5, <1>6 DEF Copying, CopyJob, Tips

(* One ref's worth of tips.                                                *)
LEMMA OneTip ==
  ASSUME NEW c \in Changes, NEW o \in Objects
  PROVE  [x \in {c} |-> o] \in Tips
<1>1. [x \in {c} |-> o] \in [{c} -> Objects] /\ {c} \in SUBSET Changes
  OBVIOUS
<1> QED BY <1>1 DEF Tips

LEMMA AdvertisedType ==
  ASSUME NEW r \in [AllRefs -> Objects \cup {None}]
  PROVE  Advertised(r) \in Tips
<1> DEFINE S == {x \in Changes : r[Public(x)] # None}
<1>1. \A c \in S : r[Public(c)] \in Objects
  BY DEF AllRefs, Public
<1>2. [c \in S |-> r[Public(c)]] \in [S -> Objects] /\ S \in SUBSET Changes
  BY <1>1
<1> HIDE DEF S
<1>3. [c \in S |-> r[Public(c)]] \in Tips
  BY <1>2 DEF Tips
<1> QED BY <1>3 DEF Advertised, S

(* Refs take the tips of a job under the names that Name gives them.       *)
LEMMA RefNames ==
  ASSUME NEW c \in Changes
  PROVE  /\ Tip(c) \in AllRefs /\ Public(c) \in AllRefs /\ Tracked(c) \in AllRefs
         /\ Tip(c)[2] = c /\ Public(c)[2] = c /\ Tracked(c)[2] = c
  BY DEF Tip, Public, Tracked, AllRefs

(* A step of a copy leaves a copy.                                         *)
LEMMA PoppedType ==
  ASSUME NEW kinds, NEW from, NEW to, NEW j \in CopyJob(kinds, from, to), j.stack # << >>
  PROVE  /\ Last(j.stack) \in Objects
         /\ Popped(j, Last(j.stack)) \in CopyJob(kinds, from, to)
         /\ Popped(j, Last(j.stack)).kind = j.kind
         /\ Popped(j, Last(j.stack)).to = j.to
         /\ Popped(j, Last(j.stack)).tips = j.tips
         /\ Popped(j, Last(j.stack)).seen = j.seen \cup {Last(j.stack)}
         /\ \A x \in ToSet(Popped(j, Last(j.stack)).stack) :
              x \in ToSet(j.stack) \/ x \in ToSet(Entries[Last(j.stack)])
         /\ Last(j.stack) \in ToSet(j.stack)
         /\ \A x \in ToSet(j.stack) :
              x = Last(j.stack) \/ x \in ToSet(Popped(j, Last(j.stack)).stack)
         /\ Last(j.stack) \notin j.seen =>
              \A x \in ToSet(Entries[Last(j.stack)]) : x \in ToSet(Popped(j, Last(j.stack)).stack)
<1> DEFINE o == Last(j.stack)
<1>1. j.stack \in Seq(Objects) /\ j.seen \in SUBSET Objects
  BY DEF CopyJob
<1>2. << >> \in Seq(Objects)
  OBVIOUS
<1>3. ASSUME NEW more \in Seq(Objects)
      PROVE  /\ o \in Objects
             /\ Front(j.stack) \o more \in Seq(Objects)
             /\ ToSet(Front(j.stack) \o more) = ToSet(Front(j.stack)) \cup ToSet(more)
             /\ ToSet(j.stack) = ToSet(Front(j.stack)) \cup {o}
  BY <1>1, <1>3, PoppedStack
<1>4. o \in Objects /\ ToSet(j.stack) = ToSet(Front(j.stack)) \cup {o}
  BY <1>2, <1>3
<1>5. ASSUME NEW more \in Seq(Objects), Popped(j, o) = [j EXCEPT !.stack = Front(j.stack) \o more, !.seen = j.seen \cup {o}]
      PROVE  /\ Popped(j, o) \in CopyJob(kinds, from, to)
             /\ Popped(j, o).kind = j.kind /\ Popped(j, o).to = j.to /\ Popped(j, o).tips = j.tips
             /\ Popped(j, o).seen = j.seen \cup {o}
             /\ ToSet(Popped(j, o).stack) = ToSet(Front(j.stack)) \cup ToSet(more)
  <2> DEFINE stack == Front(j.stack) \o more
             seen  == j.seen \cup {o}
  <2>1. stack \in Seq(Objects) /\ seen \in SUBSET Objects
        /\ ToSet(stack) = ToSet(Front(j.stack)) \cup ToSet(more)
    BY <1>1, <1>3, <1>4
  <2>2. Popped(j, o) = [j EXCEPT !.stack = stack, !.seen = seen]
    BY <1>5
  <2> HIDE DEF stack, seen
  <2>3. /\ Popped(j, o) \in CopyJob(kinds, from, to)
        /\ Popped(j, o).kind = j.kind /\ Popped(j, o).to = j.to /\ Popped(j, o).tips = j.tips
        /\ Popped(j, o).seen = seen /\ Popped(j, o).stack = stack
    BY <2>1, <2>2 DEF CopyJob
  <2> QED BY <2>1, <2>3 DEF seen
<1>6. CASE o \in j.seen
  <2>1. Popped(j, o) = [j EXCEPT !.stack = Front(j.stack) \o << >>, !.seen = j.seen \cup {o}]
    BY <1>6 DEF Popped
  <2>2. ToSet(<< >>) = {}
    BY DEF ToSet
  <2> QED BY <1>2, <1>4, <1>5, <1>6, <2>1, <2>2
<1>7. CASE o \notin j.seen
  <2>1. Popped(j, o) = [j EXCEPT !.stack = Front(j.stack) \o Entries[o], !.seen = j.seen \cup {o}]
    BY <1>7 DEF Popped
  <2>2. Entries[o] \in Seq(Objects)
    BY <1>4, EntriesAreObjects
  <2> QED BY <1>4, <1>5, <1>7, <2>1, <2>2
<1> QED BY <1>6, <1>7

(* Refs that take the tips of a job still hold objects.                    *)
LEMMA RefsTaken ==
  ASSUME NEW old \in [AllRefs -> Objects \cup {None}], NEW tips \in Tips, NEW new,
         \/ new = [n \in AllRefs |-> IF \E c \in DOMAIN tips : n = Tip(c) THEN tips[n[2]] ELSE old[n]]
         \/ new = [n \in AllRefs |-> IF \E c \in DOMAIN tips : n = Public(c) THEN tips[n[2]] ELSE old[n]]
         \/ new = [n \in AllRefs |-> IF \E c \in DOMAIN tips : n = Tracked(c) THEN tips[n[2]] ELSE old[n]]
  PROVE  new \in [AllRefs -> Objects \cup {None}]
<1>1. \A c \in DOMAIN tips : c \in Changes /\ tips[c] \in Objects
  BY DEF Tips
<1>2. \A c \in DOMAIN tips : Tip(c)[2] = c /\ Public(c)[2] = c /\ Tracked(c)[2] = c
  BY <1>1, RefNames
<1> QED BY <1>1, <1>2

LEMMA NextTypeOK == TypeOK /\ [Next]_vars => TypeOK'
<1> SUFFICES ASSUME TypeOK, [Next]_vars PROVE TypeOK'
  OBVIOUS
<1> DEFINE RefsType == [Repos -> [AllRefs -> Objects \cup {None}]]
           Job == {Idle} \cup SnapshotJob \cup CopyJob({"fetch"}, There, Here)
                    \cup CopyJob({"push", "land"}, Here, There)
           JobsType == [Procs -> Job]
<1>0. Here \in Repos /\ There \in Repos
  BY DEF Repos
<1>1. ASSUME NEW c \in Changes, Land(c) \/ Unland(c) PROVE TypeOK'
  <2>1. Tip(c) \in AllRefs /\ Public(c) \in AllRefs
    BY RefNames
  <2>2. CASE Land(c)
    <3>1. refs[There][Tip(c)] \in Objects
      BY <1>0, <2>1, <2>2 DEF TypeOK, Land
    <3>2. refs' \in RefsType
      BY <1>0, <2>1, <2>2, <3>1 DEF TypeOK, Land
    <3> QED BY <2>2, <3>1, <3>2 DEF TypeOK, Land
  <2>3. CASE Unland(c)
    <3>1. refs' \in RefsType
      BY <1>0, <2>1, <2>3 DEF TypeOK, Unland
    <3> QED BY <2>3, <3>1 DEF TypeOK, Unland
  <2> QED BY <1>1, <2>2, <2>3
<1>2. ASSUME NEW p \in Procs, NEW r \in Repos, NEW c \in Changes, NEW root \in Roots,
             SnapshotStart(p, r, c, root)
      PROVE  TypeOK'
  <2>1. [kind |-> "snapshot", to |-> r, tips |-> [x \in {c} |-> root], left |-> Closure(root)]
          \in SnapshotJob
    BY OneTip, ClosureIsClosed DEF SnapshotJob, Tips
  <2>2. job' \in JobsType
    BY <1>2, <2>1 DEF SnapshotStart, TypeOK
  <2>3. authored' \in [Repos -> SUBSET Objects] /\ moves' \in 0 .. MaxMoves
    BY <1>2 DEF SnapshotStart, TypeOK
  <2> QED BY <1>2, <2>2, <2>3 DEF SnapshotStart, TypeOK
<1>3. ASSUME NEW p \in Procs, NEW o \in Objects, SnapshotObject(p, o) PROVE TypeOK'
  <2>1. job[p] \in SnapshotJob
    BY <1>3, Jobs DEF SnapshotObject
  <2>2. [job[p] EXCEPT !.left = @ \ {o}] \in SnapshotJob /\ job[p].to \in Repos
    BY <2>1 DEF SnapshotJob
  <2>3. job' = [job EXCEPT ![p] = [job[p] EXCEPT !.left = @ \ {o}]]
    BY <1>3 DEF SnapshotObject
  <2>4. job' \in JobsType
    BY <2>2, <2>3 DEF TypeOK
  <2> QED BY <1>3, <2>2, <2>4 DEF SnapshotObject, TypeOK, history
<1>4. ASSUME NEW p \in Procs, SnapshotCommit(p) PROVE TypeOK'
  <2>1. job[p].tips \in Tips /\ job[p].to \in Repos
    BY <1>4, Jobs DEF SnapshotCommit, SnapshotJob, Tips
  <2>2. refs' \in RefsType
    <3> DEFINE new == [n \in AllRefs |-> IF \E c \in DOMAIN job[p].tips : n = Tip(c)
                                        THEN job[p].tips[n[2]] ELSE refs[job[p].to][n]]
    <3>1. refs[job[p].to] \in [AllRefs -> Objects \cup {None}] /\ job[p].to \in Repos
      BY <1>0, <2>1 DEF TypeOK
    <3>2. new = [n \in AllRefs |-> IF \E c \in DOMAIN job[p].tips : n = Tip(c)
                                   THEN job[p].tips[n[2]] ELSE refs[job[p].to][n]]
      OBVIOUS
    <3> HIDE DEF new
    <3>3. new \in [AllRefs -> Objects \cup {None}]
      BY <2>1, <3>1, <3>2, RefsTaken
    <3>4. refs' = [refs EXCEPT ![job[p].to] = new]
      BY <1>4 DEF SnapshotCommit, new
    <3> QED BY <3>1, <3>3, <3>4 DEF TypeOK
  <2> QED BY <1>4, <2>2 DEF SnapshotCommit, TypeOK, history
<1>5. ASSUME NEW p \in Procs, FetchStart(p) PROVE TypeOK'
  <2>1. refs[There] \in [AllRefs -> Objects \cup {None}]
    BY <1>0 DEF TypeOK
  <2>2. Copying("fetch", There, Here, Advertised(refs[There])) \in CopyJob({"fetch"}, There, Here)
    BY <2>1, AdvertisedType, CopyingType
  <2>3. job' \in JobsType
    BY <1>5, <2>2 DEF FetchStart, TypeOK
  <2> QED BY <1>5, <2>3 DEF FetchStart, TypeOK, history
<1>6. ASSUME NEW p \in Procs, NEW c \in Changes, PushStart(p, c) PROVE TypeOK'
  <2>1. refs[Here][Tip(c)] \in Objects
    BY <1>0, <1>6, RefNames DEF PushStart, TypeOK
  <2>2. [x \in {c} |-> refs[Here][Tip(x)]] = [x \in {c} |-> refs[Here][Tip(c)]]
    OBVIOUS
  <2>3. Copying("push", Here, There, [x \in {c} |-> refs[Here][Tip(x)]])
          \in CopyJob({"push", "land"}, Here, There)
    BY <2>1, <2>2, OneTip, CopyingType
  <2>4. job' \in JobsType
    BY <1>6, <2>3 DEF PushStart, TypeOK
  <2>5. moves' \in 0 .. MaxMoves
    BY <1>6 DEF PushStart, TypeOK
  <2> QED BY <1>6, <2>4, <2>5 DEF PushStart, TypeOK
<1>7. ASSUME NEW p \in Procs, Copy(p) PROVE TypeOK'
  <2> DEFINE j == job[p]
  <2>1. j \in CopyJob({"fetch"}, There, Here) \/ j \in CopyJob({"push", "land"}, Here, There)
    BY <1>7, Jobs DEF Copy
  <2>2. j.to \in Repos /\ j.stack # << >>
    BY <1>0, <1>7, <2>1 DEF CopyJob, Copy
  <2>3. /\ Top(p) \in Objects
        /\ \/ Popped(j, Top(p)) \in CopyJob({"fetch"}, There, Here)
           \/ Popped(j, Top(p)) \in CopyJob({"push", "land"}, Here, There)
    BY <2>1, <2>2, PoppedType DEF Top
  <2>4. job' \in JobsType
    BY <1>7, <2>3 DEF Copy, TypeOK
  <2> QED BY <1>7, <2>2, <2>3, <2>4 DEF Copy, TypeOK, history
<1>8. ASSUME NEW p \in Procs, FetchCommit(p) PROVE TypeOK'
  <2>1. job[p].tips \in Tips
    BY <1>8, Jobs DEF FetchCommit, CopyJob, Tips
  <2>2. refs' \in RefsType
    <3> DEFINE new == [n \in AllRefs |-> IF \E c \in DOMAIN job[p].tips : n = Tracked(c)
                                        THEN job[p].tips[n[2]] ELSE refs[Here][n]]
    <3>1. refs[Here] \in [AllRefs -> Objects \cup {None}] /\ Here \in Repos
      BY <1>0, <2>1 DEF TypeOK
    <3>2. new = [n \in AllRefs |-> IF \E c \in DOMAIN job[p].tips : n = Tracked(c)
                                   THEN job[p].tips[n[2]] ELSE refs[Here][n]]
      OBVIOUS
    <3> HIDE DEF new
    <3>3. new \in [AllRefs -> Objects \cup {None}]
      BY <2>1, <3>1, <3>2, RefsTaken
    <3>4. refs' = [refs EXCEPT ![Here] = new]
      BY <1>8 DEF FetchCommit, new
    <3> QED BY <3>1, <3>3, <3>4 DEF TypeOK
  <2> QED BY <1>8, <2>2 DEF FetchCommit, TypeOK, history
<1>9. ASSUME NEW p \in Procs, PushRecord(p) PROVE TypeOK'
  <2>1. job[p] \in CopyJob({"push", "land"}, Here, There) /\ job[p].tips \in Tips
    BY <1>9, Jobs DEF PushRecord, CopyJob, Tips
  <2>2. refs' \in RefsType
    <3> DEFINE new == [n \in AllRefs |-> IF \E c \in DOMAIN job[p].tips : n = Tip(c)
                                        THEN job[p].tips[n[2]] ELSE refs[There][n]]
    <3>1. refs[There] \in [AllRefs -> Objects \cup {None}] /\ There \in Repos
      BY <1>0, <2>1 DEF TypeOK
    <3>2. new = [n \in AllRefs |-> IF \E c \in DOMAIN job[p].tips : n = Tip(c)
                                   THEN job[p].tips[n[2]] ELSE refs[There][n]]
      OBVIOUS
    <3> HIDE DEF new
    <3>3. new \in [AllRefs -> Objects \cup {None}]
      BY <2>1, <3>1, <3>2, RefsTaken
    <3>4. refs' = [refs EXCEPT ![There] = new]
      BY <1>9 DEF PushRecord, new
    <3> QED BY <3>1, <3>3, <3>4 DEF TypeOK
  <2>3. [job[p] EXCEPT !.kind = "land"] \in CopyJob({"push", "land"}, Here, There)
    BY <2>1 DEF CopyJob
  <2>4. job' = [job EXCEPT ![p] = [job[p] EXCEPT !.kind = "land"]]
    BY <1>9 DEF PushRecord
  <2>5. job' \in JobsType
    BY <2>3, <2>4 DEF TypeOK
  <2> QED BY <1>9, <2>2, <2>5 DEF PushRecord, TypeOK, history
<1>10. ASSUME NEW p \in Procs, PushLand(p) PROVE TypeOK'
  <2>1. job[p].tips \in Tips
    BY <1>10, Jobs DEF PushLand, CopyJob, Tips
  <2>2. refs' \in RefsType
    <3> DEFINE new == [n \in AllRefs |-> IF \E c \in DOMAIN job[p].tips : n = Public(c)
                                        THEN job[p].tips[n[2]] ELSE refs[There][n]]
    <3>1. refs[There] \in [AllRefs -> Objects \cup {None}] /\ There \in Repos
      BY <1>0, <2>1 DEF TypeOK
    <3>2. new = [n \in AllRefs |-> IF \E c \in DOMAIN job[p].tips : n = Public(c)
                                   THEN job[p].tips[n[2]] ELSE refs[There][n]]
      OBVIOUS
    <3> HIDE DEF new
    <3>3. new \in [AllRefs -> Objects \cup {None}]
      BY <2>1, <3>1, <3>2, RefsTaken
    <3>4. refs' = [refs EXCEPT ![There] = new]
      BY <1>10 DEF PushLand, new
    <3> QED BY <3>1, <3>3, <3>4 DEF TypeOK
  <2>3. {job[p].tips[c] : c \in DOMAIN job[p].tips} \subseteq Objects
    BY <2>1 DEF Tips
  <2> QED BY <1>10, <2>2, <2>3 DEF PushLand, TypeOK
<1>11. ASSUME NEW p \in Procs, CutShort(p) PROVE TypeOK'
  BY <1>11 DEF CutShort, TypeOK, history
<1>12. CASE UNCHANGED vars
  BY <1>12 DEF vars, TypeOK
<1> QED
  BY <1>1, <1>2, <1>3, <1>4, <1>5, <1>6, <1>7, <1>8, <1>9, <1>10, <1>11, <1>12
     DEF Next, Work

LEMMA InitTypeOK == Init => TypeOK
  BY DEF Init, TypeOK

(* Every variable keeps its type: a copy only ever holds ids of objects,   *)
(* and the refs it moves name objects.                                     *)
THEOREM TypeCorrect == Spec => []TypeOK
  BY InitTypeOK, NextTypeOK, PTL DEF Spec

-----------------------------------------------------------------------------
(* The inductive invariant: how far each command has got, and what it may  *)
(* count on.  What a walk has seen is written, and what that needs is seen *)
(* or still on the stack, whatever was in the store before; a snapshot has *)
(* written all but what is left of its tree; a push that is about to land  *)
(* has everything there.                                                   *)

Walked(j) ==
  /\ j.seen \subseteq store[j.to]
  /\ \A o \in j.seen : ToSet(Entries[o]) \subseteq j.seen \cup ToSet(j.stack)
  /\ \A c \in DOMAIN j.tips : j.tips[c] \in j.seen \cup ToSet(j.stack)

Written(j) == \A c \in DOMAIN j.tips : Closure(j.tips[c]) \ j.left \subseteq store[j.to]

JobSound(p) ==
  /\ job[p].kind \in {"fetch", "push"} => Walked(job[p])
  /\ job[p].kind = "snapshot" => Written(job[p])
  /\ job[p].kind = "land" => \A c \in DOMAIN job[p].tips : Complete(There, job[p].tips[c])

IInv == RefsComplete /\ \A p \in Procs : JobSound(p)

(* Stores only grow, so what was complete stays complete.                  *)
LEMMA StaysComplete ==
  ASSUME NEW r \in Repos, store[r] \subseteq store'[r], NEW o, Complete(r, o)
  PROVE  Complete(r, o)'
  BY DEF Complete, Closed

(* A walk that is over has brought everything.                             *)
LEMMA WalkOver ==
  ASSUME NEW j, Walked(j), j.stack = << >>, NEW c \in DOMAIN j.tips
  PROVE  Complete(j.to, j.tips[c])
<1>1. ToSet(j.stack) = {}
  BY DEF ToSet
<1>2. j.seen \in SUBSET store[j.to] /\ j.tips[c] \in j.seen /\ Closed(j.seen)
  BY <1>1 DEF Walked, Closed
<1> QED BY <1>2 DEF Complete

(* So has a snapshot with nothing left.                                    *)
LEMMA SnapshotOver ==
  ASSUME NEW j \in SnapshotJob, Written(j), j.left = {}, NEW c \in DOMAIN j.tips
  PROVE  Complete(j.to, j.tips[c])
<1> DEFINE o == j.tips[c]
<1>1. o \in Objects
  BY DEF SnapshotJob
<1>2. Closure(o) \in SUBSET store[j.to]
  BY DEF Written
<1> QED BY <1>1, <1>2, ClosureIsClosed DEF Complete

(* Refs that take complete tips are complete, beside those they were.      *)
LEMMA RefsStayComplete ==
  ASSUME TypeOK, RefsComplete, NEW r \in Repos, NEW new,
         refs' = [refs EXCEPT ![r] = new],
         \A q \in Repos : store[q] \subseteq store'[q],
         \A n \in AllRefs : new[n] \in {None, refs[r][n]} \/ Complete(r, new[n])
  PROVE  RefsComplete'
<1>1. ASSUME NEW q \in Repos, NEW n \in AllRefs, NEW o, o = refs'[q][n], o # None
      PROVE  \E S \in SUBSET store'[q] : o \in S /\ Closed(S)
  <2>1. CASE o = refs[q][n]
    <3>1. Complete(q, o)
      BY <1>1, <2>1 DEF RefsComplete
    <3> QED BY <3>1 DEF Complete
  <2>2. CASE q = r /\ Complete(r, new[n])
    <3>1. Complete(q, o)
      BY <1>1, <2>2 DEF TypeOK
    <3> QED BY <3>1 DEF Complete
  <2>3. o = refs[q][n] \/ (q = r /\ Complete(r, new[n]))
    BY <1>1 DEF TypeOK
  <2> QED BY <2>1, <2>2, <2>3
<1> QED BY <1>1 DEF RefsComplete, Complete, Closed

(* What a command counts on, others' writes leave in place.                *)
LEMMA OthersJobs ==
  ASSUME TypeOK, NEW q \in Procs, JobSound(q), job'[q] = job[q],
         \A r \in Repos : store[r] \subseteq store'[r]
  PROVE  JobSound(q)'
<1>0. Here \in Repos /\ There \in Repos
  BY DEF Repos
<1>1. job[q].kind \in {"fetch", "push", "snapshot"} => job[q].to \in Repos
  BY <1>0, Jobs DEF CopyJob, SnapshotJob
<1>2. job[q].kind \in {"fetch", "push"} => Walked(job[q])'
  BY <1>1 DEF JobSound, Walked
<1>3. job[q].kind = "snapshot" => Written(job[q])'
  BY <1>1 DEF JobSound, Written, Closure, Closed
<1>4. job[q].kind = "land" => \A c \in DOMAIN job[q].tips : Complete(There, job[q].tips[c])'
  BY <1>0, StaysComplete DEF JobSound
<1> QED BY <1>2, <1>3, <1>4 DEF JobSound

(* No command takes an object away.                                        *)
LEMMA StoresGrow == TypeOK /\ [Next]_vars => \A r \in Repos : store[r] \subseteq store'[r]
<1> SUFFICES ASSUME TypeOK, [Next]_vars, NEW r \in Repos PROVE store[r] \subseteq store'[r]
  OBVIOUS
<1>1. ASSUME NEW S, NEW q, store' = [store EXCEPT ![q] = @ \cup S]
      PROVE  store[r] \subseteq store'[r]
  BY <1>1 DEF TypeOK
<1>2. ASSUME NEW p \in Procs, Copy(p) PROVE store[r] \subseteq store'[r]
  BY <1>1, <1>2 DEF Copy
<1>3. ASSUME NEW p \in Procs, NEW o \in Objects, SnapshotObject(p, o)
      PROVE  store[r] \subseteq store'[r]
  BY <1>1, <1>3 DEF SnapshotObject
<1> QED
  BY <1>2, <1>3 DEF Next, Work, Land, Unland, SnapshotStart, SnapshotCommit, FetchStart,
                    PushStart, FetchCommit, PushRecord, PushLand, CutShort, vars

LEMMA NextRefsComplete == TypeOK /\ IInv /\ [Next]_vars => RefsComplete'
<1> SUFFICES ASSUME TypeOK, IInv, [Next]_vars PROVE RefsComplete'
  OBVIOUS
<1> USE DEF IInv
<1>0. Here \in Repos /\ There \in Repos
  BY DEF Repos
<1>g. \A r \in Repos : store[r] \subseteq store'[r]
  BY StoresGrow
<1>1. ASSUME refs' = refs PROVE RefsComplete'
  <2>1. refs' = [refs EXCEPT ![Here] = refs[Here]]
    BY <1>0, <1>1 DEF TypeOK
  <2> QED BY <1>0, <1>g, <2>1, RefsStayComplete
<1>2. ASSUME NEW c \in Changes, Land(c) \/ Unland(c) PROVE RefsComplete'
  <2>1. PICK o \in {None, refs[There][Tip(c)]} :
          refs' = [refs EXCEPT ![There] = [refs[There] EXCEPT ![Public(c)] = o]]
    BY <1>2 DEF Land, Unland
  <2> DEFINE new == [refs[There] EXCEPT ![Public(c)] = o]
  <2>2. Tip(c) \in AllRefs /\ refs[There] \in [AllRefs -> Objects \cup {None}]
    BY <1>0, RefNames DEF TypeOK
  <2>3. o = None \/ Complete(There, o)
    BY <1>0, <2>1, <2>2 DEF RefsComplete
  <2>4. \A n \in AllRefs : new[n] \in {None, refs[There][n]} \/ Complete(There, new[n])
    BY <2>2, <2>3
  <2> HIDE DEF new
  <2> QED BY <1>0, <1>g, <2>1, <2>4, RefsStayComplete DEF new
<1>3. ASSUME NEW p \in Procs, SnapshotCommit(p) PROVE RefsComplete'
  <2> DEFINE new == [n \in AllRefs |-> IF \E c \in DOMAIN job[p].tips : n = Tip(c)
                                      THEN job[p].tips[n[2]] ELSE refs[job[p].to][n]]
  <2>1. job[p].to \in Repos /\ job[p].tips \in Tips
    BY <1>0, <1>3, Jobs DEF SnapshotCommit, CopyJob, SnapshotJob, Tips
  <2>2. \A c \in DOMAIN job[p].tips : Complete(job[p].to, job[p].tips[c])
    BY <1>3, Jobs, SnapshotOver DEF SnapshotCommit, JobSound
  <2>3. \A c \in DOMAIN job[p].tips : Tip(c)[2] = c
    BY <2>1, RefNames DEF Tips
  <2>4. \A n \in AllRefs : new[n] \in {None, refs[job[p].to][n]} \/ Complete(job[p].to, new[n])
    BY <2>2, <2>3
  <2>5. refs' = [refs EXCEPT ![job[p].to] = new]
    BY <1>3 DEF SnapshotCommit
  <2> HIDE DEF new
  <2> QED BY <1>g, <2>1, <2>4, <2>5, RefsStayComplete
<1>4. ASSUME NEW p \in Procs, FetchCommit(p) PROVE RefsComplete'
  <2> DEFINE new == [n \in AllRefs |-> IF \E c \in DOMAIN job[p].tips : n = Tracked(c)
                                      THEN job[p].tips[n[2]] ELSE refs[Here][n]]
  <2>1. Here \in Repos /\ job[p].tips \in Tips
    BY <1>0, <1>4, Jobs DEF FetchCommit, CopyJob, SnapshotJob, Tips
  <2>2. \A c \in DOMAIN job[p].tips : Complete(Here, job[p].tips[c])
    BY <1>4, Jobs, WalkOver DEF FetchCommit, JobSound, CopyJob
  <2>3. \A c \in DOMAIN job[p].tips : Tracked(c)[2] = c
    BY <2>1, RefNames DEF Tips
  <2>4. \A n \in AllRefs : new[n] \in {None, refs[Here][n]} \/ Complete(Here, new[n])
    BY <2>2, <2>3
  <2>5. refs' = [refs EXCEPT ![Here] = new]
    BY <1>4 DEF FetchCommit
  <2> HIDE DEF new
  <2> QED BY <1>g, <2>1, <2>4, <2>5, RefsStayComplete
<1>5. ASSUME NEW p \in Procs, PushRecord(p) PROVE RefsComplete'
  <2> DEFINE new == [n \in AllRefs |-> IF \E c \in DOMAIN job[p].tips : n = Tip(c)
                                      THEN job[p].tips[n[2]] ELSE refs[There][n]]
  <2>1. There \in Repos /\ job[p].tips \in Tips
    BY <1>0, <1>5, Jobs DEF PushRecord, CopyJob, SnapshotJob, Tips
  <2>2. \A c \in DOMAIN job[p].tips : Complete(There, job[p].tips[c])
    BY <1>5, Jobs, WalkOver DEF PushRecord, JobSound, CopyJob
  <2>3. \A c \in DOMAIN job[p].tips : Tip(c)[2] = c
    BY <2>1, RefNames DEF Tips
  <2>4. \A n \in AllRefs : new[n] \in {None, refs[There][n]} \/ Complete(There, new[n])
    BY <2>2, <2>3
  <2>5. refs' = [refs EXCEPT ![There] = new]
    BY <1>5 DEF PushRecord
  <2> HIDE DEF new
  <2> QED BY <1>g, <2>1, <2>4, <2>5, RefsStayComplete
<1>6. ASSUME NEW p \in Procs, PushLand(p) PROVE RefsComplete'
  <2> DEFINE new == [n \in AllRefs |-> IF \E c \in DOMAIN job[p].tips : n = Public(c)
                                      THEN job[p].tips[n[2]] ELSE refs[There][n]]
  <2>1. There \in Repos /\ job[p].tips \in Tips
    BY <1>0, <1>6, Jobs DEF PushLand, CopyJob, SnapshotJob, Tips
  <2>2. \A c \in DOMAIN job[p].tips : Complete(There, job[p].tips[c])
    BY <1>6 DEF PushLand, JobSound
  <2>3. \A c \in DOMAIN job[p].tips : Public(c)[2] = c
    BY <2>1, RefNames DEF Tips
  <2>4. \A n \in AllRefs : new[n] \in {None, refs[There][n]} \/ Complete(There, new[n])
    BY <2>2, <2>3
  <2>5. refs' = [refs EXCEPT ![There] = new]
    BY <1>6 DEF PushLand
  <2> HIDE DEF new
  <2> QED BY <1>g, <2>1, <2>4, <2>5, RefsStayComplete
<1> QED
  BY <1>1, <1>2, <1>3, <1>4, <1>5, <1>6
     DEF Next, Work, SnapshotStart, SnapshotObject, FetchStart, PushStart, Copy, CutShort, vars

LEMMA NextJobs == TypeOK /\ IInv /\ [Next]_vars => \A q \in Procs : JobSound(q)'
<1> SUFFICES ASSUME TypeOK, IInv, [Next]_vars, NEW q \in Procs PROVE JobSound(q)'
  OBVIOUS
<1> USE DEF IInv
<1>0. Here \in Repos /\ There \in Repos /\ JobSound(q)
  BY DEF Repos
<1>g. \A r \in Repos : store[r] \subseteq store'[r]
  BY StoresGrow
<1>1. CASE job'[q] = job[q]
  BY <1>0, <1>1, <1>g, OthersJobs
<1>2. CASE job'[q] = Idle
  BY <1>2 DEF JobSound, Idle
<1>3. ASSUME NEW r \in Repos, NEW c \in Changes, NEW root \in Roots, SnapshotStart(q, r, c, root)
      PROVE  JobSound(q)'
  <2>1. job'[q] = [kind |-> "snapshot", to |-> r, tips |-> [x \in {c} |-> root],
                   left |-> Closure(root)]
    BY <1>3 DEF SnapshotStart, TypeOK
  <2>2. job'[q].tips = [x \in {c} |-> root] /\ job'[q].left = Closure(root)
        /\ job'[q].kind = "snapshot"
    BY <2>1
  <2>3. \A x \in DOMAIN job'[q].tips : Closure(job'[q].tips[x]) \ job'[q].left = {}
    BY <2>2
  <2>4. Written(job[q])'
    BY <2>3 DEF Written, Closure, Closed
  <2> QED BY <2>2, <2>4 DEF JobSound
<1>4. ASSUME NEW o \in Objects, SnapshotObject(q, o) PROVE JobSound(q)'
  <2>1. job[q] \in SnapshotJob /\ Written(job[q])
    BY <1>0, <1>4, Jobs DEF SnapshotObject, JobSound
  <2>2. job'[q] = [job[q] EXCEPT !.left = @ \ {o}]
    BY <1>4 DEF SnapshotObject, TypeOK
  <2>3. /\ job'[q].left = job[q].left \ {o} /\ job'[q].tips = job[q].tips
        /\ job'[q].to = job[q].to /\ job'[q].kind = "snapshot" /\ job[q].to \in Repos
    BY <2>1, <2>2 DEF SnapshotJob
  <2>4. store'[job[q].to] = store[job[q].to] \cup {o}
    BY <1>4, <2>3 DEF SnapshotObject, TypeOK
  <2>5. \A c \in DOMAIN job[q].tips :
          Closure(job[q].tips[c]) \ (job[q].left \ {o}) \subseteq store'[job[q].to]
    BY <2>1, <2>4 DEF Written
  <2>6. Written(job[q])'
    BY <2>3, <2>5 DEF Written, Closure, Closed
  <2> QED BY <2>3, <2>6 DEF JobSound
<1>5. ASSUME NEW kind \in {"fetch", "push"}, NEW from, NEW to, NEW tips \in Tips,
             job'[q] = Copying(kind, from, to, tips)
      PROVE  JobSound(q)'
  <2>1. \A c \in DOMAIN tips : tips[c] \in ToSet(Copying(kind, from, to, tips).stack)
    BY CopyingType
  <2>2. job'[q].seen = {} /\ job'[q].tips = tips /\ job'[q].kind = kind
    BY <1>5 DEF Copying
  <2>3. Walked(job[q])'
    BY <1>5, <2>1, <2>2 DEF Walked
  <2> QED BY <2>2, <2>3 DEF JobSound
<1>6. CASE FetchStart(q)
  <2>1. Advertised(refs[There]) \in Tips
    BY <1>0, AdvertisedType DEF TypeOK
  <2>2. job'[q] = Copying("fetch", There, Here, Advertised(refs[There]))
    BY <1>6 DEF FetchStart, TypeOK
  <2> QED BY <1>5, <2>1, <2>2
<1>7. ASSUME NEW c \in Changes, PushStart(q, c) PROVE JobSound(q)'
  <2>1. refs[Here][Tip(c)] \in Objects
    BY <1>0, <1>7, RefNames DEF PushStart, TypeOK
  <2>2. [x \in {c} |-> refs[Here][Tip(x)]] = [x \in {c} |-> refs[Here][Tip(c)]]
    OBVIOUS
  <2>3. [x \in {c} |-> refs[Here][Tip(x)]] \in Tips
    BY <2>1, <2>2, OneTip
  <2>4. job'[q] = Copying("push", Here, There, [x \in {c} |-> refs[Here][Tip(x)]])
    BY <1>7 DEF PushStart, TypeOK
  <2> QED BY <1>5, <2>3, <2>4
<1>8. CASE Copy(q)
  <2> DEFINE now  == job[q]
             top  == Last(job[q].stack)
             next == Popped(now, top)
  <2>1. now \in CopyJob({"fetch"}, There, Here) \/ now \in CopyJob({"push", "land"}, Here, There)
    BY <1>8, Jobs DEF Copy
  <2>2. now.to \in Repos /\ now.stack # << >> /\ Walked(now) /\ now.kind \in {"fetch", "push"}
    BY <1>0, <1>8, <2>1 DEF CopyJob, Copy, JobSound
  <2>3. job'[q] = next
    BY <1>8 DEF Copy, Top, TypeOK
  <2>4. /\ next.kind = now.kind /\ next.to = now.to /\ next.tips = now.tips
        /\ next.seen = now.seen \cup {top}
        /\ \A x \in ToSet(now.stack) : x = top \/ x \in ToSet(next.stack)
        /\ top \notin now.seen => \A x \in ToSet(Entries[top]) : x \in ToSet(next.stack)
    <3>1. PICK kinds, from, to : now \in CopyJob(kinds, from, to)
      BY <2>1
    <3>2. now.stack # << >>
      BY <2>2
    <3>3. next.kind = now.kind /\ next.to = now.to /\ next.tips = now.tips
      BY <3>1, <3>2, PoppedType
    <3>4. next.seen = now.seen \cup {top}
      BY <3>1, <3>2, PoppedType
    <3>5. \A x \in ToSet(now.stack) : x = top \/ x \in ToSet(next.stack)
      BY <3>1, <3>2, PoppedType
    <3>6. top \notin now.seen => \A x \in ToSet(Entries[top]) : x \in ToSet(next.stack)
      BY <3>1, <3>2, PoppedType
    <3> QED BY <3>3, <3>4, <3>5, <3>6
  <2>5. store'[now.to] = store[now.to] \cup {top}
    BY <1>8, <2>2 DEF Copy, Top, TypeOK
  <2> HIDE DEF now, top, next
  <2>6. next.seen \subseteq store'[next.to]
    BY <2>2, <2>4, <2>5 DEF Walked
  <2>7. \A x \in next.seen : ToSet(Entries[x]) \subseteq next.seen \cup ToSet(next.stack)
    BY <2>2, <2>4 DEF Walked
  <2>8. \A c \in DOMAIN next.tips : next.tips[c] \in next.seen \cup ToSet(next.stack)
    BY <2>2, <2>4 DEF Walked
  <2>9. Walked(job[q])'
    BY <2>3, <2>6, <2>7, <2>8 DEF Walked
  <2> QED BY <2>2, <2>3, <2>4, <2>9 DEF JobSound, now
<1>9. CASE PushRecord(q)
  <2>1. job[q] \in CopyJob({"push", "land"}, Here, There) /\ Walked(job[q])
    BY <1>0, <1>9, Jobs DEF PushRecord, JobSound
  <2>2. \A c \in DOMAIN job[q].tips : Complete(There, job[q].tips[c])
    BY <1>9, <2>1, WalkOver DEF PushRecord, CopyJob
  <2>3. job'[q].kind = "land" /\ job'[q].tips = job[q].tips
    BY <1>9, <2>1 DEF PushRecord, TypeOK, CopyJob
  <2>4. ASSUME NEW c \in DOMAIN job[q].tips, NEW o, o = job[q].tips[c]
        PROVE  \E S \in SUBSET store'[There] : o \in S /\ Closed(S)
    <3>1. Complete(There, o)
      BY <2>2, <2>4
    <3> QED BY <1>0, <1>g, <3>1 DEF Complete
  <2> QED BY <2>3, <2>4 DEF JobSound, Complete, Closed
<1>10. ASSUME NEW p \in Procs,
              \/ \E r \in Repos, c \in Changes, root \in Roots : SnapshotStart(p, r, c, root)
              \/ \E c \in Changes : PushStart(p, c)
              \/ FetchStart(p) \/ Work(p) \/ CutShort(p)
       PROVE  JobSound(q)'
  <2>1. CASE p # q
    <3>1. job'[q] = job[q]
      BY <1>10, <2>1 DEF SnapshotStart, PushStart, FetchStart, Work, CutShort, SnapshotObject,
                         SnapshotCommit, Copy, FetchCommit, PushRecord, PushLand, TypeOK
    <3> QED BY <1>1, <3>1
  <2>2. CASE p = q
    <3>1. SnapshotCommit(q) \/ FetchCommit(q) \/ PushLand(q) \/ CutShort(q) => job'[q] = Idle
      BY DEF SnapshotCommit, FetchCommit, PushLand, CutShort, TypeOK
    <3> QED BY <1>2, <1>3, <1>4, <1>6, <1>7, <1>8, <1>9, <1>10, <2>2, <3>1 DEF Work
  <2> QED BY <2>1, <2>2
<1>11. ASSUME NEW c \in Changes, Land(c) \/ Unland(c) PROVE JobSound(q)'
  BY <1>1, <1>11 DEF Land, Unland
<1>12. CASE UNCHANGED vars
  BY <1>1, <1>12 DEF vars
<1> QED BY <1>10, <1>11, <1>12 DEF Next

LEMMA InitIInv == Init => IInv
  BY DEF Init, IInv, RefsComplete, JobSound, Idle

(* Whatever is cut short and run again, and whoever else copies at the     *)
(* same time, a ref names a tree that is in its store with everything it   *)
(* needs.                                                                  *)
THEOREM NothingDangles == Spec => []RefsComplete
<1>1. TypeOK /\ IInv /\ [Next]_vars => IInv'
  BY NextRefsComplete, NextJobs DEF IInv
<1>2. IInv => RefsComplete
  BY DEF IInv
<1> QED BY <1>1, <1>2, InitIInv, TypeCorrect, PTL DEF Spec

-----------------------------------------------------------------------------
(* What may be in the store of the repository: what a landed tree needs,   *)
(* or what was snapshotted in it.                                          *)

Landed  == UNION {Closure(o) : o \in published}
Allowed == UNION {Closure(o) : o \in published \cup authored[Here]}

JobAllowed(p) ==
  /\ job[p].kind = "fetch" => ToSet(job[p].stack) \subseteq Landed
  /\ job[p].kind = "snapshot" /\ job[p].to = Here => job[p].left \subseteq Allowed

PublicIsLanded == \A c \in Changes : refs[There][Public(c)] \in published \cup {None}

TInv == OnlyPublicTravels /\ PublicIsLanded /\ \A p \in Procs : JobAllowed(p)

(* What was allowed stays allowed.                                         *)
LEMMA HistoryGrows ==
  TypeOK /\ [Next]_vars => /\ published \subseteq published'
                           /\ authored[Here] \subseteq authored'[Here]
                           /\ Landed \subseteq Landed' /\ Allowed \subseteq Allowed'
<1> SUFFICES ASSUME TypeOK, [Next]_vars
             PROVE  /\ published \subseteq published'
                    /\ authored[Here] \subseteq authored'[Here]
                    /\ Landed \subseteq Landed' /\ Allowed \subseteq Allowed'
  OBVIOUS
<1>1. published \subseteq published'
  BY DEF Next, Work, Land, Unland, SnapshotStart, SnapshotObject, SnapshotCommit, FetchStart,
         PushStart, Copy, FetchCommit, PushRecord, PushLand, CutShort, vars, history
<1>2. ASSUME NEW p \in Procs, NEW r \in Repos, NEW c \in Changes, NEW root \in Roots,
             SnapshotStart(p, r, c, root)
      PROVE  authored[Here] \subseteq authored'[Here]
  BY <1>2 DEF SnapshotStart, TypeOK, Repos
<1>3. authored[Here] \subseteq authored'[Here]
  BY <1>2 DEF Next, Work, Land, Unland, SnapshotObject, SnapshotCommit, FetchStart,
              PushStart, Copy, FetchCommit, PushRecord, PushLand, CutShort, vars, history
<1>4. Landed \subseteq Landed' /\ Allowed \subseteq Allowed'
  BY <1>1, <1>3 DEF Landed, Allowed
<1> QED BY <1>1, <1>3, <1>4

(* A landed tree's objects need only objects of landed trees.              *)
LEMMA LandedIsClosed ==
  ASSUME TypeOK
  PROVE  /\ Closed(Landed) /\ published \subseteq Landed /\ Landed \subseteq Allowed
         /\ Allowed = UNION {Closure(o) : o \in published \cup authored[Here]}
<1>1. published \subseteq Objects
  BY DEF TypeOK
<1>2. \A o \in published : o \in Closure(o) /\ Closed(Closure(o))
  BY <1>1, ClosureIsClosed
<1>3. Closed(Landed) /\ published \subseteq Landed
  BY <1>2 DEF Landed, Closed
<1> QED BY <1>3 DEF Landed, Allowed

LEMMA NextPublicIsLanded == TypeOK /\ TInv /\ [Next]_vars => PublicIsLanded'
<1> SUFFICES ASSUME TypeOK, TInv, [Next]_vars, NEW d \in Changes
             PROVE  refs'[There][Public(d)] \in published' \cup {None}
  BY DEF PublicIsLanded
<1>0. /\ refs[There][Public(d)] \in published' \cup {None}
      /\ There \in Repos /\ Here \in Repos /\ Public(d) \in AllRefs
  BY HistoryGrows, RefNames DEF TInv, PublicIsLanded, Repos
<1>1. \A c \in Changes : Public(d) # Tip(c) /\ Public(d) # Tracked(c)
  BY DEF Public, Tip, Tracked
<1>2. ASSUME NEW c \in Changes, Land(c) \/ Unland(c)
      PROVE  refs'[There][Public(d)] \in published' \cup {None}
  <2>1. CASE Land(c)
    <3>1. refs'[There][Public(d)] \in {refs[There][Tip(c)], refs[There][Public(d)]}
      BY <1>0, <2>1 DEF Land, TypeOK
    <3>2. refs[There][Tip(c)] \in published'
      BY <2>1 DEF Land
    <3> QED BY <1>0, <3>1, <3>2
  <2>2. CASE Unland(c)
    <3>1. refs'[There][Public(d)] \in {None, refs[There][Public(d)]}
      BY <1>0, <2>2 DEF Unland, TypeOK
    <3> QED BY <1>0, <3>1
  <2> QED BY <1>2, <2>1, <2>2
<1>3. ASSUME NEW p \in Procs, SnapshotCommit(p) \/ FetchCommit(p) \/ PushRecord(p)
      PROVE  refs'[There][Public(d)] = refs[There][Public(d)]
  <2>1. DOMAIN job[p].tips \subseteq Changes
    BY <1>3, Jobs DEF SnapshotCommit, FetchCommit, PushRecord, CopyJob, SnapshotJob
  <2>2. \A c \in DOMAIN job[p].tips : Public(d) # Tip(c) /\ Public(d) # Tracked(c)
    BY <1>1, <2>1
  <2>3. CASE SnapshotCommit(p)
    BY <1>0, <2>2, <2>3 DEF SnapshotCommit, TypeOK
  <2>4. CASE FetchCommit(p)
    BY <1>0, <2>2, <2>4 DEF FetchCommit, TypeOK
  <2>5. CASE PushRecord(p)
    BY <1>0, <2>2, <2>5 DEF PushRecord, TypeOK
  <2> QED BY <1>3, <2>3, <2>4, <2>5
<1>4. ASSUME NEW p \in Procs, PushLand(p)
      PROVE  refs'[There][Public(d)] \in published' \cup {None}
  <2>1. DOMAIN job[p].tips \subseteq Changes
    BY <1>4, Jobs DEF PushLand, CopyJob
  <2>2. \A c \in DOMAIN job[p].tips : Public(c)[2] = c
    BY <2>1, RefNames
  <2>3. \A c \in DOMAIN job[p].tips : job[p].tips[c] \in published'
    BY <1>4 DEF PushLand
  <2>4. refs'[There][Public(d)]
          = IF \E c \in DOMAIN job[p].tips : Public(d) = Public(c)
            THEN job[p].tips[Public(d)[2]] ELSE refs[There][Public(d)]
    BY <1>0, <1>4 DEF PushLand, TypeOK
  <2> QED BY <1>0, <2>2, <2>3, <2>4
<1>5. CASE refs' = refs
  BY <1>0, <1>5
<1> QED
  BY <1>0, <1>2, <1>3, <1>4, <1>5
     DEF Next, Work, SnapshotStart, SnapshotObject, FetchStart, PushStart, Copy, CutShort, vars

(* The stack a fetch begins with holds the landed tips.                    *)
LEMMA StackOfTips ==
  ASSUME NEW kind, NEW from, NEW to, NEW tips \in Tips, NEW S, \A c \in DOMAIN tips : tips[c] \in S
  PROVE  ToSet(Copying(kind, from, to, tips).stack) \subseteq S
<1> DEFINE T == {tips[c] : c \in DOMAIN tips}
<1>1. tips \in Surjection(DOMAIN tips, T) /\ DOMAIN tips \subseteq Changes
  BY DEF Surjection, Tips
<1>2. IsFiniteSet(T)
  BY <1>1, FS_Subset, FS_Surjection
<1>3. ToSet(SetToSeq(T)) = T
  BY <1>2, SequenceOfSet
<1>4. T \subseteq S
  OBVIOUS
<1>5. Copying(kind, from, to, tips).stack = SetToSeq(T)
  BY DEF Copying
<1> HIDE DEF T
<1> QED BY <1>3, <1>4, <1>5

LEMMA NextJobsAllowed == TypeOK /\ TInv /\ [Next]_vars => \A q \in Procs : JobAllowed(q)'
<1> SUFFICES ASSUME TypeOK, TInv, [Next]_vars, NEW q \in Procs PROVE JobAllowed(q)'
  OBVIOUS
<1>0. Here \in Repos /\ There \in Repos /\ JobAllowed(q) /\ PublicIsLanded
  BY DEF Repos, TInv
<1>g. Landed \subseteq Landed' /\ Allowed \subseteq Allowed'
  BY HistoryGrows
<1>1. CASE job'[q] = job[q]
  BY <1>0, <1>1, <1>g DEF JobAllowed
<1>2. CASE job'[q].kind \notin {"fetch", "snapshot"}
  BY <1>2 DEF JobAllowed
<1>3. ASSUME NEW r \in Repos, NEW c \in Changes, NEW root \in Roots, SnapshotStart(q, r, c, root)
      PROVE  JobAllowed(q)'
  <2>1. /\ job'[q].kind = "snapshot" /\ job'[q].to = r /\ job'[q].left = Closure(root)
        /\ authored' = [authored EXCEPT ![r] = @ \cup {root}]
    BY <1>3 DEF SnapshotStart, TypeOK
  <2>2. r = Here => root \in authored'[Here]
    BY <1>0, <2>1 DEF TypeOK
  <2>3. r = Here => Closure(root) \subseteq Allowed'
    BY <2>2 DEF Allowed
  <2> QED BY <2>1, <2>3 DEF JobAllowed
<1>4. ASSUME NEW o \in Objects, SnapshotObject(q, o) PROVE JobAllowed(q)'
  <2>1. job[q] \in SnapshotJob /\ job'[q] = [job[q] EXCEPT !.left = @ \ {o}]
    BY <1>4, Jobs DEF SnapshotObject, TypeOK
  <2>2. /\ job'[q].kind = "snapshot" /\ job[q].kind = "snapshot"
        /\ job'[q].to = job[q].to /\ job'[q].left \subseteq job[q].left
    BY <2>1 DEF SnapshotJob
  <2> QED BY <1>0, <1>g, <2>2 DEF JobAllowed
<1>5. CASE FetchStart(q)
  <2> DEFINE tips == Advertised(refs[There])
  <2>1. job'[q] = Copying("fetch", There, Here, tips) /\ tips \in Tips
    BY <1>0, <1>5, AdvertisedType DEF FetchStart, TypeOK
  <2>2. \A c \in DOMAIN tips : tips[c] \in Landed
    <3>1. \A c \in DOMAIN tips : c \in Changes /\ tips[c] = refs[There][Public(c)] /\ tips[c] # None
      BY DEF Advertised
    <3> QED BY <1>0, <3>1, LandedIsClosed DEF PublicIsLanded
  <2> HIDE DEF tips
  <2>3. ToSet(Copying("fetch", There, Here, tips).stack) \subseteq Landed
    BY <2>1, <2>2, StackOfTips
  <2>4. job'[q].kind = "fetch"
    BY <2>1 DEF Copying
  <2> QED BY <1>g, <2>1, <2>3, <2>4 DEF JobAllowed
<1>6. ASSUME NEW c \in Changes, PushStart(q, c) PROVE job'[q].kind = "push"
  BY <1>6 DEF PushStart, Copying, TypeOK
<1>7. CASE Copy(q)
  <2> DEFINE now  == job[q]
             top  == Last(job[q].stack)
             next == Popped(now, top)
  <2>1. PICK kinds, from, to : now \in CopyJob(kinds, from, to)
    BY <1>7, Jobs DEF Copy
  <2>2. now.stack # << >> /\ job'[q] = next
    BY <1>7 DEF Copy, Top, TypeOK
  <2>3. next.kind = now.kind
    BY <2>1, <2>2, PoppedType
  <2>4. \A x \in ToSet(next.stack) : x \in ToSet(now.stack) \/ x \in ToSet(Entries[top])
    BY <2>1, <2>2, PoppedType
  <2>5. top \in ToSet(now.stack)
    BY <2>1, <2>2, PoppedType
  <2>6. now.kind = "fetch" => ToSet(now.stack) \subseteq Landed
    BY <1>0 DEF JobAllowed
  <2>7. now.kind \in {"fetch", "push"}
    BY <1>7 DEF Copy
  <2> HIDE DEF now, top, next
  <2>8. now.kind = "fetch" => ToSet(next.stack) \subseteq Landed
    BY <2>4, <2>5, <2>6, LandedIsClosed DEF Closed
  <2> QED BY <1>g, <2>2, <2>3, <2>7, <2>8 DEF JobAllowed
<1>8. ASSUME NEW p \in Procs,
              \/ \E r \in Repos, c \in Changes, root \in Roots : SnapshotStart(p, r, c, root)
              \/ \E c \in Changes : PushStart(p, c)
              \/ FetchStart(p) \/ Work(p) \/ CutShort(p)
       PROVE  JobAllowed(q)'
  <2>1. CASE p # q
    <3>1. job'[q] = job[q]
      BY <1>8, <2>1 DEF SnapshotStart, PushStart, FetchStart, Work, CutShort, SnapshotObject,
                        SnapshotCommit, Copy, FetchCommit, PushRecord, PushLand, TypeOK
    <3> QED BY <1>1, <3>1
  <2>2. CASE p = q
    <3>1. SnapshotCommit(q) \/ FetchCommit(q) \/ PushLand(q) \/ CutShort(q) => job'[q].kind = "none"
      BY DEF SnapshotCommit, FetchCommit, PushLand, CutShort, TypeOK, Idle
    <3>2. PushRecord(q) => job'[q].kind = "land"
      BY Jobs DEF PushRecord, TypeOK, CopyJob
    <3>3. (\E c \in Changes : PushStart(q, c)) => job'[q].kind = "push"
      BY <1>6
    <3> QED BY <1>2, <1>3, <1>4, <1>5, <1>7, <1>8, <2>2, <3>1, <3>2, <3>3 DEF Work
  <2> QED BY <2>1, <2>2
<1>9. ASSUME NEW c \in Changes, Land(c) \/ Unland(c) PROVE JobAllowed(q)'
  BY <1>1, <1>9 DEF Land, Unland
<1>10. CASE UNCHANGED vars
  BY <1>1, <1>10 DEF vars
<1> QED BY <1>8, <1>9, <1>10 DEF Next

LEMMA NextOnlyPublicTravels == TypeOK /\ TInv /\ [Next]_vars => OnlyPublicTravels'
<1> SUFFICES ASSUME TypeOK, TInv, [Next]_vars PROVE store'[Here] \subseteq Allowed'
  BY DEF OnlyPublicTravels, Allowed
<1>0. Here \in Repos /\ There \in Repos /\ store[Here] \subseteq Allowed /\ Allowed \subseteq Allowed'
  BY HistoryGrows DEF Repos, TInv, OnlyPublicTravels, Allowed
<1>1. ASSUME NEW p \in Procs, NEW o \in Objects, SnapshotObject(p, o)
      PROVE  store'[Here] \subseteq Allowed'
  <2>1. job[p] \in SnapshotJob /\ JobAllowed(p) /\ job[p].kind = "snapshot" /\ o \in job[p].left
    BY <1>1, Jobs DEF SnapshotObject, TInv
  <2>2. job[p].to = Here => o \in Allowed
    BY <2>1 DEF JobAllowed
  <2>3. store' = [store EXCEPT ![job[p].to] = @ \cup {o}]
    BY <1>1 DEF SnapshotObject
  <2> QED BY <1>0, <2>2, <2>3 DEF TypeOK
<1>2. ASSUME NEW p \in Procs, Copy(p) PROVE store'[Here] \subseteq Allowed'
  <2> DEFINE now == job[p]
             top == Last(job[p].stack)
  <2>1. /\ store' = [store EXCEPT ![now.to] = @ \cup {top}] /\ now.stack # << >>
        /\ now.kind \in {"fetch", "push"} /\ JobAllowed(p)
    BY <1>2 DEF Copy, Top, TInv
  <2>2. now.kind = "push" => now.to = There
    BY <2>1, Jobs DEF CopyJob
  <2>3. PICK kinds, from, to : now \in CopyJob(kinds, from, to)
    BY <2>1, Jobs
  <2>4. top \in ToSet(now.stack)
    BY <2>1, <2>3, PoppedType
  <2>5. now.kind = "fetch" => top \in Allowed
    BY <2>1, <2>4, LandedIsClosed DEF JobAllowed
  <2> HIDE DEF now, top
  <2> QED BY <1>0, <2>1, <2>2, <2>5 DEF TypeOK
<1>3. CASE store' = store
  BY <1>0, <1>3
<1> QED
  BY <1>1, <1>2, <1>3 DEF Next, Work, Land, Unland, SnapshotStart, SnapshotCommit, FetchStart,
                          PushStart, FetchCommit, PushRecord, PushLand, CutShort, vars

LEMMA InitTInv == Init => TInv
  BY RefNames DEF Init, TInv, OnlyPublicTravels, PublicIsLanded, JobAllowed, Idle, Repos

(* A fetch brings nothing but what a landed tree needs, however it is      *)
(* interleaved with landings, undone landings and pushes.                  *)
THEOREM OnlyLandedTravels == Spec => []OnlyPublicTravels
<1>1. TypeOK /\ TInv /\ [Next]_vars => TInv'
  BY NextPublicIsLanded, NextJobsAllowed, NextOnlyPublicTravels DEF TInv
<1>2. TInv => OnlyPublicTravels
  BY DEF TInv
<1> QED BY <1>1, <1>2, InitTInv, TypeCorrect, PTL DEF Spec
=============================================================================
