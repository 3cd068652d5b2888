---------------------------- MODULE ReviewProofs ----------------------------
(***************************************************************************)
(* Proofs about Review, for any processes, submissions, changes, queues    *)
(* and files, and without bound on the commits, landings and certificates: *)
(* what lands was reviewed, what is backported was witnessed, and a queue  *)
(* holds what was landed in it.                                            *)
(***************************************************************************)
EXTENDS Review, TLAPS, WellFoundedInduction, FiniteSetTheorems

(* A nonempty set of natural numbers has a least element.                  *)
LEMMA LeastExists ==
  ASSUME NEW S \in SUBSET Nat, S # {}
  PROVE  \E m \in S : \A s \in S : m <= s
<1>1. PICK m \in S : \A y \in S : ~ (<<y, m>> \in OpToRel(<, Nat))
  BY NatLessThanWellFounded, WFMin
<1>2. \A y \in S : ~ (y < m)
  BY <1>1 DEF OpToRel
<1> QED BY <1>2

(* A nonempty set of numbers up to n has a greatest element.               *)
LEMMA GreatestExists ==
  ASSUME NEW n \in Nat, NEW S \in SUBSET (0 .. n), S # {}
  PROVE  \E m \in S : \A s \in S : s <= m
<1> DEFINE T == {n - s : s \in S}
<1>1. T \subseteq Nat /\ T # {}
  <2>1. \A s \in S : n - s \in Nat
    OBVIOUS
  <2> QED BY <2>1
<1>2. PICK t \in T : \A y \in T : t <= y
  <2> HIDE DEF T
  <2> QED BY <1>1, LeastExists
<1>3. PICK m \in S : t = n - m
  OBVIOUS
<1>4. \A s \in S : n - m <= n - s
  BY <1>2, <1>3
<1> QED BY <1>4

-----------------------------------------------------------------------------
USE ReviewAssumption

-----------------------------------------------------------------------------
(* Names.                                                                  *)

(* A ref names its queue and its change.                                   *)
LEMMA RefNames ==
  ASSUME NEW q \in Targets, NEW r \in Targets, NEW c \in Changes, NEW e \in Changes,
         QueueRef(q, c) = QueueRef(r, e)
  PROVE  q = r /\ c = e
<1>1. c \in Seq(STRING) /\ e \in Seq(STRING) /\ Len(c) > 0 /\ Len(e) > 0
  OBVIOUS
<1>2. ASSUME NEW n \in Queues, NEW b \in Changes
      PROVE  (<<n>> \o b)[1] = n /\ Len(<<n>> \o b) = Len(b) + 1
             /\ \A i \in 1 .. Len(b) : (<<n>> \o b)[i + 1] = b[i]
  <2>1. b \in Seq(STRING) /\ n \in {n} \cup STRING /\ b \in Seq({n} \cup STRING)
    OBVIOUS
  <2>2. <<n>> \in Seq({n} \cup STRING) /\ Len(<<n>>) = 1 /\ <<n>>[1] = n
    OBVIOUS
  <2> QED BY <2>1, <2>2
<1>3. CASE q = Trunk /\ r = Trunk
  BY <1>3 DEF QueueRef
<1>4. CASE q \in Queues /\ r \in Queues
  <2>1. <<q>> \o c = <<r>> \o e
    BY <1>4 DEF QueueRef
  <2>2. q = r /\ Len(c) = Len(e) /\ \A i \in 1 .. Len(c) : c[i] = e[i]
    BY <1>1, <1>2, <1>4, <2>1
  <2> QED BY <1>1, <2>2
<1>5. CASE q = Trunk /\ r \in Queues
  <2>1. c = <<r>> \o e
    BY <1>5 DEF QueueRef
  <2>2. c[1] = r
    BY <1>2, <1>5, <2>1
  <2> QED BY <1>5, <2>2
<1>6. CASE q \in Queues /\ r = Trunk
  <2>1. e = <<q>> \o c
    BY <1>6 DEF QueueRef
  <2>2. e[1] = q
    BY <1>2, <1>6, <2>1
  <2> QED BY <1>6, <2>2
<1> QED BY <1>3, <1>4, <1>5, <1>6 DEF Targets

LEMMA RefIsPublic ==
  ASSUME NEW q \in Targets, NEW c \in Changes PROVE QueueRef(q, c) \in PublicRefs
BY DEF Targets, PublicRefs

(* A queue holds what was landed in it.                                    *)
LEMMA OwnerOfRef ==
  ASSUME NEW registry \in Seq(Queues), NEW q \in Targets, NEW c \in Changes,
         q = Trunk \/ q \in ToSet(registry)
  PROVE  Owner(registry, QueueRef(q, c)) = q
<1>0. ToSet(registry) \subseteq Queues
  BY DEF ToSet
<1>1. CASE q = Trunk
  BY <1>0, <1>1 DEF QueueRef, Owner
<1>2. CASE q # Trunk
  <2>1. c \in Seq({q} \cup STRING) /\ <<q>> \in Seq({q} \cup STRING) /\ Len(c) > 0
    OBVIOUS
  <2>2. (<<q>> \o c)[1] = q /\ Len(<<q>> \o c) > 1
    BY <2>1
  <2> QED BY <1>2, <2>2 DEF QueueRef, Owner
<1> QED BY <1>1, <1>2

-----------------------------------------------------------------------------
(* The operators of a backport.                                            *)

(* A certificate for each change, in some order.                           *)
LEMMA Sequenced ==
  ASSUME NEW S, IsFiniteSet(S) PROVE SetToSeq(S) \in Seq(S)
<1>1. Cardinality(S) \in Nat /\ ExistsBijection(1 .. Cardinality(S), S)
  BY FS_CardinalityType
<1>2. \E f \in [1 .. Cardinality(S) -> S] : IsInjective(f)
  BY <1>1 DEF ExistsBijection, Bijection, Injection
<1>3. SetToSeq(S) \in [1 .. Cardinality(S) -> S]
  BY <1>2 DEF SetToSeq
<1> QED BY <1>1, <1>3

(* What find_landed finds is a public ref of the change.                   *)
LEMMA Landed ==
  ASSUME NEW registry \in Seq(Queues), NEW refs \in [PublicRefs -> Tree \cup {None}],
         NEW c \in Changes, FindLanded(registry, refs, c) # None
  PROVE  LET found == FindLanded(registry, refs, c)
         IN  /\ found.queue \in Targets
             /\ found.queue = Trunk \/ found.queue \in ToSet(registry)
             /\ found.tip = refs[QueueRef(found.queue, c)]
             /\ found.tip \in Tree /\ found.tip # None
<1> DEFINE places == << Trunk >> \o registry
           hits == {i \in DOMAIN places : refs[QueueRef(places[i], c)] # None}
           h == CHOOSE i \in hits : \A j \in hits : i <= j
<1>1. /\ places \in Seq(Targets)
      /\ DOMAIN places = 1 .. Len(registry) + 1
      /\ places[1] = Trunk /\ \A i \in 1 .. Len(registry) : places[i + 1] = registry[i]
  <2>1. registry \in Seq(Targets) /\ << Trunk >> \in Seq(Targets)
    BY DEF Targets
  <2> QED BY <2>1
<1>2. \A i \in DOMAIN places : places[i] \in Targets /\ (places[i] = Trunk \/ places[i] \in ToSet(registry))
  <2> SUFFICES ASSUME NEW i \in DOMAIN places
               PROVE  places[i] \in Targets /\ (places[i] = Trunk \/ places[i] \in ToSet(registry))
    OBVIOUS
  <2>1. i = 1 \/ i - 1 \in 1 .. Len(registry)
    BY <1>1
  <2>2. CASE i = 1
    BY <1>1, <2>2 DEF Targets
  <2>3. CASE i - 1 \in 1 .. Len(registry)
    <3>1. places[i] = registry[i - 1]
      BY <1>1, <2>3
    <3> QED BY <2>3, <3>1 DEF ToSet, Targets
  <2> QED BY <2>1, <2>2, <2>3
<1>3. hits # {}
  BY DEF FindLanded
<1>4. hits \in SUBSET Nat
  BY <1>1
<1> HIDE DEF places
<1>5. h \in hits
  <2>1. \E i \in hits : \A j \in hits : i <= j
    <3> HIDE DEF hits
    <3> QED BY <1>3, <1>4, LeastExists
  <2> HIDE DEF hits
  <2> QED BY <2>1
<1>6. FindLanded(registry, refs, c) =
        [queue |-> places[h], tip |-> refs[QueueRef(places[h], c)]]
  BY <1>3 DEF FindLanded, places
<1> HIDE DEF h
<1>7. h \in DOMAIN places /\ refs[QueueRef(places[h], c)] # None
  BY <1>5
<1>8. places[h] \in Targets /\ (places[h] = Trunk \/ places[h] \in ToSet(registry))
  BY <1>2, <1>7
<1>9. refs[QueueRef(places[h], c)] \in Tree
  BY <1>7, <1>8, RefIsPublic
<1> QED BY <1>6, <1>7, <1>8, <1>9

(* What a queue's base has, one of its public refs has, and not the one    *)
(* left out.                                                               *)
LEMMA BaseIsLanded ==
  ASSUME NEW registry, NEW refs \in [PublicRefs -> Tree \cup {None}], NEW q, NEW exclude,
         NEW f \in Files, NEW d \in Defs,
         QueueBase(registry, refs, q, exclude)[f][d] # Gone
  PROVE  \E n \in PublicRefs : /\ n # exclude /\ refs[n] # None
                               /\ refs[n][f][d] = QueueBase(registry, refs, q, exclude)[f][d]
<1> DEFINE landed == {i \in DOMAIN NameOrder : /\ NameOrder[i] # exclude
                                               /\ Owner(registry, NameOrder[i]) = q
                                               /\ refs[NameOrder[i]] # None}
           having == {i \in landed : refs[NameOrder[i]][f] # NoFile}
           last   == CHOOSE i \in having : \A j \in having : j <= i
<1>1. QueueBase(registry, refs, q, exclude)[f] =
        IF having = {} THEN NoFile ELSE refs[NameOrder[last]][f]
  BY DEF QueueBase
<1>2. having # {}
  BY <1>1 DEF NoFile
<1>3. having \in SUBSET (0 .. Len(NameOrder)) /\ Len(NameOrder) \in Nat
  OBVIOUS
<1>4. last \in having
  <2>1. \E i \in having : \A j \in having : j <= i
    <3> HIDE DEF having
    <3> QED BY <1>2, <1>3, GreatestExists
  <2> HIDE DEF having
  <2> QED BY <2>1
<1> HIDE DEF last
<1>5. NameOrder[last] \in PublicRefs /\ NameOrder[last] # exclude /\ refs[NameOrder[last]] # None
  BY <1>4
<1> QED BY <1>1, <1>2, <1>5

-----------------------------------------------------------------------------
(* Types.                                                                  *)

LEMMA JobKinds ==
  ASSUME NEW j \in Job
  PROVE  /\ j.kind = "approve" => j \in ApproveJob
         /\ j.kind = "land" => j \in LandJob
         /\ j.kind = "backport" => j \in BackportJob
         /\ j.kind = "save" => j \in SaveJob
         /\ j.kind = "write" => j \in WriteJob
BY DEF Job, Idle, ApproveJob, LandJob, BackportJob, SaveJob, WriteJob

(* What save and write have in hand is about the same changes.             *)
JobFits(j) == j \in Job /\ (j.kind \in {"save", "write"} => DOMAIN j.from = DOMAIN j.tips)

LEMMA JobStep ==
  ASSUME TypeOK, NEW p \in Procs, NEW j, JobFits(j), job' = [job EXCEPT ![p] = j]
  PROVE  job' \in [Procs -> Job] /\ job'[p] = j /\ \A q \in Procs : JobFits(job'[q])
<1>1. job \in [Procs -> Job] /\ \A q \in Procs : JobFits(job[q])
  BY DEF TypeOK, JobFits
<1>2. j \in Job
  BY DEF JobFits
<1>3. job' \in [Procs -> Job] /\ job'[p] = j /\ \A q \in Procs \ {p} : job'[q] = job[q]
  BY <1>1, <1>2
<1> QED BY <1>1, <1>3

LEMMA IdleFits == JobFits(Idle)
BY DEF JobFits, Job, Idle

LEMMA TypesOfStep ==
  ASSUME tips' \in [Changes -> Tree \cup {None}],
         public' \in [PublicRefs -> Tree \cup {None}],
         queues' \in Seq(Queues), IsInjective(queues)',
         subs' \in [Subs -> {Absent} \cup Pending \cup Approved],
         job' \in [Procs -> Job], \A q \in Procs : JobFits(job'[q]),
         seen' \subseteq Changes, landings' \subseteq Landings, commits' \in 0 .. MaxCommits
  PROVE  TypeOK'
BY DEF JobFits, TypeOK

(* What an approved submission, loaded, is.                                *)
LEMMA Loaded ==
  ASSUME TypeOK, NEW s \in Subs, subs[s] # Absent
  PROVE  /\ subs[s] \in Pending \cup Approved
         /\ subs[s].changes \subseteq Changes
         /\ subs[s].status = "approved" => subs[s] \in Approved
BY DEF TypeOK, Pending, Approved

LEMMA RegistryAdds ==
  ASSUME NEW registry \in Seq(Queues), IsInjective(registry), NEW q \in Queues, q \notin ToSet(registry)
  PROVE  Append(registry, q) \in Seq(Queues) /\ IsInjective(Append(registry, q))
<1>1. \A i \in 1 .. Len(registry) : registry[i] # q
  BY DEF ToSet
<1> QED BY <1>1 DEF IsInjective

LEMMA RegistryRemoves ==
  ASSUME NEW registry \in Seq(Queues), IsInjective(registry), NEW i \in DOMAIN registry
  PROVE  RemoveAt(registry, i) \in Seq(Queues) /\ IsInjective(RemoveAt(registry, i))
<1> DEFINE before == SubSeq(registry, 1, i - 1)
           after  == SubSeq(registry, i + 1, Len(registry))
<1>1. /\ before \in Seq(Queues) /\ Len(before) = i - 1
      /\ \A k \in 1 .. i - 1 : before[k] = registry[k]
  OBVIOUS
<1>2. /\ after \in Seq(Queues) /\ Len(after) = Len(registry) - i
      /\ \A k \in 1 .. Len(registry) - i : after[k] = registry[i + k]
  OBVIOUS
<1> HIDE DEF before, after
<1>3. /\ before \o after \in Seq(Queues) /\ Len(before \o after) = Len(registry) - 1
      /\ \A k \in 1 .. Len(registry) - 1 :
           (before \o after)[k] = registry[IF k < i THEN k ELSE k + 1]
  BY <1>1, <1>2
<1>4. RemoveAt(registry, i) = before \o after
  BY DEF RemoveAt, before, after
<1> DEFINE rest == before \o after
<1> HIDE DEF rest
<1>5. IsInjective(rest)
  <2> SUFFICES ASSUME NEW k \in DOMAIN rest, NEW m \in DOMAIN rest, rest[k] = rest[m] PROVE k = m
    BY DEF IsInjective
  <2>1. k \in 1 .. Len(registry) - 1 /\ m \in 1 .. Len(registry) - 1
    BY <1>3 DEF rest
  <2>2. registry[IF k < i THEN k ELSE k + 1] = registry[IF m < i THEN m ELSE m + 1]
    BY <1>3, <2>1 DEF rest
  <2>3. (IF k < i THEN k ELSE k + 1) = (IF m < i THEN m ELSE m + 1)
    BY <2>1, <2>2 DEF IsInjective
  <2> QED BY <2>1, <2>3
<1> QED BY <1>3, <1>4, <1>5 DEF rest

LEMMA SourceType ==
  ASSUME TypeOK, NEW p \in Procs, job[p].kind = "backport", NEW c \in job[p].loaded.changes,
         Source(p, c) # None
  PROVE  /\ c \in Changes
         /\ Source(p, c).queue \in Targets
         /\ Source(p, c).tip = public[QueueRef(Source(p, c).queue, c)]
         /\ Source(p, c).tip \in Tree /\ Source(p, c).tip # None
<1>1. job[p].loaded.changes \subseteq Changes /\ job[p].registry \in Seq(Queues)
  BY JobKinds DEF TypeOK, BackportJob, Approved
<1> QED BY <1>1, Landed DEF Source, TypeOK

LEMMA CertificatesType ==
  ASSUME TypeOK, NEW p \in Procs, job[p].kind = "backport", Certifiable(p)
  PROVE  Certificates(p) \in Seq(Certificate)
<1> DEFINE changes == job[p].loaded.changes
           S == {[change |-> c, original |-> Source(p, c).tip, rebased |-> tips[c]] : c \in changes}
<1>1. changes \subseteq Changes
  BY JobKinds DEF TypeOK, BackportJob, Approved
<1>2. IsFiniteSet(changes)
  BY <1>1, FS_Subset
<1>3. IsFiniteSet(S)
  <2> DEFINE g == [c \in changes |->
                     [change |-> c, original |-> Source(p, c).tip, rebased |-> tips[c]]]
  <2> HIDE DEF changes
  <2>1. g \in Surjection(changes, S)
    BY DEF Surjection
  <2> HIDE DEF g, S
  <2> QED BY <1>2, <2>1, FS_Surjection
<1>4. S \subseteq Certificate
  <2> SUFFICES ASSUME NEW c \in changes
               PROVE  [change |-> c, original |-> Source(p, c).tip, rebased |-> tips[c]] \in Certificate
    OBVIOUS
  <2>1. tips[c] \in Tree /\ Source(p, c) # None /\ c \in Changes
    BY <1>1 DEF Certifiable, TypeOK
  <2>2. Source(p, c).tip \in Tree
    BY <2>1, SourceType
  <2> QED BY <2>1, <2>2 DEF Certificate
<1>5. Certificates(p) \in Seq(S)
  BY <1>3, Sequenced DEF Certificates
<1> HIDE DEF S
<1> QED BY <1>4, <1>5

LEMMA TipsType ==
  ASSUME NEW S \in SUBSET Changes, NEW t \in [S -> Tree \cup {None}]
  PROVE  t \in TipsOf /\ DOMAIN t = S
BY DEF TipsOf

LEMMA TipsOfType ==
  ASSUME NEW t \in TipsOf
  PROVE  DOMAIN t \subseteq Changes /\ \A c \in DOMAIN t : t[c] \in Tree \cup {None}
BY DEF TipsOf

LEMMA WriteType ==
  ASSUME TypeOK, NEW p \in Procs, job[p].kind = "write"
  PROVE  /\ job[p] \in WriteJob
         /\ DOMAIN job[p].tips \subseteq Changes /\ DOMAIN job[p].from = DOMAIN job[p].tips
         /\ \A c \in DOMAIN job[p].tips : /\ job[p].tips[c] \in Tree \cup {None}
                                          /\ job[p].from[c] \in Tree \cup {None}
<1>1. job[p] \in WriteJob /\ DOMAIN job[p].from = DOMAIN job[p].tips
  BY JobKinds DEF TypeOK
<1>2. job[p].tips \in TipsOf /\ job[p].from \in TipsOf
  BY <1>1 DEF WriteJob
<1> QED BY <1>1, <1>2, TipsOfType

(* The landings that a write adds.                                         *)
Added(p) ==
  LET j == job[p]
  IN  {[how |-> j.how, queue |-> j.queue, change |-> c, tip |-> j.tips[c], from |-> j.from[c]]
         : c \in DOMAIN j.tips}

LEMMA AddedType ==
  ASSUME TypeOK, NEW p \in Procs, job[p].kind = "write"
  PROVE  Added(p) \subseteq Landings
<1> SUFFICES ASSUME NEW c \in DOMAIN job[p].tips
             PROVE  [how |-> job[p].how, queue |-> job[p].queue, change |-> c,
                     tip |-> job[p].tips[c], from |-> job[p].from[c]] \in Landings
  BY DEF Added
<1>1. job[p].how \in {"land", "backport"} /\ job[p].queue \in Targets
  BY WriteType DEF WriteJob
<1>2. c \in Changes /\ job[p].tips[c] \in Tree \cup {None} /\ job[p].from[c] \in Tree \cup {None}
  BY WriteType
<1> QED BY <1>1, <1>2 DEF Landings

LEMMA NextTypeOK == TypeOK /\ [Next]_vars => TypeOK'
<1> SUFFICES ASSUME TypeOK, [Next]_vars PROVE TypeOK'
  OBVIOUS
<1>0. /\ tips \in [Changes -> Tree \cup {None}]
      /\ public \in [PublicRefs -> Tree \cup {None}]
      /\ queues \in Seq(Queues) /\ IsInjective(queues)
      /\ subs \in [Subs -> {Absent} \cup Pending \cup Approved]
      /\ job \in [Procs -> Job] /\ \A q \in Procs : JobFits(job[q])
      /\ seen \subseteq Changes /\ landings \subseteq Landings /\ commits \in 0 .. MaxCommits
  BY DEF TypeOK, JobFits
<1>1. ASSUME NEW w \in Writes, Commit(w[1], w[2], w[3], w[4]) PROVE TypeOK'
  <2>1. w[1] \in Changes /\ w[2] \in Files /\ w[3] \in Defs /\ w[4] \in Texts \cup {Gone}
    OBVIOUS
  <2> DEFINE tree == IF tips[w[1]] = None THEN NoFiles ELSE tips[w[1]]
             new  == [tree EXCEPT ![w[2]][w[3]] = w[4]]
  <2>2. tree \in Tree
    BY <1>0, <2>1 DEF NoFiles, NoFile, Tree
  <2>3. new \in Tree
    <3>1. tree[w[2]] \in [Defs -> Texts \cup {Gone}]
      BY <2>1, <2>2 DEF Tree
    <3>2. [tree[w[2]] EXCEPT ![w[3]] = w[4]] \in [Defs -> Texts \cup {Gone}]
      BY <2>1, <3>1
    <3>3. new = [tree EXCEPT ![w[2]] = [tree[w[2]] EXCEPT ![w[3]] = w[4]]]
      OBVIOUS
    <3> HIDE DEF tree, new
    <3> QED BY <2>1, <2>2, <3>2, <3>3 DEF Tree
  <2>4. tips' = [tips EXCEPT ![w[1]] = new]
    BY <1>1 DEF Commit
  <2> HIDE DEF new
  <2>5. tips' \in [Changes -> Tree \cup {None}]
    BY <1>0, <2>1, <2>3, <2>4
  <2>6. commits' \in 0 .. MaxCommits
    BY <1>0, <1>1 DEF Commit
  <2> QED BY <1>0, <1>1, <2>5, <2>6, TypesOfStep DEF Commit, IsInjective
<1>2. ASSUME NEW q \in Queues, QueueAdd(q) \/ QueueRemove(q) PROVE TypeOK'
  <2>1. queues' \in Seq(Queues) /\ IsInjective(queues')
    <3>1. CASE QueueAdd(q)
      BY <1>0, <3>1, RegistryAdds DEF QueueAdd
    <3>2. CASE QueueRemove(q)
      <4>1. PICK i \in DOMAIN queues : queues' = RemoveAt(queues, i)
        BY <3>2 DEF QueueRemove
      <4> QED BY <1>0, <4>1, RegistryRemoves
    <3> QED BY <1>2, <3>1, <3>2
  <2>2. IsInjective(queues)'
    BY <2>1
  <2> QED BY <1>0, <1>2, <2>1, <2>2, TypesOfStep DEF QueueAdd, QueueRemove
<1>3. ASSUME NEW s \in Subs, NEW sub \in Submitted, Submit(s, sub[1], sub[2]) PROVE TypeOK'
  <2>1. sub[1] \subseteq Changes /\ sub[2] \in {"pending", "approved"}
    OBVIOUS
  <2>2. Submission(sub[1], sub[2]) \in Pending \cup Approved
    BY <2>1 DEF Submission, Pending, Approved
  <2>3. subs' \in [Subs -> {Absent} \cup Pending \cup Approved]
    BY <1>0, <1>3, <2>2 DEF Submit
  <2>4. seen' \subseteq Changes
    BY <1>0, <1>3, <2>1 DEF Submit
  <2> QED BY <1>0, <1>3, <2>3, <2>4, TypesOfStep DEF Submit, IsInjective
<1>4. ASSUME NEW p \in Procs, NEW j, JobFits(j), job' = [job EXCEPT ![p] = j],
             UNCHANGED << tips, public, queues, commits >>,
             subs' \in [Subs -> {Absent} \cup Pending \cup Approved],
             seen' \subseteq Changes, landings' \subseteq Landings
      PROVE  TypeOK'
  <2>1. job' \in [Procs -> Job] /\ \A q \in Procs : JobFits(job'[q])
    BY <1>4, JobStep
  <2> QED BY <1>0, <1>4, <2>1, TypesOfStep DEF IsInjective
<1>5. ASSUME NEW p \in Procs, NEW s \in Subs, ApproveLoad(p, s) PROVE TypeOK'
  <2> DEFINE j == [kind |-> "approve", sub |-> s, changes |-> subs[s].changes]
  <2>1. subs[s].changes \subseteq Changes
    BY <1>5, Loaded DEF ApproveLoad
  <2>2. JobFits(j)
    BY <2>1 DEF JobFits, Job, ApproveJob
  <2>3. job' = [job EXCEPT ![p] = j] /\ seen' \subseteq Changes
    BY <1>0, <1>5, <2>1 DEF ApproveLoad
  <2> HIDE DEF j
  <2> QED BY <1>0, <1>4, <1>5, <2>2, <2>3 DEF ApproveLoad
<1>6. ASSUME NEW p \in Procs, NEW s \in Subs, NEW q \in Queues \cup {Trunk}, LandLoad(p, s, q)
      PROVE  TypeOK'
  <2> DEFINE j == [kind |-> "land", changes |-> subs[s].changes, queue |-> q]
  <2>1. subs[s].changes \subseteq Changes
    BY <1>6, Loaded DEF LandLoad, MayLand
  <2>2. JobFits(j)
    BY <2>1 DEF JobFits, Job, LandJob, Targets
  <2>3. job' = [job EXCEPT ![p] = j]
    BY <1>6 DEF LandLoad
  <2> HIDE DEF j
  <2> QED BY <1>0, <1>4, <1>6, <2>2, <2>3 DEF LandLoad
<1>7. ASSUME NEW p \in Procs, NEW s \in Subs, NEW q \in Queues \cup {Trunk}, BackportLoad(p, s, q)
      PROVE  TypeOK'
  <2> DEFINE j == [kind |-> "backport", sub |-> s, loaded |-> subs[s], queue |-> q,
                   registry |-> queues]
  <2>1. subs[s] \in Approved
    BY <1>7, Loaded DEF BackportLoad
  <2>2. JobFits(j)
    BY <1>0, <2>1 DEF JobFits, Job, BackportJob, Targets
  <2>3. job' = [job EXCEPT ![p] = j]
    BY <1>7 DEF BackportLoad
  <2> HIDE DEF j
  <2> QED BY <1>0, <1>4, <1>7, <2>2, <2>3 DEF BackportLoad
<1>8. ASSUME NEW p \in Procs, ApproveSave(p) PROVE TypeOK'
  <2>1. job[p] \in ApproveJob
    BY <1>0, <1>8, JobKinds DEF ApproveSave
  <2>2. Submission(job[p].changes, "approved") \in Approved
    BY <2>1 DEF ApproveJob, Submission, Approved
  <2>3. subs' \in [Subs -> {Absent} \cup Pending \cup Approved]
    BY <1>0, <1>8, <2>2 DEF ApproveSave
  <2> QED BY <1>0, <1>4, <1>8, <2>3, IdleFits DEF ApproveSave
<1>9. ASSUME NEW p \in Procs, LandRead(p) PROVE TypeOK'
  <2> DEFINE S == job[p].changes
             t == [c \in S |-> tips[c]]
             u == [c \in S |-> None]
             j == [kind |-> "write", how |-> "land", queue |-> job[p].queue, tips |-> t, from |-> u]
  <2>1. S \subseteq Changes /\ job[p].queue \in Targets
    BY <1>0, <1>9, JobKinds DEF LandRead, LandJob
  <2>2. t \in [S -> Tree \cup {None}] /\ u \in [S -> Tree \cup {None}]
    BY <1>0, <2>1
  <2>3. job' = [job EXCEPT ![p] = j]
    BY <1>9 DEF LandRead
  <2>4. JobFits(j)
    <3> HIDE DEF t, u, S
    <3>1. t \in TipsOf /\ u \in TipsOf /\ DOMAIN t = DOMAIN u
      BY <2>1, <2>2, TipsType
    <3> QED BY <2>1, <3>1 DEF JobFits, Job, WriteJob
  <2> HIDE DEF j
  <2> QED BY <1>0, <1>4, <1>9, <2>3, <2>4 DEF LandRead
<1>10. ASSUME NEW p \in Procs, Write(p) PROVE TypeOK'
  <2>1. job[p].kind = "write"
    BY <1>10 DEF Write
  <2>2. landings' \subseteq Landings
    BY <1>0, <1>10, <2>1, AddedType DEF Write, Added
  <2>3. public' \in [PublicRefs -> Tree \cup {None}]
    <3> DEFINE j == job[p]
               at(n) == CHOOSE c \in DOMAIN j.tips : n = QueueRef(j.queue, c)
    <3>1. ASSUME NEW n \in PublicRefs, \E c \in DOMAIN j.tips : n = QueueRef(j.queue, c)
          PROVE  j.tips[at(n)] \in Tree \cup {None}
      <4>1. at(n) \in DOMAIN j.tips
        BY <3>1
      <4> HIDE DEF at
      <4> QED BY <2>1, <4>1, WriteType
    <3>2. public' = [n \in PublicRefs |->
             IF \E c \in DOMAIN j.tips : n = QueueRef(j.queue, c) THEN j.tips[at(n)] ELSE public[n]]
      BY <1>10 DEF Write
    <3> HIDE DEF at, j
    <3> QED BY <1>0, <3>1, <3>2
  <2>4. job' \in [Procs -> Job] /\ \A q \in Procs : JobFits(job'[q])
    BY <1>10, IdleFits, JobStep DEF Write
  <2> QED BY <1>0, <1>10, <2>2, <2>3, <2>4, TypesOfStep DEF Write, IsInjective
<1>11. ASSUME NEW p \in Procs, CutShort(p) \/ BackportRefuses(p) PROVE TypeOK'
  BY <1>0, <1>4, <1>11, IdleFits DEF CutShort, BackportRefuses
<1>12. ASSUME NEW p \in Procs, BackportCertify(p) PROVE TypeOK'
  <2> DEFINE S == job[p].loaded.changes
             more == job[p].loaded.certificates \o Certificates(p)
             new == [job[p].loaded EXCEPT !.certificates = more]
             t == [c \in S |-> tips[c]]
             u == [c \in S |-> Source(p, c).tip]
             j == [kind |-> "save", sub |-> job[p].sub, queue |-> job[p].queue,
                   saved |-> new, tips |-> t, from |-> u]
  <2>1. /\ job[p].kind = "backport" /\ Certifiable(p)
        /\ job[p].loaded \in Approved /\ job[p].queue \in Targets /\ job[p].sub \in Subs
        /\ S \subseteq Changes
    BY <1>0, <1>12, JobKinds DEF BackportCertify, BackportJob, Approved
  <2>2. new \in Approved
    <3>1. job[p].loaded.certificates \in Seq(Certificate) /\ Certificates(p) \in Seq(Certificate)
      BY <2>1, CertificatesType DEF Approved
    <3>2. more \in Seq(Certificate)
      BY <3>1
    <3> HIDE DEF more
    <3> QED BY <2>1, <3>2 DEF Approved
  <2>3. t \in [S -> Tree \cup {None}] /\ u \in [S -> Tree \cup {None}]
    <3>1. \A c \in S : tips[c] \in Tree \cup {None} /\ Source(p, c).tip \in Tree
      BY <1>0, <2>1, SourceType DEF Certifiable
    <3> QED BY <3>1
  <2>4. job' = [job EXCEPT ![p] = j]
    BY <1>12, Zenon DEF BackportCertify
  <2>5. JobFits(j)
    <3> HIDE DEF t, u, S, new
    <3>1. t \in TipsOf /\ u \in TipsOf /\ DOMAIN t = DOMAIN u
      BY <2>1, <2>3, TipsType
    <3> QED BY <2>1, <2>2, <3>1 DEF JobFits, Job, SaveJob
  <2> HIDE DEF j
  <2> QED BY <1>0, <1>4, <1>12, <2>4, <2>5 DEF BackportCertify
<1>13. ASSUME NEW p \in Procs, BackportSave(p) PROVE TypeOK'
  <2> DEFINE j == [kind |-> "write", how |-> "backport", queue |-> job[p].queue,
                   tips |-> job[p].tips, from |-> job[p].from]
  <2>1. job[p] \in SaveJob /\ DOMAIN job[p].from = DOMAIN job[p].tips
    BY <1>0, <1>13, JobKinds DEF BackportSave, JobFits
  <2>2. JobFits(j)
    BY <2>1 DEF SaveJob, JobFits, Job, WriteJob
  <2>3. job' = [job EXCEPT ![p] = j]
    BY <1>13 DEF BackportSave
  <2>4. subs' \in [Subs -> {Absent} \cup Pending \cup Approved]
    BY <1>0, <1>13, <2>1 DEF BackportSave, SaveJob
  <2> HIDE DEF j
  <2> QED BY <1>0, <1>4, <1>13, <2>2, <2>3, <2>4 DEF BackportSave
<1>14. CASE UNCHANGED vars
  BY <1>0, <1>14, TypesOfStep DEF vars, IsInjective
<1> QED
  BY <1>1, <1>2, <1>3, <1>5, <1>6, <1>7, <1>8, <1>9, <1>10, <1>11, <1>12, <1>13, <1>14 DEF Next

LEMMA InitTypeOK == Init => TypeOK
<1> SUFFICES ASSUME Init PROVE TypeOK
  OBVIOUS
<1>1. \A q \in Procs : JobFits(job[q])
  BY IdleFits DEF Init
<1>2. << >> \in Seq(Queues) /\ IsInjective(<< >>)
  BY DEF IsInjective
<1>3. job \in [Procs -> Job]
  BY IdleFits DEF Init, JobFits
<1> QED BY <1>1, <1>2, <1>3 DEF Init, TypeOK, JobFits

(* Whatever is loaded, saved and replaced without the lock, submissions,   *)
(* certificates, the registry of queues and the refs stay well formed: no  *)
(* submission nobody approved is ever saved with a certificate.            *)
THEOREM TypeCorrect == Spec => []TypeOK
BY InitTypeOK, NextTypeOK, PTL DEF Spec

-----------------------------------------------------------------------------
(* What lands was reviewed.                                                *)

(* Whatever carries an approval, or was loaded under one, is about changes *)
(* in S, those that a reviewer had loaded.                                 *)
SubSeen(sub, S) == sub.status = "approved" => sub.changes \subseteq S

JobSeen(j, S) ==
  /\ j.kind = "approve" => j.changes \subseteq S
  /\ j.kind = "land" /\ j.queue \notin Waiving => j.changes \subseteq S
  /\ j.kind = "backport" => j.loaded.changes \subseteq S
  /\ j.kind = "save" => j.saved.changes \subseteq S /\ DOMAIN j.tips \subseteq S
  /\ j.kind = "write" /\ j.queue \notin Waiving => DOMAIN j.tips \subseteq S

Reviewed ==
  /\ TypeOK
  /\ \A s \in Subs : SubSeen(subs[s], seen)
  /\ \A p \in Procs : JobSeen(job[p], seen)
  /\ LandedWasReviewed

LEMMA ReviewedStep ==
  ASSUME Reviewed, TypeOK', seen \subseteq seen',
         \/ UNCHANGED subs
         \/ \E s \in Subs : \E new : SubSeen(new, seen') /\ subs' = [subs EXCEPT ![s] = new],
         \/ UNCHANGED job
         \/ \E p \in Procs : \E j : JobSeen(j, seen') /\ job' = [job EXCEPT ![p] = j],
         \A l \in landings' \ landings : l.queue \notin Waiving => l.change \in seen'
  PROVE  Reviewed'
<1>1. ASSUME NEW s \in Subs PROVE SubSeen(subs'[s], seen')
  <2>1. SubSeen(subs[s], seen)
    BY DEF Reviewed
  <2>2. SubSeen(subs[s], seen')
    BY <2>1 DEF SubSeen
  <2>3. subs \in [Subs -> {Absent} \cup Pending \cup Approved]
    BY DEF Reviewed, TypeOK
  <2>4. SubSeen(subs'[s], seen') \/ subs'[s] = subs[s]
    BY <2>3
  <2> QED BY <2>2, <2>4
<1>2. ASSUME NEW p \in Procs PROVE JobSeen(job'[p], seen')
  <2>1. JobSeen(job[p], seen)
    BY DEF Reviewed
  <2>2. JobSeen(job[p], seen')
    BY <2>1 DEF JobSeen
  <2>3. job \in [Procs -> Job]
    BY DEF Reviewed, TypeOK
  <2>4. JobSeen(job'[p], seen') \/ job'[p] = job[p]
    BY <2>3
  <2> QED BY <2>2, <2>4
<1>3. LandedWasReviewed'
  BY DEF Reviewed, LandedWasReviewed
<1> QED BY <1>1, <1>2, <1>3 DEF Reviewed

LEMMA IdleSeen == \A S : JobSeen(Idle, S)
BY DEF JobSeen, Idle

LEMMA NextReviewed == Reviewed /\ [Next]_vars => Reviewed'
<1> SUFFICES ASSUME Reviewed, [Next]_vars PROVE Reviewed'
  OBVIOUS
<1>0. /\ TypeOK /\ TypeOK'
      /\ \A s \in Subs : SubSeen(subs[s], seen)
      /\ \A p \in Procs : JobSeen(job[p], seen)
  BY NextTypeOK DEF Reviewed
<1>1. ASSUME UNCHANGED << subs, job, seen, landings >> PROVE Reviewed'
  BY <1>0, <1>1, ReviewedStep
<1>2. ASSUME NEW s \in Subs, NEW sub \in Submitted, Submit(s, sub[1], sub[2]) PROVE Reviewed'
  <2>1. /\ subs' = [subs EXCEPT ![s] = Submission(sub[1], sub[2])]
        /\ seen \subseteq seen' /\ UNCHANGED << job, landings >>
    BY <1>2 DEF Submit
  <2>2. SubSeen(Submission(sub[1], sub[2]), seen')
    BY <1>2 DEF Submit, Submission, SubSeen
  <2> QED BY <1>0, <2>1, <2>2, ReviewedStep
<1>3. ASSUME NEW p \in Procs, NEW j, JobSeen(j, seen'), job' = [job EXCEPT ![p] = j],
             seen \subseteq seen', UNCHANGED << subs, landings >>
      PROVE  Reviewed'
  BY <1>0, <1>3, ReviewedStep
<1>4. ASSUME NEW p \in Procs, NEW s \in Subs, ApproveLoad(p, s) PROVE Reviewed'
  <2> DEFINE j == [kind |-> "approve", sub |-> s, changes |-> subs[s].changes]
  <2>1. JobSeen(j, seen') /\ seen \subseteq seen' /\ UNCHANGED << subs, landings >>
    BY <1>4 DEF ApproveLoad, JobSeen
  <2>2. job' = [job EXCEPT ![p] = j]
    BY <1>4 DEF ApproveLoad
  <2> HIDE DEF j
  <2> QED BY <1>3, <2>1, <2>2
<1>5. ASSUME NEW p \in Procs, NEW s \in Subs, NEW q \in Targets, LandLoad(p, s, q) PROVE Reviewed'
  <2> DEFINE j == [kind |-> "land", changes |-> subs[s].changes, queue |-> q]
  <2>1. JobSeen(j, seen') /\ seen \subseteq seen' /\ UNCHANGED << subs, landings >>
    BY <1>0, <1>5 DEF LandLoad, MayLand, JobSeen, SubSeen
  <2>2. job' = [job EXCEPT ![p] = j]
    BY <1>5 DEF LandLoad
  <2> HIDE DEF j
  <2> QED BY <1>3, <2>1, <2>2
<1>6. ASSUME NEW p \in Procs, NEW s \in Subs, NEW q \in Targets, BackportLoad(p, s, q)
      PROVE  Reviewed'
  <2> DEFINE j == [kind |-> "backport", sub |-> s, loaded |-> subs[s], queue |-> q,
                   registry |-> queues]
  <2>1. JobSeen(j, seen') /\ seen \subseteq seen' /\ UNCHANGED << subs, landings >>
    BY <1>0, <1>6 DEF BackportLoad, JobSeen, SubSeen
  <2>2. job' = [job EXCEPT ![p] = j]
    BY <1>6 DEF BackportLoad
  <2> HIDE DEF j
  <2> QED BY <1>3, <2>1, <2>2
<1>7. ASSUME NEW p \in Procs, ApproveSave(p) PROVE Reviewed'
  <2> DEFINE new == Submission(job[p].changes, "approved")
  <2>1. job[p] \in ApproveJob /\ job[p].changes \subseteq seen
    BY <1>0, <1>7, JobKinds DEF ApproveSave, TypeOK, JobSeen
  <2>2. SubSeen(new, seen')
    BY <1>7, <2>1 DEF ApproveSave, Submission, SubSeen
  <2>3. /\ job[p].sub \in Subs /\ subs' = [subs EXCEPT ![job[p].sub] = new]
        /\ job' = [job EXCEPT ![p] = Idle] /\ UNCHANGED << seen, landings >>
    BY <1>7, <2>1 DEF ApproveSave, ApproveJob
  <2> HIDE DEF new
  <2> QED BY <1>0, <2>2, <2>3, IdleSeen, ReviewedStep
<1>8. ASSUME NEW p \in Procs, LandRead(p) PROVE Reviewed'
  <2> DEFINE j == [kind |-> "write", how |-> "land", queue |-> job[p].queue,
                   tips |-> [c \in job[p].changes |-> tips[c]],
                   from |-> [c \in job[p].changes |-> None]]
  <2>1. JobSeen(job[p], seen') /\ job[p].kind = "land" /\ UNCHANGED << subs, seen, landings >>
    BY <1>0, <1>8 DEF LandRead
  <2>2. JobSeen(j, seen')
    BY <2>1 DEF JobSeen
  <2>3. job' = [job EXCEPT ![p] = j]
    BY <1>8 DEF LandRead
  <2> HIDE DEF j
  <2> QED BY <1>3, <2>1, <2>2, <2>3
<1>9. ASSUME NEW p \in Procs, Write(p) PROVE Reviewed'
  <2>1. /\ job[p].kind = "write" /\ JobSeen(job[p], seen')
        /\ landings' = landings \cup Added(p)
        /\ job' = [job EXCEPT ![p] = Idle] /\ UNCHANGED << subs, seen >>
    BY <1>0, <1>9 DEF Write, Added
  <2>2. \A l \in Added(p) : l.queue \notin Waiving => l.change \in seen'
    BY <2>1 DEF Added, JobSeen
  <2> QED BY <1>0, <2>1, <2>2, IdleSeen, ReviewedStep
<1>10. ASSUME NEW p \in Procs, CutShort(p) \/ BackportRefuses(p) PROVE Reviewed'
  BY <1>3, <1>10, IdleSeen DEF CutShort, BackportRefuses
<1>11. ASSUME NEW p \in Procs, BackportCertify(p) PROVE Reviewed'
  <2> DEFINE S == job[p].loaded.changes
             new == [job[p].loaded EXCEPT !.certificates =
                       job[p].loaded.certificates \o Certificates(p)]
             j == [kind |-> "save", sub |-> job[p].sub, queue |-> job[p].queue, saved |-> new,
                   tips |-> [c \in S |-> tips[c]], from |-> [c \in S |-> Source(p, c).tip]]
  <2>1. /\ job[p].kind = "backport" /\ JobSeen(job[p], seen') /\ job[p] \in BackportJob
        /\ UNCHANGED << subs, seen, landings >>
    BY <1>0, <1>11, JobKinds DEF BackportCertify, TypeOK
  <2>2. new.changes = S
    BY <2>1 DEF BackportJob, Approved
  <2>3. JobSeen(j, seen')
    <3> HIDE DEF new
    <3> QED BY <2>1, <2>2 DEF JobSeen
  <2>4. job' = [job EXCEPT ![p] = j]
    BY <1>11, Zenon DEF BackportCertify
  <2> HIDE DEF j
  <2> QED BY <1>3, <2>1, <2>3, <2>4
<1>12. ASSUME NEW p \in Procs, BackportSave(p) PROVE Reviewed'
  <2> DEFINE j == [kind |-> "write", how |-> "backport", queue |-> job[p].queue,
                   tips |-> job[p].tips, from |-> job[p].from]
  <2>1. /\ job[p].kind = "save" /\ JobSeen(job[p], seen') /\ job[p] \in SaveJob
        /\ UNCHANGED << seen, landings >>
    BY <1>0, <1>12, JobKinds DEF BackportSave, TypeOK
  <2>2. JobSeen(j, seen') /\ SubSeen(job[p].saved, seen')
    BY <2>1 DEF JobSeen, SubSeen
  <2>3. /\ job' = [job EXCEPT ![p] = j] /\ job[p].sub \in Subs
        /\ subs' = [subs EXCEPT ![job[p].sub] = job[p].saved]
    BY <1>12, <2>1 DEF BackportSave, SaveJob
  <2> HIDE DEF j
  <2> QED BY <1>0, <2>1, <2>2, <2>3, ReviewedStep
<1> QED
  BY <1>1, <1>2, <1>4, <1>5, <1>6, <1>7, <1>8, <1>9, <1>10, <1>11, <1>12
     DEF Next, vars, Targets, Commit, QueueAdd, QueueRemove

(* What lands in a queue that asks for approval was in a submission that a *)
(* reviewer had loaded, or that was submitted as approved: cmd_approve     *)
(* saves the changes it loaded, so a submission replaced meanwhile, or     *)
(* carried into another queue, does not borrow an approval.                *)
THEOREM LandingsWereReviewed == Spec => []LandedWasReviewed
<1>1. Init => Reviewed
  <2> SUFFICES ASSUME Init PROVE Reviewed
    OBVIOUS
  <2>1. TypeOK
    BY InitTypeOK
  <2> QED BY <2>1, IdleSeen DEF Init, Reviewed, SubSeen, Absent, LandedWasReviewed
<1>2. Reviewed => LandedWasReviewed
  BY DEF Reviewed
<1> QED BY <1>1, <1>2, NextReviewed, PTL DEF Spec

-----------------------------------------------------------------------------
(* A registered queue holds what was landed in it: queue_ref prefixes the  *)
(* name of the queue and owner_queue finds it back, though a queue of that *)
(* name may have been removed, and added again, since.                     *)
THEOREM QueuesHoldLandings == Spec => []QueuesHoldTheirLandings
<1>1. TypeOK => QueuesHoldTheirLandings
  <2> SUFFICES ASSUME TypeOK, NEW l \in landings, Resolves(l.queue)
               PROVE  Owner(queues, QueueRef(l.queue, l.change)) = l.queue
    BY DEF QueuesHoldTheirLandings
  <2>1. l.queue \in Targets /\ l.change \in Changes /\ queues \in Seq(Queues)
    BY DEF TypeOK, Landings
  <2> QED BY <2>1, OwnerOfRef DEF Resolves
<1> QED BY <1>1, TypeCorrect, PTL

-----------------------------------------------------------------------------
(* A backport brings nothing that was not landed.                          *)

(* Among the landings of L, one of change c with tip `from`, and others    *)
(* that account for what tree has else.                                    *)
Witnessed(L, c, tree, from) ==
  \E o \in L :
    /\ o.change = c /\ o.tip # None /\ o.tip = from
    /\ \A f \in Files, d \in Defs :
         \/ tree[f][d] \in {o.tip[f][d], Gone}
         \/ \E x \in L : /\ <<x.queue, x.change>> # <<o.queue, o.change>>
                         /\ x.tip # None
                         /\ x.tip[f][d] = tree[f][d]

LEMMA MoreWitnesses ==
  ASSUME NEW L, NEW M, L \subseteq M, NEW c, NEW tree, NEW from, Witnessed(L, c, tree, from)
  PROVE  Witnessed(M, c, tree, from)
BY DEF Witnessed

(* A public ref holds a landing.                                           *)
Published ==
  \A n \in PublicRefs : public[n] # None =>
    \E l \in landings : n = QueueRef(l.queue, l.change) /\ l.tip = public[n]

(* What commutation_witness finds undisturbed is in the reviewed tree or   *)
(* in the rest of the source queue, as it is or gone.                      *)
LEMMA Undisturbed ==
  \A ssrc, reviewed, current \in Tree : Disturbed(ssrc, reviewed, current) = {} =>
    \A f \in Files, d \in Defs : current[f][d] = reviewed[f][d] \/ current[f][d] = ssrc[f][d]
<1> SUFFICES ASSUME NEW ssrc \in Tree, NEW reviewed \in Tree, NEW current \in Tree,
                    Disturbed(ssrc, reviewed, current) = {}, NEW f \in Files, NEW d \in Defs,
                    current[f][d] # reviewed[f][d], current[f][d] # ssrc[f][d]
             PROVE  FALSE
  OBVIOUS
<1>1. reviewed[f] # current[f] /\ ssrc[f] # current[f]
  OBVIOUS
<1>2. PICK item : item \in Support(f, reviewed[f], current[f]) \cap Support(f, ssrc[f], current[f])
  <2>1. CASE f \in Opaque
    <3>1. "whole file" \in Support(f, reviewed[f], current[f]) \cap Support(f, ssrc[f], current[f])
      BY <1>1, <2>1 DEF Support
    <3> QED BY <3>1
  <2>2. CASE f \notin Opaque
    <3>1. d \in Support(f, reviewed[f], current[f]) \cap Support(f, ssrc[f], current[f])
      BY <1>1, <2>2 DEF Support
    <3> QED BY <3>1
  <2> QED BY <2>1, <2>2
<1> QED BY <1>2 DEF Disturbed

LEMMA BaseIsTree ==
  ASSUME NEW registry, NEW refs \in [PublicRefs -> Tree \cup {None}], NEW q, NEW exclude
  PROVE  QueueBase(registry, refs, q, exclude) \in Tree
<1> DEFINE having(f) == {i \in {i \in DOMAIN NameOrder : /\ NameOrder[i] # exclude
                                                         /\ Owner(registry, NameOrder[i]) = q
                                                         /\ refs[NameOrder[i]] # None} :
                           refs[NameOrder[i]][f] # NoFile}
           last(f) == CHOOSE i \in having(f) : \A j \in having(f) : j <= i
<1>1. QueueBase(registry, refs, q, exclude) =
        [f \in Files |-> IF having(f) = {} THEN NoFile ELSE refs[NameOrder[last(f)]][f]]
  BY DEF QueueBase
<1>2. ASSUME NEW f \in Files, having(f) # {}
      PROVE  refs[NameOrder[last(f)]][f] \in [Defs -> Texts \cup {Gone}]
  <2>1. having(f) \in SUBSET (0 .. Len(NameOrder)) /\ Len(NameOrder) \in Nat
    OBVIOUS
  <2>2. last(f) \in having(f)
    <3>1. \E i \in having(f) : \A j \in having(f) : j <= i
      <4> HIDE DEF having
      <4> QED BY <1>2, <2>1, GreatestExists
    <3> HIDE DEF having
    <3> QED BY <3>1
  <2> HIDE DEF last
  <2>3. refs[NameOrder[last(f)]] \in Tree
    BY <2>2
  <2> QED BY <2>3 DEF Tree
<1> HIDE DEF having, last
<1>3. NoFile \in [Defs -> Texts \cup {Gone}]
  BY DEF NoFile
<1> QED BY <1>1, <1>2, <1>3 DEF Tree

LEMMA CarriedIsWitnessed ==
  ASSUME TypeOK, Published, NEW p \in Procs, job[p].kind = "backport", Certifiable(p),
         NEW c \in job[p].loaded.changes
  PROVE  Witnessed(landings, c, tips[c], Source(p, c).tip)
<1> DEFINE found == Source(p, c)
           ref   == QueueRef(found.queue, c)
           base  == QueueBase(job[p].registry, public, found.queue, ref)
<1>1. /\ c \in Changes /\ found.queue \in Targets
      /\ found.tip = public[ref] /\ found.tip \in Tree /\ found.tip # None
      /\ tips[c] \in Tree
  BY SourceType DEF Certifiable, TypeOK
<1>2. found.tip = tips[c] \/ Disturbed(base, found.tip, tips[c]) = {}
  BY DEF Certifiable, Carries
<1> HIDE DEF base
<1>3. public \in [PublicRefs -> Tree \cup {None}] /\ base \in Tree
  BY BaseIsTree DEF TypeOK, base
<1>4. ref \in PublicRefs
  BY <1>1, RefIsPublic
<1>5. PICK o \in landings : ref = QueueRef(o.queue, o.change) /\ o.tip = public[ref]
  BY <1>1, <1>4 DEF Published
<1>6. o.queue = found.queue /\ o.change = c
  <2>1. o.queue \in Targets /\ o.change \in Changes
    BY DEF TypeOK, Landings
  <2> QED BY <1>1, <1>5, <2>1, RefNames
<1>7. ASSUME NEW f \in Files, NEW d \in Defs, tips[c][f][d] \notin {o.tip[f][d], Gone}
      PROVE  \E x \in landings : /\ <<x.queue, x.change>> # <<o.queue, o.change>>
                                 /\ x.tip # None
                                 /\ x.tip[f][d] = tips[c][f][d]
  <2>1. tips[c][f][d] = base[f][d] /\ base[f][d] # Gone
    <3>1. Disturbed(base, found.tip, tips[c]) = {} /\ tips[c][f][d] # found.tip[f][d]
      BY <1>1, <1>2, <1>5, <1>7
    <3>2. tips[c][f][d] = found.tip[f][d] \/ tips[c][f][d] = base[f][d]
      <4> DEFINE r == found.tip
                 t == tips[c]
      <4>1. r \in Tree /\ t \in Tree /\ base \in Tree /\ Disturbed(base, r, t) = {}
        BY <1>1, <1>3, <3>1
      <4> HIDE DEF r, t
      <4>2. \A g \in Files, e \in Defs : t[g][e] = r[g][e] \/ t[g][e] = base[g][e]
        BY ONLY <4>1, Undisturbed
      <4> QED BY <4>2 DEF r, t
    <3> QED BY <1>7, <3>1, <3>2
  <2>2. PICK n \in PublicRefs : n # ref /\ public[n] # None /\ public[n][f][d] = base[f][d]
    BY <1>3, <2>1, BaseIsLanded DEF base
  <2>3. PICK x \in landings : n = QueueRef(x.queue, x.change) /\ x.tip = public[n]
    BY <2>2 DEF Published
  <2>4. <<x.queue, x.change>> # <<o.queue, o.change>>
    BY <1>5, <2>2, <2>3
  <2> QED BY <2>1, <2>2, <2>3, <2>4
<1> QED BY <1>1, <1>5, <1>6, <1>7 DEF Witnessed

(* What a backport has certified is witnessed by then, and stays so.       *)
JobWitnessed(j, L) ==
  j.kind = "save" \/ (j.kind = "write" /\ j.how = "backport") =>
    \A c \in DOMAIN j.tips : Witnessed(L, c, j.tips[c], j.from[c])

Witnessing ==
  /\ TypeOK
  /\ Published
  /\ \A p \in Procs : JobWitnessed(job[p], landings)
  /\ BackportsAreWitnessed

LEMMA Backported ==
  BackportsAreWitnessed <=>
    \A l \in landings : l.how = "backport" => Witnessed(landings, l.change, l.tip, l.from)
BY DEF BackportsAreWitnessed, Witnessed

LEMMA WitnessingStep ==
  ASSUME Witnessing, TypeOK', UNCHANGED << public, landings >>,
         \/ UNCHANGED job
         \/ \E p \in Procs : \E j : JobWitnessed(j, landings) /\ job' = [job EXCEPT ![p] = j]
  PROVE  Witnessing'
<1>1. ASSUME NEW p \in Procs PROVE JobWitnessed(job'[p], landings')
  <2>1. JobWitnessed(job[p], landings) /\ job \in [Procs -> Job]
    BY DEF Witnessing, TypeOK
  <2>2. JobWitnessed(job'[p], landings) \/ job'[p] = job[p]
    BY <2>1
  <2> QED BY <2>1, <2>2
<1>2. Published'
  BY DEF Witnessing, Published
<1>3. BackportsAreWitnessed'
  BY DEF Witnessing, BackportsAreWitnessed
<1> QED BY <1>1, <1>2, <1>3 DEF Witnessing

LEMMA IdleWitnessed == \A L : JobWitnessed(Idle, L)
BY DEF JobWitnessed, Idle

LEMMA WriteWitnessing ==
  ASSUME Witnessing, TypeOK', NEW p \in Procs, Write(p)
  PROVE  Witnessing'
<1> DEFINE j == job[p]
           here(n) == {c \in DOMAIN j.tips : n = QueueRef(j.queue, c)}
<1>1. /\ TypeOK /\ Published /\ j.kind = "write"
      /\ landings' = landings \cup Added(p)
      /\ job' = [job EXCEPT ![p] = Idle]
  BY DEF Witnessing, Write, Added
<1>2. ASSUME NEW n \in PublicRefs, public'[n] # None
      PROVE  \E l \in landings' : n = QueueRef(l.queue, l.change) /\ l.tip = public'[n]
  <2> DEFINE c == CHOOSE c \in DOMAIN j.tips : n = QueueRef(j.queue, c)
  <2>1. CASE \E e \in DOMAIN j.tips : n = QueueRef(j.queue, e)
    <3>1. c \in DOMAIN j.tips /\ n = QueueRef(j.queue, c)
      BY <2>1
    <3>2. public'[n] = j.tips[c]
      BY <2>1 DEF Write
    <3> DEFINE l == [how |-> j.how, queue |-> j.queue, change |-> c, tip |-> j.tips[c],
                     from |-> j.from[c]]
    <3> HIDE DEF c
    <3>3. l \in landings'
      BY <1>1, <3>1 DEF Added
    <3> QED BY <3>1, <3>2, <3>3
  <2>2. CASE ~ \E e \in DOMAIN j.tips : n = QueueRef(j.queue, e)
    <3>1. public'[n] = public[n]
      BY <2>2 DEF Write
    <3> QED BY <1>1, <1>2, <3>1 DEF Published
  <2> QED BY <2>1, <2>2
<1>3. ASSUME NEW q \in Procs PROVE JobWitnessed(job'[q], landings')
  <2>1. JobWitnessed(job[q], landings) /\ job \in [Procs -> Job]
    BY DEF Witnessing, TypeOK
  <2>2. JobWitnessed(job[q], landings')
    BY <1>1, <2>1, MoreWitnesses DEF JobWitnessed
  <2>3. job'[q] = Idle \/ job'[q] = job[q]
    BY <1>1, <2>1
  <2> QED BY <2>2, <2>3, IdleWitnessed
<1>4. ASSUME NEW l \in landings', l.how = "backport"
      PROVE  Witnessed(landings', l.change, l.tip, l.from)
  <2>1. CASE l \in landings
    <3>1. Witnessed(landings, l.change, l.tip, l.from)
      BY <1>4, <2>1, Backported DEF Witnessing
    <3> QED BY <1>1, <3>1, MoreWitnesses
  <2>2. CASE l \in Added(p)
    <3>1. PICK c \in DOMAIN j.tips :
            l = [how |-> j.how, queue |-> j.queue, change |-> c, tip |-> j.tips[c], from |-> j.from[c]]
      BY <2>2 DEF Added
    <3>2. JobWitnessed(j, landings)
      BY DEF Witnessing
    <3>3. Witnessed(landings, c, j.tips[c], j.from[c])
      BY <1>1, <1>4, <3>1, <3>2 DEF JobWitnessed
    <3>4. Witnessed(landings', c, j.tips[c], j.from[c])
      BY <1>1, <3>3, MoreWitnesses
    <3> QED BY <3>1, <3>4
  <2> QED BY <1>1, <2>1, <2>2
<1>5. BackportsAreWitnessed'
  BY <1>4 DEF BackportsAreWitnessed, Witnessed
<1>6. Published'
  BY <1>2 DEF Published
<1> QED BY <1>3, <1>5, <1>6 DEF Witnessing

LEMMA NextWitnessing == Witnessing /\ [Next]_vars => Witnessing'
<1> SUFFICES ASSUME Witnessing, [Next]_vars PROVE Witnessing'
  OBVIOUS
<1>0. TypeOK /\ TypeOK' /\ \A p \in Procs : JobWitnessed(job[p], landings)
  BY NextTypeOK DEF Witnessing
<1>1. ASSUME UNCHANGED << public, landings, job >> PROVE Witnessing'
  BY <1>0, <1>1, WitnessingStep
<1>2. ASSUME NEW p \in Procs, NEW j, JobWitnessed(j, landings), job' = [job EXCEPT ![p] = j],
             UNCHANGED << public, landings >>
      PROVE  Witnessing'
  BY <1>0, <1>2, WitnessingStep
<1>3. ASSUME NEW j, j.kind \in {"none", "approve", "land", "backport"} \/ (j.kind = "write" /\ j.how = "land")
      PROVE  JobWitnessed(j, landings)
  BY <1>3 DEF JobWitnessed
<1>4. ASSUME NEW p \in Procs, NEW s \in Subs, NEW q \in Targets,
             ApproveLoad(p, s) \/ LandLoad(p, s, q) \/ BackportLoad(p, s, q)
      PROVE  Witnessing'
  <2>1. CASE ApproveLoad(p, s)
    <3> DEFINE j == [kind |-> "approve", sub |-> s, changes |-> subs[s].changes]
    <3>1. j.kind = "approve" /\ job' = [job EXCEPT ![p] = j] /\ UNCHANGED << public, landings >>
      BY <2>1 DEF ApproveLoad
    <3> HIDE DEF j
    <3> QED BY <1>2, <1>3, <3>1
  <2>2. CASE LandLoad(p, s, q)
    <3> DEFINE j == [kind |-> "land", changes |-> subs[s].changes, queue |-> q]
    <3>1. j.kind = "land" /\ job' = [job EXCEPT ![p] = j] /\ UNCHANGED << public, landings >>
      BY <2>2 DEF LandLoad
    <3> HIDE DEF j
    <3> QED BY <1>2, <1>3, <3>1
  <2>3. CASE BackportLoad(p, s, q)
    <3> DEFINE j == [kind |-> "backport", sub |-> s, loaded |-> subs[s], queue |-> q,
                     registry |-> queues]
    <3>1. j.kind = "backport" /\ job' = [job EXCEPT ![p] = j] /\ UNCHANGED << public, landings >>
      BY <2>3 DEF BackportLoad
    <3> HIDE DEF j
    <3> QED BY <1>2, <1>3, <3>1
  <2> QED BY <1>4, <2>1, <2>2, <2>3
<1>5. ASSUME NEW p \in Procs, NEW s \in Subs, ApproveLoad(p, s) PROVE Witnessing'
  BY <1>4, <1>5 DEF Targets
<1>6. ASSUME NEW p \in Procs, ApproveSave(p) \/ CutShort(p) \/ BackportRefuses(p) PROVE Witnessing'
  BY <1>2, <1>6, IdleWitnessed DEF ApproveSave, CutShort, BackportRefuses
<1>7. ASSUME NEW p \in Procs, LandRead(p) PROVE Witnessing'
  <2> DEFINE j == [kind |-> "write", how |-> "land", queue |-> job[p].queue,
                   tips |-> [c \in job[p].changes |-> tips[c]],
                   from |-> [c \in job[p].changes |-> None]]
  <2>1. /\ j.kind = "write" /\ j.how = "land" /\ job' = [job EXCEPT ![p] = j]
        /\ UNCHANGED << public, landings >>
    BY <1>7 DEF LandRead
  <2> HIDE DEF j
  <2> QED BY <1>2, <1>3, <2>1
<1>8. ASSUME NEW p \in Procs, BackportCertify(p) PROVE Witnessing'
  <2> DEFINE S == job[p].loaded.changes
             new == [job[p].loaded EXCEPT !.certificates =
                       job[p].loaded.certificates \o Certificates(p)]
             t == [c \in S |-> tips[c]]
             u == [c \in S |-> Source(p, c).tip]
             j == [kind |-> "save", sub |-> job[p].sub, queue |-> job[p].queue, saved |-> new,
                   tips |-> t, from |-> u]
  <2>1. job[p].kind = "backport" /\ Certifiable(p) /\ Published /\ UNCHANGED << public, landings >>
    BY <1>8 DEF BackportCertify, Witnessing
  <2>2. \A c \in S : Witnessed(landings, c, tips[c], Source(p, c).tip)
    BY <1>0, <2>1, CarriedIsWitnessed
  <2>3. JobWitnessed(j, landings)
    <3> HIDE DEF new, S
    <3> QED BY <2>2 DEF JobWitnessed
  <2>4. job' = [job EXCEPT ![p] = j]
    BY <1>8, Zenon DEF BackportCertify
  <2> HIDE DEF j
  <2> QED BY <1>2, <2>1, <2>3, <2>4
<1>9. ASSUME NEW p \in Procs, BackportSave(p) PROVE Witnessing'
  <2> DEFINE j == [kind |-> "write", how |-> "backport", queue |-> job[p].queue,
                   tips |-> job[p].tips, from |-> job[p].from]
  <2>1. /\ job[p].kind = "save" /\ JobWitnessed(job[p], landings)
        /\ UNCHANGED << public, landings >> /\ job' = [job EXCEPT ![p] = j]
    BY <1>0, <1>9 DEF BackportSave
  <2>2. JobWitnessed(j, landings)
    BY <2>1 DEF JobWitnessed
  <2> HIDE DEF j
  <2> QED BY <1>2, <2>1, <2>2
<1>10. ASSUME NEW p \in Procs, Write(p) PROVE Witnessing'
  BY <1>0, <1>10, WriteWitnessing
<1> QED
  BY <1>1, <1>4, <1>5, <1>6, <1>7, <1>8, <1>9, <1>10
     DEF Next, vars, Targets, Commit, QueueAdd, QueueRemove, Submit

(* A backport lands nothing that was invented since the review: each of    *)
(* its definitions is as an earlier landing of the change had it, or as    *)
(* another landing had it, or gone (commutation_witness), though refs,     *)
(* submissions and the registry move between its unlocked reads.           *)
THEOREM BackportsBringOnlyLanded == Spec => []BackportsAreWitnessed
<1>1. Init => Witnessing
  <2> SUFFICES ASSUME Init PROVE Witnessing
    OBVIOUS
  <2>1. TypeOK
    BY InitTypeOK
  <2> QED BY <2>1, IdleWitnessed DEF Init, Witnessing, Published, BackportsAreWitnessed
<1>2. Witnessing => BackportsAreWitnessed
  BY DEF Witnessing
<1> QED BY <1>1, <1>2, NextWitnessing, PTL DEF Spec
=============================================================================
