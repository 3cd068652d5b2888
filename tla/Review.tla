------------------------------- MODULE Review -------------------------------
(***************************************************************************)
(* Submissions, their approval and what carries it into a second queue:    *)
(* crates/omoplata-identity/src/submission.rs, the queue registry of       *)
(* crates/omoplata-work/src/queue.rs, and omo submit, approve, land,       *)
(* backport and queue add/remove in crates/omoplata-cli/src/main.rs.       *)
(* Submissions and the registry are read, and submissions saved, without   *)
(* the lock; only the refs of a landing are written under it.  What a      *)
(* landing merges, and the gates on content, are in Landing.               *)
(*                                                                         *)
(* A tree gives each definition of each file a text or Gone; a file whose  *)
(* definitions are all gone does not exist.  A name is the sequence of its *)
(* segments, as in public/release/ws/a.                                    *)
(***************************************************************************)
EXTENDS Integers, Sequences, FiniteSets, SequencesExt

CONSTANTS
  Procs,      \* invocations of omo
  Subs,       \* submission ids
  Changes,    \* change ids: sequences of segments
  Submitted,  \* the submissions made: <<set of changes, pending or approved>>
  Trunk,      \* the name of the trunk
  Queues,     \* names of the queues that are registered
  Waiving,    \* those whose policy waives approval
  NameOrder,  \* the names of the public refs, in their order
  Files, Defs, Texts, Gone,
  Opaque,     \* files compared as a whole: not Rust, or not parseable
  Writes,     \* what authors write: <<change, file, definition, text or Gone>>
  None,       \* Option::None
  MaxCommits, \* bound on the commits
  MaxLandings, \* bound on the changes landed; past it no landing starts
  MaxCertificates \* bound on the certificates of a submission

Tree    == [Files -> [Defs -> Texts \cup {Gone}]]
NoFile  == [d \in Defs |-> Gone]
NoFiles == [f \in Files |-> NoFile]

(* queue_ref, less its "public/".                                          *)
QueueRef(q, c) == IF q = Trunk THEN c ELSE <<q>> \o c
PublicRefs == {QueueRef(q, c) : q \in Queues \cup {Trunk}, c \in Changes}

(* Queue names are not checked against change ids by the code: that they   *)
(* do not meet is an assumption.                                           *)
ASSUME ReviewAssumption ==
  /\ Submitted \subseteq (SUBSET Changes) \X {"pending", "approved"}
  /\ Waiving \subseteq Queues /\ Trunk \notin Queues
  /\ Changes \subseteq Seq(STRING) /\ IsFiniteSet(Changes)
  /\ \A c \in Changes : Len(c) > 0 /\ c[1] \notin Queues
  /\ NameOrder \in Seq(PublicRefs) /\ ToSet(NameOrder) = PublicRefs
  /\ Writes \subseteq Changes \X Files \X Defs \X (Texts \cup {Gone})
  /\ MaxCommits \in Nat /\ MaxLandings \in Nat /\ MaxCertificates \in Nat

VARIABLES
  tips, public, \* the refs: of the changes, and of their landings
  queues,       \* the names in .omoplata/queues.json, in their order
  subs,         \* .omoplata/submissions
  job,          \* what each process has read
  seen,         \* history: the changes of every submission a reviewer loaded
  landings,     \* history: every landing
  commits

vars == << tips, public, queues, subs, job, seen, landings, commits >>

Idle   == [kind |-> "none"]
Absent == [status |-> "absent"]

Init ==
  /\ tips = [c \in Changes |-> None]
  /\ public = [n \in PublicRefs |-> None]
  /\ queues = << >>
  /\ subs = [s \in Subs |-> Absent]
  /\ job = [p \in Procs |-> Idle]
  /\ seen = {}
  /\ landings = {}
  /\ commits = 0

-----------------------------------------------------------------------------
(* Authors and the registry of queues.                                     *)

(* A commit of a change: snapshots and rebases move its tip.               *)
Commit(c, f, d, text) ==
  LET tree == IF tips[c] = None THEN NoFiles ELSE tips[c]
  IN  /\ tree[f][d] # text
      /\ commits < MaxCommits
      /\ commits' = commits + 1
      /\ tips' = [tips EXCEPT ![c] = [tree EXCEPT ![f][d] = text]]
      /\ UNCHANGED << public, queues, subs, job, seen, landings >>

(* QueueRegistry::add and remove, each under the lock.  A removed queue    *)
(* leaves its refs behind.                                                 *)
QueueAdd(q) ==
  /\ q \notin ToSet(queues)
  /\ queues' = Append(queues, q)
  /\ UNCHANGED << tips, public, subs, job, seen, landings, commits >>

QueueRemove(q) ==
  /\ \E i \in DOMAIN queues : /\ queues[i] = q
                              /\ \A j \in 1 .. i - 1 : queues[j] # q
                              /\ queues' = RemoveAt(queues, i)
  /\ UNCHANGED << tips, public, subs, job, seen, landings, commits >>

(* QueueRegistry::resolve: the trunk is always there.                      *)
Resolves(q) == q = Trunk \/ q \in ToSet(queues)

-----------------------------------------------------------------------------
(* omo submit and omo approve.                                             *)

Submission(changes, status) == [status |-> status, changes |-> changes, certificates |-> << >>]

(* cmd_submit: a new submission over whatever was there; without --pending *)
(* it is approved on the spot.                                             *)
Submit(s, changes, status) ==
  /\ subs' = [subs EXCEPT ![s] = Submission(changes, status)]
  /\ seen' = IF status = "pending" THEN seen ELSE seen \cup changes
  /\ UNCHANGED << tips, public, queues, job, landings, commits >>

(* cmd_approve loads the submission, ...                                   *)
ApproveLoad(p, s) ==
  /\ job[p] = Idle
  /\ subs[s] # Absent
  /\ job' = [job EXCEPT ![p] = [kind |-> "approve", sub |-> s, changes |-> subs[s].changes]]
  /\ seen' = seen \cup subs[s].changes
  /\ UNCHANGED << tips, public, queues, subs, landings, commits >>

(* A bug it could have: the approval is written into whatever is there.    *)
ApproveSave_Reloads(p) ==
  /\ job[p].kind = "approve"
  /\ subs' = [subs EXCEPT ![job[p].sub].status = "approved"]
  /\ job' = [job EXCEPT ![p] = Idle]
  /\ UNCHANGED << tips, public, queues, seen, landings, commits >>

(* ... and saves what it loaded, approved and with no certificates, over   *)
(* whatever has been saved since.                                          *)
ApproveSave(p) ==
  /\ job[p].kind = "approve"
  /\ subs' = [subs EXCEPT ![job[p].sub] = Submission(job[p].changes, "approved")]
  /\ job' = [job EXCEPT ![p] = Idle]
  /\ UNCHANGED << tips, public, queues, seen, landings, commits >>

-----------------------------------------------------------------------------
(* Landing.                                                                *)

(* The approval gate; the implicit trunk asks for approval.                *)
MayLand(q, sub) == sub # Absent /\ (q \notin Waiving => sub.status = "approved")

(* cmd_land reads the policy and the submission, then the tips, ...        *)
LandLoad(p, s, q) ==
  /\ job[p] = Idle /\ Cardinality(landings) < MaxLandings
  /\ Resolves(q)
  /\ MayLand(q, subs[s])
  /\ job' = [job EXCEPT ![p] = [kind |-> "land", changes |-> subs[s].changes, queue |-> q]]
  /\ UNCHANGED << tips, public, queues, subs, seen, landings, commits >>

LandRead(p) ==
  /\ job[p].kind = "land"
  /\ job' = [job EXCEPT ![p] = [kind |-> "write", how |-> "land", queue |-> @.queue,
                                tips |-> [c \in @.changes |-> tips[c]],
                                from |-> [c \in @.changes |-> None]]]
  /\ UNCHANGED << tips, public, queues, subs, seen, landings, commits >>

(* ... and land_submission_in_queue writes the public refs under the lock: *)
(* a change without a snapshot loses its ref.                              *)
Write(p) ==
  LET j == job[p]
  IN  /\ j.kind = "write"
      /\ Cardinality(landings) + Cardinality(DOMAIN j.tips) <= MaxLandings
      /\ public' = [n \in PublicRefs |->
           IF \E c \in DOMAIN j.tips : n = QueueRef(j.queue, c)
           THEN j.tips[CHOOSE c \in DOMAIN j.tips : n = QueueRef(j.queue, c)] ELSE public[n]]
      /\ landings' = landings \cup
           {[how |-> j.how, queue |-> j.queue, change |-> c, tip |-> j.tips[c], from |-> j.from[c]]
              : c \in DOMAIN j.tips}
      /\ job' = [job EXCEPT ![p] = Idle]
      /\ UNCHANGED << tips, queues, subs, seen, commits >>

(* A gate on the content refuses, or the command is killed.                *)
CutShort(p) ==
  /\ job[p] # Idle
  /\ job' = [job EXCEPT ![p] = Idle]
  /\ UNCHANGED << tips, public, queues, subs, seen, landings, commits >>

-----------------------------------------------------------------------------
(* Which queue a public ref belongs to, and what a queue holds.            *)

(* A bug it could have: the first segment is always taken for a queue.     *)
Owner_FirstSegment(registry, n) == IF Len(n) > 1 THEN n[1] ELSE Trunk

Owner(registry, n) == IF Len(n) > 1 /\ n[1] \in ToSet(registry) THEN n[1] ELSE Trunk

(* materialize_queue_base: the landed trees of a queue but one, laid over  *)
(* each other in the order of their refs: the last to have a file wins.    *)
QueueBase(registry, refs, q, exclude) ==
  LET landed   == {i \in DOMAIN NameOrder : /\ NameOrder[i] # exclude
                                            /\ Owner(registry, NameOrder[i]) = q
                                            /\ refs[NameOrder[i]] # None}
      Tip(i)    == refs[NameOrder[i]]
      Having(f) == {i \in landed : Tip(i)[f] # NoFile}
  IN  [f \in Files |-> IF Having(f) = {} THEN NoFile
                       ELSE Tip(CHOOSE i \in Having(f) : \A j \in Having(f) : j <= i)[f]]

(* find_landed: the trunk, then the registered queues in their order.      *)
FindLanded(registry, refs, c) ==
  LET places == << Trunk >> \o registry
      hits   == {i \in DOMAIN places : refs[QueueRef(places[i], c)] # None}
  IN  IF hits = {} THEN None
      ELSE LET q == places[CHOOSE i \in hits : \A j \in hits : i <= j]
           IN  [queue |-> q, tip |-> refs[QueueRef(q, c)]]

(* support_of: the definitions of file f that differ.                      *)
Support(f, base, new) ==
  IF base = new THEN {}
  ELSE IF f \in Opaque THEN {"whole file"}
  ELSE {d \in Defs : base[d] # new[d]}

(* A bug it could have: a file the source queue does not hold is skipped.  *)
Disturbed_KnownFiles(ssrc, reviewed, current) ==
  UNION {Support(f, reviewed[f], current[f]) \cap Support(f, ssrc[f], current[f])
           : f \in {g \in Files : ssrc[g] # NoFile}}

(* commutation_witness: what moved since the review and does not match the *)
(* rest of the source queue.                                               *)
Disturbed(ssrc, reviewed, current) ==
  UNION {Support(f, reviewed[f], current[f]) \cap Support(f, ssrc[f], current[f]) : f \in Files}

(* The approval of change c, landed as found says, covers its tip of now.  *)
Carries(registry, c, found) ==
  \/ found.tip = tips[c]
  \/ Disturbed(QueueBase(registry, public, found.queue, QueueRef(found.queue, c)),
               found.tip, tips[c]) = {}

-----------------------------------------------------------------------------
(* omo backport.                                                           *)

(* A bug it could have: a submission nobody approved is carried forward.   *)
BackportLoad_Unapproved(p, s, q) ==
  /\ job[p] = Idle /\ Cardinality(landings) < MaxLandings
  /\ Resolves(q)
  /\ subs[s] # Absent
  /\ job' = [job EXCEPT ![p] = [kind |-> "backport", sub |-> s, loaded |-> subs[s], queue |-> q,
                                registry |-> queues]]
  /\ UNCHANGED << tips, public, queues, subs, seen, landings, commits >>

(* The registry and the submission; then the refs, without the lock.       *)
BackportLoad(p, s, q) ==
  /\ job[p] = Idle /\ Cardinality(landings) < MaxLandings
  /\ Resolves(q)
  /\ subs[s] # Absent
  /\ subs[s].status = "approved"
  /\ job' = [job EXCEPT ![p] = [kind |-> "backport", sub |-> s, loaded |-> subs[s], queue |-> q,
                                registry |-> queues]]
  /\ UNCHANGED << tips, public, queues, subs, seen, landings, commits >>

Source(p, c) == FindLanded(job[p].registry, public, c)

Certifiable(p) ==
  \A c \in job[p].loaded.changes :
    /\ tips[c] # None
    /\ Source(p, c) # None
    /\ Carries(job[p].registry, c, Source(p, c))

Certificates(p) ==
  SetToSeq({[change |-> c, original |-> Source(p, c).tip, rebased |-> tips[c]]
              : c \in job[p].loaded.changes})

(* Every change gets a certificate, and the submission as it was loaded is *)
(* saved with them before any gate is asked.                               *)
BackportCertify(p) ==
  /\ job[p].kind = "backport"
  /\ Certifiable(p)
  /\ Len(job[p].loaded.certificates \o Certificates(p)) <= MaxCertificates
  /\ job' = [job EXCEPT ![p] = [kind |-> "save", sub |-> @.sub, queue |-> @.queue,
       saved |-> [@.loaded EXCEPT !.certificates = job[p].loaded.certificates \o Certificates(p)],
       tips  |-> [c \in @.loaded.changes |-> tips[c]],
       from  |-> [c \in @.loaded.changes |-> Source(p, c).tip]]]
  /\ UNCHANGED << tips, public, queues, subs, seen, landings, commits >>

BackportRefuses(p) ==
  /\ job[p].kind = "backport"
  /\ ~Certifiable(p)
  /\ job' = [job EXCEPT ![p] = Idle]
  /\ UNCHANGED << tips, public, queues, subs, seen, landings, commits >>

BackportSave(p) ==
  /\ job[p].kind = "save"
  /\ subs' = [subs EXCEPT ![job[p].sub] = job[p].saved]
  /\ job' = [job EXCEPT ![p] = [kind |-> "write", how |-> "backport", queue |-> @.queue,
                                tips |-> @.tips, from |-> @.from]]
  /\ UNCHANGED << tips, public, queues, seen, landings, commits >>

Next ==
  \/ \E w \in Writes : Commit(w[1], w[2], w[3], w[4])
  \/ \E q \in Queues : QueueAdd(q) \/ QueueRemove(q)
  \/ \E s \in Subs, sub \in Submitted : Submit(s, sub[1], sub[2])
  \/ \E p \in Procs :
       \/ \E s \in Subs : ApproveLoad(p, s)
       \/ \E s \in Subs, q \in Queues \cup {Trunk} : LandLoad(p, s, q) \/ BackportLoad(p, s, q)
       \/ ApproveSave(p) \/ LandRead(p) \/ Write(p) \/ CutShort(p)
       \/ BackportCertify(p) \/ BackportRefuses(p) \/ BackportSave(p)

Spec == Init /\ [][Next]_vars

-----------------------------------------------------------------------------
Certificate == [change : Changes, original : Tree, rebased : Tree]
Pending     == [status : {"pending"}, changes : SUBSET Changes, certificates : {<< >>}]
Approved    == [status : {"approved"}, changes : SUBSET Changes, certificates : Seq(Certificate)]
Targets     == Queues \cup {Trunk}
TipsOf      == UNION {[S -> Tree \cup {None}] : S \in SUBSET Changes}

ApproveJob  == [kind : {"approve"}, sub : Subs, changes : SUBSET Changes]
LandJob     == [kind : {"land"}, changes : SUBSET Changes, queue : Targets]
BackportJob == [kind : {"backport"}, sub : Subs, loaded : Approved, queue : Targets,
                registry : Seq(Queues)]
SaveJob     == [kind : {"save"}, sub : Subs, queue : Targets, saved : Approved,
                tips : TipsOf, from : TipsOf]
WriteJob    == [kind : {"write"}, how : {"land", "backport"}, queue : Targets,
                tips : TipsOf, from : TipsOf]
Job == {Idle} \cup ApproveJob \cup LandJob \cup BackportJob \cup SaveJob \cup WriteJob

Landings ==
  [how : {"land", "backport"}, queue : Targets, change : Changes,
   tip : Tree \cup {None}, from : Tree \cup {None}]

(* Types: a submission is pending with no certificates or approved, only   *)
(* an approved one is carried into a second queue, and a certificate names *)
(* two commits.                                                            *)
TypeOK ==
  /\ tips \in [Changes -> Tree \cup {None}]
  /\ public \in [PublicRefs -> Tree \cup {None}]
  /\ queues \in Seq(Queues) /\ IsInjective(queues)
  /\ subs \in [Subs -> {Absent} \cup Pending \cup Approved]
  /\ job \in [Procs -> Job]
  /\ \A p \in Procs : job[p].kind \in {"save", "write"} => DOMAIN job[p].from = DOMAIN job[p].tips
  /\ seen \subseteq Changes
  /\ landings \subseteq Landings
  /\ commits \in 0 .. MaxCommits

(* What lands in a queue that asks for approval was in a submission that a *)
(* reviewer had loaded (or that was submitted as approved): a submission   *)
(* replaced while it is being approved does not borrow the approval.       *)
LandedWasReviewed ==
  \A l \in landings : l.queue \notin Waiving => l.change \in seen

(* A backport lands nothing that was invented since the review: each of    *)
(* its definitions is as some earlier landing of the change had it, or as  *)
(* another landing had it, or gone ("invented content cannot masquerade as *)
(* landed", commutation_witness) - whatever moves while it is judged.      *)
BackportsAreWitnessed ==
  \A l \in landings : l.how = "backport" =>
    \E o \in landings :
      /\ o.change = l.change /\ o.tip # None /\ o.tip = l.from
      /\ \A f \in Files, d \in Defs :
           \/ l.tip[f][d] \in {o.tip[f][d], Gone}
           \/ \E x \in landings : /\ <<x.queue, x.change>> # <<o.queue, o.change>>
                                  /\ x.tip # None
                                  /\ x.tip[f][d] = l.tip[f][d]

(* A queue that is registered, or the trunk, holds what was landed in it:  *)
(* the name of a ref leads back to its queue.                              *)
QueuesHoldTheirLandings ==
  \A l \in landings : Resolves(l.queue) => Owner(queues, QueueRef(l.queue, l.change)) = l.queue

-----------------------------------------------------------------------------
(* What a comment says and the code does not do.                           *)

(* cmd_backport: "every definition the reviewer approved is byte-identical *)
(* in the current content".  A definition only the reviewed landing ever   *)
(* brought is in what is landed under its approval.                        *)
ReviewedDefinitionsIntact ==
  \A l \in landings : l.how = "backport" =>
    \A f \in Files, d \in Defs :
      \/ l.from[f][d] \in {l.tip[f][d], Gone}
      \/ \E x \in landings : /\ x.change # l.change
                             /\ x.tip # None
                             /\ x.tip[f][d] = l.from[f][d]
=============================================================================
