------------------------------ MODULE Landing ------------------------------
(***************************************************************************)
(* Landing (crates/omoplata-cli/src/main.rs): omo submit, approve, land,   *)
(* push, reconcile and op undo on one repository, by several processes.    *)
(* Every change of the operation log is one locked load -> mutate -> save  *)
(* (module LockedLog), but a landing is several of them: it snapshots the  *)
(* working copies, reads the log without the lock, checks the queue's      *)
(* gates and merges what it lands into the trunk it read, and writes the   *)
(* public refs and the merged trunk in a last locked step.  Whatever       *)
(* happens between those steps is an interleaving of this module.          *)
(*                                                                         *)
(* Data.  A tree is a function from paths to texts.  A text is the set of  *)
(* versions of the one definition the path holds: none (no such file), one *)
(* or, in a conflict value, several.  A commit id stands for its tree: the *)
(* store is content-addressed, so the two are one to one.                  *)
(***************************************************************************)
EXTENDS Integers, Sequences, FiniteSets, SequencesExt

CONSTANTS
  Procs,         \* invocations of omo, and threads of omo serve
  Names,         \* the changes, in the order of their names
  Remote,        \* the changes whose working copy is in another repository
  Queues,        \* landing queues
  Strict,        \* queues that refuse carried conflict values
  Approving,     \* queues that require approval
  Validating,    \* queues with a validator
  Subs,          \* submissions
  SubChanges,    \* the changes of each submission
  Batches,       \* the sequences of submissions that are landed together
  Paths, Versions,
  Writes,        \* the edits in use: <<change, path, text>>
  FailsToBuild,  \* trees the validator rejects
  None,          \* Option::None
  NoText,        \* the side of a conflict value that deleted the definition
  Commands,      \* the commands in use: land, push, reconcile, undo
  MaxOps         \* bound on the length of the log

Changes == ToSet(Names)
Tree    == [Paths -> SUBSET (Versions \cup {NoText})]
NoFiles == [d \in Paths |-> {}]

(* Ref names: a change's tip is under its id, its landing in q under       *)
(* public/<q>/<change> and q's merged trunk under reconciled/<q>.          *)
Public(q, c)  == <<q, c>>
Reconciled(q) == <<q>>
AllRefs == Changes \cup (Queues \X Changes) \cup {Reconciled(q) : q \in Queues}

INSTANCE OpLogOps WITH Refs <- AllRefs, Commits <- Tree

ASSUME LandingAssumption ==
  /\ Names \in Seq(Changes)
  /\ Changes \cap ((Queues \X Changes) \cup {Reconciled(q) : q \in Queues}) = {}
  /\ None \notin Tree
  /\ Strict \cup Approving \cup Validating \subseteq Queues
  /\ Remote \subseteq Changes
  /\ SubChanges \in [Subs -> Seq(Changes)]
  /\ Batches \subseteq Seq(Subs)
  /\ Writes \subseteq Changes \X Paths \X SUBSET Versions
  /\ FailsToBuild \subseteq Tree
  /\ Commands \subseteq {"land", "push", "reconcile", "undo"}
  /\ MaxOps \in Nat

VARIABLES
  ops,     \* the operation log
  copy,    \* the working copy of each change's workspace
  subs,    \* .omoplata/submissions: absent, pending or approved
  pc, job, \* how far each process is, and what it has read and computed
  built    \* history: the trunk each change's author started from

vars == << ops, copy, subs, pc, job, built >>

Refs == RefsNow(ops)
Idle == [kind |-> "none"]

Init ==
  /\ ops = << >>
  /\ copy = [c \in Changes |-> NoFiles]
  /\ subs = [s \in Subs |-> "absent"]
  /\ pc = [p \in Procs |-> "idle"]
  /\ job = [p \in Procs |-> Idle]
  /\ built = [c \in Changes |-> None]

-----------------------------------------------------------------------------
(* The content of a queue, and merging a change into it.                   *)

Carries(tree) == \E d \in Paths : Cardinality(tree[d]) > 1

(* materialize_queue_base: the landed trees, one over the other, by name.  *)
Overlay(refs, q) ==
  LET Tip(i)    == refs[Public(q, Names[i])]
      Having(d) == {i \in DOMAIN Names : Tip(i) # None /\ Tip(i)[d] # {}}
  IN  [d \in Paths |-> IF Having(d) = {} THEN {}
                       ELSE Tip(CHOOSE i \in Having(d) : \A j \in Having(d) : j <= i)[d]]

(* materialize_trunk: the merged trunk if the queue has one.               *)
Trunk(refs, q) ==
  IF refs[Reconciled(q)] # None THEN refs[Reconciled(q)] ELSE Overlay(refs, q)

(* The structural driver: a side that did not change gives way to the one  *)
(* that did; two different changes are carried as a conflict value.        *)
MergeText(base, left, right) ==
  IF left = base THEN right
  ELSE IF right = base THEN left
  ELSE left \cup right \cup (IF left = {} THEN {NoText} ELSE {})

(* change_first_commit_seq: undone commits count.                          *)
CommitsOf(log, c) ==
  {s \in 0 .. Len(log) - 1 : OpAt(log, s).kind = "commit" /\ OpAt(log, s).ref = c}

FirstCommit(log, c) == CHOOSE s \in CommitsOf(log, c) : \A t \in CommitsOf(log, c) : s <= t

(* A bug it could have: every change is merged as if it were authored now. *)
Base_CurrentTrunk(log, q, c, acc) == Trunk(RefsNow(log), q)

(* The base of a change: the trunk when it was first committed, or the     *)
(* merge so far when it never was.                                         *)
Base(log, q, c, acc) ==
  IF CommitsOf(log, c) = {} THEN acc ELSE Trunk(RefsAt(log, FirstCommit(log, c)), q)

(* reconcile_core: files of the change are merged; a file it does not have *)
(* is left alone, whether or not its base had it.                          *)
MergeChange(log, q, acc, c) ==
  LET tip  == RefsNow(log)[c]
      base == Base(log, q, c, acc)
  IN  IF tip = None THEN acc
      ELSE [d \in Paths |-> IF tip[d] = {} THEN acc[d]
                            ELSE MergeText(base[d], acc[d], tip[d])]

Reconcile(log, q, changes) ==
  FoldLeft(LAMBDA acc, c : MergeChange(log, q, acc, c), Trunk(RefsNow(log), q), changes)

-----------------------------------------------------------------------------
(* What the locked steps append.                                           *)

(* auto_snapshot, for a change with a workspace in this repository.        *)
Snapshot(log, c) ==
  LET tip == RefsNow(log)[c]
  IN  IF c \in Remote \/ copy[c] = (IF tip = None THEN NoFiles ELSE tip) THEN log
      ELSE Appended(log, CommitOp(c, tip, copy[c]))

Snapshots(changes) == FoldLeft(LAMBDA log, c : Snapshot(log, c), ops, changes)

(* land_pushed: the pushed tips become the changes' tips.                  *)
Records(changes, tips) ==
  FoldLeft(LAMBDA log, c : IF RefsNow(ops)[c] = tips[c] THEN log
                           ELSE WithSetRef(log, c, tips[c]),
           ops, changes)

(* A bug it could have: the public refs take the changes' tips of now, and *)
(* not those that were gated and merged.                                   *)
Landed_CurrentTips(q, changes, tips, tip) ==
  WithSetRef(FoldLeft(LAMBDA log, c : WithSetRef(log, Public(q, c), RefsNow(ops)[c]),
                      ops, changes),
             Reconciled(q), tip)

(* land_submission_in_queue for every submission, and the merged trunk.    *)
Landed(q, changes, tips, tip) ==
  WithSetRef(FoldLeft(LAMBDA log, c : WithSetRef(log, Public(q, c), tips[c]), ops, changes),
             Reconciled(q), tip)

Save(log) == Len(log) <= MaxOps /\ ops' = log

Start(p, step, j) ==
  /\ pc[p] = "idle"
  /\ pc' = [pc EXCEPT ![p] = step]
  /\ job' = [job EXCEPT ![p] = j]

Goto(p, step) == pc' = [pc EXCEPT ![p] = step]

Finish(p) ==
  /\ pc' = [pc EXCEPT ![p] = "idle"]
  /\ job' = [job EXCEPT ![p] = Idle]

users == << copy, built >>

-----------------------------------------------------------------------------
(* Authors.                                                                *)

(* An author starts a change from a queue's trunk as it is now.            *)
Author(c, q, d, text) ==
  /\ built[c] = None
  /\ built' = [built EXCEPT ![c] = Trunk(Refs, q)]
  /\ copy' = [copy EXCEPT ![c] = [Trunk(Refs, q) EXCEPT ![d] = text]]
  /\ UNCHANGED << ops, subs, pc, job >>

Edit(c, d, text) ==
  /\ built[c] # None
  /\ copy' = [copy EXCEPT ![c][d] = text]
  /\ UNCHANGED << ops, subs, pc, job, built >>

(* cmd_submit: snapshot the changes' workspaces, then save the submission  *)
(* over whatever it was.                                                   *)
SubmitSnapshot(p, s, status) ==
  /\ Start(p, "save", [kind |-> "submit", sub |-> s, status |-> status])
  /\ Save(Snapshots(SubChanges[s]))
  /\ UNCHANGED << users, subs >>

SubmitSave(p) ==
  /\ pc[p] = "save"
  /\ subs' = [subs EXCEPT ![job[p].sub] = job[p].status]
  /\ Finish(p)
  /\ UNCHANGED << users, ops >>

(* cmd_approve: the changes of a submission never vary here, so its        *)
(* unlocked load and save are one step.                                    *)
Approve(s) ==
  /\ subs[s] # "absent"
  /\ subs' = [subs EXCEPT ![s] = "approved"]
  /\ UNCHANGED << users, ops, pc, job >>

(* cmd_op_undo *)
Undo ==
  /\ "undo" \in Commands
  /\ InEffect(ops) # {}
  /\ Save(Appended(ops, UndoOp(Latest(InEffect(ops)))))
  /\ UNCHANGED << users, subs, pc, job >>

-----------------------------------------------------------------------------
(* omo land, omo push and omo reconcile.                                   *)

ChangesOf(batch) == FoldLeft(LAMBDA acc, s : acc \o SubChanges[s], << >>, batch)

(* cmd_land up to the gate of approval: the submissions are read here and  *)
(* not again.                                                              *)
LandStart(p, batch, q) ==
  /\ "land" \in Commands
  /\ \A s \in ToSet(batch) : /\ subs[s] # "absent"
                             /\ q \in Approving => subs[s] = "approved"
  /\ Start(p, "snapshot", [kind |-> "land", queue |-> q, changes |-> ChangesOf(batch)])
  /\ UNCHANGED << users, ops, subs >>

LandSnapshot(p) ==
  /\ pc[p] = "snapshot"
  /\ Save(Snapshots(job[p].changes))
  /\ Goto(p, "read")
  /\ UNCHANGED << users, subs, job >>

(* cmd_push and accept_push up to the first locked step: the tips and the  *)
(* approval are the client's.                                              *)
PushStart(p, s, q, approved) ==
  /\ "push" \in Commands
  /\ \A c \in ToSet(SubChanges[s]) : c \in Remote /\ built[c] # None
  /\ q \in Approving => approved
  /\ Start(p, "record", [kind    |-> "push", queue |-> q, changes |-> SubChanges[s],
                         tips    |-> [c \in ToSet(SubChanges[s]) |-> copy[c]],
                         sub     |-> s,
                         status  |-> IF approved THEN "approved" ELSE "pending"])
  /\ UNCHANGED << users, ops, subs >>

PushRecord(p) ==
  /\ pc[p] = "record"
  /\ Save(Records(job[p].changes, job[p].tips))
  /\ Goto(p, "read")
  /\ UNCHANGED << users, subs, job >>

ReconcileStart(p, batch, q) ==
  /\ "reconcile" \in Commands
  /\ \A s \in ToSet(batch) : subs[s] # "absent"
  /\ Start(p, "read", [kind |-> "reconcile", queue |-> q, changes |-> ChangesOf(batch)])
  /\ UNCHANGED << users, ops, subs >>

(* The log is read without the lock; the tips to land and the merged trunk *)
(* come from this reading.                                                 *)
Tips(p) ==
  IF job[p].kind = "push" THEN job[p].tips
  ELSE [c \in ToSet(job[p].changes) |-> Refs[c]]

Merged(p) == Reconcile(ops, job[p].queue, job[p].changes)

(* A bug it could have: what is landed is scanned, not what it merges to.  *)
RefusesMerge_ScansTips(p) ==
  job[p].queue \in Strict /\ \E c \in ToSet(job[p].changes) : Tips(p)[c] # None /\ Carries(Tips(p)[c])

RefusesMerge(p) == job[p].queue \in Strict /\ Carries(Merged(p))

(* After the gate on the merge a push saves the submission it was sent,    *)
(* which nothing reads before the landing.                                 *)
Read(p) ==
  /\ pc[p] = "read"
  /\ ~RefusesMerge(p)
  /\ Goto(p, "commit")
  /\ job' = [job EXCEPT ![p] =
       [kind    |-> job[p].kind, queue |-> job[p].queue, changes |-> job[p].changes,
        tips    |-> Tips(p), merged |-> Merged(p),
        seen    |-> Trunk(Refs, job[p].queue)]]
  /\ subs' = IF job[p].kind = "push" THEN [subs EXCEPT ![job[p].sub] = job[p].status]
             ELSE subs
  /\ UNCHANGED << users, ops >>

ReadRefuses(p) ==
  /\ pc[p] = "read"
  /\ RefusesMerge(p)
  /\ Finish(p)
  /\ UNCHANGED << users, ops, subs >>

(* A bug they could have: the verdict of the validator is not looked at.   *)
PassesGates_NoValidator(p) ==
  job[p].queue \in Strict =>
    \A c \in ToSet(job[p].changes) : job[p].tips[c] # None => ~Carries(job[p].tips[c])

(* The gates of land_submission_in_queue, on what is landed alone.         *)
PassesGates(p) ==
  LET q    == job[p].queue
      tips == {job[p].tips[c] : c \in ToSet(job[p].changes)} \ {None}
  IN  /\ q \in Strict => \A tip \in tips : ~Carries(tip)
      /\ q \in Validating => \A tip \in tips : tip \notin FailsToBuild

Commit(p) ==
  /\ pc[p] = "commit"
  /\ job[p].kind # "reconcile"
  /\ PassesGates(p)
  /\ Save(Landed(job[p].queue, job[p].changes, job[p].tips, job[p].merged))
  /\ Finish(p)
  /\ UNCHANGED << users, subs >>

CommitRefuses(p) ==
  /\ pc[p] = "commit"
  /\ job[p].kind # "reconcile"
  /\ ~PassesGates(p)
  /\ Finish(p)
  /\ UNCHANGED << users, ops, subs >>

(* cmd_reconcile lands nothing, and moves the merged trunk.                *)
CommitReconciled(p) ==
  /\ pc[p] = "commit"
  /\ job[p].kind = "reconcile"
  /\ Save(WithSetRef(ops, Reconciled(job[p].queue), job[p].merged))
  /\ Finish(p)
  /\ UNCHANGED << users, subs >>

Next ==
  \/ \E w \in Writes :
       Edit(w[1], w[2], w[3]) \/ \E q \in Queues : Author(w[1], q, w[2], w[3])
  \/ \E s \in Subs : Approve(s)
  \/ Undo
  \/ \E p \in Procs :
       \/ \E s \in Subs, status \in {"pending", "approved"} : SubmitSnapshot(p, s, status)
       \/ SubmitSave(p)
       \/ \E batch \in Batches, q \in Queues : \/ LandStart(p, batch, q)
                                               \/ ReconcileStart(p, batch, q)
       \/ \E s \in Subs, q \in Queues, approved \in BOOLEAN : PushStart(p, s, q, approved)
       \/ LandSnapshot(p) \/ PushRecord(p)
       \/ Read(p) \/ ReadRefuses(p)
       \/ Commit(p) \/ CommitRefuses(p) \/ CommitReconciled(p)

Spec == Init /\ [][Next]_vars

-----------------------------------------------------------------------------
(* The step in which process p moves the trunk of its queue.               *)
Lands(p) == pc[p] = "commit" /\ pc'[p] = "idle" /\ ops' # ops

Of(p)     == ToSet(job[p].changes)
Before(p) == Trunk(Refs, job[p].queue)
After(p)  == Trunk(RefsNow(ops'), job[p].queue)

(* Nothing moved the trunk between the reading and the landing.            *)
Undisturbed(p) == Before(p) = job[p].seen

(* Every change of the landing was first snapshotted on the trunk its      *)
(* author started from.                                                    *)
InTime(p) ==
  \A c \in Of(p) : /\ CommitsOf(ops, c) # {}
                   /\ built[c] = Trunk(RefsAt(ops, FirstCommit(ops, c)), job[p].queue)

Edits(p, c, d) == job[p].tips[c] # None /\ job[p].tips[c][d] # built[c][d]

(* A landing alters only what its own changes altered.                     *)
KeepsOthersWork(p) ==
  \A d \in Paths : (\A c \in Of(p) : ~Edits(p, c, d)) => After(p)[d] = Before(p)[d]

(* What it alters, it adds its author's text to; and what others landed    *)
(* there since the author started stays, as a side of a conflict value.    *)
MergesOwnWork(p) ==
  \A d \in Paths, c \in Of(p) :
    Edits(p, c, d) /\ (\A e \in Of(p) \ {c} : ~Edits(p, e, d)) =>
      /\ job[p].tips[c][d] \subseteq After(p)[d]
      /\ Before(p)[d] # built[c][d] => Before(p)[d] \subseteq After(p)[d]

(* A change contributes exactly its own edit, alone or as a side of a      *)
(* conflict value, whenever it was authored and whatever landed since, if  *)
(* the trunk stands still while it lands and its first snapshot was in     *)
(* time (reconcile_core, cross-time bases).                                *)
ExactlyOwnEditsLand ==
  [][\A p \in Procs : Lands(p) /\ Undisturbed(p) /\ InTime(p) =>
       KeepsOthersWork(p) /\ MergesOwnWork(p)]_vars

(* The versions of path d that were written to a ref of the given ones by  *)
(* a landing, or by a push that recorded what it was sent.                 *)
WrittenTo(refs, d) ==
  UNION {OpAt(ops, s).new[d] : s \in {t \in 0 .. Len(ops) - 1 :
    OpAt(ops, t).kind = "set_ref" /\ OpAt(ops, t).ref \in refs /\ OpAt(ops, t).new # None}}

LandedIn(q, d) == WrittenTo({Public(q, c) : c \in Changes}, d)
Pushed(d)      == WrittenTo(Changes, d)

(* The merged trunk of a queue is made of versions that landed in it or    *)
(* that were pushed: no interleaving of landings, pushes and undos brings  *)
(* in anything else, nothing that was only submitted or snapshotted.       *)
TrunkIsLanded ==
  \A q \in Queues, d \in Paths :
    Trunk(Refs, q)[d] \subseteq LandedIn(q, d) \cup Pushed(d) \cup {NoText}

(* A strict queue keeps no conflict value, in its trunk or under a public  *)
(* ref, whatever is landed, pushed, reconciled or undone at the same time. *)
StrictStaysClean ==
  \A q \in Strict : /\ ~Carries(Trunk(Refs, q))
                    /\ \A c \in Changes : LET tip == Refs[Public(q, c)]
                                           IN  tip # None => ~Carries(tip)

(* What is public in a queue with a validator has passed it: the tip that  *)
(* lands is the tip that was validated, however the change moves on.       *)
PublicPassedValidation ==
  \A q \in Validating, c \in Changes : Refs[Public(q, c)] \notin FailsToBuild

-----------------------------------------------------------------------------
(* What the documents say and the code does not do.                        *)

(* ADR-0010: "definitions that landed since are preserved rather than      *)
(* appearing reverted" - when another landing moves the trunk meanwhile.   *)
RacingLandingsKeepOthersWork ==
  [][\A p \in Procs : Lands(p) /\ InTime(p) => KeepsOthersWork(p)]_vars
=============================================================================
