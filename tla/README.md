# A TLA+ specification of Omoplata

Omoplata is a version control system whose history is a log of operations and
whose merges keep conflicts as values. This directory models it in TLA+, checks
it with TLC on small instances and proves part of it with TLAPS for all.

Contents: [the system](#1-the-system), [the modules](#2-the-modules),
[the runs](#3-the-runs), [bounds and fairness](#4-bounds-and-fairness),
[findings](#5-findings), [proofs](#6-proofs),
[not modelled](#7-not-modelled), [the plan](#8-the-plan).

Paths below are relative to `src/`; `main.rs` is
`crates/omoplata-cli/src/main.rs`, `oplog.rs` is
`crates/omoplata-work/src/oplog.rs` and so on.

To run everything:

    tlc -config MCOpLog.cfg OpLog.tla
    tlc -config MCLockedLog.cfg LockedLog.tla
    tlc -config MCChangeGraph.cfg MCChangeGraph.tla
    tlc -config MCLanding.cfg MCLanding.tla        # and MCLandingStrict, MCLandingRace
    tlc -config MCWorkspaces.cfg MCWorkspaces.tla
    tlc -config MCReplication.cfg MCReplication.tla
    tlc -config MCReview.cfg MCReview.tla          # and MCReviewWitness
    tlc -config MCAlgorithms.cfg MCAlgorithms.tla  # and MCAlgorithmsTrivia
    for m in OpLog LockedLog ChangeGraph Replication Workspaces Review Landing Edits; do
      tlapm ${m}Proofs.tla
    done

## 1. The system

One repository is a directory with a `.omoplata/` control directory. Nothing
runs in it permanently: every `omo` command is a process that loads what it
needs from files, works, and saves. `omo serve` runs the same code in one
thread per connection. Concurrency is therefore between processes (and threads)
that share files, and the hazards are about who read what before whom.

| Component | State | Operations | Talks to |
|---|---|---|---|
| **Object store** `omoplata-store` | immutable objects named by their hash | write, read, has | everybody |
| **Lock and atomic write** `lock.rs` | `flock` on `.omoplata/lock`; temporary files | lock, try_lock, drop, atomic_write | the log and every registry |
| **Operation log** `oplog.rs` | `.omoplata/oplog.jsonl`, append-only, one entry per mutation | append, set_ref, undo, refs_now, refs_at, mutate_locked | every command |
| **Workspaces** `workspace.rs` | registry file (name, directory, change); working copies | add, remove, switch, auto_snapshot, materialize | log, store |
| **Change graph** `change.rs` | revisions, superseded-by edges, phases; rebuilt in memory by each command | add_change, supersede, tip, set_phase | landing, autorebase |
| **Submissions** `submission.rs`, `main.rs` | one JSON file each: changes, approval, certificates | submit, approve, add_certificate | landing, backport |
| **Queues** `queue.rs` | registry file of policies (approval, strict, validator) | add, remove, resolve, the gates, landing | log, change graph |
| **Landing** `main.rs` | `public/..` and `reconciled/<queue>` refs | land, push, reconcile, backport | log, queues, drivers, store |
| **Remotes and fetch** `remote.rs`, `sync.rs` | registry file; `remotes/<name>/..` refs | fetch, copy_closure, serve | another repository's log and store |
| **Autorebase** `autorebase.rs` | none of its own | auto_rebase, auto_rebase_stack, history | log, change graph, algebra |
| **Stacks** `stack.rs` | a sequence of changes, in memory | push, reorder, fold, split, absorb | - |
| **Patch algebra** `omoplata-algebra` | none (pure) | diff, apply, commute, merge3, rebase, certify | drivers, autorebase |
| **Merge drivers** `omoplata-drivers` | none (pure, or a child process) | merge of a file by its kind | landing, `omo merge-file` |
| **Definitions** `definition.rs` | identities of functions and types | extract, match, add, join, sever | drivers, queues |
| **Revsets** `revset.rs` | none (pure) | parse, eval | refs, change graph |
| **Git** `omoplata-git` | none of its own | verify, import, log, export, fetch | a git repository, the store |
| **Semantic search** `omoplata-sem` | none | embed, search | store |

What makes each of the central ones correct, and what is hard in it:

* **Log.** Undo is an inverse and never an erasure; the view as of a past time
  never changes; an entry's before-value is the value its ref really had. Hard:
  undos of undos, entries whose effect depends on later ones.
* **Lock and atomic write.** No update is lost, readers without a lock never see
  half a log, errors and crashes at any step leave the old log or the new one.
  Hard: crashes between the four steps of `atomic_write`, a dead lock holder.
* **Landing.** A landed change contributes its own edit and nothing else; what
  is public passed the queue's gates; the merged trunk consists of what landed.
  Hard: a landing is several locked steps with unlocked reads between them, and
  merges against a base recovered from history.
* **Workspaces.** No edit that was not snapshotted is lost; a switch gives what
  was asked for. Hard: check, clear, write and bind are separate steps.
* **Submissions.** An approval, or a certificate that carries one on, covers what
  was reviewed. Hard: load and save without a lock.
* **Replication.** A ref never names a tree that is not all there; nothing
  unlanded travels; a fetch catches up. Hard: copies cut short halfway.
* **Change graph.** No supersession cycle, no public commit superseded, phases
  only advance - unless a caller replaces the change.
* **Algebra and drivers.** Patches that commute give one result in either order,
  a merge loses no side, the kernel admits only what it derives itself,
  conflict values ride through a rebase. Hard: edges of regions, insertions at
  one point, renames against edits.
* **Formats.** A reader finds what was written, in whatever order it lies, or fails.

`PROJECT.json` lists the hazards one by one, each at its line, with the
properties that cover it.

## 2. The modules

    OpLogOps --- OpLog ------------ OpLogProofs
        |
        +------- Landing ---------- MCLanding, LandingProofs
        +------- Workspaces ------- MCWorkspaces, WorkspacesProofs

    AtomicLog <== implements == LockedLog --- LockedLogProofs

    ChangeGraph --- MCChangeGraph, ChangeGraphProofs

    Replication --- MCReplication, ReplicationProofs
    Review --- MCReview, ReviewProofs

    Algebra, Stacks --- Edits ---------- EditsProofs
                          |
                          +------------+
    Algebra, Definitions --- Drivers --+-- Algorithms --- MCAlgorithms
    Revset, Packs, Git, Encodings -----+

### State and concurrency

**`OpLogOps`** is the log as a value: operators on a sequence of entries, used by
every module that keeps a log. `IsActive` is `OpLog::is_active`, written as a
function of the undos that target each entry (`UndosOf`) that says which entries
are in force (`InForce`, a recursive function: an undo names an earlier entry,
so the recursion ends). `FoldRefs` is `fold_refs`, `RefsNow` and `RefsAt` its
two queries, `WithSetRef` is `set_ref` with its folded before-value.

**`OpLog`** is the log under the commands that append to it: `RefSet`,
`AutoSnapshot` (which reads the working copy twice, and an editor may write in
between), `AutoRebase` (one or two entries in one locked step) and `Undo`. Each
command is one action because it is one `mutate_locked` - which `LockedLog`
justifies.

**`LockedLog`** opens up `mutate_locked`: `Begin`, `Acquire` or `TryAcquire`, `Load`,
`Mutate`, then `atomic_write` step by step (`Stage`, `Fsync`, `Rename`,
`SyncDir`), `Return`. Any step before the rename may fail (`MutateFails`,
`WriteFails`), a process may be killed (`Kill`) and the machine may lose power
(`PowerLoss`). The file system is two variables: `visible`, what the name is
bound to now, and `onDisk`, the files it may be bound to after a power loss: the
one of the last directory sync and those renamed over it since. Data that was
never synced comes back torn. The constant `DirSyncMayFail` says whether the
directory fsync, whose error the code ignores, may fail.

**`AtomicLog`** is what the rest of the system is entitled to: a mutation is one
step, computed from the log it is appended to; a power loss may take back
only mutations nobody was told of. `LockedLog` implements it with `log` mapped
to `visible.ops`.

**`ChangeGraph`** is one process's change graph (`change.rs`) from `RebaseEngine::new`
on: rebases by the engine (`AutoRebase`, with the op it logs), then, after
`into_parts`, whatever a caller does with the graph (`AddChange`, `AddRevision`,
`Supersede`, `SetPhase`). A call that is refused changes nothing and is no step,
with one exception: `auto_rebase` logs its op and registers both revisions before
`supersede` may refuse. `add_change` replaces whatever change has its id, phase and
revisions included, and leaves the commits that change listed registered to it;
nothing in it refuses. Two history variables say what the properties have to
except: `dropped`, the commits whose owner was replaced by one that does not list
them, and `added`, the change the last call replaced. The walk of `reaches` is written without recursion: it
comes to a commit if every set closed under the edges that holds its start holds
that commit (`LeadsTo`). `Tip` is the walk itself, with its set of commits seen.

**`Landing`** is `omo submit`, `approve`, `land`, `push`, `reconcile` and `op undo`
by several processes at once. It keeps exactly the lock boundaries of the code:

| `cmd_land` / `land_pushed` | action |
|---|---|
| load the submissions, the approval gate (main.rs:1285-1306) | `LandStart`, `PushStart` |
| locked: snapshot the workspaces (1308-1321) / record the tips (2596-2604) | `LandSnapshot` / `PushRecord` |
| unlocked: load the log, observe the gates, merge (1323-1379) | `Read`, `ReadRefuses` |
| locked: the gates again, public refs, merged trunk (1387-1396) | `Commit`, `CommitRefuses` |
| `cmd_reconcile`: locked write of the merged trunk (1674-1677) | `CommitReconciled` |

Between any two of them other processes run and authors edit (`Edit`). The
unlocked middle is one step because the log is loaded once and everything
after works on that value and on immutable objects. Data: a tree maps a path to
the set of versions of the one definition it holds - empty when there is no such
file, more than one in a conflict value; `MergeText` is the structural driver's
decision for one definition. A commit id is its tree, the store being
content-addressed. `built` is a history variable: the trunk each author started
from, which the code tries to recover as the trunk at the first snapshot.

**`Workspaces`** is the registry, `omo stack` and `omo switch` over directories that
an author edits whenever he likes. `cmd_switch` is `SwitchStart` (registry and log
read without the lock, the target resolved as `resolve_switch_target` does, in its
order), `SwitchCheck` or `SwitchRefuses` (`is_dirty`), `ClearFile` per file and
`Cleared`, `WriteFile` per file, and the locked `Bind` by name (or `BindFails`, if
the workspace is gone). `CutShort` is a kill, a full disk or a missing object
between any two. `Add`, `Remove`, `StackStart` and `StackSnapshot`, `Land`, `Fetch` and
`Undo` run between any two as well. Two history variables: `unsaved`, the edits no
command may discard, and `calm`, the switches nobody interfered with.

**`Replication`** is two repositories and the objects that travel between them:
snapshots write a tree's entries before the tree (`SnapshotObject`), copies write
a tree before its entries (`Copy`, the worklist of `copy_closure` and of
`pull_closure_http`), refs move in a locked step at the end (`FetchCommit`,
`PushRecord`, `PushLand`, `SnapshotCommit`), the authority lands and undoes
(`Land`, `Unland`), and any command can be cut short.

**`Review`** is the life of submissions: `Submit`, the unlocked load and save of
`omo approve` (`ApproveLoad`, `ApproveSave`), `omo land` (`LandLoad`, `LandRead`,
`Write`) and `omo backport` (`BackportLoad`, `BackportCertify` with the witness of
`commutation_witness` decided definition by definition, `BackportSave` before the
gates, `Write`), with queues added and removed and the owner of a public ref read
off its name (`Owner`).

### Algorithms

**`Algebra`** is `omoplata-algebra`: `Diff` by longest common subsequence with its
tie-breaking, `Apply`, `Commute` and `Combine`, `Merge3` region by region, `Rebase`,
`RebaseMerge` and `RebaseStack` with their conflict regions, `ResolveAll`, and the
kernel (`Admit`, `Certify`, `VerifyWitness`, `DynamicValidate`). A line is a value.

**`Definitions`** is the tiered matcher of `definition.rs`; what it compares of a
renamed definition is the hash of the whole text but for the name, members
included, and of an `impl`, which has no name field, of all of it (`BodyHash`), so
that a renamed container that was edited, or any renamed `impl`, is a deletion and an
addition. **`Drivers`** is the Rust
structural driver over segmented files, containers included: a conflict value in
a member is pinned to the item of the file that has the member (`CarriedBy`), the
members that are merged are cut from the text without values (`Sanitized`), and a
container that carries one is kept, carried or nested as a whole. It also has
its fallback to the line driver, mergiraf as an external tool seen by its exit
code and the diff3 text it leaves, `SelectDriver`, and the commands `omo
merge-file`, `omo admit` and `omo rebase` with their exit codes.

**`Revset`** is the recursive-descent parser and the evaluator over tokens. The
context is given: which queue a public ref belongs to, by the first segment of its
name (revset.rs:156-174), is not computed; `landed` has the commits of each queue.
**`Stacks`** is `stack.rs` and the definition graph's `add`, `join` and `sever`.

**`Packs`** reads git packs in both of the code's ways: by an index (`ReadPack`) and
off the wire, by passes over the deltas that wait for their base
(`ParsePackBytes`). **`Git`** is refs with symbolic and packed ones, the gate, the
import by a walk, the log of commits, the export with its verdict, and the
conversation of a clone. **`Encodings`** is the store's encoding of trees, git's
encoding of trees, commits and tags, and pkt-lines.

**`Edits`** is a state machine whose state is an input of `Algebra` or `Stacks`, and
whose actions make it: two authors rewrite their copy of a base (`Rewrite`),
occurrences are added, joined and severed, changes are pushed, reordered, folded
and split. Beside the graph and the stack it keeps, in a set, who was joined with
whom (`same`) and which changes the stack should have (`members`).

**`Algorithms`** extends it by the inputs of everything else: editing definitions,
members and gaps on two sides, typing tokens, writing packs in any order with any
index, moving, packing, losing and corrupting what is in a git directory, and
writing what is to be encoded. An input stays of its kind, so each invariant is
about the steps of one kind, and those of `Edits` are steps of `EditsSpec`. The
invariants compare what the algorithms make of the input with a reference
definition, or with another path through the code.

The `MC` modules give the constants their values. Operators named `X_Something`
next to a definition `X` are bugs that `X` could have. They appear in no
specification; `PROJECT.json` pairs each with the property that must notice it
when it replaces `X`.

## 3. The runs

| Run | Shows |
|---|---|
| `oplog` | any five entries: `UndoIsInverse` (I7), `RecordsBefore`, `HistoryIsStable` |
| `locked_log` | `LogIsSound` (never torn, no reported entry lost, no failed one present), `ImplementsAtomicLog`, and `CallsEnd`: no call waits for ever on a dead process |
| `change_graph` | I6, `SupersessionWellFormed`: no cycle, and no end of an edge that no change lists but by an `add_change` that replaced its owner. P5: `PublicTipIsFinal`, under every call but an `add_change` of that change. `JointlyQueryable`: the tip in the graph is the result of the last rebase in the log |
| `landing` | `TrunkIsLanded`: whatever landings, pushes and undos do at the same time, the trunk of a queue holds only versions that landed in it or that a push recorded. `ExactlyOwnEditsLand`: with changes built on older and newer trunks, alone or in a batch, each contributes exactly its own edit - *if* nothing moves the trunk while it lands (`Undisturbed`) and its first snapshot was taken on the trunk its author started from (`InTime`) |
| `landing_strict` | `StrictStaysClean`, `PublicPassedValidation`: no edit, submit, push, reconcile or undo of another process between gate and landing gets a conflict value, or content the validator rejects, into a public ref |
| `workspaces` | `NoEditLost`: what an author wrote is in the working copy or in a commit, whatever is switched, killed, undone, removed or added - unless he forced a switch, or wrote while a switch that had found the copy clean was replacing it. `SwitchDelivers`: a switch nobody interfered with leaves exactly the target's tree, also after one that was cut short |
| `replication` | `RefsComplete`: nothing dangles, though a partial copy leaves trees without entries. `OnlyPublicTravels`: a fetch brings nothing unlanded. `CatchesUp`: once the authority stands still, the tracking refs come to name what it has landed |
| `review` | `LandedWasReviewed`: a submission replaced while it is being approved does not lend its changes to the approval. `BackportsAreWitnessed`: a backport lands nothing invented since the review, whatever moves while it is judged. `QueuesHoldTheirLandings`: the name of a ref leads back to its queue |
| `algorithms` | `OrdersAgree` (I5, I1b, I10), `AdmissionsVerify` (I8): what the kernel admits it verifies, and nothing else; `CleanMergeIsCommutation`, `KernelTrustsNobody` (I8, I12: the commands admit what the kernel derives, whatever a tool proposes), `ConflictsRide` (P3), `EditsSurvive`, `QueriesMeanWhatTheySay`, `IdentityFollowsJoins`, `StackKeepsItsChanges`, `PackReadersTell`, `ImportTakesTheReachable`, `ExportsRoundTrip` (I9), `CodecsAgree` |
| `landing_race`, `driver_trivia`, `review_witness` | the violations of section 5 |

Each module has one type invariant, which also says what a process has in hand at
each of its steps. That of `Landing` is `Types`, stated and proved in
`LandingProofs`.

`TrunkIsLanded` grants a push what it recorded, landed or not: that is all the
code promises, as section 5 says of racing pushes.

The two conditions of `ExactlyOwnEditsLand` are the honest statement of what the
code guarantees. `landing_race` shows that the first is needed. The second is
needed too: a change that `omo land` itself is the first to snapshot, or one that
is pushed, is merged against today's trunk however old the one it was written on.

The conditions of `PublicTipIsFinal` and `JointlyQueryable` are likewise what the
code guarantees and no more. Commits are named by their content and edges join
commits, not changes: of two changes with equal content, the last to register it
owns it, and an edge recorded for one moves the tip of both. And a change rebased
back to content it had is refused as a cycle after its op was logged, so the log
is then one rebase ahead of the graph. `omo` rebases once per graph, so neither
happens in a command today.

`TypeOK`, `SupersessionWellFormed` and `PublicTipIsFinal` except what `add_change` does
to a change that is there already, and nothing else. It is no accident of the
model: the method says that it replaces, and neither a public phase nor an edge
on what it drops makes it refuse (section 5). The commands call it only to fill a
fresh graph, where a change named twice is replaced by the same draft
(main.rs:1331).

`LandedWasReviewed` speaks of changes and not of their content: an approval names
changes, and what an author commits after it lands with it.

## 4. Bounds and fairness

* `oplog`: two refs, one of them a change; one commit and the empty tree; five
  entries. Five is the least at which an undo of an undo of an undo has an entry
  before and after it to disturb.
* `locked_log`: two processes, two calls each, two crashes, so that a crash can
  hit a process while the other waits, and a power loss can follow a kill.
* `change_graph`: two changes, three commits, three rebases, lists of up to two
  revisions from a caller, who may give any list and phase to any change at any time. Three commits and rebases are the least for a cycle that is not an edge
  back, and for a rebase back to the start; a second change to share a commit.
* `landing*`: two changes, two files, two versions, one queue. `MaxOps` bounds the
  log: with two processes, 6 entries are two snapshots and two landings. On the
  strict queue every command and gate is on, for two processes, and 4 entries are
  a landing and what it lands, with one entry of another command - a snapshot for a
  submit, a push's tips, an undo - between its reading and its writing. Theorems
  carry both properties of that run to logs of any length (section 6).
* `workspaces`: one directory, two files, two processes, one command cut short,
  two entries in the log: a commit and a landing or a fetch, which gives targets
  on either side of the one the workspace is on.
* `replication`: two trees that share a subtree, one change, two processes, five
  snapshots, landings and undos, two interruptions: one can leave the shared
  subtree half copied, the other a fetch of the tree that meets it.
* `review`: two changes, one submission, one queue beside the trunk, two processes,
  three commits, three landings, two certificates: land, move, backport, and
  backport again, with the other process replacing the submission or landing the
  other change meanwhile. Past the third landing no other is begun.
* `algorithms`: documents of up to three lines of three kinds; three edits of
  files of two definitions, or of an `impl` or `mod` with a member, with or without
  a conflict value in a definition or in the member; six tokens; three occurrences; four
  calls on a stack; packs of three entries; a diamond of commits with a tag, a
  submodule and a file name the store refuses, or no object at all, and four changes
  to the directory; payloads of a pkt-line of up to `MAX_PAYLOAD` = 2 bytes; nine bytes and four parts of what
  is encoded. Each is the least at which every branch of its code is taken.
  `MAX_DELTA_DEPTH` is 1 instead of 50, so that packs of three entries exceed it.
* Deadlock is not checked: with the bounds used up, every process has done its
  work and the model stops.
* Symmetry of processes (or of lines) is used where no property is temporal
  liveness.
* `CallsEnd` needs `WF(Progress(p))`: a process inside a call takes its next step.
  That is what an operating system gives a running process; for `Acquire`, weak
  fairness is enough because with bounded calls and crashes a process that waits
  in `flock` sees the lock freed for good, so the property claims that nobody
  waits on the dead, not that `flock` is fair under endless contention.
* `CatchesUp` needs `WF(Work(p))`, the same, and that somebody runs `omo fetch`
  again (`WF` of a start of it): nothing in the code retries by itself.
* No process is forced to begin another call, or to crash or not to.

## 5. Findings

Each is a run that TLC finds violated, with the quotation in `PROJECT.json`.

1. **Racing landings lose work** (`landing_race`, main.rs:1324). The merge is
   computed from an unlocked reading and written under the lock without looking
   again. Two landings of different files: the merged trunk ends up with one.
2. **The structural driver forgets what is between definitions** (`driver_trivia`,
   rust.rs:733). The gaps come from the base; a comment that a side wrote there is
   in no output. The kernel behind `omo merge-file` refuses such a merge, a
   landing has no kernel.
3. **A witness lets deletions pass** (`review_witness`, main.rs:1767). What a change no
   longer has is not compared with what was reviewed.

Further divergences met while modelling, which the properties are worded around:

* a pushed tip is a `SetRef`, not a `Commit`, so the authority finds no first commit
  and merges with the current trunk as base: what the change did not edit counts
  as reverted (main.rs:1529, against ADR-0010:184-187);
* a push records its tips in one locked step and looks them up again in a later,
  unlocked reading (main.rs:2596, 2617): with another push of the same change, or
  an undo, in between, the trunk advances with one content and the public ref with
  another, whose own landing may yet be refused (against main.rs:2573-2576). With
  two versions of `b` in the `Writes` of `MCLanding.cfg` and `"push"` as the only
  command, `TrunkIsLanded` without `Pushed` fails;
* a refused push has moved the changes' refs already (main.rs:2596, against
  docs/user-guide.md:449-452 "mutates nothing");
* `omo reconcile`, "to preview a merge" (docs/user-guide.md:475-476), moves
  `reconciled/<queue>`, which every later landing takes as the trunk (main.rs:1609):
  with `"reconcile"` among the `Commands` of `MCLanding.cfg`, `TrunkIsLanded` fails;
* undo inverts the newest entry, which is always in effect, though it may be an
  undo, and a landing is several entries: the trunk goes back, the change stays
  public, and the next undo is a redo (main.rs:2781; proved in `OpLogProofs`);
* an edit made between the check and the end of a switch is lost (main.rs:1065);
  a stack, or a kill, between `materialize` and `set_change` leaves the target's
  content on the old change (main.rs:1080-1083); a workspace removed and added
  again reuses its change, and two workspaces may come to share one;
* a submit that races an approve is overwritten by the older one, and a landing
  refused after a backport was certified leaves the certificates, which a retry
  repeats (main.rs:1256, 1808); refs of a removed queue count as the trunk's;
* a definition added by a rename that the other side also made is kept twice, and
  mergiraf's exit code 1 with markers that do not parse gives no conflict
  (`omo merge-file`'s kernel stops both, a landing would not);
* `add_change` replaces a public change by a draft with another tip, though a change
  "may advance `Draft -> Public` but never regress" (change.rs:87-88, 149-157), and
  may drop a commit that is the end of an edge, which no change then lists
  (`commit_owner` still names the owner it had), against I6's no orphaned
  obsolescence. No command does so, for each fills a fresh graph with drafts;
* `omo git verify` passes a git directory that has a pack with no object in it: it
  refuses only if there are no objects and no packs (gate.rs:140), though "a returned
  GitReport means at least one object was actually checked" (gate.rs:92-93);
* a pack read off the wire is refused if an offset delta lies on a ref delta that
  has to wait (pack.rs:187); `omo git export` of a worktree always says FAIL, for
  it compares with the worktree's path and not with its git directory
  (main.rs:3008, export.rs:126).

## 6. Proofs

`LockedLogProofs` proves, for any processes, number of calls and crashes:

* `TypeCorrect`, `LockExcludes`, `LogIsWhole`, `FailuresLeaveNoTrace`;
* `NoUpdateIsLost`, `ReadersAreSafe` (which is the run's `LogIsSound`) and
  `Refinement`, on the assumption that the directory fsync does not fail.

None of these is inductive by itself. `IInv` adds who holds the lock (`Holding`:
the holder is the process inside the critical section), what a process has in
memory at each step (`Buffers`: between load and rename the visible log is its
buffer, or its buffer without its own last entry) and which files the disk may come back
with (`Files`: all synced and whole). `Accounted` adds that the values in the log
are of calls that were begun and did not fail, and `Durable` that everything
reported is in every file the disk may come back with. `Refinement` maps each
step to an abstract one: `Rename` to `Mutate`, `Return` to `Report`, `PowerLoss`
to itself, everything else to a stutter.

`OpLogProofs` proves, for any refs, changes and commits and a log of any length,
`TypeCorrect`, `BeforeValuesAreRight`, `LogOnlyGrows`, `AsOfIsStable` and
`UndoInverts` (`UndoIsInverse`). The argument: every step appends one or two
*sound* entries (`StepGrows`), where an entry is sound if an undo names the entry
before it and a before-value is the folded one; a fold as of `t` depends only on
the entries up to `t` (`RefsAtAgree`), so what was sound stays sound
(`AppendedIsSound`). Soundness of the whole log is the inductive invariant.
Of undos: the recursive `InForce` exists, for it can be built from the last entry
to the first (`ParityExists`), so each entry is in force if an even number of the
later undos that name it are (`ActiveIs`). The newest entry therefore always is
(`NewestInForce`), an undo names it, and what is in force after the undo is, by a
greatest counterexample, what was in force before the entry (`UndoReverts`).

`ChangeGraphProofs` proves, for any changes and commits, infinitely many
included, and any calls, an `add_change` that replaces a change among them,
`TypeCorrect` and `SupersessionIsWellFormed` (`SupersessionWellFormed`), from
`SupersessionIsAcyclic` and `NoOrphanedObsolescence`. The
invariant (`Sound`) says that an owner lists its commits, but for those it had when
it was replaced (`dropped`), and that both ends of an edge are owned: an owner may
change but never goes away. The heart is `EdgeClosesNoCycle`: a set that shows that y does not lead to x
before the new edge is turned into one that shows it after, by joining it with
or cutting it down to the set that shows that `new` does not lead to `old`.
For finitely many commits - `tip` walks at most one step for each - it also proves
`PublicTipsAreFinal` (`PublicTipIsFinal`) and `TipIsTheLastRebase`
(`JointlyQueryable`). The walk exists (`WalkExists`, by induction on its length),
it depends only on the edges of the commits it can come to (`TipIsKept`), and where
nothing is cyclic it ends at a commit without an edge (`WalkEnds`, by the pigeonhole
principle). So the tip of a public change that owns its history, and is not
itself given to `add_change`, moves with an edge only that `supersede` refuses; and while the engine has the graph, whose
`ensure_revision` takes commits over for the change it rebases, no change is public
(`EngineDrafts`). The invariant of the second is `Traced`: a change
has the revisions its rebases name, every edge is a rebase, and only the result of
the last has none; the last part is inductive because `supersede` cannot refuse a
rebase that goes on where the last one ended (`RebaseGoesOn`).

`ReplicationProofs` proves, for any objects, entries, changes and processes,
`TypeCorrect`, `NothingDangles` (`RefsComplete`) and `OnlyLandedTravels`
(`OnlyPublicTravels`). A ref is complete if some closed set of objects in the store
holds what it names. That is not inductive, for a copy writes a tree before its
entries: `JobSound` adds what a job in progress still owes - a snapshot's left
objects and those written cover the tree's closure, and of a copy, what it has
seen is written and every entry of what it has seen is seen or on the worklist,
so that an empty worklist leaves a closed set. `TInv` says what a job carries:
advertised tips of the authority, and objects of their closures.

`WorkspacesProofs` proves, for any directories, files, names, processes, edits and
kills and a log of any length, `TypeCorrect`, `NoEditIsLost` (`NoEditLost`) and
`CalmSwitchDelivers` (`SwitchDelivers`). That every unsaved edit is in the copy or in
a commit is not inductive: a switch clears a directory that it judged clean some
steps ago. `Based` says that the tip it compares with is made of committed
contents, and `Judged` that, from the judgement on, whatever is unsaved in the
directory is committed; the history variable `unsaved` counts no edit that is
made after it. `Calm` follows a switch nobody interferes with: its workspace
stays where and what it was, and the files it no longer has to clear, or to write,
are clear, or written.

`ReviewProofs` proves, for any changes, submissions, queues, files and contents,
`TypeCorrect`, `LandingsWereReviewed` (`LandedWasReviewed`), `QueuesHoldLandings`
(`QueuesHoldTheirLandings`) and `BackportsBringOnlyLanded`
(`BackportsAreWitnessed`). `Reviewed` follows an approval along every way it takes:
in the store, in the hands of an `omo approve` that loaded an older submission, and
in those of a landing or a backport. `Witnessing` says of a backport that the refs
it read were landings then (`Published`), and that what it found there it may still
claim when it writes, for landings are never forgotten. The owner of a ref is the
first of the queues whose name leads it; it is the right one because no queue is
called like the first segment of a change, which is an assumption here and an
unchecked rule in the code.

`LandingProofs` proves, for any processes, changes, queues, trees, policies and
commands and a log of any length:

* `TypeCorrect`: what every process has in hand at each of its steps;
* `StrictQueuesStayClean` (`StrictStaysClean`) and `PublicIsValidated`
  (`PublicPassedValidation`), by the inductive `Gated`: every entry of the log that
  moves a trunk or a public ref passed the gates of its queue, and so has the merge
  that a process is about to write. What the gates looked at is what is
  written, so it does not matter what other processes did in between; and what a
  ref is, by undos of any depth, is what some entry made it (`RefWritten`);
* `TrunkHoldsWhatLanded` (`TrunkIsLanded`), where `omo reconcile` is not in use, for
  which it is false (section 5). By the inductive `Rooted`: the merged trunks in
  the log hold only versions that landed in the queue or were pushed, and the merge
  in a landing's hands only those and its own, which it lands with it. A merge
  invents no version (`MergeText` takes unions), and a fold keeps what each of its
  steps keeps (`FoldKeeps`);
* `LandingsAddTheirOwnEdits` (`ExactlyOwnEditsLand`), where no landing names a change
  twice (`NamedOnce`; `omo submit` and `omo land` do not check it, and with conflict
  values a second merge of the same change may undo the first). By the inductive
  `Owned`: what a process is about to write is its changes' own edits on the trunk
  it saw. That is so when it is read, because the merge of a change alters one path
  after the other and only those where its tip is not its base (`MergedPath`), so
  of the whole fold only the changes that altered a path count there
  (`ReconcileOwns`); and it stays so while the process waits, because the first commit of
  a change, undone or not, and the trunk of that time never move again as
  the log grows (`FromIsStable`). A tip that was not pushed is always a commit
  (`TipsAreCommits`), so there is such a time. And the trunk after the landing is what
  was written, because the newest entry of the log is in force (`NewestHolds`).

`EditsProofs` proves, for any lines, documents of any length and any sequence of
calls:

* `OrderIsFree`: two patches that fit a base and are independent, computed by `diff`
  or not, give one document in either order. The argument is about *layouts*, where
  the hunks of a patch cut a base (`LayoutOK`), and *splices*, what such a cut makes
  of it (`Splices`). A patch that fits has a layout, and `apply` splices by it
  (`ApplySplices`, along the recursion of `Apply`); `delta_before` is what the hunks
  before a place add (`DeltaBeforeIs`), so `rebase` (commute.rs) gives every hunk its place in
  the layout moved (`RebaseShape`) and the moved patch fits what the other made
  (`RebaseFits`). Then every line of the one result, which is a kept line or one
  that either patch inserts, is at the same place of the other (`SwapLine`);
* `DiffRoundTrip`: `apply(diff(base, target), base)` is `target`. The walk of
  `lcs_matches` pairs equal lines in the order of both documents, whatever table of
  lengths leads it (`MatchesMatch`); up to every match, the hunks cut so far turn
  the base into the target (`Aligned`, an invariant along the recursion of `Diff`);
  and what they turn the base into is what they splice (`TurnsSplice`), which is
  one document only (`SplicesUnique`);
* from these two, `OrdersAlwaysAgree` (`OrdersAgree`) and `AdmissionsAlwaysVerify`
  (`AdmissionsVerify`): `admit` merges just when the diffs are independent
  (`AdmitIs`), and `verify_witness`, which recomputes the diffs of what the witness
  makes of the base, passes just for those merges (`AdmittedIsVerified`,
  `VerifiedIsAdmitted`);
* `IdentityAlwaysFollowsJoins` (`IdentityFollowsJoins`): no occurrence has an identity
  above the last one minted, so that a severed or added one is alone
  (`Tells`, kept by `AddTells`, `JoinTells` and `SeverTells`);
* `StackAlwaysKeepsItsChanges` (`StackKeepsItsChanges`): each operation, refused or
  not, takes a stack that has each of its changes once to one that has each of the
  changes it should have once (`Holds`, kept by `PushHolds`, `ReorderHolds`,
  `FoldHolds` and `SplitHolds`).

`EditsHold` is the inductive invariant `EditsInv` of all three. That a recursive
function of the model - `Apply`, `Diff`, `LcsMatches`, `DeltaBefore` - has the values its
equation says is proved and not assumed: one is built step by step (`Recursion`,
`WalksExist`), and the one the model chooses is any that satisfies the equation.
The longest common subsequence being longest plays no part in these theorems: no
property needs it.

The folds of the model are those of the community modules, which are defined by
`MapThenFoldSet`; `FoldOf` unfolds one once. Induction is over sets: each module of
proofs begins with what it needs of it, derived from the well-foundedness of the
natural numbers - the least and the greatest element of a set of positions, and
induction up to a bound (`LeastExists`, `GreatestExists`, `UpTo`).

The assumptions of the modules are: `None` is no ref, commit, object, change, tree or
job; changes are refs, and no change is named like a queue's refs; `EmptyTree` is a
commit; nobody is not a process; entries are sequences of objects; of `Replication`
and `Review`, changes are finitely many, and in `Review` they are sequences of
segments, as the owner of a ref is read off them; the orders in which names are
visited list just those names; and the types of the bounds and of the policies. Of
`Edits`: the error of an operation is none of its results.

Only model-checked:

* the liveness properties `CallsEnd` and `CatchesUp`: fairness is beyond the prover;
* `CleanMergeIsCommutation` and `ConflictsRide`, of `merge3` and `rebase_merge`: they
  compare `Merge3` with the commuting patches region by region, and need the
  alignments of two diffs with one base at once, which the lemmas above do not
  give;
* `KernelTrustsNobody` and `EditsSurvive`, of the commands and the drivers, and
  `QueriesMeanWhatTheySay`, `PackReadersTell`, `ImportTakesTheReachable` and
  `ExportsRoundTrip`: their modules descend recursively through members, tokens,
  deltas and trees, and where a definition is a recursive operator the prover can
  use no equation of it;
* `CodecsAgree`, whose decoders are recursive functions: what `EditsProofs` does for
  patches is possible there, and not done.

## 7. Not modelled

* **Of the log**: valid time, notes, the JSONL encoding. Nothing reads valid time
  to decide anything.
* **Of landing**: file deletion (a landing iterates over the files a change has,
  so it never carries one); several definitions in one file, which `Drivers`
  merges; submissions whose list of changes varies, which is in `Review`; the
  scratch directories, one per process here as the comments of the code say,
  though threads of `omo serve` share them.
* **Of queues**: `land_submission` and `land_batch_in_queue` of the library, which no
  command calls; queue names with slashes or called like a change's first segment,
  which the code accepts and attributes to another queue.
* **Of the formats**: zlib, SHA-1 and SHA-256 (an id stands for its content), the
  opcodes of a delta bit by bit, the characters of a token, tree-sitter parses,
  `omo conflicts`, HTTP framing, authentication, and everything printed that no
  property is about.
* **Semantic search**: floating-point embeddings and cosine ranking, read-only.

## 8. The plan

Done: every module above, and the proofs of the log, the lock, the change graph,
replication, workspaces, review, landing, and of patches, the kernel, identities
and stacks. Next, in this order:

1. `merge3` from the lemmas of `EditsProofs`: its clean merges are the combination of
   the two diffs (`CleanMergeIsCommutation`), with a walk of the common anchors like
   that of `LcsMatches`.
2. The encoders and decoders (`CodecsAgree`), in the manner of `DiffRoundTrip`.
3. A module of the threads of `omo serve` and the scratch directories they share,
   which no property covers yet.
