---------------------------- MODULE Workspaces ----------------------------
(***************************************************************************)
(* Workspaces (crates/omoplata-work/src/workspace.rs) and the commands     *)
(* that use them (omo workspace add/remove, stack and switch in            *)
(* crates/omoplata-cli/src/main.rs), by several processes and an author    *)
(* who edits the working copies whenever he likes.  A switch reads the     *)
(* registry and the log without the lock, checks that the working copy is  *)
(* clean, empties it, writes the target's files one by one and only then   *)
(* rebinds the workspace under the lock; it can be killed, or fail on a    *)
(* missing object or a full disk, after any of those steps.                *)
(*                                                                         *)
(* A tree gives each path a version or Absent; a commit id stands for it.  *)
(* Paths are numbered in the order of a tree's entries.                    *)
(***************************************************************************)
EXTENDS Integers, Sequences, FiniteSets

CONSTANTS
  Procs,     \* invocations of omo
  Names,     \* names of workspaces, here and in the repository fetched from
  Local,     \* those registered here
  Dirs,      \* working directories
  NumPaths,  \* the paths are 1 .. NumPaths
  Versions,  \* contents of a file
  Edits,     \* what the author writes: <<directory, path, version or Absent>>
  Upstream,  \* trees a fetch may bring
  Targets,   \* the targets of omo switch in use: names of workspaces and refs
  None,      \* Option::None
  Absent,    \* no such file
  MaxOps,    \* bound on the length of the log
  MaxFaults  \* bound on the commands that are cut short

Paths   == 1 .. NumPaths
Tree    == [Paths -> Versions \cup {Absent}]
NoFiles == [f \in Paths |-> Absent]

(* A workspace starts on the change ws/<name>.  A landed change has a ref  *)
(* under public/, a fetched one a ref under remotes/.                      *)
Change(n)  == <<"ws", n>>
Public(n)  == <<"public", n>>
Tracked(n) == <<"remotes", n>>
Changes    == {Change(n) : n \in Names}
AllRefs    == {"ws", "public", "remotes"} \X Names

INSTANCE OpLogOps WITH Refs <- AllRefs, Commits <- Tree

ASSUME WorkspacesAssumption ==
  /\ NumPaths \in Nat /\ MaxOps \in Nat /\ MaxFaults \in Nat
  /\ Edits \subseteq Dirs \X Paths \X (Versions \cup {Absent})
  /\ Upstream \subseteq Tree
  /\ Local \subseteq Names
  /\ Targets \subseteq Names \cup AllRefs
  /\ Absent \notin Versions
  /\ None \notin [dir : Dirs, change : Changes]

VARIABLES
  ops,     \* the operation log
  reg,     \* .omoplata/workspaces.json: where each workspace is, and its change
  copy,    \* the content of the working directories
  pc, job, \* how far each process is, and what it has read
  unsaved, \* history: the author's edits that no command may discard
  calm,    \* history: the switches nobody has interfered with
  faults   \* history: the commands cut short so far

vars == << ops, reg, copy, pc, job, unsaved, calm, faults >>

Workspace == [dir : Dirs, change : Changes]
Idle      == [kind |-> "none"]
Tips      == RefsNow(ops)

Init ==
  /\ ops = << >>
  /\ reg = [n \in Names |-> None]
  /\ copy = [d \in Dirs |-> NoFiles]
  /\ pc = [p \in Procs |-> "idle"]
  /\ job = [p \in Procs |-> Idle]
  /\ unsaved = {}
  /\ calm = {}
  /\ faults = 0

Start(p, step, j) ==
  /\ pc[p] = "idle"
  /\ pc' = [pc EXCEPT ![p] = step]
  /\ job' = [job EXCEPT ![p] = j]

Finish(p) ==
  /\ pc' = [pc EXCEPT ![p] = "idle"]
  /\ job' = [job EXCEPT ![p] = Idle]

Save(log) == Len(log) <= MaxOps /\ ops' = log

(* The processes that have judged directory d and have yet to replace it.  *)
Switching(d) == {p \in Procs : pc[p] \in {"clear", "write"} /\ job[p].ws.dir = d}

(* The processes that work on workspace n.                                 *)
Using(n) == {p \in Procs : pc[p] # "idle" /\ job[p].name = n}

-----------------------------------------------------------------------------
(* The author, and what other commands do to the refs.                     *)

(* An edit made after a switch has looked at the directory is at its mercy *)
(* and is not counted.                                                     *)
Edit(d, f, v) ==
  /\ copy[d][f] # v
  /\ copy' = [copy EXCEPT ![d][f] = v]
  /\ unsaved' = {u \in unsaved : <<u[1], u[2]>> # <<d, f>>}
                  \cup (IF v = Absent \/ Switching(d) # {} THEN {} ELSE {<<d, f, v>>})
  /\ calm' = calm \ Switching(d)
  /\ UNCHANGED << ops, reg, pc, job, faults >>

(* cmd_land and cmd_fetch, as far as the refs: see Landing, Replication.   *)
Land(n) ==
  /\ Tips[Change(n)] \notin {None, Tips[Public(n)]}
  /\ Save(WithSetRef(ops, Public(n), Tips[Change(n)]))
  /\ UNCHANGED << reg, copy, pc, job, unsaved, calm, faults >>

Fetch(n, tree) ==
  /\ Tips[Tracked(n)] # tree
  /\ Save(WithSetRef(ops, Tracked(n), tree))
  /\ UNCHANGED << reg, copy, pc, job, unsaved, calm, faults >>

(* cmd_op_undo *)
Undo ==
  /\ InEffect(ops) # {}
  /\ Save(Appended(ops, UndoOp(Latest(InEffect(ops)))))
  /\ UNCHANGED << reg, copy, pc, job, unsaved, calm, faults >>

-----------------------------------------------------------------------------
(* The registry.                                                           *)

(* WorkspaceRegistry::add: whatever the change's ref or the directory      *)
(* already hold.                                                           *)
Add(n, d) ==
  /\ reg[n] = None
  /\ reg' = [reg EXCEPT ![n] = [dir |-> d, change |-> Change(n)]]
  /\ calm' = calm \ Using(n)
  /\ UNCHANGED << ops, copy, pc, job, unsaved, faults >>

(* WorkspaceRegistry::remove: the directory and the change stay.           *)
Remove(n) ==
  /\ reg[n] # None
  /\ reg' = [reg EXCEPT ![n] = None]
  /\ calm' = calm \ Using(n)
  /\ UNCHANGED << ops, copy, pc, job, unsaved, faults >>

-----------------------------------------------------------------------------
(* omo stack.                                                              *)

(* The registry is read before the lock is taken, ...                      *)
StackStart(p, n) ==
  /\ reg[n] # None
  /\ Start(p, "snapshot", [kind |-> "stack", name |-> n, ws |-> reg[n]])
  /\ UNCHANGED << ops, reg, copy, unsaved, calm, faults >>

Content(tip) == IF tip = None THEN NoFiles ELSE tip

(* A bug it could have: a change that was never committed is never dirty.  *)
IsDirty_NotWithoutTip(d, tip) == tip # None /\ copy[d] # tip

(* is_dirty: without a tip a clean directory is an empty one.              *)
IsDirty(d, tip) == copy[d] # Content(tip)

(* ... and auto_snapshot runs under it.                                    *)
StackSnapshot(p) ==
  LET ws  == job[p].ws
      tip == Tips[ws.change]
  IN  /\ pc[p] = "snapshot"
      /\ Save(IF IsDirty(ws.dir, tip) THEN Appended(ops, CommitOp(ws.change, tip, copy[ws.dir]))
              ELSE ops)
      /\ Finish(p)
      /\ UNCHANGED << reg, copy, unsaved, calm, faults >>

-----------------------------------------------------------------------------
(* omo switch.                                                             *)

Own(n) == <<Change(n), Change(n)>>

(* resolve_switch_target: what a target may mean, in the order it is       *)
(* tried.  A ref names its change with its framing stripped.               *)
Meanings(registry, target) ==
  IF target \notin Names
  THEN << <<Change(target[2]), target>>, <<Change(target[2]), Public(target[2])>> >>
  ELSE IF registry[target] = None THEN << Own(target) >>
  ELSE << <<registry[target].change, registry[target].change>>, Own(target) >>

(* Only a change id falls back to its landing under public/.               *)
Candidates(registry, target) ==
  LET all == Meanings(registry, target)
  IN  IF target \in Names \/ target \in Changes THEN all ELSE << all[1] >>

(* A bug it could have: the first meaning wins, tip or no tip.             *)
Found_WithoutTip(registry, refs, target) ==
  LET hit == Candidates(registry, target)[1]
  IN  [change |-> hit[1], tip |-> refs[hit[2]]]

(* The first that has a tip.                                               *)
Found(registry, refs, target) ==
  LET all  == Candidates(registry, target)
      hits == {i \in DOMAIN all : refs[all[i][2]] # None}
  IN  IF hits = {} THEN None
      ELSE LET hit == all[CHOOSE i \in hits : \A j \in hits : i <= j]
           IN  [change |-> hit[1], tip |-> refs[hit[2]]]

(* The registry and the log, both read without the lock.                   *)
SwitchStart(p, n, target, force) ==
  LET found == Found(reg, Tips, target)
  IN  /\ reg[n] # None
      /\ found # None
      /\ Start(p, "check", [kind |-> "switch", name |-> n, ws |-> reg[n], to |-> found,
                            from |-> Tips[reg[n].change], force |-> force, left |-> Paths])
      /\ calm' = calm \cup {p}
      /\ UNCHANGED << ops, reg, copy, unsaved, faults >>

(* Clean, or forced: with --force the author gives his edits up.           *)
SwitchCheck(p) ==
  LET d == job[p].ws.dir
  IN  /\ pc[p] = "check"
      /\ IsDirty(d, job[p].from) => job[p].force
      /\ pc' = [pc EXCEPT ![p] = "clear"]
      /\ unsaved' = IF job[p].force THEN {u \in unsaved : u[1] # d} ELSE unsaved
      /\ UNCHANGED << ops, reg, copy, job, calm, faults >>

SwitchRefuses(p) ==
  /\ pc[p] = "check"
  /\ IsDirty(job[p].ws.dir, job[p].from)
  /\ ~job[p].force
  /\ Finish(p)
  /\ calm' = calm \ {p}
  /\ UNCHANGED << ops, reg, copy, unsaved, faults >>

(* A bug it could have: what the target does not have is left in place.    *)
ClearFile_KeepsExtra(p, f) ==
  LET d == job[p].ws.dir
  IN  /\ pc[p] = "clear"
      /\ f \in job[p].left
      /\ copy' = [copy EXCEPT ![d][f] = IF job[p].to.tip[f] = Absent THEN @ ELSE Absent]
      /\ job' = [job EXCEPT ![p].left = @ \ {f}]
      /\ calm' = calm \ (Switching(d) \ {p})
      /\ UNCHANGED << ops, reg, pc, unsaved, faults >>

(* remove_working_content: the entries in the order of the directory.      *)
ClearFile(p, f) ==
  LET d == job[p].ws.dir
  IN  /\ pc[p] = "clear"
      /\ f \in job[p].left
      /\ copy' = [copy EXCEPT ![d][f] = Absent]
      /\ job' = [job EXCEPT ![p].left = @ \ {f}]
      /\ calm' = calm \ (Switching(d) \ {p})
      /\ UNCHANGED << ops, reg, pc, unsaved, faults >>

Cleared(p) ==
  /\ pc[p] = "clear"
  /\ job[p].left = {}
  /\ pc' = [pc EXCEPT ![p] = "write"]
  /\ job' = [job EXCEPT ![p].left = {f \in Paths : job[p].to.tip[f] # Absent}]
  /\ UNCHANGED << ops, reg, copy, unsaved, calm, faults >>

(* write_tree_into: the entries of the tree in their order.                *)
WriteFile(p, f) ==
  LET d == job[p].ws.dir
  IN  /\ pc[p] = "write"
      /\ f \in job[p].left
      /\ \A g \in job[p].left : f <= g
      /\ copy' = [copy EXCEPT ![d][f] = job[p].to.tip[f]]
      /\ job' = [job EXCEPT ![p].left = @ \ {f}]
      /\ calm' = calm \ (Switching(d) \ {p})
      /\ UNCHANGED << ops, reg, pc, unsaved, faults >>

(* WorkspaceRegistry::set_change, by name.                                 *)
Bind(p) ==
  /\ pc[p] = "write"
  /\ job[p].left = {}
  /\ reg[job[p].name] # None
  /\ reg' = [reg EXCEPT ![job[p].name].change = job[p].to.change]
  /\ calm' = calm \ Using(job[p].name)
  /\ Finish(p)
  /\ UNCHANGED << ops, copy, unsaved, faults >>

(* The workspace was removed meanwhile: the directory is switched all the  *)
(* same.                                                                   *)
BindFails(p) ==
  /\ pc[p] = "write"
  /\ job[p].left = {}
  /\ reg[job[p].name] = None
  /\ Finish(p)
  /\ calm' = calm \ {p}
  /\ UNCHANGED << ops, reg, copy, unsaved, faults >>

(* A kill, an error of the file system or an object that is not there: the *)
(* directory stays as it is, the workspace bound as it was.                *)
CutShort(p) ==
  /\ pc[p] # "idle"
  /\ faults < MaxFaults
  /\ faults' = faults + 1
  /\ Finish(p)
  /\ calm' = calm \ {p}
  /\ UNCHANGED << ops, reg, copy, unsaved >>

Next ==
  \/ \E e \in Edits : Edit(e[1], e[2], e[3])
  \/ \E n \in Local : Land(n) \/ Remove(n)
  \/ \E n \in Names \ Local, tree \in Upstream : Fetch(n, tree)
  \/ Undo
  \/ \E n \in Local, d \in Dirs : Add(n, d)
  \/ \E p \in Procs :
       \/ \E n \in Local : StackStart(p, n)
       \/ StackSnapshot(p)
       \/ \E n \in Local, target \in Targets, force \in BOOLEAN :
            SwitchStart(p, n, target, force)
       \/ SwitchCheck(p) \/ SwitchRefuses(p)
       \/ \E f \in Paths : ClearFile(p, f) \/ WriteFile(p, f)
       \/ Cleared(p) \/ Bind(p) \/ BindFails(p) \/ CutShort(p)

Spec == Init /\ [][Next]_vars

-----------------------------------------------------------------------------
StackJob  == [kind : {"stack"}, name : Names, ws : Workspace]
SwitchJob == [kind : {"switch"}, name : Names, ws : Workspace,
              to : [change : Changes, tip : Tree], from : Tree \cup {None},
              force : BOOLEAN, left : SUBSET Paths]

(* Types, and what a process has in hand at each of its steps.             *)
TypeOK ==
  /\ ops \in Seq(Operation)
  /\ reg \in [Names -> Workspace \cup {None}]
  /\ copy \in [Dirs -> Tree]
  /\ pc \in [Procs -> {"idle", "snapshot", "check", "clear", "write"}]
  /\ job \in [Procs -> {Idle} \cup StackJob \cup SwitchJob]
  /\ \A p \in Procs : /\ pc[p] = "idle" => job[p] = Idle
                      /\ pc[p] = "snapshot" => job[p] \in StackJob
                      /\ pc[p] \in {"check", "clear", "write"} => job[p] \in SwitchJob
  /\ unsaved \subseteq Dirs \X Paths \X Versions
  /\ calm \subseteq Procs
  /\ faults \in 0 .. MaxFaults

(* The commits of the log, undone ones included.                           *)
Committed(f, v) == \E i \in 1 .. Len(ops) : ops[i].op.kind = "commit" /\ ops[i].op.new[f] = v

(* "Never clobber un-snapshotted edits" (cmd_switch): what an author wrote *)
(* is in the working copy or in a commit, whatever is switched, killed,    *)
(* undone, removed or added, unless he forced a switch, or wrote it while  *)
(* a switch that had found the copy clean was replacing it.                *)
NoEditLost ==
  \A u \in unsaved : copy[u[1]][u[2]] = u[3] \/ Committed(u[2], u[3])

(* A switch that nobody interfered with leaves exactly the target's tree   *)
(* in the workspace's directory and the workspace on the target's change,  *)
(* though an earlier switch of that directory may have been cut short      *)
(* halfway (materialize: "a true checkout, not a merge").                  *)
SwitchDelivers ==
  [][\A p \in calm : pc[p] = "write" /\ pc'[p] = "idle" /\ faults' = faults =>
       /\ reg'[job[p].name] = [dir |-> job[p].ws.dir, change |-> job[p].to.change]
       /\ copy[job[p].ws.dir] = job[p].to.tip]_vars
=============================================================================
