-------------------------- MODULE WorkspacesProofs --------------------------
(***************************************************************************)
(* Proofs about Workspaces, for any processes, workspaces, directories and *)
(* files, and a log and a number of faults without bound: what an author   *)
(* wrote is not lost, and what a switch delivers.                          *)
(***************************************************************************)
EXTENDS Workspaces, TLAPS, WellFoundedInduction

(* A nonempty set of natural numbers has a least element.                  *)
LEMMA LeastExists ==
  ASSUME NEW S \in SUBSET Nat, S # {}
  PROVE  \E m \in S : \A s \in S : m <= s
<1>1. PICK m \in S : \A y \in S : ~ (<<y, m>> \in OpToRel(<, Nat))
  BY NatLessThanWellFounded, WFMin
<1>2. \A y \in S : ~ (y < m)
  BY <1>1 DEF OpToRel
<1> QED BY <1>2

(* A nonempty set of numbers up to n has a greatest element.               *)
LEMMA GreatestExists ==
  ASSUME NEW n \in Nat, NEW S \in SUBSET (0 .. n), S # {}
  PROVE  \E m \in S : \A s \in S : s <= m
<1> DEFINE T == {n - s : s \in S}
<1>1. T \subseteq Nat /\ T # {}
  <2>1. \A s \in S : n - s \in Nat
    OBVIOUS
  <2> QED BY <2>1
<1>2. PICK t \in T : \A y \in T : t <= y
  <2> HIDE DEF T
  <2> QED BY <1>1, LeastExists
<1>3. PICK m \in S : t = n - m
  OBVIOUS
<1>4. \A s \in S : n - m <= n - s
  BY <1>2, <1>3
<1> QED BY <1>4

-----------------------------------------------------------------------------
USE WorkspacesAssumption

-----------------------------------------------------------------------------
(* The log: what a ref holds was written by an entry for that ref.         *)

LEMMA LatestIn ==
  ASSUME NEW n \in Nat, NEW S \in SUBSET (0 .. n), S # {}
  PROVE  Latest(S) \in S
BY GreatestExists DEF Latest

LEMMA RefsHold ==
  ASSUME NEW log \in Seq(Operation), NEW r \in AllRefs, RefsNow(log)[r] # None
  PROVE  \E i \in 1 .. Len(log) : /\ log[i].op.kind \in RefKinds
                                  /\ log[i].op.ref = r
                                  /\ log[i].op.new = RefsNow(log)[r]
<1> DEFINE n  == NoLimit(log)
           ws == Writers(log, n, r)
<1>1. RefsNow(log)[r] = OpAt(log, Latest(ws)).new /\ ws # {}
  BY DEF RefsNow, FoldRefs
<1>2. ws \in SUBSET (0 .. n) /\ n \in Int
  BY DEF Writers, NoLimit
<1>3. n \in Nat
  BY <1>1, <1>2
<1>4. Latest(ws) \in ws
  <2> HIDE DEF ws, n
  <2> QED BY <1>1, <1>2, <1>3, LatestIn
<1>5. /\ OpAt(log, Latest(ws)).kind \in RefKinds
      /\ OpAt(log, Latest(ws)).ref = r
      /\ Latest(ws) + 1 \in 1 .. Len(log)
  BY <1>4 DEF Writers, NoLimit
<1> QED BY <1>1, <1>5 DEF OpAt

LEMMA RefsType ==
  ASSUME NEW log \in Seq(Operation), NEW r \in AllRefs
  PROVE  RefsNow(log)[r] \in Tree \cup {None}
<1> SUFFICES ASSUME RefsNow(log)[r] # None PROVE RefsNow(log)[r] \in Tree \cup {None}
  OBVIOUS
<1>1. PICK i \in 1 .. Len(log) : log[i].op.kind \in RefKinds /\ log[i].op.new = RefsNow(log)[r]
  BY RefsHold
<1>2. log[i] \in Operation
  OBVIOUS
<1>3. \A o \in OpKind : o.kind \in RefKinds => o.new \in Tree \cup {None}
  BY DEF OpKind, RefKinds
<1> QED BY <1>1, <1>2, <1>3 DEF Operation

(* Appending an entry keeps those before it.                               *)
LEMMA AppendedLog ==
  ASSUME NEW log \in Seq(Operation), NEW op \in OpKind
  PROVE  /\ Appended(log, op) \in Seq(Operation)
         /\ Len(Appended(log, op)) = Len(log) + 1
         /\ Appended(log, op)[Len(log) + 1].op = op
         /\ \A i \in 1 .. Len(log) : Appended(log, op)[i] = log[i]
<1>1. [seq |-> Len(log), op |-> op] \in Operation
  BY DEF Operation
<1> QED BY <1>1 DEF Appended, NextSeq

(* What is ever written to the log: commits of changes, and refs of other  *)
(* commands that are no changes.                                           *)
Sound(op) ==
  /\ op \in OpKind
  /\ op.kind \in {"commit", "set_ref", "undo"}
  /\ op.kind = "set_ref" => op.ref \notin Changes
  /\ op.kind = "commit" => op.new \in Tree

SoundLog(log) == log \in Seq(Operation) /\ \A i \in 1 .. Len(log) : Sound(log[i].op)

Keeps(log, log2) == Len(log) <= Len(log2) /\ \A i \in 1 .. Len(log) : log2[i] = log[i]

LEMMA SoundAppend ==
  ASSUME NEW log, SoundLog(log), NEW op, Sound(op)
  PROVE  SoundLog(Appended(log, op)) /\ Keeps(log, Appended(log, op))
<1>1. log \in Seq(Operation) /\ op \in OpKind /\ Len(log) \in Nat
  BY DEF SoundLog, Sound
<1> DEFINE log2 == Appended(log, op)
<1>2. /\ log2 \in Seq(Operation) /\ Len(log2) = Len(log) + 1 /\ log2[Len(log) + 1].op = op
      /\ \A i \in 1 .. Len(log) : log2[i] = log[i]
  BY <1>1, AppendedLog
<1> HIDE DEF log2
<1>3. \A i \in 1 .. Len(log2) : i \in 1 .. Len(log) \/ i = Len(log) + 1
  BY <1>1, <1>2
<1> QED BY <1>1, <1>2, <1>3 DEF SoundLog, Keeps, log2

(* A change's ref holds a commit of the change.                            *)
LEMMA TipsAreCommitted ==
  ASSUME SoundLog(ops), NEW c \in Changes, Tips[c] # None
  PROVE  Tips[c] \in Tree /\ \A f \in Paths : Committed(f, Tips[c][f])
<1>1. c \in AllRefs
  BY DEF Changes, Change, AllRefs
<1>2. PICK i \in 1 .. Len(ops) : /\ ops[i].op.kind \in RefKinds
                                 /\ ops[i].op.ref = c
                                 /\ ops[i].op.new = Tips[c]
  BY <1>1, RefsHold DEF SoundLog, Tips
<1>3. ops[i].op.kind = "commit" /\ ops[i].op.new \in Tree
  BY <1>2 DEF SoundLog, Sound, RefKinds
<1> QED BY <1>2, <1>3 DEF Committed

-----------------------------------------------------------------------------
(* What each step does to the log.                                         *)

LEMMA LogStep ==
  ASSUME TypeOK, SoundLog(ops), [Next]_vars
  PROVE  SoundLog(ops') /\ Keeps(ops, ops')
<1>0. SoundLog(ops) /\ Keeps(ops, ops)
  BY DEF SoundLog, Keeps
<1>1. ASSUME NEW op, Sound(op), ops' = Appended(ops, op)
      PROVE  SoundLog(ops') /\ Keeps(ops, ops')
  BY <1>1, SoundAppend
<1>2. ASSUME NEW r \in AllRefs, r \notin Changes, NEW new \in Tree \cup {None},
             ops' = WithSetRef(ops, r, new)
      PROVE  SoundLog(ops') /\ Keeps(ops, ops')
  <2>1. RefsNow(ops)[r] \in Tree \cup {None}
    BY RefsType DEF TypeOK
  <2>2. Sound(SetRefOp(r, RefsNow(ops)[r], new))
    BY <1>2, <2>1 DEF Sound, SetRefOp, OpKind, RefKinds
  <2> QED BY <1>1, <1>2, <2>2 DEF WithSetRef
<1>3. ASSUME NEW n \in Names
      PROVE  /\ Change(n) \in AllRefs /\ Public(n) \in AllRefs /\ Tracked(n) \in AllRefs
             /\ Public(n) \notin Changes /\ Tracked(n) \notin Changes
  BY DEF Change, Public, Tracked, AllRefs, Changes
<1>4. ASSUME NEW n \in Local, Land(n) PROVE SoundLog(ops') /\ Keeps(ops, ops')
  <2>1. n \in Names
    OBVIOUS
  <2>2. Tips[Change(n)] \in Tree \cup {None}
    BY <1>3, <2>1, RefsType DEF Tips, TypeOK
  <2> QED BY <1>2, <1>3, <1>4, <2>1, <2>2 DEF Land, Save
<1>5. ASSUME NEW n \in Names \ Local, NEW tree \in Upstream, Fetch(n, tree)
      PROVE  SoundLog(ops') /\ Keeps(ops, ops')
  BY <1>2, <1>3, <1>5 DEF Fetch, Save
<1>6. ASSUME Undo PROVE SoundLog(ops') /\ Keeps(ops, ops')
  <2>1. NoLimit(ops) \in Int /\ InEffect(ops) \in SUBSET (0 .. NoLimit(ops)) /\ InEffect(ops) # {}
    BY <1>6 DEF Undo, InEffect, NoLimit, TypeOK
  <2>2. NoLimit(ops) \in Nat
    BY <2>1
  <2>3. Latest(InEffect(ops)) \in InEffect(ops)
    BY <2>1, <2>2, LatestIn
  <2>4. Sound(UndoOp(Latest(InEffect(ops))))
    BY <2>1, <2>3 DEF Sound, UndoOp, OpKind
  <2> QED BY <1>1, <1>6, <2>4 DEF Undo, Save
<1>7. ASSUME NEW p \in Procs, StackSnapshot(p) PROVE SoundLog(ops') /\ Keeps(ops, ops')
  <2> DEFINE ws  == job[p].ws
             tip == Tips[ws.change]
  <2>1. ws \in Workspace
    BY <1>7 DEF StackSnapshot, TypeOK, StackJob
  <2>2. ws.dir \in Dirs /\ ws.change \in Changes /\ copy[ws.dir] \in Tree
    BY <2>1 DEF Workspace, TypeOK
  <2>3. ws.change \in AllRefs
    BY <1>3, <2>2 DEF Changes
  <2>4. tip \in Tree \cup {None}
    BY <2>3, RefsType DEF Tips, TypeOK
  <2>5. Sound(CommitOp(ws.change, tip, copy[ws.dir]))
    BY <2>2, <2>3, <2>4 DEF Sound, CommitOp, OpKind, RefKinds
  <2>6. ops' = ops \/ ops' = Appended(ops, CommitOp(ws.change, tip, copy[ws.dir]))
    BY <1>7 DEF StackSnapshot, Save
  <2> QED BY <1>0, <1>1, <2>5, <2>6
<1>8. ASSUME UNCHANGED ops PROVE SoundLog(ops') /\ Keeps(ops, ops')
  BY <1>0, <1>8
<1> QED
  BY <1>4, <1>5, <1>6, <1>7, <1>8
     DEF Next, vars, Edit, Remove, Add, StackStart, SwitchStart, SwitchCheck, SwitchRefuses,
         ClearFile, WriteFile, Cleared, Bind, BindFails, CutShort

(* What is committed stays committed.                                      *)
LEMMA CommittedStays ==
  ASSUME SoundLog(ops), SoundLog(ops'), Keeps(ops, ops'), NEW f, NEW v, Committed(f, v)
  PROVE  Committed(f, v)'
<1>1. PICK i \in 1 .. Len(ops) : ops[i].op.kind = "commit" /\ ops[i].op.new[f] = v
  BY DEF Committed
<1>2. i \in 1 .. Len(ops') /\ ops'[i] = ops[i]
  BY DEF SoundLog, Keeps
<1> QED BY <1>1, <1>2 DEF Committed

-----------------------------------------------------------------------------
(* Types.                                                                  *)

LEMMA FoundType ==
  ASSUME TypeOK, NEW target \in Targets, Found(reg, Tips, target) # None
  PROVE  Found(reg, Tips, target) \in [change : Changes, tip : Tree]
<1> DEFINE all  == Candidates(reg, target)
           hits == {i \in DOMAIN all : Tips[all[i][2]] # None}
<1>1. \A n \in Names : /\ Change(n) \in Changes /\ Change(n) \in AllRefs
                       /\ Public(n) \in AllRefs
  BY DEF Change, Public, Changes, AllRefs
<1>2. \A r \in AllRefs : r[2] \in Names
  BY DEF AllRefs
<1>3. \A c \in Changes : c \in AllRefs
  BY <1>1 DEF Changes
<1>4. DOMAIN all \subseteq {1, 2} /\ \A i \in DOMAIN all : all[i] \in Changes \X AllRefs
  <2>1. CASE target \notin Names
    <3>1. target \in AllRefs /\ Change(target[2]) \in Changes /\ Public(target[2]) \in AllRefs
      BY <1>1, <1>2, <2>1
    <3>2. all \in {<< <<Change(target[2]), target>>, <<Change(target[2]), Public(target[2])>> >>,
                   << <<Change(target[2]), target>> >>}
      BY <2>1 DEF Candidates, Meanings
    <3> QED BY <3>1, <3>2
  <2>2. CASE target \in Names /\ reg[target] = None
    <3>1. all = << Own(target) >>
      BY <2>2 DEF Candidates, Meanings
    <3> QED BY <1>1, <2>2, <3>1 DEF Own
  <2>3. CASE target \in Names /\ reg[target] # None
    <3>1. reg[target].change \in Changes
      BY <2>3 DEF TypeOK, Workspace
    <3>2. all = << <<reg[target].change, reg[target].change>>, Own(target) >>
      BY <2>3 DEF Candidates, Meanings
    <3> QED BY <1>1, <1>3, <2>3, <3>1, <3>2 DEF Own
  <2> QED BY <2>1, <2>2, <2>3
<1>5. hits # {}
  BY DEF Found
<1> DEFINE h == CHOOSE i \in hits : \A j \in hits : i <= j
<1>6. h \in hits
  <2>1. hits \in SUBSET Nat
    BY <1>4
  <2>2. \E i \in hits : \A j \in hits : i <= j
    <3> HIDE DEF hits
    <3> QED BY <1>5, <2>1, LeastExists
  <2> HIDE DEF hits
  <2> QED BY <2>2
<1>7. Found(reg, Tips, target) = [change |-> all[h][1], tip |-> Tips[all[h][2]]]
  BY <1>5 DEF Found
<1>8. all[h] \in Changes \X AllRefs /\ Tips[all[h][2]] # None
  <2> HIDE DEF all, h
  <2> QED BY <1>4, <1>6
<1> HIDE DEF all, h
<1>9. all[h][1] \in Changes /\ all[h][2] \in AllRefs
  BY <1>8
<1>10. Tips[all[h][2]] \in Tree
  BY <1>8, <1>9, RefsType DEF Tips, TypeOK
<1> QED BY <1>7, <1>9, <1>10

(* What the switching process p has in hand.                               *)
LEMMA Jobs ==
  ASSUME TypeOK, NEW p \in Procs, pc[p] \in {"check", "clear", "write"}
  PROVE  /\ job[p] \in SwitchJob
         /\ job[p].ws.dir \in Dirs /\ job[p].ws.change \in Changes
         /\ job[p].name \in Names /\ job[p].to.tip \in Tree /\ job[p].to.change \in Changes
         /\ job[p].left \subseteq Paths
BY DEF TypeOK, SwitchJob, Workspace

LEMMA JobLess ==
  ASSUME NEW j \in SwitchJob, NEW S \in SUBSET Paths
  PROVE  [j EXCEPT !.left = S] \in SwitchJob
BY DEF SwitchJob

(* A step of p that leaves the others where they are.                      *)
Job == {Idle} \cup StackJob \cup SwitchJob

Steps == {"idle", "snapshot", "check", "clear", "write"}

JobFits(step, j) ==
  /\ step = "idle" => j = Idle
  /\ step = "snapshot" => j \in StackJob
  /\ step \in {"check", "clear", "write"} => j \in SwitchJob

LEMMA StepOfOne ==
  ASSUME TypeOK, NEW p \in Procs, NEW step \in Steps, NEW j, JobFits(step, j),
         \/ pc' = [pc EXCEPT ![p] = step]
         \/ UNCHANGED pc /\ pc[p] = step,
         \/ job' = [job EXCEPT ![p] = j]
         \/ UNCHANGED job /\ job[p] = j
  PROVE  /\ pc' \in [Procs -> Steps] /\ job' \in [Procs -> Job]
         /\ \A q \in Procs : JobFits(pc'[q], job'[q])
<1>1. /\ pc \in [Procs -> Steps] /\ job \in [Procs -> Job]
      /\ \A q \in Procs : JobFits(pc[q], job[q])
  BY DEF TypeOK, Steps, Job, JobFits
<1>2. j \in Job
  BY DEF JobFits, Steps, Job
<1>3. /\ pc' \in [Procs -> Steps] /\ pc'[p] = step
      /\ \A q \in Procs \ {p} : pc'[q] = pc[q]
  BY <1>1
<1>4. /\ job' \in [Procs -> Job] /\ job'[p] = j
      /\ \A q \in Procs \ {p} : job'[q] = job[q]
  BY <1>1, <1>2
<1> QED BY <1>1, <1>3, <1>4

(* TypeOK by its parts.                                                    *)
LEMMA TypesOfStep ==
  ASSUME SoundLog(ops)',
         reg' \in [Names -> Workspace \cup {None}],
         copy' \in [Dirs -> Tree],
         pc' \in [Procs -> Steps], job' \in [Procs -> Job],
         \A q \in Procs : JobFits(pc'[q], job'[q]),
         unsaved' \subseteq Dirs \X Paths \X Versions,
         calm' \subseteq Procs,
         faults' \in 0 .. MaxFaults
  PROVE  TypeOK'
BY DEF SoundLog, Steps, Job, JobFits, TypeOK

LEMMA FileWritten ==
  ASSUME TypeOK, NEW d \in Dirs, NEW f \in Paths, NEW v \in Versions \cup {Absent}
  PROVE  /\ [copy EXCEPT ![d][f] = v] \in [Dirs -> Tree]
         /\ [copy EXCEPT ![d][f] = v][d][f] = v
         /\ \A e \in Dirs, g \in Paths : <<e, g>> # <<d, f>> =>
              [copy EXCEPT ![d][f] = v][e][g] = copy[e][g]
<1>1. copy[d] \in [Paths -> Versions \cup {Absent}]
  BY DEF TypeOK, Tree
<1>2. [copy[d] EXCEPT ![f] = v] \in Tree
  BY <1>1 DEF Tree
<1> QED BY <1>1, <1>2 DEF TypeOK, Tree

LEMMA NextTypeOK == TypeOK /\ SoundLog(ops) /\ [Next]_vars => TypeOK'
<1> SUFFICES ASSUME TypeOK, SoundLog(ops), [Next]_vars PROVE TypeOK'
  OBVIOUS
<1>0. /\ SoundLog(ops')
      /\ pc \in [Procs -> Steps] /\ job \in [Procs -> Job]
      /\ \A q \in Procs : JobFits(pc[q], job[q])
      /\ reg \in [Names -> Workspace \cup {None}] /\ copy \in [Dirs -> Tree]
      /\ unsaved \subseteq Dirs \X Paths \X Versions
      /\ calm \subseteq Procs /\ faults \in 0 .. MaxFaults
  BY LogStep DEF TypeOK, Steps, Job, JobFits
<1>a. ASSUME UNCHANGED << reg, copy, pc, job, unsaved, calm, faults >> PROVE TypeOK'
  BY <1>a, <1>0, TypesOfStep
<1>1. ASSUME NEW e \in Edits, Edit(e[1], e[2], e[3]) PROVE TypeOK'
  <2>1. e[1] \in Dirs /\ e[2] \in Paths /\ e[3] \in Versions \cup {Absent}
    OBVIOUS
  <2>2. copy' \in [Dirs -> Tree]
    BY <1>1, <2>1, FileWritten DEF Edit
  <2>3. unsaved' \subseteq Dirs \X Paths \X Versions
    BY <1>0, <1>1, <2>1 DEF Edit
  <2> QED BY <1>0, <1>1, <2>2, <2>3, TypesOfStep DEF Edit
<1>2. ASSUME NEW n \in Local, Remove(n) PROVE TypeOK'
  <2>1. reg' \in [Names -> Workspace \cup {None}]
    BY <1>0, <1>2 DEF Remove
  <2> QED BY <1>0, <1>2, <2>1, TypesOfStep DEF Remove
<1>3. ASSUME NEW n \in Local, NEW d \in Dirs, Add(n, d) PROVE TypeOK'
  <2>1. [dir |-> d, change |-> Change(n)] \in Workspace
    BY DEF Workspace, Changes
  <2>2. reg' \in [Names -> Workspace \cup {None}]
    BY <1>0, <1>3, <2>1 DEF Add
  <2> QED BY <1>0, <1>3, <2>2, TypesOfStep DEF Add
<1>4. ASSUME NEW p \in Procs, NEW n \in Local, StackStart(p, n) PROVE TypeOK'
  <2> DEFINE j == [kind |-> "stack", name |-> n, ws |-> reg[n]]
  <2>1. j \in StackJob
    BY <1>0, <1>4 DEF StackStart, StackJob
  <2>2. JobFits("snapshot", j) /\ "snapshot" \in Steps
    BY <2>1 DEF JobFits, Steps
  <2> HIDE DEF j
  <2>3. pc' = [pc EXCEPT ![p] = "snapshot"] /\ job' = [job EXCEPT ![p] = j]
    BY <1>4 DEF StackStart, Start, j
  <2>4. /\ pc' \in [Procs -> Steps] /\ job' \in [Procs -> Job]
        /\ \A q \in Procs : JobFits(pc'[q], job'[q])
    BY <2>2, <2>3, StepOfOne
  <2> QED BY <1>0, <1>4, <2>4, TypesOfStep DEF StackStart
<1>5. ASSUME NEW p \in Procs, Finish(p)
      PROVE  /\ pc' \in [Procs -> Steps] /\ job' \in [Procs -> Job]
             /\ \A q \in Procs : JobFits(pc'[q], job'[q])
  <2>1. JobFits("idle", Idle) /\ "idle" \in Steps
    BY DEF JobFits, Steps
  <2> QED BY <1>5, <2>1, StepOfOne DEF Finish
<1>6. ASSUME NEW p \in Procs,
             StackSnapshot(p) \/ SwitchRefuses(p) \/ BindFails(p) \/ CutShort(p) \/ Bind(p)
      PROVE  TypeOK'
  <2>1. /\ pc' \in [Procs -> Steps] /\ job' \in [Procs -> Job]
        /\ \A q \in Procs : JobFits(pc'[q], job'[q])
    BY <1>5, <1>6 DEF StackSnapshot, SwitchRefuses, BindFails, CutShort, Bind
  <2>2. CASE Bind(p)
    <3>1. job[p].to.change \in Changes /\ job[p].name \in Names
      BY <2>2, Jobs DEF Bind
    <3>2. reg[job[p].name] \in Workspace
      BY <1>0, <2>2, <3>1 DEF Bind
    <3>3. [reg[job[p].name] EXCEPT !.change = job[p].to.change] \in Workspace
      BY <3>1, <3>2 DEF Workspace
    <3>4. reg' = [reg EXCEPT ![job[p].name] = [reg[job[p].name] EXCEPT !.change = job[p].to.change]]
      BY <2>2 DEF Bind
    <3>5. reg' \in [Names -> Workspace \cup {None}]
      BY <1>0, <3>1, <3>3, <3>4
    <3> QED BY <1>0, <2>1, <2>2, <3>5, TypesOfStep DEF Bind
  <2>3. CASE StackSnapshot(p)
    BY <1>0, <2>1, <2>3, TypesOfStep DEF StackSnapshot
  <2>4. CASE SwitchRefuses(p) \/ BindFails(p)
    BY <1>0, <2>1, <2>4, TypesOfStep DEF SwitchRefuses, BindFails
  <2>5. CASE CutShort(p)
    <3>1. faults' \in 0 .. MaxFaults
      BY <1>0, <2>5 DEF CutShort
    <3> QED BY <1>0, <2>1, <2>5, <3>1, TypesOfStep DEF CutShort
  <2> QED BY <1>6, <2>2, <2>3, <2>4, <2>5
<1>7. ASSUME NEW p \in Procs, NEW n \in Local, NEW target \in Targets, NEW force \in BOOLEAN,
             SwitchStart(p, n, target, force)
      PROVE  TypeOK'
  <2> DEFINE found == Found(reg, Tips, target)
             j == [kind |-> "switch", name |-> n, ws |-> reg[n], to |-> found,
                   from |-> Tips[reg[n].change], force |-> force, left |-> Paths]
  <2>1. found \in [change : Changes, tip : Tree]
    BY <1>7, FoundType DEF SwitchStart
  <2>2. reg[n] \in Workspace
    BY <1>0, <1>7 DEF SwitchStart
  <2>3. Tips[reg[n].change] \in Tree \cup {None}
    <3>1. reg[n].change \in AllRefs
      BY <2>2 DEF Workspace, Changes, Change, AllRefs
    <3> QED BY <3>1, RefsType DEF Tips, TypeOK
  <2>4. j \in SwitchJob
    <3> HIDE DEF found
    <3> QED BY <2>1, <2>2, <2>3 DEF SwitchJob
  <2>5. JobFits("check", j) /\ "check" \in Steps
    BY <2>4 DEF JobFits, Steps
  <2>6. pc' = [pc EXCEPT ![p] = "check"] /\ job' = [job EXCEPT ![p] = j]
    BY <1>7 DEF SwitchStart, Start
  <2> HIDE DEF j
  <2>7. /\ pc' \in [Procs -> Steps] /\ job' \in [Procs -> Job]
        /\ \A q \in Procs : JobFits(pc'[q], job'[q])
    BY <2>5, <2>6, StepOfOne
  <2> QED BY <1>0, <1>7, <2>7, TypesOfStep DEF SwitchStart
<1>8. ASSUME NEW p \in Procs, SwitchCheck(p) PROVE TypeOK'
  <2>1. JobFits("clear", job[p]) /\ "clear" \in Steps
    BY <1>8, Jobs DEF SwitchCheck, JobFits, Steps
  <2>2. /\ pc' \in [Procs -> Steps] /\ job' \in [Procs -> Job]
        /\ \A q \in Procs : JobFits(pc'[q], job'[q])
    BY <1>8, <2>1, StepOfOne DEF SwitchCheck
  <2>3. unsaved' \subseteq Dirs \X Paths \X Versions
    BY <1>0, <1>8 DEF SwitchCheck
  <2> QED BY <1>0, <1>8, <2>2, <2>3, TypesOfStep DEF SwitchCheck
<1>9. ASSUME NEW p \in Procs, NEW S \in SUBSET Paths, NEW step \in {"clear", "write"},
             pc[p] \in {"clear", "write"}, job' = [job EXCEPT ![p].left = S],
             \/ pc' = [pc EXCEPT ![p] = step]
             \/ UNCHANGED pc /\ pc[p] = step
      PROVE  /\ pc' \in [Procs -> Steps] /\ job' \in [Procs -> Job]
             /\ \A q \in Procs : JobFits(pc'[q], job'[q])
  <2> DEFINE j == [job[p] EXCEPT !.left = S]
  <2>1. j \in SwitchJob
    BY <1>9, Jobs, JobLess
  <2>2. job' = [job EXCEPT ![p] = j]
    BY <1>9
  <2>3. JobFits(step, j) /\ step \in Steps
    BY <1>9, <2>1 DEF JobFits, Steps
  <2> HIDE DEF j
  <2> QED BY <1>9, <2>2, <2>3, StepOfOne
<1>10. ASSUME NEW p \in Procs, NEW f \in Paths, ClearFile(p, f) \/ WriteFile(p, f) PROVE TypeOK'
  <2>1. /\ pc[p] \in {"clear", "write"} /\ UNCHANGED pc
        /\ job' = [job EXCEPT ![p].left = job[p].left \ {f}]
    BY <1>10 DEF ClearFile, WriteFile
  <2>2. job[p].ws.dir \in Dirs /\ job[p].to.tip[f] \in Versions \cup {Absent}
        /\ job[p].left \ {f} \in SUBSET Paths
    BY <2>1, Jobs DEF Tree
  <2>3. /\ pc' \in [Procs -> Steps] /\ job' \in [Procs -> Job]
        /\ \A q \in Procs : JobFits(pc'[q], job'[q])
    BY <1>9, <2>1, <2>2
  <2>4. copy' \in [Dirs -> Tree]
    BY <1>10, <2>2, FileWritten DEF ClearFile, WriteFile
  <2>5. calm' \subseteq Procs
    BY <1>0, <1>10 DEF ClearFile, WriteFile
  <2> QED BY <1>0, <1>10, <2>3, <2>4, <2>5, TypesOfStep DEF ClearFile, WriteFile
<1>11. ASSUME NEW p \in Procs, Cleared(p) PROVE TypeOK'
  <2>1. {f \in Paths : job[p].to.tip[f] # Absent} \in SUBSET Paths
    OBVIOUS
  <2>2. /\ pc' \in [Procs -> Steps] /\ job' \in [Procs -> Job]
        /\ \A q \in Procs : JobFits(pc'[q], job'[q])
    BY <1>9, <1>11, <2>1 DEF Cleared
  <2> QED BY <1>0, <1>11, <2>2, TypesOfStep DEF Cleared
<1> QED
  BY <1>a, <1>1, <1>2, <1>3, <1>4, <1>6, <1>7, <1>8, <1>10, <1>11 DEF Next, vars, Land, Fetch, Undo

LEMMA InitTypeOK == Init => TypeOK /\ SoundLog(ops)
<1> SUFFICES ASSUME Init PROVE TypeOK /\ SoundLog(ops)
  OBVIOUS
<1>1. NoFiles \in Tree
  BY DEF NoFiles, Tree
<1>2. ops = << >> /\ SoundLog(ops)
  BY DEF Init, SoundLog
<1> QED BY <1>1, <1>2 DEF Init, TypeOK

Types == TypeOK /\ SoundLog(ops)

LEMMA TypesHold == Spec => []Types
<1>1. Init => Types
  BY InitTypeOK DEF Types
<1>2. Types /\ [Next]_vars => Types'
  <2> SUFFICES ASSUME Types, [Next]_vars PROVE Types'
    OBVIOUS
  <2>1. TypeOK' /\ SoundLog(ops')
    BY NextTypeOK, LogStep DEF Types
  <2> QED BY <2>1 DEF Types
<1> QED BY <1>1, <1>2, PTL DEF Spec

(* Whatever is read without the lock, killed halfway, undone or fetched,   *)
(* the log, the registry, the working copies and what each omo has in hand *)
(* stay well formed: a target that resolves is a change and a tree.        *)
THEOREM TypeCorrect == Spec => []TypeOK
<1>1. Types => TypeOK
  BY DEF Types
<1> QED BY <1>1, TypesHold, PTL

-----------------------------------------------------------------------------
(* What a switching process has just done.                                 *)

LEMMA Moves ==
  ASSUME TypeOK, [Next]_vars, NEW p \in Procs, pc'[p] \in {"check", "clear", "write"}
  PROVE  \/ pc'[p] = pc[p] /\ job'[p] = job[p]
         \/ \E n \in Local, target \in Targets, force \in BOOLEAN : SwitchStart(p, n, target, force)
         \/ SwitchCheck(p) \/ Cleared(p)
         \/ \E f \in Paths : ClearFile(p, f) \/ WriteFile(p, f)
<1> DEFINE Stays == pc'[p] = pc[p] /\ job'[p] = job[p]
<1>0. pc \in [Procs -> Steps] /\ job \in [Procs -> Job]
  BY DEF TypeOK, Steps, Job
<1>1. CASE UNCHANGED << pc, job >>
  BY <1>1
<1>2. ASSUME NEW q \in Procs \ {p}, NEW g \in Paths, ClearFile(q, g) \/ WriteFile(q, g)
      PROVE  Stays
  BY <1>0, <1>2 DEF ClearFile, WriteFile
<1>3. ASSUME NEW q \in Procs \ {p}, SwitchCheck(q) \/ Cleared(q) PROVE Stays
  BY <1>0, <1>3 DEF SwitchCheck, Cleared
<1>4. ASSUME NEW q \in Procs,
             SwitchRefuses(q) \/ StackSnapshot(q) \/ Bind(q) \/ BindFails(q) \/ CutShort(q)
      PROVE  Stays
  BY <1>0, <1>4 DEF SwitchRefuses, StackSnapshot, Bind, BindFails, CutShort, Finish
<1>5. ASSUME NEW q \in Procs, NEW n \in Local, StackStart(q, n) PROVE Stays
  BY <1>0, <1>5 DEF StackStart, Start
<1>6. ASSUME NEW q \in Procs \ {p}, NEW n \in Local, NEW target \in Targets,
             NEW force \in BOOLEAN, SwitchStart(q, n, target, force)
      PROVE  Stays
  BY <1>0, <1>6 DEF SwitchStart, Start
<1> QED
  BY <1>1, <1>2, <1>3, <1>4, <1>5, <1>6 DEF Next, vars, Edit, Land, Remove, Fetch, Undo, Add

-----------------------------------------------------------------------------
(* No edit is lost.  Until a switch has judged the directory what it read  *)
(* of the log is committed, and from then on everything unsaved in it is.  *)

Based ==
  \A p \in Procs : pc[p] = "check" /\ job[p].from # None =>
    \A f \in Paths : Committed(f, job[p].from[f])

Judged ==
  \A p \in Procs : pc[p] \in {"clear", "write"} =>
    \A u \in unsaved : u[1] = job[p].ws.dir => Committed(u[2], u[3])

Kept == Types /\ Based /\ Judged /\ NoEditLost

LEMMA StepBased == Kept /\ [Next]_vars => Based'
<1> SUFFICES ASSUME Kept, [Next]_vars, NEW p \in Procs, pc'[p] = "check",
                    job'[p].from # None, NEW f \in Paths
             PROVE  Committed(f, job[p].from[f])'
  BY DEF Based
<1>0. TypeOK /\ SoundLog(ops) /\ SoundLog(ops') /\ Keeps(ops, ops')
  BY LogStep DEF Kept, Types
<1>1. CASE pc'[p] = pc[p] /\ job'[p] = job[p]
  <2>1. Committed(f, job'[p].from[f])
    BY <1>1 DEF Kept, Based
  <2> QED BY <1>0, <2>1, CommittedStays
<1>2. ASSUME NEW n \in Local, NEW target \in Targets, NEW force \in BOOLEAN,
             SwitchStart(p, n, target, force)
      PROVE  Committed(f, job[p].from[f])'
  <2>1. reg[n].change \in Changes
    BY <1>0, <1>2 DEF SwitchStart, TypeOK, Workspace
  <2>2. job'[p].from = Tips[reg[n].change]
    BY <1>0, <1>2 DEF SwitchStart, Start, TypeOK
  <2>3. Committed(f, job'[p].from[f])
    BY <1>0, <2>1, <2>2, TipsAreCommitted
  <2> QED BY <1>0, <2>3, CommittedStays
<1>3. ~ SwitchCheck(p) /\ ~ Cleared(p) /\ \A g \in Paths : ~ ClearFile(p, g) /\ ~ WriteFile(p, g)
  BY <1>0 DEF SwitchCheck, Cleared, ClearFile, WriteFile, TypeOK
<1> QED BY <1>0, <1>1, <1>2, <1>3, Moves

(* An edit is never added to a directory being replaced, and a switch that *)
(* finds the copy clean finds in it what it read of the log, or nothing.   *)
LEMMA StepJudged == Kept /\ [Next]_vars => Judged'
<1> SUFFICES ASSUME Kept, [Next]_vars, NEW p \in Procs, pc'[p] \in {"clear", "write"},
                    NEW u \in unsaved', u[1] = job'[p].ws.dir
             PROVE  Committed(u[2], u[3])'
  BY DEF Judged
<1>0. TypeOK /\ SoundLog(ops) /\ SoundLog(ops') /\ Keeps(ops, ops')
  BY LogStep DEF Kept, Types
<1> SUFFICES Committed(u[2], u[3])
  BY <1>0, CommittedStays
<1>1. ASSUME pc[p] \in {"clear", "write"}, u \in unsaved, job[p].ws.dir = job'[p].ws.dir
      PROVE  Committed(u[2], u[3])
  BY <1>1 DEF Kept, Judged
<1>2. CASE SwitchCheck(p)
  <2> DEFINE d == job[p].ws.dir
             from == job[p].from
  <2>1. /\ pc[p] = "check" /\ job' = job /\ unsaved' \subseteq unsaved
        /\ job[p].force => u \notin unsaved'
        /\ IsDirty(d, from) => job[p].force
    BY <1>2 DEF SwitchCheck
  <2>2. copy[d] = Content(from) /\ u \in unsaved /\ u[1] = d
    BY <2>1 DEF IsDirty
  <2>3. u \in Dirs \X Paths \X Versions
    BY <1>0, <2>2 DEF TypeOK
  <2>4. copy[d][u[2]] = u[3] \/ Committed(u[2], u[3])
    BY <2>2 DEF Kept, NoEditLost
  <2>5. CASE from = None
    BY <2>2, <2>3, <2>4, <2>5 DEF Content, NoFiles
  <2>6. CASE from # None
    BY <2>1, <2>2, <2>3, <2>4, <2>6 DEF Content, Kept, Based
  <2> QED BY <2>5, <2>6
<1>3. CASE pc'[p] = pc[p] /\ job'[p] = job[p]
  <2>1. u \in unsaved
    <3>1. ASSUME NEW e \in Edits, Edit(e[1], e[2], e[3]) PROVE u \in unsaved
      <4> SUFFICES ASSUME u \notin unsaved PROVE FALSE
        OBVIOUS
      <4>1. u = <<e[1], e[2], e[3]>> /\ Switching(e[1]) = {}
        BY <3>1 DEF Edit
      <4> QED BY <1>3, <4>1 DEF Switching
    <3> QED
      BY <3>1 DEF Next, vars, Land, Remove, Fetch, Undo, Add, StackStart, StackSnapshot,
           SwitchStart, SwitchCheck, SwitchRefuses, ClearFile, WriteFile, Cleared, Bind, BindFails,
           CutShort
  <2> QED BY <1>1, <1>3, <2>1
<1>4. ASSUME NEW f \in Paths, ClearFile(p, f) \/ WriteFile(p, f) PROVE Committed(u[2], u[3])
  <2>1. /\ pc[p] \in {"clear", "write"} /\ unsaved' = unsaved
        /\ job' = [job EXCEPT ![p].left = job[p].left \ {f}]
    BY <1>4 DEF ClearFile, WriteFile
  <2>2. job'[p].ws.dir = job[p].ws.dir
    BY <1>0, <2>1, Jobs DEF TypeOK, SwitchJob
  <2> QED BY <1>1, <2>1, <2>2
<1>5. CASE Cleared(p)
  <2>1. /\ pc[p] = "clear" /\ unsaved' = unsaved
        /\ job' = [job EXCEPT ![p].left = {f \in Paths : job[p].to.tip[f] # Absent}]
    BY <1>5 DEF Cleared
  <2>2. job'[p].ws.dir = job[p].ws.dir
    BY <1>0, <2>1, Jobs DEF TypeOK, SwitchJob
  <2> QED BY <1>1, <2>1, <2>2
<1>6. ~ \E n \in Local, target \in Targets, force \in BOOLEAN : SwitchStart(p, n, target, force)
  BY <1>0 DEF SwitchStart, Start, TypeOK
<1> QED BY <1>0, <1>2, <1>3, <1>4, <1>5, <1>6, Moves

LEMMA StepNoEditLost == Kept /\ [Next]_vars => NoEditLost'
<1> SUFFICES ASSUME Kept, [Next]_vars, NEW u \in unsaved', ~ Committed(u[2], u[3])'
             PROVE  copy'[u[1]][u[2]] = u[3]
  BY DEF NoEditLost
<1>0. TypeOK /\ SoundLog(ops) /\ SoundLog(ops') /\ Keeps(ops, ops')
  BY LogStep DEF Kept, Types
<1>1. ~ Committed(u[2], u[3])
  BY <1>0, CommittedStays
<1>2. ASSUME u \in unsaved PROVE /\ u \in Dirs \X Paths \X Versions
                                 /\ copy[u[1]][u[2]] = u[3]
  BY <1>0, <1>1, <1>2 DEF Kept, NoEditLost, TypeOK
<1>3. CASE unsaved' \subseteq unsaved /\ UNCHANGED copy
  BY <1>2, <1>3
<1>4. ASSUME NEW e \in Edits, Edit(e[1], e[2], e[3]) PROVE copy'[u[1]][u[2]] = u[3]
  <2>1. e[1] \in Dirs /\ e[2] \in Paths /\ e[3] \in Versions \cup {Absent}
    OBVIOUS
  <2>2. copy' = [copy EXCEPT ![e[1]][e[2]] = e[3]]
    BY <1>4 DEF Edit
  <2>3. u = <<e[1], e[2], e[3]>> \/ (u \in unsaved /\ <<u[1], u[2]>> # <<e[1], e[2]>>)
    BY <1>4 DEF Edit
  <2> QED BY <1>0, <1>2, <2>1, <2>2, <2>3, FileWritten
<1>5. ASSUME NEW p \in Procs, NEW f \in Paths, ClearFile(p, f) \/ WriteFile(p, f)
      PROVE  copy'[u[1]][u[2]] = u[3]
  <2> DEFINE d == job[p].ws.dir
  <2>1. pc[p] \in {"clear", "write"} /\ unsaved' = unsaved
    BY <1>5 DEF ClearFile, WriteFile
  <2>2. u[1] # d
    BY <1>1, <2>1 DEF Kept, Judged
  <2>3. d \in Dirs /\ job[p].to.tip[f] \in Versions \cup {Absent}
    BY <1>0, <2>1, Jobs DEF Tree
  <2>4. PICK v \in Versions \cup {Absent} : copy' = [copy EXCEPT ![d][f] = v]
    BY <1>5, <2>3 DEF ClearFile, WriteFile
  <2> QED BY <1>0, <1>2, <2>1, <2>2, <2>3, <2>4, FileWritten
<1> QED
  BY <1>3, <1>4, <1>5 DEF Next, vars, Land, Remove, Fetch, Undo, Add, StackStart, StackSnapshot,
       SwitchStart, SwitchCheck, SwitchRefuses, Cleared, Bind, BindFails, CutShort

(* What an author wrote is in the working copy or in a commit, whatever is *)
(* switched, killed halfway, undone, removed or added (cmd_switch: "never  *)
(* clobber un-snapshotted edits").                                         *)
THEOREM NoEditIsLost == Spec => []NoEditLost
<1>1. Init => Kept
  <2> SUFFICES ASSUME Init PROVE Kept
    OBVIOUS
  <2>1. Types
    BY InitTypeOK DEF Types
  <2>2. unsaved = {} /\ \A p \in Procs : pc[p] = "idle"
    BY DEF Init
  <2> QED BY <2>1, <2>2 DEF Kept, Based, Judged, NoEditLost
<1>2. Kept /\ [Next]_vars => Kept'
  <2> SUFFICES ASSUME Kept, [Next]_vars PROVE Kept'
    OBVIOUS
  <2>1. Types'
    BY NextTypeOK, LogStep DEF Kept, Types
  <2> QED BY <2>1, StepBased, StepJudged, StepNoEditLost DEF Kept
<1>3. Kept => NoEditLost
  BY DEF Kept
<1> QED BY <1>1, <1>2, <1>3, PTL DEF Spec

-----------------------------------------------------------------------------
(* A switch nobody interferes with.                                        *)

(* What is left of it, file by file, and the workspace it will rebind.     *)
Undisturbed(p) ==
  LET j == job[p]
      d == j.ws.dir
  IN  /\ pc[p] \in {"check", "clear", "write"}
      /\ reg[j.name] # None
      /\ reg[j.name].dir = d
      /\ pc[p] = "check" => j.left = Paths
      /\ pc[p] = "clear" => \A f \in Paths \ j.left : copy[d][f] = Absent
      /\ pc[p] = "write" => \A f \in Paths \ j.left : copy[d][f] = j.to.tip[f]

Calm == Types /\ \A p \in calm : Undisturbed(p)

(* A step of another process, or of the author, leaves a calm switch as it *)
(* is or ends its calm.                                                    *)
LEMMA OthersDisturb ==
  ASSUME TypeOK, [Next]_vars, NEW p \in calm, p \in calm',
         pc[p] \in {"check", "clear", "write"}, pc'[p] = pc[p], job'[p] = job[p],
         reg[job[p].name] # None
  PROVE  /\ reg'[job[p].name] = reg[job[p].name]
         /\ pc[p] \in {"clear", "write"} => copy'[job[p].ws.dir] = copy[job[p].ws.dir]
<1> DEFINE d == job[p].ws.dir
           n == job[p].name
<1>0. /\ p \in Procs /\ d \in Dirs /\ n \in Names /\ job[p] \in SwitchJob
      /\ reg \in [Names -> Workspace \cup {None}]
  BY Jobs DEF TypeOK
<1>1. CASE UNCHANGED << reg, copy >>
  BY <1>1
<1>2. ASSUME NEW e \in Edits, Edit(e[1], e[2], e[3])
      PROVE  UNCHANGED reg /\ (pc[p] \in {"clear", "write"} => copy'[d] = copy[d])
  <2>1. copy' = [copy EXCEPT ![e[1]][e[2]] = e[3]] /\ UNCHANGED reg /\ p \notin Switching(e[1])
    BY <1>2 DEF Edit
  <2>2. pc[p] \in {"clear", "write"} => d # e[1]
    BY <1>0, <2>1 DEF Switching
  <2> QED BY <1>0, <2>1, <2>2 DEF TypeOK
<1>6. ASSUME NEW m \in Local, NEW e \in Dirs, Add(m, e) PROVE UNCHANGED copy /\ reg'[n] = reg[n]
  <2>1. /\ UNCHANGED copy /\ p \notin Using(m)
        /\ reg' = [reg EXCEPT ![m] = [dir |-> e, change |-> Change(m)]]
    BY <1>6 DEF Add
  <2>2. n # m
    BY <1>0, <2>1 DEF Using
  <2> HIDE DEF n
  <2> QED BY <1>0, <2>1, <2>2
<1>3. ASSUME NEW m \in Local, Remove(m)
      PROVE  UNCHANGED copy /\ reg'[n] = reg[n]
  <2>1. UNCHANGED copy /\ p \notin Using(m) /\ reg' = [reg EXCEPT ![m] = None]
    BY <1>3 DEF Remove
  <2>2. n # m
    BY <1>0, <2>1 DEF Using
  <2> QED BY <1>0, <2>1, <2>2
<1>4. ASSUME NEW q \in Procs, Bind(q)
      PROVE  UNCHANGED copy /\ reg'[n] = reg[n]
  <2>1. /\ UNCHANGED copy /\ p \notin Using(job[q].name)
        /\ reg' = [reg EXCEPT ![job[q].name] = [reg[job[q].name] EXCEPT !.change = job[q].to.change]]
    BY <1>4 DEF Bind
  <2>2. n # job[q].name
    BY <1>0, <2>1 DEF Using
  <2> HIDE DEF n
  <2> QED BY <1>0, <2>1, <2>2
<1>5. ASSUME NEW q \in Procs, NEW f \in Paths, ClearFile(q, f) \/ WriteFile(q, f)
      PROVE  UNCHANGED reg /\ (pc[p] \in {"clear", "write"} => copy'[d] = copy[d])
  <2> DEFINE e == job[q].ws.dir
  <2>1. /\ pc[q] \in {"clear", "write"}
        /\ job' = [job EXCEPT ![q].left = job[q].left \ {f}]
        /\ f \in job[q].left
        /\ p \notin Switching(e) \ {q} /\ UNCHANGED reg
        /\ \E v : copy' = [copy EXCEPT ![e][f] = v]
    BY <1>5 DEF ClearFile, WriteFile
  <2>2. q # p
    BY <1>0, <2>1 DEF TypeOK, SwitchJob
  <2>3. pc[p] \in {"clear", "write"} => d # e
    BY <1>0, <2>1, <2>2 DEF Switching
  <2> HIDE DEF d, e
  <2> QED BY <1>0, <2>1, <2>3 DEF TypeOK
<1> QED
  BY <1>1, <1>2, <1>3, <1>4, <1>5, <1>6
     DEF Next, vars, Land, Fetch, Undo, StackStart, StackSnapshot, SwitchStart, SwitchCheck,
         SwitchRefuses, Cleared, BindFails, CutShort

LEMMA StepCalm == Calm /\ [Next]_vars => Calm'
<1> SUFFICES ASSUME Calm, [Next]_vars PROVE Calm'
  OBVIOUS
<1>0. TypeOK /\ TypeOK' /\ Types'
  BY NextTypeOK, LogStep DEF Calm, Types
<1> SUFFICES ASSUME NEW p \in calm' PROVE Undisturbed(p)'
  BY <1>0 DEF Calm
<1>1. p \in Procs
  BY <1>0 DEF TypeOK
<1>2. CASE p \notin calm
  <2>1. PICK n \in Local, target \in Targets, force \in BOOLEAN : SwitchStart(p, n, target, force)
    <3>1. ~ (calm' \subseteq calm)
      BY <1>2
    <3>2. ASSUME NEW q \in Procs,
                 \/ \E n \in Local : StackStart(q, n)
                 \/ \E f \in Paths : ClearFile(q, f) \/ WriteFile(q, f)
                 \/ StackSnapshot(q) \/ SwitchCheck(q) \/ SwitchRefuses(q) \/ Cleared(q)
                 \/ Bind(q) \/ BindFails(q) \/ CutShort(q)
          PROVE  calm' \subseteq calm
      BY <3>2 DEF StackStart, ClearFile, WriteFile, StackSnapshot, SwitchCheck, SwitchRefuses,
           Cleared, Bind, BindFails, CutShort
    <3>3. PICK q \in Procs, n \in Local, target \in Targets, force \in BOOLEAN :
            SwitchStart(q, n, target, force)
      BY <3>1, <3>2 DEF Next, vars, Edit, Land, Remove, Fetch, Undo, Add
    <3>4. q = p
      BY <1>2, <3>3 DEF SwitchStart
    <3> QED BY <3>3, <3>4
  <2>2. /\ pc'[p] = "check" /\ reg' = reg /\ reg[n] # None
        /\ job'[p].name = n /\ job'[p].ws = reg[n] /\ job'[p].left = Paths
    BY <1>0, <1>1, <2>1 DEF SwitchStart, Start, TypeOK
  <2> QED BY <2>2 DEF Undisturbed
<1>3. CASE p \in calm
  <2> DEFINE d == job[p].ws.dir
  <2>0. Undisturbed(p)
    BY <1>3 DEF Calm
  <2>1. /\ pc[p] \in {"check", "clear", "write"} /\ d \in Dirs
        /\ reg[job[p].name] # None /\ reg[job[p].name].dir = d
        /\ job[p] \in SwitchJob /\ job[p].to.tip \in Tree /\ job[p].left \subseteq Paths
    BY <1>0, <1>1, <2>0, Jobs DEF Undisturbed
  <2>2. pc'[p] \in {"check", "clear", "write"}
    <3>1. CASE UNCHANGED pc
      BY <2>1, <3>1
    <3>2. ASSUME NEW q \in Procs, \/ \E n \in Local : StackStart(q, n)
                                 \/ \E n \in Local, target \in Targets, force \in BOOLEAN :
                                      SwitchStart(q, n, target, force)
          PROVE  pc'[p] = pc[p]
      BY <1>0, <1>1, <2>1, <3>2 DEF StackStart, SwitchStart, Start, TypeOK
    <3>3. ASSUME NEW q \in Procs, SwitchCheck(q) \/ Cleared(q)
          PROVE  pc'[p] \in {"check", "clear", "write"}
      BY <1>0, <1>1, <2>1, <3>3 DEF SwitchCheck, Cleared, TypeOK
    <3>4. ASSUME NEW q \in Procs, StackSnapshot(q) PROVE pc'[p] = pc[p]
      BY <1>0, <1>1, <2>1, <3>4 DEF StackSnapshot, Finish, TypeOK
    <3>5. ASSUME NEW q \in Procs, SwitchRefuses(q) \/ BindFails(q) \/ CutShort(q)
          PROVE  pc'[p] = pc[p]
      BY <1>0, <1>1, <1>3, <2>1, <3>5 DEF SwitchRefuses, BindFails, CutShort, Finish, TypeOK
    <3>6. ASSUME NEW q \in Procs, Bind(q) PROVE pc'[p] = pc[p]
      <4>1. p \notin Using(job[q].name) /\ pc' = [pc EXCEPT ![q] = "idle"] /\ pc[q] = "write"
        BY <3>6 DEF Bind, Finish
      <4>2. q # p
        BY <1>1, <4>1 DEF Using
      <4> QED BY <1>0, <1>1, <4>1, <4>2 DEF TypeOK
    <3> QED
      BY <2>1, <3>1, <3>2, <3>3, <3>4, <3>5, <3>6
         DEF Next, vars, Edit, Land, Remove, Fetch, Undo, Add, ClearFile, WriteFile
  <2>3. CASE pc'[p] = pc[p] /\ job'[p] = job[p]
    <3>1. /\ reg'[job[p].name] = reg[job[p].name]
          /\ pc[p] \in {"clear", "write"} => copy'[d] = copy[d]
      BY <1>0, <1>3, <2>1, <2>3, OthersDisturb
    <3> QED BY <2>0, <2>3, <3>1 DEF Undisturbed
  <2>4. CASE SwitchCheck(p)
    <3>1. pc'[p] = "clear" /\ UNCHANGED << job, reg >> /\ job[p].left = Paths
      BY <1>0, <1>1, <2>0, <2>4 DEF SwitchCheck, Undisturbed, TypeOK
    <3> QED BY <2>1, <3>1 DEF Undisturbed
  <2>5. CASE Cleared(p)
    <3>1. /\ pc[p] = "clear" /\ pc'[p] = "write" /\ UNCHANGED << reg, copy >> /\ job[p].left = {}
          /\ job' = [job EXCEPT ![p].left = {f \in Paths : job[p].to.tip[f] # Absent}]
      BY <1>0, <1>1, <2>5 DEF Cleared, TypeOK
    <3>2. /\ job'[p].name = job[p].name /\ job'[p].ws = job[p].ws /\ job'[p].to = job[p].to
          /\ job'[p].left = {f \in Paths : job[p].to.tip[f] # Absent}
      BY <1>0, <1>1, <2>1, <3>1 DEF TypeOK, SwitchJob
    <3>3. \A f \in Paths : copy[d][f] = Absent
      BY <2>0, <3>1 DEF Undisturbed
    <3> QED BY <2>1, <3>1, <3>2, <3>3 DEF Undisturbed
  <2>6. ASSUME NEW f \in Paths, ClearFile(p, f) \/ WriteFile(p, f) PROVE Undisturbed(p)'
    <3> DEFINE v == IF pc[p] = "clear" THEN Absent ELSE job[p].to.tip[f]
    <3>1. /\ pc[p] \in {"clear", "write"} /\ UNCHANGED << reg, pc >>
          /\ job' = [job EXCEPT ![p].left = job[p].left \ {f}]
          /\ copy' = [copy EXCEPT ![d][f] = v]
      BY <2>6 DEF ClearFile, WriteFile
    <3>2. /\ job'[p].name = job[p].name /\ job'[p].ws = job[p].ws /\ job'[p].to = job[p].to
          /\ job'[p].left = job[p].left \ {f}
      BY <1>0, <1>1, <2>1, <3>1 DEF TypeOK, SwitchJob
    <3>3. v \in Versions \cup {Absent}
      BY <2>1 DEF Tree
    <3>4. copy'[d][f] = v /\ \A g \in Paths \ {f} : copy'[d][g] = copy[d][g]
      <4>1. copy[d] \in Tree
        BY <1>0, <2>1 DEF TypeOK
      <4>2. copy' = [copy EXCEPT ![d] = [copy[d] EXCEPT ![f] = v]]
        BY <3>1
      <4>3. copy'[d] = [copy[d] EXCEPT ![f] = v]
        <5> HIDE DEF d, v
        <5> QED BY <1>0, <2>1, <4>2 DEF TypeOK
      <4> HIDE DEF d, v
      <4> QED BY <4>1, <4>3 DEF Tree
    <3>5. \A g \in Paths \ job'[p].left : g = f \/ g \in Paths \ job[p].left
      BY <3>2
    <3> DEFINE base == /\ pc'[p] \in {"clear", "write"}
                       /\ reg'[job'[p].name] # None
                       /\ reg'[job'[p].name].dir = d
                       /\ job'[p].ws.dir = d /\ job'[p].to = job[p].to
    <3>6. base
      BY <2>1, <3>1, <3>2
    <3>7. CASE pc[p] = "clear"
      <4>1. v = Absent /\ pc'[p] = "clear"
        BY <3>1, <3>7
      <4>2. \A g \in Paths \ job[p].left : copy[d][g] = Absent
        BY <2>0, <3>7 DEF Undisturbed
      <4>3. \A g \in Paths \ job'[p].left : copy'[d][g] = Absent
        BY <3>4, <3>5, <4>1, <4>2
      <4> QED BY <3>6, <4>1, <4>3 DEF Undisturbed
    <3>8. CASE pc[p] = "write"
      <4>1. v = job[p].to.tip[f] /\ pc'[p] = "write"
        BY <3>1, <3>8
      <4>2. \A g \in Paths \ job[p].left : copy[d][g] = job[p].to.tip[g]
        BY <2>0, <3>8 DEF Undisturbed
      <4>3. \A g \in Paths \ job'[p].left : copy'[d][g] = job[p].to.tip[g]
        BY <3>4, <3>5, <4>1, <4>2
      <4> QED BY <3>6, <4>1, <4>3 DEF Undisturbed
    <3> QED BY <3>1, <3>7, <3>8
  <2>7. ~ \E n \in Local, target \in Targets, force \in BOOLEAN : SwitchStart(p, n, target, force)
    BY <2>1 DEF SwitchStart, Start
  <2> QED BY <1>0, <1>1, <2>2, <2>3, <2>4, <2>5, <2>6, <2>7, Moves
<1> QED BY <1>2, <1>3

(* The only step that ends a calm switch is the rebinding of its workspace *)
(* (materialize, then WorkspaceRegistry::set_change), and then the         *)
(* directory holds the target's tree, file for file, whatever an earlier   *)
(* switch cut short had left in it.                                        *)
THEOREM CalmSwitchDelivers == Spec => SwitchDelivers
<1> DEFINE Delivers ==
      \A p \in calm : pc[p] = "write" /\ pc'[p] = "idle" /\ faults' = faults =>
        /\ reg'[job[p].name] = [dir |-> job[p].ws.dir, change |-> job[p].to.change]
        /\ copy[job[p].ws.dir] = job[p].to.tip
<1>1. Init => Calm
  <2> SUFFICES ASSUME Init PROVE Calm
    OBVIOUS
  <2>1. Types /\ calm = {}
    BY InitTypeOK DEF Types, Init
  <2> QED BY <2>1 DEF Calm
<1>2. Calm /\ [Next]_vars => [Delivers]_vars
  <2> SUFFICES ASSUME Calm, [Next]_vars, NEW p \in calm, pc[p] = "write", pc'[p] = "idle",
                      faults' = faults
               PROVE  /\ reg'[job[p].name] = [dir |-> job[p].ws.dir, change |-> job[p].to.change]
                      /\ copy[job[p].ws.dir] = job[p].to.tip
    OBVIOUS
  <2>0. TypeOK /\ p \in Procs /\ faults \in Nat
    BY DEF Calm, Types, TypeOK
  <2>1. /\ Undisturbed(p)
        /\ job[p].to.tip \in Tree /\ job[p].to.change \in Changes /\ job[p].name \in Names
        /\ job[p].ws.dir \in Dirs
    BY <2>0, Jobs DEF Calm
  <2>2. Bind(p)
    <3>1. pc'[p] # pc[p]
      OBVIOUS
    <3>2. ~ BindFails(p)
      BY <2>1 DEF BindFails, Undisturbed
    <3>3. \A q \in Procs : ~ CutShort(q)
      BY <2>0 DEF CutShort
    <3>4. ASSUME NEW q \in Procs, pc' # pc,
                 \/ \E n \in Local : StackStart(q, n)
                 \/ StackSnapshot(q) \/ SwitchCheck(q) \/ SwitchRefuses(q) \/ Cleared(q)
                 \/ \E n \in Local, target \in Targets, force \in BOOLEAN : SwitchStart(q, n, target, force)
                 \/ q # p /\ (Bind(q) \/ BindFails(q))
          PROVE  FALSE
      BY <2>0, <3>4 DEF TypeOK, StackStart, StackSnapshot, SwitchCheck, SwitchRefuses, Cleared,
           SwitchStart, Bind, BindFails, Start, Finish
    <3> QED
      BY <2>0, <3>1, <3>2, <3>3, <3>4
         DEF Next, vars, Edit, Land, Remove, Fetch, Undo, Add, ClearFile, WriteFile
  <2>3. /\ job[p].left = {}
        /\ reg' = [reg EXCEPT ![job[p].name] = [reg[job[p].name] EXCEPT !.change = job[p].to.change]]
    BY <2>2 DEF Bind
  <2>4. reg[job[p].name] \in Workspace /\ reg[job[p].name].dir = job[p].ws.dir
    BY <2>0, <2>1 DEF TypeOK, Undisturbed
  <2>5. reg'[job[p].name] = [reg[job[p].name] EXCEPT !.change = job[p].to.change]
    BY <2>0, <2>1, <2>3 DEF TypeOK
  <2>6. reg'[job[p].name] = [dir |-> job[p].ws.dir, change |-> job[p].to.change]
    BY <2>4, <2>5 DEF Workspace
  <2>7. copy[job[p].ws.dir] \in Tree /\ \A f \in Paths : copy[job[p].ws.dir][f] = job[p].to.tip[f]
    BY <2>0, <2>1, <2>3 DEF TypeOK, Undisturbed
  <2>8. copy[job[p].ws.dir] = job[p].to.tip
    BY <2>1, <2>7 DEF Tree
  <2> QED BY <2>6, <2>8
<1>3. Spec => [][Delivers]_vars
  <2> HIDE DEF Delivers
  <2> QED BY <1>1, <1>2, StepCalm, PTL DEF Spec
<1> QED BY <1>3 DEF SwitchDelivers
=============================================================================
