------------------------------- MODULE OpLog -------------------------------
(***************************************************************************)
(* The bi-temporal operation log of one repository, as the commands that   *)
(* append to it see it: omo ref set, the auto-snapshot of a workspace, omo *)
(* autorebase and omo op undo.  Each runs under the repository lock as one *)
(* load -> mutate -> save (module LockedLog shows that this is atomic), so *)
(* each is one action here.                                                *)
(***************************************************************************)
EXTENDS OpLogOps

CONSTANTS Changes,    \* change ids; a change's tip is the ref of that name
          EmptyTree,  \* the commit id of the tree with no entries
          MaxOps      \* bound on the length of the log

ASSUME OpLogAssumption == /\ Changes \subseteq Refs
                          /\ EmptyTree \in Commits
                          /\ MaxOps \in Nat

VARIABLE ops          \* OpLog::ops, the lines of .omoplata/oplog.jsonl

Init == ops = << >>

-----------------------------------------------------------------------------
(* Bugs the operations could have.                                         *)

(* The before-value is not captured.                                       *)
RefSet_NoOld(r, new) ==
  /\ Len(ops) < MaxOps
  /\ ops' = Appended(ops, SetRefOp(r, None, new))

-----------------------------------------------------------------------------
(* omo ref set, and set_ref by every other caller.                         *)
RefSet(r, new) ==
  /\ Len(ops) < MaxOps
  /\ ops' = WithSetRef(ops, r, new)

(* auto_snapshot: a working copy whose tree differs from the change's tip  *)
(* (from the empty tree when it has none) is committed.  The tree is read  *)
(* twice, once to compare and once to record, and an editor may write in   *)
(* between: seen is the first reading, tree the second.                    *)
AutoSnapshot(c, seen, tree) ==
  LET tip == RefsNow(ops)[c]
  IN  /\ Len(ops) < MaxOps
      /\ seen # (IF tip = None THEN EmptyTree ELSE tip)
      /\ ops' = Appended(ops, CommitOp(c, tip, tree))

(* cmd_autorebase: a change with no ref is first anchored at the tip being *)
(* rebased; a change that has one keeps it, whatever tip is being rebased. *)
AutoRebase(c, oldTip, newTip) ==
  LET anchored == IF RefsNow(ops)[c] = None THEN WithSetRef(ops, c, oldTip) ELSE ops
  IN  /\ Len(anchored) < MaxOps
      /\ ops' = Appended(anchored, RebaseOp(c, oldTip, newTip))

(* OpLog::undo: records the inverse of the latest operation in effect; an  *)
(* empty log is refused (WorkError::NothingToUndo) and nothing is saved.   *)
Undo ==
  /\ Len(ops) < MaxOps
  /\ \E s \in InEffect(ops) : /\ \A t \in InEffect(ops) : t <= s
                             /\ ops' = Appended(ops, UndoOp(s))

Next ==
  \/ \E r \in Refs, new \in Commits \cup {None} : RefSet(r, new)
  \/ \E c \in Changes, seen, tree \in Commits : AutoSnapshot(c, seen, tree)
  \/ \E c \in Changes, oldTip, newTip \in Commits : AutoRebase(c, oldTip, newTip)
  \/ Undo

Spec == Init /\ [][Next]_ops

-----------------------------------------------------------------------------
Seqs == 0 .. Len(ops) - 1

(* The refs before the entry stamped s was appended.                       *)
Before(s) == IF s = 0 THEN [r \in Refs |-> None] ELSE RefsAt(ops, s - 1)

Kind(s) == OpAt(ops, s).kind

(* The log is a sequence of operations whose transaction times are exactly *)
(* 0, 1, 2, .. and whose undos name an earlier entry (what ends the        *)
(* recursion of is_active).                                                *)
TypeOK ==
  /\ ops \in Seq(Operation)
  /\ \A s \in Seqs : /\ ops[s + 1].seq = s
                     /\ Kind(s) = "undo" => OpAt(ops, s).target < s

(* Undo is an inverse operation, not erasure: no step changes or removes   *)
(* an entry (oplog.rs: "strictly append-only").                            *)
AppendOnly == [][ /\ Len(ops') > Len(ops)
                  /\ \A s \in Seqs : ops'[s + 1] = ops[s + 1] ]_ops

(* The as-of-t view is stable for ever: whatever is appended, undos        *)
(* included, refs_at(t) answers as it did when t was the newest entry.     *)
HistoryIsStable == [][ \A t \in Seqs : RefsAt(ops, t) = RefsAt(ops', t) ]_ops

(* I7, undo o op = identity: the refs after an undo (or a redo) are the    *)
(* refs as they were before the entry it inverts.                          *)
UndoIsInverse ==
  \A u \in Seqs : Kind(u) = "undo" => RefsAt(ops, u) = Before(OpAt(ops, u).target)

(* The before-value an entry records is what the ref held when it was      *)
(* appended: for SetRef and Commit, whose `old` and `parent` are folded    *)
(* from the log they are appended to.                                      *)
RecordsBefore ==
  \A s \in Seqs : Kind(s) \in {"set_ref", "commit"} =>
    OpAt(ops, s).old = Before(s)[OpAt(ops, s).ref]
=============================================================================
