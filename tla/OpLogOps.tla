----------------------------- MODULE OpLogOps -----------------------------
(***************************************************************************)
(* The operation log of crates/omoplata-work/src/oplog.rs as a value: its  *)
(* entries, which of them are in effect, the refs they fold to and what an *)
(* undo inverts.  Every operator takes the log as a parameter, so that the *)
(* modules that keep a log in memory, on disk or in a snapshot share them. *)
(***************************************************************************)
EXTENDS Integers, Sequences, FiniteSets

CONSTANTS Refs,     \* ref names: user refs, change ids, public/.. and remotes/.. names
          Commits,  \* commit ids (object ids of trees and blobs)
          None      \* Option::None

ASSUME NoneAssumption == None \notin Refs /\ None \notin Commits

-----------------------------------------------------------------------------
(* The kinds of entry, and the fields the fold reads.  A change's tip is   *)
(* kept under the ref named by its change id, so one field `ref` stands    *)
(* for SetRef::name and for the change of Rebase, Commit and Switch; `old` *)
(* and `new` are old/new, old_tip/new_tip, parent/tree and from/to.        *)

RefKinds == {"set_ref", "rebase", "commit", "switch"}

OpKind ==
  [kind : RefKinds, ref : Refs, old : Commits \cup {None}, new : Commits \cup {None}]
    \cup [kind : {"set_phase"}, ref : Refs]
    \cup [kind : {"undo"}, target : Nat]

Operation == [seq : Nat, op : OpKind]

SetRefOp(r, old, new) == [kind |-> "set_ref", ref |-> r, old |-> old, new |-> new]
RebaseOp(c, old, new) == [kind |-> "rebase",  ref |-> c, old |-> old, new |-> new]
CommitOp(c, old, new) == [kind |-> "commit",  ref |-> c, old |-> old, new |-> new]
UndoOp(s)             == [kind |-> "undo", target |-> s]

(* The entry stamped s: its seq is its 0-based index.                      *)
OpAt(log, s) == log[s + 1].op

IsUndoOf(log, u, s) == OpAt(log, u).kind = "undo" /\ OpAt(log, u).target = s

NoLimit(log) == Len(log) - 1      \* u64::MAX: every entry of the log

-----------------------------------------------------------------------------
(* Bugs the fold could have, kept to show that the properties notice them. *)

(* Ops appended after the queried time decide what was in effect at it.    *)
UndosOf_IgnoresLimit(log, limit) ==
  [s \in 0 .. Len(log) - 1 |-> {u \in 0 .. Len(log) - 1 : IsUndoOf(log, u, s)}]

(* An undone undo still cancels its target.                                *)
InForce_UndoIsFinal(undos) == [s \in DOMAIN undos |-> undos[s] = {}]

-----------------------------------------------------------------------------
(* OpLog::is_active for every seq up to limit: the undos that target each  *)
(* entry, and whether an even number of them are in effect themselves.     *)
(* The recursion ends because an undo targets an earlier entry.            *)
UndosOf(log, limit) == [s \in 0 .. limit |-> {u \in 0 .. limit : IsUndoOf(log, u, s)}]

InForce(undos) ==
  LET active[s \in DOMAIN undos] == Cardinality({u \in undos[s] : active[u]}) % 2 = 0
  IN  active

IsActive(log, limit) == InForce(UndosOf(log, limit))

(* The entries up to limit, in effect as of limit, that write ref r.       *)
Writers(log, limit, r) ==
  LET active == IsActive(log, limit)
  IN  {s \in 0 .. limit : /\ OpAt(log, s).kind \in RefKinds
                          /\ OpAt(log, s).ref = r
                          /\ active[s]}

Latest(S) == CHOOSE s \in S : \A t \in S : t <= s

(* OpLog::fold_refs: a later operation in effect overrides an earlier one; *)
(* a SetRef to None removes the ref.                                       *)
FoldRefs(log, limit) ==
  [r \in Refs |-> LET ws == Writers(log, limit, r)
                  IN  IF ws = {} THEN None ELSE OpAt(log, Latest(ws)).new]

RefsNow(log)   == FoldRefs(log, NoLimit(log))
RefsAt(log, t) == FoldRefs(log, t)

NextSeq_FromOne(log) == Len(log) + 1

(* OpLog::append_at: the transaction time is the length of the log.        *)
NextSeq(log) == Len(log)
Appended(log, op) == Append(log, [seq |-> NextSeq(log), op |-> op])

(* OpLog::set_ref: the before-value is folded from the same log.           *)
WithSetRef(log, r, new) == Appended(log, SetRefOp(r, RefsNow(log)[r], new))

(* OpLog::undo: the entries undo can invert; it takes the latest.          *)
InEffect(log) ==
  LET active == IsActive(log, NoLimit(log))
  IN  {s \in 0 .. NoLimit(log) : active[s]}
=============================================================================
