------------------------------- MODULE Packs -------------------------------
(***************************************************************************)
(* Git packfiles (crates/omoplata-git/src/pack.rs): objects kept whole or  *)
(* as deltas against another entry, read by an index that lies beside the  *)
(* pack or, off the wire, by walking the pack itself.                      *)
(*                                                                         *)
(* A pack has the declared count and its entries, one after the other; an  *)
(* entry's offset is its position.  An object is a type and a body, a      *)
(* sequence of bytes.  An oid is a hash of the object, and stands for it   *)
(* here: two objects never share an oid.  Refused is every GitError.       *)
(***************************************************************************)
EXTENDS Integers, SequencesExt, FiniteSetsExt

CONSTANTS MAX_DELTA_DEPTH, Refused

ObjectTypes == {"commit", "tree", "blob", "tag"}

----------------------------------------------------------------------------
(* Deltas: the sizes of source and target, and the instructions: copy size *)
(* bytes of the base from an offset (counted from 0), insert bytes, or the *)
(* reserved opcode.                                                        *)

Copy(from, size)  == [op |-> "copy", from |-> from, size |-> size]
Insert(bytes)     == [op |-> "insert", bytes |-> bytes]

LOCAL Legal(base, i) ==
  \/ i.op = "copy" /\ i.from + i.size <= Len(base)
  \/ i.op = "insert"

LOCAL Output(base, i) ==
  IF i.op = "copy" THEN SubSeq(base, i.from + 1, i.from + i.size) ELSE i.bytes

ApplyDelta(base, delta) ==
  IF \/ delta.source # Len(base)
     \/ \E k \in DOMAIN delta.ops : ~ Legal(base, delta.ops[k])
  THEN Refused
  ELSE LET out == FlattenSeq([k \in DOMAIN delta.ops |-> Output(base, delta.ops[k])])
       IN IF Len(out) = delta.target THEN out ELSE Refused

----------------------------------------------------------------------------
(* Headers, entries and the index.                                         *)

(* The number of objects the pack declares.                                *)
ParsePackHeader(pack) == IF pack.magic THEN pack.count ELSE Refused

(* The oid and the offset of every object, in the order of the oids.  A    *)
(* large offset is an entry of a table of its own.                         *)
ParseIdx(idx) ==
  LET Large(k) == idx.offsets[k].large
      Offset(k) == IF Large(k) THEN idx.larges[idx.offsets[k].value]
                   ELSE idx.offsets[k].value
  IN IF \/ Len(idx.offsets) # Len(idx.oids)
        \/ \E k \in DOMAIN idx.offsets : Large(k) /\ idx.offsets[k].value \notin DOMAIN idx.larges
     THEN Refused
     ELSE [k \in DOMAIN idx.oids |-> [oid |-> idx.oids[k], offset |-> Offset(k)]]

(* A whole object, or a delta against the entry back places before it or   *)
(* against the object base; the declared size must be the inflated one.    *)
ParseEntryAt(pack, at) ==
  IF at \notin DOMAIN pack.entries THEN Refused
  ELSE LET e == pack.entries[at]
       IN IF e.size = Len(IF e.kind \in ObjectTypes THEN e.body ELSE e.delta.ops)
             /\ (e.kind = "ofs" => e.back <= at)
          THEN e ELSE Refused

(* Where each entry starts: found by reading one after the other.          *)
SkipEntries(pack, count) ==
  IF \E at \in 1 .. count : at \notin DOMAIN pack.entries THEN Refused ELSE [at \in 1 .. count |-> at]

(* The base of a ref delta, as a set of at most one.                       *)
PeekRefBase(pack, at) ==
  IF pack.entries[at].kind = "ref" THEN {pack.entries[at].base} ELSE {}

----------------------------------------------------------------------------
(* Resolution.  known is a function from oids to offsets; memo, one from   *)
(* the offsets resolved so far to their objects, which grows as it goes.   *)

LOCAL With(memo, at, object) == (at :> object) @@ memo

RECURSIVE Resolve(_, _, _, _, _)

(* The object at the offset at whose base is at from.                      *)
ResolveDelta(pack, at, from, known, memo, depth) ==
  LET inner == Resolve(pack, from, known, memo, depth + 1)
  IN IF inner = Refused THEN Refused
     ELSE LET base == inner[from]
              body == ApplyDelta(base.body, pack.entries[at].delta)
          IN IF body = Refused THEN Refused
             ELSE With(inner, at, [type |-> base.type, body |-> body])

(* The memo with the object at the offset at.                              *)
Resolve(pack, at, known, memo, depth) ==
  LET e == ParseEntryAt(pack, at)
  IN IF at \in DOMAIN memo THEN memo
     ELSE IF depth > MAX_DELTA_DEPTH \/ e = Refused THEN Refused
     ELSE CASE e.kind \in ObjectTypes ->
                 With(memo, at, [type |-> e.kind, body |-> e.body])
            [] e.kind = "ofs" -> ResolveDelta(pack, at, at - e.back, known, memo, depth)
            [] OTHER -> IF e.base \in DOMAIN known
                        THEN ResolveDelta(pack, at, known[e.base], known, memo, depth)
                        ELSE Refused

----------------------------------------------------------------------------
(* Every object of the index is resolved, and must be the one it names.    *)
ReadIndexed(pack, index, memo) ==
  LET known == [oid \in {j.oid : j \in ToSet(index)} |->
                  (CHOOSE j \in ToSet(index) : j.oid = oid).offset]
      Step(acc, i) ==
        LET next == IF acc = Refused THEN Refused ELSE Resolve(pack, i.offset, known, acc, 0)
        IN IF next = Refused THEN Refused
           ELSE IF next[i.offset] = i.oid THEN next ELSE Refused
  IN FoldLeft(Step, memo, index)

(* read_pack: the objects in the order of the index.                       *)
ReadPack(pack, idx) ==
  LET index == ParseIdx(idx)
      count == ParsePackHeader(pack)
  IN IF index = Refused \/ count = Refused THEN Refused
     ELSE IF count # Len(index) THEN Refused
     ELSE IF ReadIndexed(pack, index, <<>>) = Refused THEN Refused
     ELSE [k \in DOMAIN index |-> index[k].oid]

(* A bug it could have: a ref delta is not put off until its base is read. *)
Pass_NoDeferral(pack, remaining, state) ==
  FoldLeft(LAMBDA acc, at :
             LET memo == IF acc = Refused THEN Refused ELSE Resolve(pack, at, acc.known, acc.memo, 0)
             IN IF memo = Refused THEN Refused
                ELSE [acc EXCEPT !.memo = memo, !.known = With(@, memo[at], at)],
           state, remaining)

(* One pass over the offsets that remain.                                  *)
Pass(pack, remaining, state) ==
  LET Step(acc, at) ==
        IF acc = Refused THEN Refused
        ELSE IF \E oid \in PeekRefBase(pack, at) : oid \notin DOMAIN acc.known
        THEN [acc EXCEPT !.deferred = Append(@, at)]
        ELSE LET memo == Resolve(pack, at, acc.known, acc.memo, 0)
             IN IF memo = Refused THEN Refused
                ELSE [acc EXCEPT !.memo = memo, !.known = With(@, memo[at], at)]
  IN FoldLeft(Step, state, remaining)

RECURSIVE Passes(_, _, _)
(* Until nothing is deferred; a pass that only defers ends in an error.    *)
Passes(pack, remaining, state) ==
  IF remaining = <<>> THEN state.memo
  ELSE LET next == Pass(pack, remaining, [state EXCEPT !.deferred = <<>>])
       IN IF next = Refused THEN Refused
          ELSE IF Len(next.deferred) = Len(remaining) THEN Refused
          ELSE Passes(pack, next.deferred, next)

(* parse_pack_bytes: the objects in the order of the pack.                 *)
ParsePackBytes(pack) ==
  LET count   == ParsePackHeader(pack)
      offsets == IF count = Refused THEN Refused ELSE SkipEntries(pack, count)
      memo    == IF offsets = Refused THEN Refused
                 ELSE Passes(pack, offsets, [memo |-> <<>>, known |-> <<>>, deferred |-> <<>>])
  IN IF memo = Refused THEN Refused ELSE [k \in DOMAIN offsets |-> memo[offsets[k]]]

(* read_all_packs: the objects of every pack of the directory.             *)
ReadAllPacks(packs) ==
  LET Step(acc, p) ==
        LET objects == ReadPack(p.pack, p.idx)
        IN IF acc = Refused \/ objects = Refused THEN Refused ELSE acc \o objects
  IN FoldLeft(Step, <<>>, packs)
=============================================================================
