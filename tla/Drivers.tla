------------------------------ MODULE Drivers ------------------------------
(***************************************************************************)
(* The merge drivers (crates/omoplata-drivers): the line driver and the    *)
(* Rust structural driver, which merges a file definition by definition.   *)
(*                                                                         *)
(* A file is a segmentation: its items in order and the gaps between them  *)
(* (Len(items) + 1 of them, each a sequence of lines: use declarations,    *)
(* macros, comments, blank lines).  An item is                             *)
(*   kind     "fn", or a container such as "impl"                          *)
(*   path     the definition's name, which its text repeats                *)
(*   body     the lines of its text, without the name                      *)
(*   carried  the conflict value in its body: <<>> or one [left, right],   *)
(*            whose left variant then is its body                          *)
(*   items, gaps   the members of a container; the driver pins the values  *)
(*            in them to the item they are part of (CarriedBy)             *)
(* malformed says that the file does not parse, or has a conflict marker   *)
(* where the driver cannot pin it to an item: a segmentation of such a     *)
(* file is only what the line driver sees of it.                           *)
(***************************************************************************)
EXTENDS Algebra, Definitions

Containers == {"impl", "mod", "trait"}

MAX_CONTAINER_DEPTH == 3

NoItems == [items |-> <<>>, gaps |-> <<<<>>>>]

LeafItem(path, body) ==
  [kind |-> "fn", path |-> path, body |-> body, carried |-> <<>>,
   items |-> <<>>, gaps |-> <<>>]

RenderConflict(left, right) ==
  <<CONFLICT_START>> \o left \o <<CONFLICT_SEP>> \o right \o <<CONFLICT_END>>

(* The lines of the header are those of the name.                          *)
LOCAL Header(item) == item.path

RECURSIVE OriginalText(_)
(* The text of an item, conflict markers included.                         *)
OriginalText(item) ==
  Header(item)
    \o (IF item.carried = <<>> THEN item.body
        ELSE RenderConflict(item.carried[1].left, item.carried[1].right))
    \o Interleaved(item.gaps, [k \in DOMAIN item.items |-> OriginalText(item.items[k])])

RECURSIVE CarriedBy(_)
(* The conflict values in the text of an item, its members' included.      *)
CarriedBy(item) ==
  item.carried \o FlattenSeq([k \in DOMAIN item.items |-> CarriedBy(item.items[k])])

RECURSIVE Sanitized(_)
(* What the driver parses: each conflict value is its left variant.        *)
Sanitized(item) ==
  [item EXCEPT !.carried = <<>>,
               !.items = [k \in DOMAIN @ |-> Sanitized(@[k])]]

SanitizedText(item) == OriginalText(Sanitized(item))

FileText(seg) ==
  Interleaved(seg.gaps, [k \in DOMAIN seg.items |-> OriginalText(seg.items[k])])

DriverOutput(merged, conflicts, carried, driver) ==
  [merged |-> merged, conflicts |-> conflicts, carried |-> carried,
   driver |-> driver]

LineMerge(base, left, right) ==
  LET Output(m) == DriverOutput(m.merged, m.conflicts, <<>>, "line")
  IN Output(Merge3(FileText(base), FileText(left), FileText(right)))

----------------------------------------------------------------------------
(* rust.rs: what becomes of one base item                                  *)

(* Keep and Carry differ in the conflict values that ride along; a drop    *)
(* has no text.                                                            *)
Resolution(kept, rendered, conflicts, carried) ==
  [kept |-> kept, rendered |-> rendered, conflicts |-> conflicts,
   carried |-> carried]

KeepOrCarry(item) ==
  Resolution(TRUE, OriginalText(item), <<>>, CarriedBy(item))

DropItem == Resolution(FALSE, <<>>, <<>>, <<>>)

ConflictingTexts(base, left, right) ==
  Resolution(TRUE, RenderConflict(left, right),
             <<ConflictOf(base, left, right)>>, <<>>)

LineResolution(base, l, r) ==
  LET Resolved(m) == Resolution(TRUE, m.merged, m.conflicts, <<>>)
  IN Resolved(Merge3(SanitizedText(base), SanitizedText(l), SanitizedText(r)))

(* The items a side added, in its order.                                   *)
LOCAL AddedItems(base, side) ==
  LET added == Added(side.items, MatchDefinitions(base.items, side.items))
  IN SetToSortSeq(added, <)

(* The side's item that is the base's i-th, as a set of at most one.       *)
Counterpart(base, side, i) ==
  {side.items[p[2]] : p \in {q \in MatchDefinitions(base.items, side.items) :
                               q[1] = i}}

(* Container recursion needs one frame: the same kind and the same header. *)
SameFrame(base, l, r) ==
  /\ base.kind \in Containers
  /\ Header(l) = Header(base)
  /\ Header(r) = Header(base)

RECURSIVE StructuralMerge(_, _, _, _)

(* Members are cut from the text that was parsed and carry no values.      *)
ContainerMerge(base, l, r, depth) ==
  LET Framed(out) ==
        Resolution(TRUE, Header(base) \o out.merged,
                   IF out.conflicts = <<>> THEN <<>>
                   ELSE out.conflicts \o out.carried,
                   IF out.conflicts = <<>> THEN out.carried ELSE <<>>)
  IN Framed(StructuralMerge(Sanitized(base), Sanitized(l), Sanitized(r), depth))

BothEdited(base, l, r, depth) ==
  IF CarriedBy(l) # <<>> \/ CarriedBy(r) # <<>>
  THEN ConflictingTexts(OriginalText(base), OriginalText(l), OriginalText(r))
  ELSE IF depth > 0 /\ SameFrame(base, l, r)
  THEN ContainerMerge(base, l, r, depth - 1)
  ELSE LineResolution(base, l, r)

DeletedOnce_Drops(base, side, left, right) == DropItem

(* One side deleted the item, the other has it as side.                    *)
DeletedOnce(base, side, left, right) ==
  IF OriginalText(side) = OriginalText(base)
  THEN DropItem
  ELSE ConflictingTexts(OriginalText(base), left, right)

ResolveBaseItem(base, ls, rs, depth) ==
  IF ls = {} /\ rs = {} THEN DropItem
  ELSE IF rs = {}
  THEN LET l == CHOOSE x \in ls : TRUE
       IN DeletedOnce(base, l, OriginalText(l), <<>>)
  ELSE IF ls = {}
  THEN LET r == CHOOSE x \in rs : TRUE
       IN DeletedOnce(base, r, <<>>, OriginalText(r))
  ELSE LET l == CHOOSE x \in ls : TRUE
           r == CHOOSE x \in rs : TRUE
           Changed(x) == OriginalText(x) # OriginalText(base)
       IN IF Changed(l) /\ Changed(r) THEN BothEdited(base, l, r, depth)
          ELSE KeepOrCarry(IF Changed(l) THEN l ELSE r)

(* What becomes of an item one side added: an item of the same kind and    *)
(* path the other side added is the same text, or a conflict.              *)
ResolveAddedItem(item, rivals) ==
  IF \E r \in rivals : OriginalText(r) # OriginalText(item)
  THEN LET r == CHOOSE x \in rivals : TRUE
       IN ConflictingTexts(<<>>, OriginalText(item), OriginalText(r))
  ELSE KeepOrCarry(item)

(* Base items in base order, then what only the left added, then what only *)
(* the right added; the trailing text is the base's.                       *)
StructuralMerge(base, left, right, depth) ==
  LET Entry(gap, res) == [gap |-> gap, res |-> res]
      Surviving ==
        [i \in DOMAIN base.items |->
           Entry(base.gaps[i],
                 ResolveBaseItem(base.items[i], Counterpart(base, left, i),
                                 Counterpart(base, right, i), depth))]
      Rivals(item, side, added) ==
        {x \in {side.items[added[k]] : k \in DOMAIN added} :
           SameDefinition(x, item)}
      FromLeft(ladded, radded) ==
        [k \in DOMAIN ladded |->
           Entry(left.gaps[ladded[k]],
                 ResolveAddedItem(left.items[ladded[k]],
                                  Rivals(left.items[ladded[k]], right, radded)))]
      FromRight(unrivalled) ==
        [k \in DOMAIN unrivalled |->
           Entry(right.gaps[unrivalled[k]],
                 KeepOrCarry(right.items[unrivalled[k]]))]
      Entries(ladded, radded) ==
        Surviving \o FromLeft(ladded, radded)
          \o FromRight(SelectSeq(radded, LAMBDA j :
                                   Rivals(right.items[j], left, ladded) = {}))
      All(out, Field(_)) == FlattenSeq([k \in DOMAIN out |-> Field(out[k])])
      Output(out) ==
        DriverOutput(All(out, LAMBDA o : o.gap \o o.res.rendered) \o Last(base.gaps),
                     All(out, LAMBDA o : o.res.conflicts),
                     All(out, LAMBDA o : o.res.carried),
                     "rust-structural")
  IN Output(SelectSeq(Entries(AddedItems(base, left), AddedItems(base, right)),
                      LAMBDA o : o.res.kept))

(* A side that does not parse sends the whole file to the line driver.     *)
RustMerge(base, left, right) ==
  IF base.malformed \/ left.malformed \/ right.malformed
  THEN LineMerge(base, left, right)
  ELSE StructuralMerge(base, left, right, MAX_CONTAINER_DEPTH)

IsMergeable(out) == out.conflicts = <<>>

----------------------------------------------------------------------------
(* mergiraf.rs: an external tool, of which the driver sees the exit code   *)
(* and the file it wrote; other codes than 0 and 1 are its failure.        *)

CONFLICT_BASE == "||||||| base"

RenderDiff3(c) ==
  <<CONFLICT_START>> \o c.left \o <<CONFLICT_BASE>> \o c.base
    \o <<CONFLICT_SEP>> \o c.right \o <<CONFLICT_END>>

LOCAL Closed(s) == [s EXCEPT !.open = FALSE]

(* A block opens with the left side; a mark that is out of order drops it. *)
Diff3Line(s, line) ==
  IF ~ s.open
  THEN IF line = CONFLICT_START
       THEN [s EXCEPT !.open = TRUE, !.section = "left",
                      !.left = <<>>, !.base = <<>>, !.right = <<>>]
       ELSE s
  ELSE CASE line = CONFLICT_BASE ->
              IF s.section = "left" THEN [s EXCEPT !.section = "base"] ELSE Closed(s)
         [] line = CONFLICT_SEP ->
              IF s.section # "right" THEN [s EXCEPT !.section = "right"] ELSE Closed(s)
         [] line = CONFLICT_END ->
              [Closed(s) EXCEPT !.found = Append(@, ConflictOf(s.base, s.left, s.right))]
         [] OTHER -> [s EXCEPT ![s.section] = Append(@, line)]

(* A block without an end is dropped.                                      *)
ParseDiff3Conflicts(doc) ==
  FoldLeft(Diff3Line,
           [open |-> FALSE, section |-> "left", left |-> <<>>, base |-> <<>>,
            right |-> <<>>, found |-> <<>>],
           doc).found

MergirafMerge(tool) ==
  IF tool.exit \notin {0, 1} THEN Refused
  ELSE DriverOutput(tool.out, IF tool.exit = 0 THEN <<>> ELSE ParseDiff3Conflicts(tool.out),
                    <<>>, "mergiraf")

(* tool is what mergiraf would do, or NoTool where it is not installed.    *)
NoTool == [exit |-> -1, out |-> <<>>]

(* By the extension of the path: Rust, another grammar mergiraf has, or    *)
(* neither.                                                                *)
SelectDriver(ext, tool, base, left, right) ==
  IF ext = "rs" THEN RustMerge(base, left, right)
  ELSE IF ext = "grammar" /\ tool # NoTool THEN MergirafMerge(tool)
  ELSE LineMerge(base, left, right)

----------------------------------------------------------------------------
(* main.rs: omo merge-file, where the kernel judges what a driver proposes *)
(* and a validator what the kernel admits; omo admit and omo rebase, which *)
(* ask no driver.                                                          *)

Exits(code, printed) == [exit |-> code, printed |-> printed]

CmdMergeFile(ext, tool, base, left, right, passes) ==
  LET Verdict(out, admission, validated) ==
        IF out = Refused THEN Exits(1, <<>>)
        ELSE IF ~ IsMergeable(out) THEN Exits(1, out.merged)
        ELSE IF out.carried # <<>> THEN Exits(2, out.merged)
        ELSE IF ~ admission.merged THEN Exits(1, out.merged)
        ELSE IF validated.accepted THEN Exits(0, validated.document)
        ELSE Exits(1, RenderDiff3(validated.conflict))
      Validate(b, l, r, out, admission) ==
        Verdict(out, admission, DynamicValidate(b, l, r, admission, passes))
      Judge(b, l, r, out) == Validate(b, l, r, out, Certify(b, l, r, out.merged))
  IN Judge(FileText(base), FileText(left), FileText(right),
           SelectDriver(ext, tool, base, left, right))

CmdAdmit(base, left, right) ==
  LET Judged(admission) ==
        IF admission.merged THEN Exits(0, admission.result)
        ELSE Exits(1, Merge3(base, left, right).merged)
  IN Judged(Admit(base, left, right))

CmdRebase(base, mine, onto) ==
  LET Judged(rebased) ==
        Exits(IF IsClean(rebased) THEN 0 ELSE 1, rebased.merged)
  IN Judged(Rebase(base, mine, onto))
=============================================================================
