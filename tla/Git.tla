-------------------------------- MODULE Git --------------------------------
(***************************************************************************)
(* Git interoperation (crates/omoplata-git): the refs and the objects of a *)
(* git repository, the gate they pass, their import by a walk from the     *)
(* refs, the export of an import and the clone over upload-pack.           *)
(*                                                                         *)
(* Objects is a function from the oids there are to their objects:         *)
(*   [type |-> "blob"]                [type |-> "tag", object]             *)
(*   [type |-> "tree", entries]       [type |-> "commit", tree, parents]   *)
(* with an entry [mode, name, oid].  Oids is a sequence of its domain in the     *)
(* order of their hex; an oid also stands for the omoplata object imported *)
(* from it.  A git directory is                                            *)
(*   loose, packed   the oids under objects/ and in its packs              *)
(*   corrupt         those whose content does not give their oid           *)
(*   packfiles       how many packs there are                              *)
(*   packedRefs, looseRefs   functions from names to refs, HEAD is loose   *)
(* where a ref is [oid] or [symref]; a path is a worktree, with a git      *)
(* directory inside, or a git directory itself.                            *)
(***************************************************************************)
EXTENDS Integers, SequencesExt, FiniteSetsExt, TLC

CONSTANTS Objects, Oids, Refused

NoObjects == [loose |-> {}, packed |-> {}, corrupt |-> {}, packfiles |-> 0,
              packedRefs |-> <<>>, looseRefs |-> <<>>]

(* A directory with objects/, and refs/ or a HEAD, is a git directory.     *)
ResolveGitDir(path) == IF path.kind = "neither" THEN Refused ELSE path.dir

(* Every loose object, or an error at the first that lies.                 *)
WalkLoose(dir) == IF dir.loose \cap dir.corrupt = {} THEN dir.loose ELSE Refused

LOCAL WalkPacked(dir) == IF dir.packed \cap dir.corrupt = {} THEN dir.packed ELSE Refused

AllOids(dir) == dir.loose \cup dir.packed

AllObjects(dir) ==
  IF WalkLoose(dir) = Refused \/ WalkPacked(dir) = Refused THEN Refused ELSE AllOids(dir)

(* The round-trip gate: all objects, and at least one object or pack.      *)
VerifyRepo(path) ==
  LET dir == ResolveGitDir(path)
  IN IF dir = Refused THEN Refused
     ELSE IF AllObjects(dir) = {} /\ dir.packfiles = 0 THEN Refused
     ELSE AllObjects(dir)

----------------------------------------------------------------------------
(* refs.rs                                                                 *)

MaxHops == 8

(* The oid a ref comes to as a set of at most one, or an error for a chain *)
(* of symbolic refs that is too long.                                      *)
ResolveRef(raw, name) ==
  LET at[hops \in 0 .. MaxHops + 1] ==
        IF hops = 0 THEN name
        ELSE LET n == at[hops - 1]
             IN IF n \in DOMAIN raw /\ "symref" \in DOMAIN raw[n] THEN raw[n].symref ELSE n
      last == at[MaxHops]
  IN IF last \notin DOMAIN raw THEN {}
     ELSE IF "oid" \in DOMAIN raw[last] THEN {raw[last].oid} ELSE Refused

(* A loose ref hides the packed ref of its name.                           *)
RawRefs(dir) == dir.looseRefs @@ dir.packedRefs

(* The refs that come to an oid.                                           *)
ReadRefs(dir) ==
  LET raw == RawRefs(dir)
      live == {n \in DOMAIN raw : ResolveRef(raw, n) # {}}
  IN IF \E n \in DOMAIN raw : ResolveRef(raw, n) = Refused THEN Refused
     ELSE [n \in live |-> CHOOSE oid \in ResolveRef(raw, n) : TRUE]

----------------------------------------------------------------------------
(* import.rs.  The import so far is                                        *)
(*   git      the oids visited, in order                                   *)
(*   stored   the objects written to the omoplata store, in order          *)
(*   failed   whether it ended in an error, which leaves what was written  *)

NoImport == [git |-> <<>>, stored |-> <<>>, failed |-> FALSE]

ModeToKind(mode) ==
  CASE mode \in {"40000", "040000"}             -> "tree"
    [] mode \in {"100644", "100755", "120000"}  -> "blob"
    [] OTHER                                    -> Refused

(* What Tree::insert takes: no path, and no line break inside.             *)
ValidName(name) == name \notin {"", ".", "..", "two\nlines"}

LOCAL Failed(import) == [import EXCEPT !.failed = TRUE]

LOCAL Write(import, oid) ==
  IF import.failed THEN import ELSE [import EXCEPT !.stored = Append(@, oid)]

(* oid_map has what is stored.                                             *)
LOCAL Mapped(import, oid) == oid \in ToSet(import.stored)

RECURSIVE ImportTreeObject(_, _, _)

LOCAL ImportChild(objects, import, e) ==
  IF import.failed THEN import
  ELSE IF ModeToKind(e.mode) = Refused \/ e.oid \notin objects THEN Failed(import)
  ELSE LET next == ImportTreeObject(e.oid, objects, import)
       IN IF ValidName(e.name) THEN next ELSE Failed(next)

(* A bug it could have: the tree is written before its children.           *)
ImportTreeObject_TreeFirst(oid, objects, import) ==
  IF Mapped(import, oid) THEN import
  ELSE IF Objects[oid].type = "tree"
  THEN FoldLeft(LAMBDA acc, e : ImportChild(objects, acc, e),
                Write(import, oid), Objects[oid].entries)
  ELSE IF Objects[oid].type = "blob" THEN Write(import, oid)
  ELSE Failed(import)

(* Children before their tree.                                             *)
ImportTreeObject(oid, objects, import) ==
  IF Mapped(import, oid) THEN import
  ELSE IF Objects[oid].type = "tree"
  THEN Write(FoldLeft(LAMBDA acc, e : ImportChild(objects, acc, e),
                      import, Objects[oid].entries), oid)
  ELSE IF Objects[oid].type = "blob" THEN Write(import, oid)
  ELSE Failed(import)

(* What a visited object puts on the stack, the last of them on top.       *)
Visits(object) ==
  CASE object.type = "commit" -> <<object.tree>> \o object.parents
    [] object.type = "tag"    -> <<object.object>>
    [] object.type = "tree"   -> [k \in DOMAIN object.entries |-> object.entries[k].oid]
    [] OTHER                  -> <<>>

RECURSIVE WalkFrom(_, _, _)
WalkFrom(stack, objects, import) ==
  IF stack = <<>> \/ import.failed THEN import
  ELSE LET oid  == Last(stack)
           rest == Front(stack)
           next == IF Objects[oid].type \in {"tree", "blob"}
                   THEN ImportTreeObject(oid, objects, import) ELSE import
       IN IF oid \in ToSet(import.git) THEN WalkFrom(rest, objects, import)
          ELSE IF oid \notin objects THEN Failed(import)
          ELSE WalkFrom(rest \o Visits(Objects[oid]), objects,
                        IF next.failed THEN next ELSE [next EXCEPT !.git = Append(@, oid)])

(* The walk starts with the last ref in the order of their names.          *)
ImportObjects(objects, refs, names) ==
  LET roots == SelectSeq(names, LAMBDA n : n \in DOMAIN refs)
  IN WalkFrom([k \in DOMAIN roots |-> refs[roots[k]]], objects, NoImport)
       @@ [refs |-> refs]

(* The gate, then the walk; importing nothing is an error.                 *)
ImportRepo(path, names) ==
  LET dir  == ResolveGitDir(path)
      refs == ReadRefs(dir)
  IN IF VerifyRepo(path) = Refused THEN Failed(NoImport)
     ELSE IF refs = Refused \/ refs = <<>> THEN Failed(NoImport)
     ELSE ImportObjects(AllObjects(dir), refs, names)

LOCAL Commits(import) == {c \in ToSet(import.git) : Objects[c].type = "commit"}

(* Newest first: a commit is ready once all its children are out, and the  *)
(* last to become ready comes next.                                        *)
CommitLog(import) ==
  LET ByHex(set) == Reverse(SelectSeq(Oids, LAMBDA c : c \in set))
      Parents(c) == ToSet(Objects[c].parents) \cap Commits(import)
      Freed(out) == {c \in Commits(import) : \A d \in Commits(import) : c \in Parents(d) => d \in ToSet(out)}
      log[n \in 0 .. Cardinality(Commits(import))] ==
        IF n = 0 THEN [out |-> <<>>, ready |-> ByHex(Freed(<<>>))]
        ELSE LET last == log[n - 1]
                 out  == Append(last.out, Last(last.ready))
             IN IF last.ready = <<>> THEN last
                ELSE [out   |-> out,
                      ready |-> Front(last.ready) \o ByHex(Freed(out) \ Freed(last.out))]
  IN log[Cardinality(Commits(import))].out

----------------------------------------------------------------------------
(* export.rs                                                               *)

(* A bug it could have: what a tag points at is not under a tag's ref.     *)
ExportRepo_NoTags(import, out) ==
  LET kept == {o \in ToSet(import.git) : Objects[o].type # "tag"}
  IN [out EXCEPT !.loose = @ \cup kept,
                 !.looseRefs = [n \in {m \in DOMAIN import.refs : import.refs[m] \in kept} |->
                                  [oid |-> import.refs[n]]] @@ @]

(* Every object loose, every ref a file with its oid, HEAD among them.     *)
ExportRepo(import, out) ==
  [out EXCEPT !.loose = @ \cup ToSet(import.git),
              !.looseRefs = [n \in DOMAIN import.refs |-> [oid |-> import.refs[n]]] @@ @]

(* The path is taken for the git directory: objects/ of a worktree is not  *)
(* there, and nothing is found.                                            *)
ExportMatchesSource(path, out) ==
  AllObjects(IF path.kind = "gitdir" THEN path.dir ELSE NoObjects) = AllObjects(out)

(* cmd_git_export *)
CmdGitExport(path, names) ==
  LET import == ImportRepo(path, names)
      out    == ExportRepo(import, NoObjects)
  IN IF import.failed THEN Refused
     ELSE [out |-> out, matches |-> ExportMatchesSource(path, out)]

----------------------------------------------------------------------------
(* wire/fetch.rs: a full clone.  The server advertises its refs, with the  *)
(* objects their tags peel to, and sends what the wanted oids reach.       *)

(* A line names an oid; peeled and placeholder lines are not refs.         *)
ReadAdvertisement(lines) ==
  LET kept == {k \in DOMAIN lines : ~ lines[k].peeled /\ lines[k].name # "capabilities^{}"}
  IN [n \in {lines[k].name : k \in kept} |->
        (CHOOSE l \in ToSet(lines) : ~ l.peeled /\ l.name = n).oid]

(* The acknowledgements before the pack.                                   *)
ReadUntilNak(acks) ==
  LET plain == {k \in DOMAIN acks : acks[k] # "ACK"}
  IN plain # {} /\ acks[Min(plain)] = "NAK"

(* The server sends what each wanted oid reaches; no ref wants nothing.    *)
FetchLocal(lines, acks, reaches, names) ==
  LET refs  == ReadAdvertisement(lines)
      wants == {refs[n] : n \in DOMAIN refs}
  IN IF wants = {} THEN ImportObjects({}, refs, names)
     ELSE IF ~ ReadUntilNak(acks) THEN Failed(NoImport)
     ELSE ImportObjects(UNION {reaches[oid] : oid \in wants}, refs, names)
=============================================================================
