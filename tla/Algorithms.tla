----------------------------- MODULE Algorithms -----------------------------
(***************************************************************************)
(* The pure parts of omoplata on inputs that are built step by step: those *)
(* of Edits, the three-way merge, the structural driver, revsets, packs,   *)
(* git import and encodings.  What the code computes is an operator of the *)
(* module of its part; the actions here are those who make its inputs: the *)
(* authors of two sides of a merge, the user who types a query, the git    *)
(* that writes packs and refs.  An input has a kind and stays of it.       *)
(***************************************************************************)
EXTENDS Edits, Drivers, TLC

CONSTANTS
  Kinds,                        \* the kinds of input in use
  Bases, NewLines, MaxEdits,    \* files: first versions, new lines, edits
  Words, IdWords, Context, MaxTokens, Error,       \* queries
  Bodies, Bytes, MaxEntries, MAX_DELTA_DEPTH,      \* packs
  Objects, Oids, Names, Branches, MaxDirEdits,     \* git directories
  NameOrder, HexOids, OID_LEN, MAX_PAYLOAD, MaxBytes, MaxParts  \* encodings

Query == INSTANCE Revset
Pack  == INSTANCE Packs
Repo  == INSTANCE Git
Code  == INSTANCE Encodings

----------------------------------------------------------------------------
(* Documents, merged in three ways.                                        *)

Merge == Merge3(input.base, input.left, input.right)

(* I2: merge3, which aligns both sides with the base, and the commutation  *)
(* of the two diffs are two computations of one merge: where merge3 is     *)
(* clean, the edits that are not common to both sides are independent of   *)
(* the other side's, and replaying them gives its document.                *)
CleanMergeIsCommutation ==
  Is("documents") /\ IsClean(Merge) =>
    LET own == SelectSeq(Onto, LAMBDA h : h \notin ToSet(Mine))
    IN /\ Independent(Mine, own)
       /\ Combine(input.base, Mine, RebasePatch(own, Mine)) = Merge.merged

(* A file without definitions.                                             *)
Plain(doc) == [items |-> <<>>, gaps |-> <<doc>>, malformed |-> FALSE]

(* I8: whatever an untrusted driver proposes, with whatever exit code, the *)
(* kernel accepts only the document it derives itself.                     *)
KernelTrustsNobody ==
  Is("documents") =>
    LET own == Admit(input.base, input.left, input.right)
    IN /\ CmdAdmit(input.base, input.left, input.right).exit = 0 <=> own.merged
       /\ \A proposed \in {input.base, input.left, input.right, Merge.merged},
             code \in 0 .. 2, passes \in BOOLEAN :
            LET tool == [exit |-> code, out |-> proposed]
                v == CmdMergeFile("grammar", tool, Plain(input.base), Plain(input.left),
                                  Plain(input.right), passes)
            IN v.exit = 0 => /\ passes /\ code # 2
                             /\ v.printed = proposed /\ own.merged /\ own.result = proposed
                             /\ IsClean(Merge) => v.printed = Merge.merged

(* What mergiraf prints of the merge: its conflicts in diff3 style.        *)
LOCAL Diff3View ==
  LET regions == Regions(input.base, input.left, input.right)
      anchors == Anchors(input.base, input.left, input.right)
      Text(r) == IF Conflicting(r) THEN RenderDiff3(r) ELSE EmitRegion(r)
  IN FlattenSeq([k \in DOMAIN regions |->
       Text(regions[k]) \o (IF k \in DOMAIN anchors
                            THEN <<input.base[anchors[k][1]]>> ELSE <<>>)])

(* I4: a conflict is a value that rides through a rebase.  Resolving it    *)
(* after onto's edit was replayed gives what resolving it before and       *)
(* replaying the edit gives, and the edit neither loses nor splits it.     *)
(* Those an external tool prints are read back, all of them and no other,  *)
(* and if its output is cut off, those that are whole.                     *)
ConflictsRide ==
  Is("documents") =>
    LET rebased  == Rebase(input.base, input.left, input.right)
        doc      == rebased.merged
        regions  == ConflictMarkerRegions(doc)
        chosen   == [k \in DOMAIN rebased.conflicts |-> rebased.conflicts[k].left]
        collapse == [k \in DOMAIN chosen |->
                       Hunk(regions[k][1], SubSeq(doc, regions[k][1], regions[k][2]), chosen[k])]
    IN /\ CmdRebase(input.base, input.left, input.right).exit = 0 <=> chosen = <<>>
       /\ ParseDiff3Conflicts(Diff3View) = Merge.conflicts
       /\ \A n \in 1 .. Len(Diff3View) :
            IsPrefix(ParseDiff3Conflicts(SubSeq(Diff3View, 1, n)), Merge.conflicts)
       /\ chosen # <<>> =>
            \A from \in 1 .. Len(doc) + 1, n \in 0 .. 2, i \in {<<>>} \cup {<<x>> : x \in Lines} :
              from + n <= Len(doc) + 1 =>
                LET edit   == <<Hunk(from, SubSeq(doc, from, from + n - 1), i)>>
                    after  == RebaseMerge(rebased, edit)
                    played == IF after.merged = doc THEN <<>> ELSE edit
                IN /\ Len(ConflictMarkerRegions(after.merged)) = Len(chosen)
                   /\ ResolveAll(after.merged, chosen)
                        = Apply(RebasePatch(played, collapse), ResolveAll(doc, chosen))

----------------------------------------------------------------------------
(* Rust files: two authors edit one item at a time.                        *)

Files == {[kind |-> "files", base |-> b, left |-> b, right |-> b, edits |-> 0] : b \in Bases}

LOCAL Named(seg, name) == \E k \in DOMAIN seg.items : seg.items[k].path = name

(* Rewriting the first line of an item, leaving a conflict value in it,    *)
(* renaming it, deleting it and adding one.                                *)
ItemEdits(seg, line) ==
  LET Put(i, item) == [seg EXCEPT !.items[i] = item]
  IN {Put(i, [seg.items[i] EXCEPT !.body = <<line>> \o Tail(@), !.carried = <<>>]) :
        i \in {j \in DOMAIN seg.items : seg.items[j].kind = "fn"}}
     \cup {Put(i, [seg.items[i] EXCEPT !.carried = <<[left |-> seg.items[i].body, right |-> <<line>>]>>]) :
             i \in {j \in DOMAIN seg.items : seg.items[j].kind = "fn"}}
     \cup {Put(i, [seg.items[i] EXCEPT !.path = <<"renamed">>]) :
             i \in {j \in DOMAIN seg.items : ~ Named(seg, <<"renamed">>)}}
     \cup {[seg EXCEPT !.items = RemoveAt(@, i), !.gaps = RemoveAt(@, i)] : i \in DOMAIN seg.items}
     \cup {[seg EXCEPT !.items = InsertAt(@, i, LeafItem(<<"added">>, <<line>>)),
                       !.gaps = InsertAt(@, i, <<>>)] :
             i \in {j \in 1 .. Len(seg.items) + 1 : ~ Named(seg, <<"added">>)}}

MemberEdits(seg, line) ==
  UNION {{[seg EXCEPT !.items[i] = new] : new \in ItemEdits(seg.items[i], line)} :
           i \in {j \in DOMAIN seg.items : seg.items[j].kind \in Containers}}

GapEdits(seg, line) == {[seg EXCEPT !.gaps[1] = Append(@, line)]}

Edited(side, Edits(_, _)) ==
  /\ Is("files") /\ input.edits < MaxEdits
  /\ \E line \in NewLines[side] : \E new \in Edits(input[side], line) :
       input' = [input EXCEPT ![side] = new, !.edits = @ + 1]

EditItem == \E side \in {"left", "right"} : Edited(side, ItemEdits)

EditMember == \E side \in {"left", "right"} : Edited(side, MemberEdits)

EditGap == \E side \in {"left", "right"} : Edited(side, GapEdits)

Break ==
  /\ Is("files") /\ input.edits < MaxEdits
  /\ \E side \in {"left", "right"} :
       input' = [input EXCEPT ![side].malformed = TRUE, !.edits = @ + 1]

Merged == RustMerge(input.base, input.left, input.right)

LOCAL ItemLines(seg) == UNION {ToSet(OriginalText(seg.items[k])) : k \in DOMAIN seg.items}

LOCAL GapLines(seg) == UNION {ToSet(seg.gaps[k]) : k \in DOMAIN seg.gaps}

LOCAL New(side, LinesIn(_)) == LinesIn(input[side]) \ LinesIn(input.base)

(* What an author wrote into an item is in the merge: alone, or as a side  *)
(* of a conflict value, however the other author renamed, deleted or       *)
(* rewrote the same item or its container.  And where merge-file exits     *)
(* with success, so is what was written between the items, for the driver  *)
(* may forget it but not the kernel.                                       *)
EditsSurvive ==
  Is("files") =>
    /\ \A side \in {"left", "right"} : New(side, ItemLines) \subseteq ToSet(Merged.merged)
    /\ LET out == CmdMergeFile("rs", NoTool, input.base, input.left, input.right, TRUE)
       IN out.exit = 0 =>
            \A side \in {"left", "right"} :
              New(side, ItemLines) \cup New(side, GapLines) \subseteq ToSet(out.printed)

(* I11, of the text between items: "merged comment tokens equal the union  *)
(* of both sides modulo base".                                             *)
TriviaConserved ==
  Is("files") =>
    \A side \in {"left", "right"} : New(side, GapLines) \subseteq ToSet(Merged.merged)

----------------------------------------------------------------------------
(* Queries, typed token by token.  A token that cannot continue the query  *)
(* ends it.                                                                *)

Queries == {[kind |-> "query", tokens |-> <<>>]}

LOCAL Depth(ts, k) ==
  Cardinality({i \in 1 .. k : ts[i] = "("}) - Cardinality({i \in 1 .. k : ts[i] = ")"})

LOCAL OperandNext(ts) == IF ts = <<>> THEN TRUE ELSE Last(ts) \in {"&", "|", "~", "("}

(* The last token could follow what is before it.                          *)
LOCAL Viable(ts) ==
  IF ts = <<>> THEN TRUE
  ELSE IF Last(ts) = ")" THEN Depth(ts, Len(ts)) >= 0
  ELSE IF Last(ts) \in {"&", "|"} THEN ~ OperandNext(Front(ts))
  ELSE IF Last(ts) = "(" THEN TRUE
  ELSE OperandNext(Front(ts))

Type ==
  /\ Is("query") /\ Len(input.tokens) < MaxTokens /\ Viable(input.tokens)
  /\ \E t \in Query!Marks \cup Words : input' = [input EXCEPT !.tokens = Append(@, t)]

LOCAL Both(l, r, op) ==
  IF l = Error \/ r = Error THEN Error
  ELSE CASE op = "|" -> l \cup r [] op = "&" -> l \cap r

LOCAL Everything == Query!Universe(Context)

(* A name alone, or the call of a function.                                *)
LOCAL MeaningOfWords(ts) ==
  CASE Len(ts) = 1 /\ ts[1] \in DOMAIN IdWords -> {IdWords[ts[1]]} \cap Everything
    [] Len(ts) = 1 /\ ts[1] \in DOMAIN Context.refs -> {Context.refs[ts[1]]}
    [] ts = <<"heads", "(", ")">>  -> {Context.refs[n] : n \in DOMAIN Context.refs}
    [] ts = <<"landed", "(", ")">> -> Context.landed["trunk"]
    [] Len(ts) = 4 /\ SubSeq(ts, 1, 2) = <<"landed", "(">> /\ ts[4] = ")"
         /\ ts[3] \notin Query!Marks -> IF ts[3] \in DOMAIN Context.landed THEN Context.landed[ts[3]] ELSE {}
    [] OTHER -> Error

RECURSIVE Meaning(_)
(* A query splits at its last | outside parentheses, else at its last &,   *)
(* else it is a complement, a query in parentheses or words.               *)
Meaning(ts) ==
  LET At(mark) == {k \in DOMAIN ts : ts[k] = mark /\ Depth(ts, k) = 0}
      Split(mark) == Both(Meaning(SubSeq(ts, 1, Max(At(mark)) - 1)),
                          Meaning(SubSeq(ts, Max(At(mark)) + 1, Len(ts))), mark)
  IN IF ts = <<>> THEN Error
     ELSE IF At("|") # {} THEN Split("|")
     ELSE IF At("&") # {} THEN Split("&")
     ELSE IF Head(ts) = "~"
     THEN IF Meaning(Tail(ts)) = Error THEN Error ELSE Everything \ Meaning(Tail(ts))
     ELSE IF Head(ts) = "(" /\ Last(ts) = ")" THEN Meaning(Front(Tail(ts)))
     ELSE MeaningOfWords(ts)

(* A query selects what its set expression means in a given context, and   *)
(* anything that is not one is refused.                                    *)
QueriesMeanWhatTheySay ==
  Is("query") => Query!Query(input.tokens, Context) = Meaning(input.tokens)

----------------------------------------------------------------------------
(* Packs, written entry by entry as git writes them: every delta is right, *)
(* an offset delta goes back, a ref delta names any object.  objects is    *)
(* what the entries are.  Then an index is made, which may lie.            *)

PacksWritten == {[kind |-> "pack", entries |-> <<>>, objects |-> <<>>, idx |-> <<>>, sealed |-> FALSE]}

Blob(body) == [type |-> "blob", body |-> body]

(* The deltas that add a byte to the base or drop its first.               *)
Deltas(body) ==
  {[source |-> Len(body), target |-> Len(body) + 1,
    ops |-> <<Pack!Copy(0, Len(body)), Pack!Insert(<<x>>)>>] : x \in Bytes}
  \cup (IF Len(body) > 1
        THEN {[source |-> Len(body), target |-> Len(body) - 1, ops |-> <<Pack!Copy(1, Len(body) - 1)>>]}
        ELSE {})

LOCAL AddEntry(entry, object) ==
  /\ object \notin ToSet(input.objects)
  /\ input' = [input EXCEPT !.entries = Append(@, entry), !.objects = Append(@, object)]

Writing == Is("pack") /\ ~ input.sealed /\ Len(input.entries) < MaxEntries

AddWhole ==
  /\ Writing
  /\ \E body \in Bodies : AddEntry([kind |-> "blob", size |-> Len(body), body |-> body], Blob(body))

LOCAL AddDelta(kind, base, back) ==
  \E d \in Deltas(base.body) :
    AddEntry([kind |-> kind, back |-> back, base |-> base, size |-> Len(d.ops), delta |-> d],
             Blob(Pack!ApplyDelta(base.body, d)))

AddOfsDelta ==
  /\ Writing
  /\ \E back \in 1 .. Len(input.entries) :
       AddDelta("ofs", input.objects[Len(input.entries) + 1 - back], back)

AddRefDelta ==
  /\ Writing
  /\ \E body \in Bodies : AddDelta("ref", Blob(body), 0)

(* The index lists the entries in any order; it lies when it gives two     *)
(* oids each other's offset.                                               *)
Index(order, swap) ==
  LET n == Len(order)
      At(k) == IF k = swap[1] THEN order[swap[2]] ELSE IF k = swap[2] THEN order[swap[1]] ELSE order[k]
  IN [oids    |-> [k \in 1 .. n |-> input.objects[order[k]]],
      offsets |-> [k \in 1 .. n |-> [large |-> k = n, value |-> IF k = n THEN 1 ELSE At(k)]],
      larges  |-> <<At(n)>>]

Seal ==
  /\ Is("pack") /\ ~ input.sealed /\ input.entries # <<>>
  /\ \E order \in SetToSeqs(DOMAIN input.entries) :
     \E swap \in {<<1, 1>>} \cup {<<1, j>> : j \in DOMAIN input.entries} :
       input' = [input EXCEPT !.idx = Index(order, swap), !.sealed = TRUE]

LOCAL ThePack == [magic |-> TRUE, count |-> Len(input.entries), entries |-> input.entries]

LOCAL BaseOf(k) ==
  CASE input.entries[k].kind = "ofs" -> {k - input.entries[k].back}
    [] input.entries[k].kind = "ref" ->
         {j \in DOMAIN input.objects : input.objects[j] = input.entries[k].base}
    [] OTHER -> {}

(* The entries that are at most n deltas away from a whole object.         *)
LOCAL Within(n) ==
  LET solid[m \in 0 .. n] ==
        IF m = 0 THEN {k \in DOMAIN input.entries : input.entries[k].kind = "blob"}
        ELSE LET near == solid[m - 1]
             IN near \cup {k \in DOMAIN input.entries : BaseOf(k) \cap near # {}}
  IN solid[n]

(* An offset delta on a ref delta that must wait for its base.             *)
LOCAL WaitsInVain ==
  LET waits[k \in DOMAIN input.entries] ==
        /\ input.entries[k].kind = "ref"
        /\ \A j \in BaseOf(k) : j >= k \/ waits[j]
  IN \E k \in DOMAIN input.entries :
       input.entries[k].kind = "ofs" /\ \A j \in BaseOf(k) : waits[j]

(* Both readers of packs tell the truth about a pack, whatever the order   *)
(* of its entries and of its index; a lying index is refused; and a pack   *)
(* that is complete and not too deep is read, off the wire unless an       *)
(* offset delta lies on a ref delta that has to wait.                      *)
PackReadersTell ==
  Is("pack") /\ input.sealed =>
    LET disk   == Pack!ReadPack(ThePack, input.idx)
        wire   == Pack!ParsePackBytes(ThePack)
        index  == Pack!ParseIdx(input.idx)
        Honest == \A k \in DOMAIN index : input.objects[index[k].offset] = index[k].oid
        Whole  == Within(MAX_DELTA_DEPTH) = DOMAIN input.entries
    IN /\ wire # Refused => wire = input.objects
       /\ disk # Refused => Honest /\ ToSet(disk) = ToSet(input.objects)
       /\ Whole /\ Honest => disk # Refused
       /\ Whole /\ ~ WaitsInVain => wire # Refused

----------------------------------------------------------------------------
(* Git directories: refs are moved and packed, objects packed, lost and    *)
(* corrupted.                                                              *)

(* What git init leaves.                                                   *)
EmptyDir == [Repo!NoObjects EXCEPT !.looseRefs = "HEAD" :> [symref |-> "main"]]

FreshDir == [EmptyDir EXCEPT !.loose = DOMAIN Objects]

GitDirs ==
  {[kind |-> "git", dir |-> dir, worktree |-> wt, edits |-> 0] :
     dir \in {EmptyDir, FreshDir}, wt \in BOOLEAN}

LOCAL Becomes(dir) ==
  /\ input.edits < MaxDirEdits
  /\ input' = [input EXCEPT !.dir = dir, !.edits = @ + 1]

MoveRef ==
  /\ Is("git")
  /\ \E name \in ToSet(Names) \ {"HEAD"}, oid \in Branches :
       Becomes([input.dir EXCEPT !.looseRefs = (name :> [oid |-> oid]) @@ @])

PackRefs ==
  /\ Is("git") /\ input.dir.packedRefs = <<>>
  /\ LET packed == DOMAIN input.dir.looseRefs \ {"HEAD"}
     IN Becomes([input.dir EXCEPT !.packedRefs = [n \in packed |-> input.dir.looseRefs[n]],
                                  !.looseRefs  = "HEAD" :> @["HEAD"]])

Gc ==
  /\ Is("git") /\ Repo!AllOids(input.dir) # {}
  /\ Becomes([input.dir EXCEPT !.packed = Repo!AllOids(input.dir), !.loose = {},
                               !.packfiles = 1])

LOCAL Undamaged == input.dir.corrupt = {} /\ Repo!AllOids(input.dir) = DOMAIN Objects

LoseObject ==
  /\ Is("git") /\ Undamaged
  /\ \E oid \in DOMAIN Objects :
       Becomes([input.dir EXCEPT !.loose = @ \ {oid}, !.packed = @ \ {oid}])

CorruptObject ==
  /\ Is("git") /\ Undamaged
  /\ \E oid \in DOMAIN Objects : Becomes([input.dir EXCEPT !.corrupt = {oid}])

LOCAL Path == [kind |-> IF input.worktree THEN "worktree" ELSE "gitdir", dir |-> input.dir]

LOCAL Present == (input.dir.loose \cup input.dir.packed) \ input.dir.corrupt

LOCAL References(oid) == ToSet(Repo!Visits(Objects[oid]))

(* What the oids reach.                                                    *)
Reach(oids) ==
  LET step[n \in 0 .. Cardinality(DOMAIN Objects)] ==
        IF n = 0 THEN oids
        ELSE LET near == step[n - 1] IN near \cup UNION {References(o) : o \in near}
  IN step[Cardinality(DOMAIN Objects)]

(* The oid of each ref: loose before packed; HEAD is where main is.        *)
LOCAL Meant ==
  LET At(n) == IF n \in DOMAIN input.dir.looseRefs THEN {input.dir.looseRefs[n].oid}
               ELSE IF n \in DOMAIN input.dir.packedRefs THEN {input.dir.packedRefs[n].oid}
               ELSE {}
      Resolved(n) == At(IF n = "HEAD" THEN "main" ELSE n)
  IN [n \in {m \in ToSet(Names) : Resolved(m) # {}} |-> CHOOSE o \in Resolved(n) : TRUE]

LOCAL Tips == {Meant[n] : n \in DOMAIN Meant}

(* A submodule, or a name the store does not take.                         *)
LOCAL HasForeignEntry(oid) ==
  Objects[oid].type = "tree" /\ \E e \in ToSet(Objects[oid].entries) :
    e.mode = "160000" \/ e.name = "two\nlines"

(* An import takes exactly what the refs reach, or fails for a reason;     *)
(* whenever it stops, no tree is stored before all it holds; and the log   *)
(* has each commit once, before its parents.                               *)
ImportTakesTheReachable ==
  Is("git") =>
    LET import == Repo!ImportRepo(Path, Names)
        all    == Reach(Tips)
        log    == Repo!CommitLog(import)
        Sound  == /\ all # {} /\ all \subseteq Present /\ input.dir.corrupt \cap Repo!AllOids(input.dir) = {}
                  /\ ~ \E oid \in all : HasForeignEntry(oid)
    IN /\ ~ import.failed <=> Sound
       /\ Sound => /\ ToSet(import.git) = all /\ import.refs = Meant
                   /\ ToSet(import.stored) = {o \in all : Objects[o].type \in {"blob", "tree"}}
                   /\ ToSet(log) = {o \in all : Objects[o].type = "commit"}
                   /\ \A j, k \in DOMAIN log : j <= k => log[j] \notin ToSet(Objects[log[k]].parents)
                   /\ IsInjective(log)
       /\ \A k \in DOMAIN import.stored :
            References(import.stored[k]) \subseteq ToSet(SubSeq(import.stored, 1, k - 1))

(* What git upload-pack advertises: the refs and what tags peel to.        *)
LOCAL Advertised ==
  LET Line(n, oid, peeled) == [name |-> n, oid |-> oid, peeled |-> peeled]
      Of(n) == IF n \notin DOMAIN Meant THEN <<>>
               ELSE IF Objects[Meant[n]].type # "tag" THEN <<Line(n, Meant[n], FALSE)>>
               ELSE <<Line(n, Meant[n], FALSE), Line(n, Objects[Meant[n]].object, TRUE)>>
  IN FlattenSeq([k \in DOMAIN Names |-> Of(Names[k])])

(* I9: exporting what was imported gives a repository that imports to the  *)
(* same objects and refs, and so does a clone over the wire.  The verdict  *)
(* on an export is PASS exactly if the source is given as a git directory  *)
(* and keeps nothing the refs do not reach.                                *)
ExportsRoundTrip ==
  Is("git") =>
    LET import == Repo!ImportRepo(Path, Names)
        export == Repo!CmdGitExport(Path, Names)
        again  == Repo!ImportRepo([kind |-> "gitdir", dir |-> export.out], Names)
        reached == [oid \in Tips |-> Reach({oid})]
        clone  == Repo!FetchLocal(Advertised, <<"NAK">>, reached, Names)
    IN ~ import.failed =>
         /\ ~ again.failed /\ ToSet(again.git) = ToSet(import.git) /\ again.refs = import.refs
         /\ ~ clone.failed /\ ToSet(clone.git) = ToSet(import.git) /\ clone.refs = import.refs
         /\ export.matches <=> ~ input.worktree /\ Reach(Tips) = Repo!AllOids(input.dir)

----------------------------------------------------------------------------
(* Encodings: a tree of the store that is filled, the bytes of a tree of   *)
(* git, a commit that git writes and a section of pkt-lines.               *)

Encoded ==
  {[kind |-> "tree", tree |-> <<>>, has |-> <<>>, inserts |-> 0],
   [kind |-> "bytes", bytes |-> <<>>],
   [kind |-> "commit", parents |-> <<>>, extra |-> <<>>, message |-> <<>>],
   [kind |-> "wire", sent |-> <<>>]}

InsertEntry ==
  /\ Is("tree") /\ input.inserts < MaxParts
  /\ \E name \in ToSet(NameOrder), id \in HexOids :
       LET e == Code!Entry("blob", id, name)
       IN input' = [input EXCEPT !.tree = Code!TreeInsert(@, e), !.inserts = @ + 1,
                                 !.has = (name :> e) @@ @]

WriteByte ==
  /\ Is("bytes") /\ Len(input.bytes) < MaxBytes
  /\ \E byte \in {Code!NUL, Code!SP, 65} : input' = [input EXCEPT !.bytes = Append(@, byte)]

(* Parents, the lines of a signature or of a merged tag, and the message:  *)
(* git indents the former and leaves no empty line among the headers.      *)
WriteCommit ==
  /\ Is("commit")
  /\ Len(input.parents) + Len(input.extra) + Len(input.message) < MaxParts
  /\ \/ \E h \in HexOids : input' = [input EXCEPT !.parents = Append(@, h)]
     \/ \E h \in HexOids : \E line \in {<<"", "">>, <<"", "parent", h>>, <<"", "object", h>>} :
          input' = [input EXCEPT !.extra = Append(@, line)]
     \/ \E h \in HexOids : \E line \in {<<>>, <<"tree", h>>, <<"", "a">>} :
          input' = [input EXCEPT !.message = Append(@, line)]

SendLine ==
  /\ Is("wire") /\ Len(input.sent) < MaxParts
  /\ \E payload \in {p \in {<<>>, <<0>>, <<4, 0>>, <<0, 4, 0>>} : Code!WritePktLine(p) # Refused} :
       input' = [input EXCEPT !.sent = Append(@, payload)]

(* The body after the first headers: the message ends with a newline.      *)
LOCAL Closing == (IF input.extra = <<>> THEN <<>> ELSE <<<<"mergetag", "x">>>> \o input.extra)
                   \o <<<<>>>> \o input.message \o <<<<>>>>

LOCAL CommitBody ==
  <<<<"tree", "h1">>>> \o [k \in DOMAIN input.parents |-> <<"parent", input.parents[k]>>]
    \o <<<<"author", "a">>, <<"committer", "b">>>> \o Closing

LOCAL TagBody ==
  <<<<"object", "h1">>, <<"type", "commit">>, <<"tag", "v1">>, <<"tagger", "a">>>> \o Closing

(* Decoders agree with encoders.  A tree of the store has one encoding,    *)
(* whatever the order of its insertions, and is read back from it and not  *)
(* from a part of it; git's bytes decode to what encodes to them, or not   *)
(* at all (I9); no line of a signature or a message passes for a header;   *)
(* and a section that is cut off is an error, never a shorter section.     *)
CodecsAgree ==
  /\ Is("tree") =>
       LET names == SelectSeq(NameOrder, LAMBDA n : n \in DOMAIN input.has)
           code  == Code!Serialize(input.tree)
       IN /\ input.tree = [k \in DOMAIN names |-> input.has[names[k]]]
          /\ Code!Deserialize(code) = input.tree
          /\ Code!Deserialize([code EXCEPT !.body = Reverse(@)]) = input.tree
          /\ code.body # <<>> => Code!Deserialize([code EXCEPT !.body = Front(@)]) = Refused
  /\ Is("bytes") =>
       LET object == Code!Decode([kind |-> "tree", size |-> Len(input.bytes), body |-> input.bytes])
       IN object # Refused => Code!Encode("tree", object).body = input.bytes
  /\ Is("commit") =>
       LET commit == Code!Decode(Code!Encode("commit", [body |-> CommitBody]))
           tag    == Code!Decode(Code!Encode("tag", [body |-> TagBody]))
       IN /\ commit.tree = "h1" /\ commit.parents = input.parents
          /\ commit.author = <<"a">> /\ commit.committer = <<"b">>
          /\ tag.object = "h1" /\ tag.tag = <<"v1">> /\ tag.type = <<"commit">>
          /\ commit.message = input.message \o <<<<>>>> /\ tag.message = commit.message
          /\ commit.body = CommitBody
  /\ Is("wire") =>
       LET stream == FlattenSeq([k \in DOMAIN input.sent |-> Code!WritePktLine(input.sent[k])])
                       \o Code!WriteFlush
       IN /\ Code!ReadSection(stream \o <<4>>) = input.sent
          /\ \A n \in 0 .. Len(stream) - 1 : Code!ReadSection(SubSeq(stream, 1, n)) = Refused

----------------------------------------------------------------------------
Inputs ==
  [documents |-> Documents0, files |-> Files, query |-> Queries, graph |-> Definitions0,
   stack |-> ChangeStacks, pack |-> PacksWritten, git |-> GitDirs, encoded |-> Encoded]

Init == \E kind \in Kinds : input \in Inputs[kind]

Next ==
  \/ EditsNext
  \/ EditItem \/ EditMember \/ EditGap \/ Break
  \/ Type
  \/ AddWhole \/ AddOfsDelta \/ AddRefDelta \/ Seal
  \/ InsertEntry \/ WriteByte \/ WriteCommit \/ SendLine
  \/ MoveRef \/ PackRefs \/ Gc \/ LoseObject \/ CorruptObject

Spec == Init /\ [][Next]_input
=============================================================================
