---------------------------- MODULE MCAlgorithms ----------------------------
(* Values of the constants of Algorithms that a cfg cannot write.          *)
EXTENDS Algorithms

CONSTANTS x, y, z

Symmetric == Permutations(Lines)

(* Two functions, the first plain or with a conflict value in it; an impl  *)
(* with one member, plain or with a conflict value in it; or a mod.        *)
Fn(name) == LeafItem(<<name>>, IF name = "g" THEN <<"g0">> ELSE <<name \o "0", name \o "1">>)

Carrying(item) == [item EXCEPT !.carried = <<[left |-> item.body, right |-> <<"other">>]>>]

Container(kind, member) ==
  [kind |-> kind, path |-> <<"T">>, body |-> <<>>, carried |-> <<>>,
   items |-> <<member>>, gaps |-> <<<<>>, <<"}">>>>]

File(items) ==
  [items |-> items, gaps |-> [k \in 1 .. Len(items) + 1 |-> <<>>], malformed |-> FALSE]

MCBases ==
  {File(<<Fn("f"), Fn("g")>>), File(<<Carrying(Fn("f")), Fn("g")>>)}
    \cup {File(<<Container("impl", m)>>) : m \in {Fn("m"), Carrying(Fn("m"))}}
    \cup {File(<<Container("mod", Fn("m"))>>)}

(* Only functions, none of them with a conflict.                           *)
MCPlainBases == {File(<<Fn("f"), Fn("g")>>)}

(* Each author's own lines, and one they both write.                       *)
MCNewLines == [left |-> {"l", "s"}, right |-> {"r", "s"}]

MCIdWords == "cafe" :> 2

MCContext ==
  [refs |-> "a" :> 1 @@ "b" :> 2, phases |-> 1 :> "public" @@ 3 :> "draft", extra |-> {},
   landed |-> "trunk" :> {1, 3} @@ "q" :> {2}]

MCBodies == {<<0>>, <<1>>, <<0, 0>>, <<0, 1>>, <<1, 0>>, <<0, 0, 1>>}

MCNameOrder == <<<<"a">>, <<"a", "b">>, <<"c">>>>

MCOids == <<"b1", "b2", "c1", "c2", "c3", "c4", "c5", "c6", "g1", "t1", "t2", "t3", "t4">>

MCNames == <<"HEAD", "main", "topic", "v1">>

Entry(mode, name, oid) == [mode |-> mode, name |-> name, oid |-> oid]

Commit(tree, parents) == [type |-> "commit", tree |-> tree, parents |-> parents]

(* A diamond of commits, a tag, a commit with a submodule and one with a   *)
(* file name of two lines; an executable, a symbolic link, a padded mode.  *)
MCObjects ==
  "b1" :> [type |-> "blob"] @@ "b2" :> [type |-> "blob"]
  @@ "t1" :> [type |-> "tree", entries |-> <<Entry("100755", "f", "b1"), Entry("120000", "g", "b1")>>]
  @@ "t2" :> [type |-> "tree", entries |-> <<Entry("100644", "f", "b2"), Entry("40000", "d", "t1")>>]
  @@ "t3" :> [type |-> "tree", entries |-> <<Entry("040000", "d", "t1"), Entry("160000", "s", "c1")>>]
  @@ "t4" :> [type |-> "tree", entries |-> <<Entry("100644", "two\nlines", "b2")>>]
  @@ "c1" :> Commit("t1", <<>>)
  @@ "c2" :> Commit("t2", <<"c1">>)
  @@ "c3" :> Commit("t1", <<"c1">>)
  @@ "c4" :> Commit("t2", <<"c3", "c2">>)
  @@ "c5" :> Commit("t3", <<"c1">>)
  @@ "c6" :> Commit("t4", <<"c1">>)
  @@ "g1" :> [type |-> "tag", object |-> "c4"]
=============================================================================
