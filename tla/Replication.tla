---------------------------- MODULE Replication ----------------------------
(***************************************************************************)
(* Replication of objects and refs between a repository and the landing    *)
(* authority it fetches from and pushes to: copy_closure                   *)
(* (crates/omoplata-work/src/remote.rs), and cmd_fetch, pull_closure_http, *)
(* cmd_push, gather_closure and accept_push                                *)
(* (crates/omoplata-cli/src/main.rs), beside the snapshots and landings    *)
(* that move the refs.  Objects are written one by one, a tree before its  *)
(* entries when they are copied and after them when they are snapshotted;  *)
(* refs move in one locked step at the end; any command can be cut short   *)
(* between two writes, and run again.                                      *)
(*                                                                         *)
(* A repository's log is abstracted to the refs it folds to (OpLog); what  *)
(* a push does between its two locked steps is in Landing.                 *)
(***************************************************************************)
EXTENDS Naturals, Sequences, FiniteSets, SequencesExt

CONSTANTS
  Procs,      \* invocations of omo, and threads of omo serve
  Objects,    \* object ids
  Entries,    \* the entries of each object: none for a blob
  Roots,      \* the trees authors snapshot
  Changes,
  Here, There,  \* the repository and its authority
  None,       \* Option::None
  MaxMoves,   \* bound on the snapshots, landings and undone landings
  MaxFaults   \* bound on the commands that are cut short

Repos == {Here, There}

(* Each repository has refs of its changes' tips and of landed changes;    *)
(* refs/remotes/<authority>/public/<change> is Tracked.                    *)
Tip(c)     == <<"ws", c>>
Public(c)  == <<"public", c>>
Tracked(c) == <<"remotes", c>>
AllRefs    == {"ws", "public", "remotes"} \X Changes

ASSUME ReplicationAssumption ==
  /\ Entries \in [Objects -> Seq(Objects)]
  /\ Roots \subseteq Objects
  /\ IsFiniteSet(Changes)
  /\ Here # There
  /\ None \notin Objects
  /\ MaxMoves \in Nat /\ MaxFaults \in Nat

VARIABLES
  store,     \* the objects in each repository's store
  refs,      \* what each repository's log folds to
  job,       \* what each process is doing
  published, \* history: the trees the authority has ever landed
  authored,  \* history: the trees snapshotted in each repository
  moves, faults

vars == << store, refs, job, published, authored, moves, faults >>

Idle == [kind |-> "none"]

Init ==
  /\ store = [r \in Repos |-> {}]
  /\ refs = [r \in Repos |-> [n \in AllRefs |-> None]]
  /\ job = [p \in Procs |-> Idle]
  /\ published = {}
  /\ authored = [r \in Repos |-> {}]
  /\ moves = 0
  /\ faults = 0

(* The objects an object needs, itself included.                           *)
Closed(S)  == \A o \in S : ToSet(Entries[o]) \subseteq S
Closure(o) == {x \in Objects : \A S \in SUBSET Objects : o \in S /\ Closed(S) => x \in S}

history == << published, authored, moves >>

-----------------------------------------------------------------------------
(* Snapshots and landings.                                                 *)

(* snapshot, called by auto_snapshot.                                      *)
SnapshotStart(p, r, c, root) ==
  /\ job[p] = Idle
  /\ moves < MaxMoves
  /\ job' = [job EXCEPT ![p] = [kind |-> "snapshot", to |-> r, tips |-> [x \in {c} |-> root],
                                left |-> Closure(root)]]
  /\ authored' = [authored EXCEPT ![r] = @ \cup {root}]
  /\ moves' = moves + 1
  /\ UNCHANGED << store, refs, published, faults >>

(* snapshot_tree: the entries of a tree before the tree, the entries of a  *)
(* directory in any order; write_object leaves an object that is there.    *)
SnapshotObject(p, o) ==
  /\ job[p].kind = "snapshot"
  /\ o \in job[p].left
  /\ ToSet(Entries[o]) \cap job[p].left = {}
  /\ store' = [store EXCEPT ![job[p].to] = @ \cup {o}]
  /\ job' = [job EXCEPT ![p].left = @ \ {o}]
  /\ UNCHANGED << refs, history, faults >>

(* The commit: the tip of the change moves.                                *)
SnapshotCommit(p) ==
  /\ job[p].kind = "snapshot"
  /\ job[p].left = {}
  /\ refs' = [refs EXCEPT ![job[p].to] =
       [n \in AllRefs |-> IF \E c \in DOMAIN job[p].tips : n = Tip(c)
                          THEN job[p].tips[n[2]] ELSE @[n]]]
  /\ job' = [job EXCEPT ![p] = Idle]
  /\ UNCHANGED << store, history, faults >>

(* A landing on the authority, and an undo of one (module Landing).        *)
Land(c) ==
  LET tip == refs[There][Tip(c)]
  IN  /\ tip # None
      /\ moves < MaxMoves
      /\ refs' = [refs EXCEPT ![There][Public(c)] = tip]
      /\ published' = published \cup {tip}
      /\ moves' = moves + 1
      /\ UNCHANGED << store, job, authored, faults >>

Unland(c) ==
  /\ refs[There][Public(c)] # None
  /\ moves < MaxMoves
  /\ refs' = [refs EXCEPT ![There][Public(c)] = None]
  /\ moves' = moves + 1
  /\ UNCHANGED << store, job, published, authored, faults >>

-----------------------------------------------------------------------------
(* Fetch and push.                                                         *)

(* Bugs it could have: refs that were undone, or never landed, are         *)
(* advertised too.                                                         *)
Advertised_Undone(r)  == [c \in Changes |-> r[Public(c)]]
Advertised_Private(r) == [c \in {x \in Changes : r[Tip(x)] # None} |-> r[Tip(c)]]

(* The refs a fetch takes from the authority: the landed ones.             *)
Advertised(r) == [c \in {x \in Changes : r[Public(x)] # None} |-> r[Public(c)]]

(* What is copied, and the tips that need it.  A copy walks a stack.       *)
Copying(kind, from, to, tips) ==
  [kind |-> kind, from |-> from, to |-> to, tips |-> tips,
   stack |-> SetToSeq({tips[c] : c \in DOMAIN tips}), seen |-> {}]

(* cmd_fetch reads the authority's refs once.                              *)
FetchStart(p) ==
  /\ job[p] = Idle
  /\ Advertised(refs[There]) # << >>
  /\ job' = [job EXCEPT ![p] = Copying("fetch", There, Here, Advertised(refs[There]))]
  /\ UNCHANGED << store, refs, history, faults >>

(* cmd_push: the tips of the submission's changes, by the client's log.    *)
PushStart(p, c) ==
  /\ job[p] = Idle
  /\ refs[Here][Tip(c)] # None
  /\ moves < MaxMoves
  /\ job' = [job EXCEPT ![p] = Copying("push", Here, There, [x \in {c} |-> refs[Here][Tip(x)]])]
  /\ moves' = moves + 1
  /\ UNCHANGED << store, refs, published, authored, faults >>

Top(p) == Last(job[p].stack)

Popped(j, o) ==
  [j EXCEPT !.stack = Front(@) \o (IF o \in j.seen THEN << >> ELSE Entries[o]),
            !.seen = @ \cup {o}]

(* Bugs it could have: an object that is already there ends the walk, or   *)
(* the command.                                                            *)
Copy_SkipsPresent(p) ==
  LET j == job[p]
      o == Top(p)
  IN  /\ j.kind \in {"fetch", "push"}
      /\ j.stack # << >>
      /\ o \in store[j.from]
      /\ store' = [store EXCEPT ![j.to] = @ \cup {o}]
      /\ job' = [job EXCEPT ![p] = IF o \in store[j.to] THEN [j EXCEPT !.stack = Front(@)]
                                   ELSE Popped(j, o)]
      /\ UNCHANGED << refs, history, faults >>

Copy_RefusesPresent(p) ==
  LET j == job[p]
      o == Top(p)
  IN  /\ j.kind \in {"fetch", "push"}
      /\ j.stack # << >>
      /\ o \in store[j.from] \ store[j.to]
      /\ store' = [store EXCEPT ![j.to] = @ \cup {o}]
      /\ job' = [job EXCEPT ![p] = Popped(j, o)]
      /\ UNCHANGED << refs, history, faults >>

(* copy_closure, pull_closure_http, and gather_closure with accept_push:   *)
(* the top of the stack is read, its entries are pushed whether or not the *)
(* destination has it, and it is written if the destination has not.       *)
(* copy_closure keeps no `seen`, and walks what it has seen again.         *)
Copy(p) ==
  LET j == job[p]
      o == Top(p)
  IN  /\ j.kind \in {"fetch", "push"}
      /\ j.stack # << >>
      /\ o \in store[j.from]
      /\ store' = [store EXCEPT ![j.to] = @ \cup {o}]
      /\ job' = [job EXCEPT ![p] = Popped(j, o)]
      /\ UNCHANGED << refs, history, faults >>

(* The locked step of a fetch: every tracking ref at once.                 *)
FetchCommit(p) ==
  /\ job[p].kind = "fetch"
  /\ job[p].stack = << >>
  /\ refs' = [refs EXCEPT ![Here] =
       [n \in AllRefs |-> IF \E c \in DOMAIN job[p].tips : n = Tracked(c)
                          THEN job[p].tips[n[2]] ELSE @[n]]]
  /\ job' = [job EXCEPT ![p] = Idle]
  /\ UNCHANGED << store, history, faults >>

(* land_pushed: the change's tip is recorded first, ...                    *)
PushRecord(p) ==
  /\ job[p].kind = "push"
  /\ job[p].stack = << >>
  /\ refs' = [refs EXCEPT ![There] =
       [n \in AllRefs |-> IF \E c \in DOMAIN job[p].tips : n = Tip(c)
                          THEN job[p].tips[n[2]] ELSE @[n]]]
  /\ job' = [job EXCEPT ![p].kind = "land"]
  /\ UNCHANGED << store, history, faults >>

(* ... and lands after the gates, which may refuse it (CutShort).          *)
PushLand(p) ==
  /\ job[p].kind = "land"
  /\ refs' = [refs EXCEPT ![There] =
       [n \in AllRefs |-> IF \E c \in DOMAIN job[p].tips : n = Public(c)
                          THEN job[p].tips[n[2]] ELSE @[n]]]
  /\ published' = published \cup {job[p].tips[c] : c \in DOMAIN job[p].tips}
  /\ job' = [job EXCEPT ![p] = Idle]
  /\ UNCHANGED << store, authored, moves, faults >>

(* A kill, a full disk, a broken connection: what is written stays.        *)
CutShort(p) ==
  /\ job[p] # Idle
  /\ faults < MaxFaults
  /\ faults' = faults + 1
  /\ job' = [job EXCEPT ![p] = Idle]
  /\ UNCHANGED << store, refs, history >>

Work(p) ==
  \/ \E o \in Objects : SnapshotObject(p, o)
  \/ SnapshotCommit(p)
  \/ Copy(p) \/ FetchCommit(p) \/ PushRecord(p) \/ PushLand(p)

Next ==
  \/ \E c \in Changes : Land(c) \/ Unland(c)
  \/ \E p \in Procs :
       \/ \E r \in Repos, c \in Changes, root \in Roots : SnapshotStart(p, r, c, root)
       \/ \E c \in Changes : PushStart(p, c)
       \/ FetchStart(p) \/ Work(p) \/ CutShort(p)

(* A command that runs goes on, and a fetch that was cut short is run      *)
(* again.                                                                  *)
Fairness ==
  /\ \A p \in Procs : WF_vars(Work(p))
  /\ WF_vars(\E p \in Procs : FetchStart(p))

Spec == Init /\ [][Next]_vars /\ Fairness

-----------------------------------------------------------------------------
SnapshotJob == [kind : {"snapshot"}, to : Repos,
                tips : UNION {[S -> Objects] : S \in SUBSET Changes}, left : SUBSET Objects]
CopyJob(kinds, from, to) ==
  [kind : kinds, from : {from}, to : {to},
   tips : UNION {[S -> Objects] : S \in SUBSET Changes},
   stack : Seq(Objects), seen : SUBSET Objects]

(* Types: in particular a fetch and a push only ever hold object ids.      *)
TypeOK ==
  /\ store \in [Repos -> SUBSET Objects]
  /\ refs \in [Repos -> [AllRefs -> Objects \cup {None}]]
  /\ job \in [Procs -> {Idle} \cup SnapshotJob \cup CopyJob({"fetch"}, There, Here)
                        \cup CopyJob({"push", "land"}, Here, There)]
  /\ published \subseteq Objects
  /\ authored \in [Repos -> SUBSET Objects]
  /\ moves \in 0 .. MaxMoves
  /\ faults \in 0 .. MaxFaults

(* Whatever is cut short and run again, a ref names a tree that is in its  *)
(* store with everything it needs: nothing dangles.  A partial copy leaves *)
(* trees without their entries, and no later command may trust them.       *)
Complete(r, o) == \E S \in SUBSET store[r] : o \in S /\ Closed(S)

RefsComplete ==
  \A r \in Repos, n \in AllRefs : refs[r][n] # None => Complete(r, refs[r][n])

(* A fetch brings only what some landed tree needs: "a workspace's         *)
(* in-progress tip is not shareable until it lands" (cmd_fetch).           *)
OnlyPublicTravels ==
  store[Here] \subseteq UNION {Closure(o) : o \in published \cup authored[Here]}

(* Once the authority stands still, the tracking refs come to name what it *)
(* has landed, though fetches were cut short, overlapped or read the refs  *)
(* before they moved.                                                      *)
CatchesUp ==
  \A c \in Changes, o \in Objects :
    <>[](refs[There][Public(c)] = o) => <>[](refs[Here][Tracked(c)] = o)
=============================================================================
