-------------------------- MODULE LockedLogProofs --------------------------
(***************************************************************************)
(* Proofs about LockedLog, for any set of processes and any number of      *)
(* calls and crashes.                                                      *)
(***************************************************************************)
EXTENDS LockedLog, TLAPS, SequenceTheorems

(* The processes are what the constants say, and the best-effort fsync of  *)
(* the directory is the only step whose failure nobody is told of.         *)
USE LockedLogAssumption

-----------------------------------------------------------------------------
(* The inductive invariant: who holds the lock, what the holder has in     *)
(* memory, what the disk may bring back, and which calls have an entry.    *)

Holding == \A p \in Procs : pc[p] \in Critical <=> holder = p

(* Written and not yet visible: the log on disk and one entry more.        *)
Pending == {"mutated", "staged", "synced"}

(* Visible and not yet reported.                                           *)
Swapped == {"renamed", "saved"}

Buffers ==
  \A p \in Procs :
    /\ pc[p] = "loaded" => buf[p] = visible.ops
    /\ pc[p] \in Pending => buf[p] = WithMutation(p, visible.ops)
    /\ pc[p] \in Swapped => /\ buf[p] = visible.ops
                            /\ visible.ops # << >>
                            /\ visible.ops[Len(visible.ops)].new = Value(p)

Files ==
  /\ visible \in onDisk
  /\ \A f \in onDisk : f.synced /\ ~f.torn

IInv == TypeOK /\ Holding /\ Buffers /\ Files

-----------------------------------------------------------------------------
(* Appending a mutation to a log gives a log.                              *)
LEMMA MutationType ==
  ASSUME TypeOK, NEW p \in Procs, NEW s \in Seq(EntryType)
  PROVE  /\ WithMutation(p, s) \in Seq(EntryType)
         /\ WithMutation(p, s) # << >>
         /\ Len(WithMutation(p, s)) = Len(s) + 1
         /\ WithMutation(p, s)[Len(s) + 1].new = Value(p)
<1>1. Value(p) \in Procs \X Nat
  BY DEF TypeOK, Value
<1>2. Current(s) \in (Procs \X Nat) \cup {NoValue}
  <2>1. CASE s = << >>
    BY <2>1 DEF Current
  <2>2. CASE s # << >>
    <3>1. Len(s) \in 1 .. Len(s)
      BY <2>2
    <3>2. s[Len(s)] \in EntryType
      BY <3>1
    <3> QED BY <3>2, <2>2 DEF Current, EntryType
  <2> QED BY <2>1, <2>2
<1>3. Len(s) \in Nat
  OBVIOUS
<1>4. [seq |-> Len(s), old |-> Current(s), new |-> Value(p)] \in EntryType
  BY <1>1, <1>2, <1>3 DEF EntryType
<1> QED BY <1>4 DEF WithMutation

(* The initial state satisfies the invariant.                              *)
LEMMA InitIInv == Init => IInv
<1> SUFFICES ASSUME Init PROVE IInv
  OBVIOUS
<1>1. << >> \in Seq(EntryType)
  OBVIOUS
<1>2. TypeOK
  BY <1>1 DEF Init, TypeOK, FileType, File, Steps
<1>3. Holding /\ Buffers /\ Files
  BY DEF Init, Holding, Buffers, Files, File, Critical, Steps, Pending, Swapped
<1> QED BY <1>2, <1>3 DEF IInv

(* Every step preserves it.                                                *)
LEMMA NextIInv == IInv /\ [Next]_vars => IInv'
<1> SUFFICES ASSUME IInv, [Next]_vars PROVE IInv'
  OBVIOUS
<1> USE DEF IInv
<1>1. ASSUME NEW p \in Procs, Begin(p) PROVE IInv'
  <2>1. TypeOK'
    BY <1>1 DEF Begin, Goto, files, history, TypeOK, Steps
  <2>2. Holding'
    BY <1>1 DEF Begin, Goto, files, history, TypeOK, Holding, Critical
  <2>3. Buffers'
    BY <1>1 DEF Begin, Goto, files, history, TypeOK, Buffers, Pending, Swapped,
                WithMutation, Value
  <2>4. Files'
    BY <1>1 DEF Begin, files, Files
  <2> QED BY <2>1, <2>2, <2>3, <2>4
<1>2. ASSUME NEW p \in Procs, TryAcquire(p) PROVE IInv'
  <2>1. TypeOK'
    <3>1. calls' \in [Procs -> 0 .. MaxCalls] /\ <<p, calls'[p]>> \in Procs \X Nat
      BY <1>2 DEF TryAcquire, TypeOK
    <3>2. failed' \subseteq Procs \X Nat
      BY <1>2, <3>1 DEF TryAcquire, TypeOK
    <3> QED BY <1>2, <3>1, <3>2 DEF TryAcquire, Goto, files, TypeOK, Steps
  <2>2. Holding'
    BY <1>2 DEF TryAcquire, Goto, TypeOK, Holding, Critical, Steps
  <2>3. Buffers'
    BY <1>2 DEF TryAcquire, Goto, files, TypeOK, Buffers, Pending, Swapped,
                WithMutation, Value
  <2>4. Files'
    BY <1>2 DEF TryAcquire, files, Files
  <2> QED BY <2>1, <2>2, <2>3, <2>4
<1>3. ASSUME NEW p \in Procs, Acquire(p) PROVE IInv'
  <2>1. TypeOK'
    BY <1>3 DEF Acquire, Goto, files, history, TypeOK, Steps
  <2>2. Holding'
    BY <1>3 DEF Acquire, Goto, TypeOK, Holding, Critical, Steps
  <2>3. Buffers'
    BY <1>3 DEF Acquire, Goto, files, TypeOK, Buffers, Pending, Swapped,
                WithMutation, Value
  <2>4. Files'
    BY <1>3 DEF Acquire, files, Files
  <2> QED BY <2>1, <2>2, <2>3, <2>4
<1>4. ASSUME NEW p \in Procs, Load(p) PROVE IInv'
  <2>1. TypeOK'
    BY <1>4 DEF Load, Goto, files, history, TypeOK, Steps, FileType
  <2>2. Holding'
    BY <1>4 DEF Load, Goto, TypeOK, Holding, Critical, Steps
  <2>3. Buffers'
    BY <1>4 DEF Load, Goto, files, TypeOK, Buffers, Pending, Swapped,
                WithMutation, Value
  <2>4. Files'
    BY <1>4 DEF Load, files, Files
  <2> QED BY <2>1, <2>2, <2>3, <2>4
<1>5. ASSUME NEW p \in Procs, Mutate(p) PROVE IInv'
  <2>0. WithMutation(p, buf[p]) \in Seq(EntryType)
    BY MutationType DEF TypeOK
  <2>1. TypeOK'
    BY <1>5, <2>0 DEF Mutate, Goto, files, history, TypeOK, Steps
  <2>2. Holding'
    BY <1>5 DEF Mutate, Goto, TypeOK, Holding, Critical, Steps
  <2>3. Buffers'
    <3>1. \A q \in Procs : Value(q)' = Value(q)
      BY <1>5 DEF Mutate, Value
    <3>2. buf'[p] = WithMutation(p, visible.ops)
      BY <1>5 DEF Mutate, TypeOK, Buffers
    <3> QED BY <1>5, <3>1, <3>2 DEF Mutate, Goto, files, TypeOK, Buffers, Pending,
                Swapped, WithMutation
  <2>4. Files'
    BY <1>5 DEF Mutate, files, Files
  <2> QED BY <2>1, <2>2, <2>3, <2>4
<1>6. ASSUME NEW p \in Procs, pc[p] # "idle", ReturnErr(p) PROVE IInv'
  <2>1. TypeOK'
    BY <1>6 DEF ReturnErr, Goto, Release, files, TypeOK, Steps, Value
  <2>2. Holding'
    BY <1>6 DEF ReturnErr, Goto, Release, TypeOK, Holding, Critical, Steps
  <2>3. Buffers'
    BY <1>6 DEF ReturnErr, Goto, files, TypeOK, Buffers, Pending, Swapped,
                WithMutation, Value
  <2>4. Files'
    BY <1>6 DEF ReturnErr, files, Files
  <2> QED BY <2>1, <2>2, <2>3, <2>4
<1>7. ASSUME NEW p \in Procs, Stage(p) PROVE IInv'
  <2>1. TypeOK'
    BY <1>7 DEF Stage, Goto, files, history, TypeOK, Steps
  <2>2. Holding'
    BY <1>7 DEF Stage, Goto, TypeOK, Holding, Critical, Steps
  <2>3. Buffers'
    BY <1>7 DEF Stage, Goto, files, TypeOK, Buffers, Pending, Swapped,
                WithMutation, Value
  <2>4. Files'
    BY <1>7 DEF Stage, files, Files
  <2> QED BY <2>1, <2>2, <2>3, <2>4
<1>8. ASSUME NEW p \in Procs, Fsync(p) PROVE IInv'
  <2>1. TypeOK'
    BY <1>8 DEF Fsync, Goto, files, history, TypeOK, Steps
  <2>2. Holding'
    BY <1>8 DEF Fsync, Goto, TypeOK, Holding, Critical, Steps
  <2>3. Buffers'
    BY <1>8 DEF Fsync, Goto, files, TypeOK, Buffers, Pending, Swapped,
                WithMutation, Value
  <2>4. Files'
    BY <1>8 DEF Fsync, files, Files
  <2> QED BY <2>1, <2>2, <2>3, <2>4
<1>9. ASSUME NEW p \in Procs, Rename(p) PROVE IInv'
  <2>1. TypeOK'
    <3>1. visible' \in FileType
      BY <1>9 DEF Rename, TypeOK, File, FileType
    <3> QED BY <1>9, <3>1 DEF Rename, Goto, history, TypeOK, Steps
  <2>2. Holding'
    BY <1>9 DEF Rename, Goto, TypeOK, Holding, Critical, Steps
  <2>3. Buffers'
    <3>1. visible.ops \in Seq(EntryType)
      BY DEF TypeOK, FileType
    <3>2. buf[p] = WithMutation(p, visible.ops)
      BY <1>9 DEF Rename, Buffers, Pending
    <3>3. buf[p] # << >> /\ buf[p][Len(buf[p])].new = Value(p)
      BY <3>1, <3>2, MutationType
    <3>4. visible'.ops = buf[p] /\ buf' = buf /\ Value(p)' = Value(p)
      BY <1>9 DEF Rename, File, Value
    <3>5. \A q \in Procs \ {p} : pc'[q] = pc[q] /\ pc[q] \notin Critical
      BY <1>9 DEF Rename, Goto, TypeOK, Holding, Critical, Steps
    <3>6. pc'[p] = "renamed"
      BY <1>9 DEF Rename, Goto, TypeOK
    <3> QED BY <3>3, <3>4, <3>5, <3>6 DEF Buffers, Pending, Swapped, Critical, Steps
  <2>4. Files'
    BY <1>9 DEF Rename, File, Files
  <2> QED BY <2>1, <2>2, <2>3, <2>4
<1>10. ASSUME NEW p \in Procs, SyncDir(p) PROVE IInv'
  <2>1. TypeOK'
    BY <1>10 DEF SyncDir, Goto, history, TypeOK, Steps
  <2>2. Holding'
    BY <1>10 DEF SyncDir, Goto, TypeOK, Holding, Critical, Steps
  <2>3. Buffers'
    BY <1>10 DEF SyncDir, Goto, TypeOK, Buffers, Pending, Swapped, WithMutation, Value
  <2>4. Files'
    BY <1>10 DEF SyncDir, Files
  <2> QED BY <2>1, <2>2, <2>3, <2>4
<1>11. ASSUME NEW p \in Procs, Return(p) PROVE IInv'
  <2>1. TypeOK'
    <3>1. buf[p] # << >> /\ buf[p] \in Seq(EntryType)
      BY <1>11 DEF Return, TypeOK, Buffers, Swapped
    <3>2. buf[p][Len(buf[p])] \in EntryType
      BY <3>1
    <3> QED BY <1>11, <3>2 DEF Return, Goto, Release, files, TypeOK, Steps
  <2>2. Holding'
    BY <1>11 DEF Return, Goto, Release, TypeOK, Holding, Critical, Steps
  <2>3. Buffers'
    BY <1>11 DEF Return, Goto, files, TypeOK, Buffers, Pending, Swapped,
                 WithMutation, Value
  <2>4. Files'
    BY <1>11 DEF Return, files, Files
  <2> QED BY <2>1, <2>2, <2>3, <2>4
<1>12. ASSUME NEW p \in Procs, Kill(p) PROVE IInv'
  <2>1. TypeOK'
    BY <1>12 DEF Kill, Goto, Release, files, history, TypeOK, Steps
  <2>2. Holding'
    BY <1>12 DEF Kill, Goto, Release, TypeOK, Holding, Critical, Steps
  <2>3. Buffers'
    BY <1>12 DEF Kill, Goto, files, TypeOK, Buffers, Pending, Swapped,
                 WithMutation, Value
  <2>4. Files'
    BY <1>12 DEF Kill, files, Files
  <2> QED BY <2>1, <2>2, <2>3, <2>4
<1>13. ASSUME PowerLoss PROVE IInv'
  <2>0. visible' \in onDisk
    <3>1. PICK f \in onDisk : visible' = [f EXCEPT !.torn = @ \/ ~f.synced]
      BY <1>13 DEF PowerLoss
    <3>2. f \in FileType /\ f.synced /\ ~f.torn
      BY DEF Files, TypeOK
    <3> QED BY <3>1, <3>2 DEF FileType
  <2>1. TypeOK'
    BY <1>13, <2>0 DEF PowerLoss, history, TypeOK, Steps
  <2>2. Holding'
    BY <1>13 DEF PowerLoss, Holding, Critical
  <2>3. Buffers'
    BY <1>13 DEF PowerLoss, Buffers, Pending, Swapped
  <2>4. Files'
    BY <1>13, <2>0 DEF PowerLoss, Files
  <2> QED BY <2>1, <2>2, <2>3, <2>4
<1>14. CASE UNCHANGED vars
  BY <1>14 DEF vars, files, history, TypeOK, Holding, Buffers, Files, WithMutation, Value
<1> QED
  BY <1>1, <1>2, <1>3, <1>4, <1>5, <1>6, <1>7, <1>9, <1>10, <1>11, <1>12, <1>13, <1>14, <1>8
     DEF Next, Progress, MutateFails, WriteFails

(* The lock is held by one process at a time, and the log is whole, at     *)
(* every step of every interleaving with kills and power losses: flock is  *)
(* released with its holder, and only synced files are ever renamed.       *)
THEOREM Invariant == Spec => []IInv
<1>1. Init => IInv
  BY InitIInv
<1>2. IInv /\ [Next]_vars => IInv'
  BY NextIInv
<1> QED BY <1>1, <1>2, PTL DEF Spec

(* Every state of the protocol is well-typed.                              *)
THEOREM TypeCorrect == Spec => []TypeOK
<1>1. IInv => TypeOK
  BY DEF IInv
<1> QED BY <1>1, Invariant, PTL

(* flock: no two processes are inside load -> mutate -> save at once.      *)
THEOREM LockExcludes == Spec => []MutualExclusion
<1>1. IInv => MutualExclusion
  BY DEF IInv, Holding, MutualExclusion
<1> QED BY <1>1, Invariant, PTL

(* Temporary file, fsync, rename: no reader and no crash meets a torn log. *)
THEOREM LogIsWhole == Spec => []NeverTorn
<1>1. IInv => NeverTorn
  BY DEF IInv, Files, NeverTorn
<1> QED BY <1>1, Invariant, PTL

-----------------------------------------------------------------------------
(* Which calls have an entry, on any file that the disk may bring back: a  *)
(* call that is not yet visible has none, and a failed call never will.    *)

Unseen == {"waiting", "locked", "loaded"} \cup Pending

Accounted ==
  /\ \A f \in onDisk : \A e \in EntriesOf(f.ops) :
       e.new \notin failed /\ e.new[2] <= calls[e.new[1]]
  /\ \A x \in failed : x[2] <= calls[x[1]]
  /\ \A p \in Procs : pc[p] # "idle" => calls[p] >= 1 /\ Value(p) \notin failed
  /\ \A p \in Procs : pc[p] \in Unseen =>
       \A f \in onDisk : \A e \in EntriesOf(f.ops) : e.new # Value(p)

(* The entries of a log are entries.                                       *)
LEMMA EntriesType ==
  ASSUME NEW s \in Seq(EntryType), NEW e \in EntriesOf(s)
  PROVE  e \in EntryType
BY DEF EntriesOf

(* A mutation adds one entry and keeps the others.                         *)
LEMMA MutationEntries ==
  ASSUME TypeOK, NEW p \in Procs, NEW s \in Seq(EntryType)
  PROVE  /\ EntriesOf(s) \subseteq EntriesOf(WithMutation(p, s))
         /\ \A e \in EntriesOf(WithMutation(p, s)) : e \in EntriesOf(s) \/ e.new = Value(p)
<1> DEFINE t == WithMutation(p, s)
<1>1. Len(t) = Len(s) + 1 /\ t[Len(s) + 1].new = Value(p) /\ Len(s) \in Nat
  BY MutationType
<1>2. \A i \in 1 .. Len(s) : t[i] = s[i]
  BY DEF WithMutation
<1> HIDE DEF t
<1>3. EntriesOf(s) \subseteq EntriesOf(t)
  BY <1>1, <1>2 DEF EntriesOf
<1>4. \A e \in EntriesOf(t) : e \in EntriesOf(s) \/ e.new = Value(p)
  BY <1>1, <1>2 DEF EntriesOf
<1> QED BY <1>3, <1>4 DEF t

LEMMA NextAccounted == IInv /\ Accounted /\ [Next]_vars => Accounted'
<1> SUFFICES ASSUME IInv, Accounted, [Next]_vars PROVE Accounted'
  OBVIOUS
<1> USE DEF IInv
<1>0. /\ \A f \in onDisk : f.ops \in Seq(EntryType)
      /\ \A f \in onDisk : \A e \in EntriesOf(f.ops) :
           e.new \in Procs \X Nat /\ e.new[1] \in Procs /\ e.new[2] \in Nat
      /\ \A q \in Procs : calls[q] \in Nat
      /\ \A x \in failed : x[1] \in Procs /\ x[2] \in Nat
  <2>1. \A f \in onDisk : f.ops \in Seq(EntryType)
    BY DEF TypeOK, FileType
  <2>2. \A f \in onDisk : \A e \in EntriesOf(f.ops) : e \in EntryType
    BY <2>1, EntriesType
  <2>3. \A e \in EntryType : e.new \in Procs \X Nat /\ e.new[1] \in Procs /\ e.new[2] \in Nat
    BY DEF EntryType
  <2>4. (\A q \in Procs : calls[q] \in Nat) /\ (\A x \in failed : x[1] \in Procs /\ x[2] \in Nat)
    BY DEF TypeOK
  <2> QED BY <2>1, <2>2, <2>3, <2>4
<1>1. ASSUME NEW p \in Procs, Begin(p) \/ TryAcquire(p) PROVE Accounted'
  <2>1. /\ onDisk' = onDisk
        /\ failed' \in {failed, failed \cup {<<p, calls[p] + 1>>}}
        /\ calls' = [calls EXCEPT ![p] = @ + 1]
        /\ pc[p] = "idle"
        /\ \A q \in Procs \ {p} : pc'[q] = pc[q]
        /\ pc'[p] # "idle" => failed' = failed
    BY <1>1 DEF Begin, TryAcquire, Goto, files, history, TypeOK
  <2>2. calls'[p] = calls[p] + 1 /\ \A q \in Procs \ {p} : calls'[q] = calls[q]
    BY <2>1 DEF TypeOK
  <2>3. \A q \in Procs : Value(q)' = <<q, calls'[q]>> /\ Value(q) = <<q, calls[q]>>
    BY DEF Value
  <2>4. \A f \in onDisk : \A e \in EntriesOf(f.ops) : e.new # <<p, calls[p] + 1>>
    BY <1>0 DEF Accounted
  <2>5. \A f \in onDisk' : \A e \in EntriesOf(f.ops) :
          e.new \notin failed' /\ e.new[2] <= calls'[e.new[1]]
    BY <1>0, <2>1, <2>2, <2>4 DEF Accounted
  <2>6. \A x \in failed' : x[2] <= calls'[x[1]]
    BY <1>0, <2>1, <2>2 DEF Accounted
  <2>7. \A q \in Procs : pc'[q] # "idle" => calls'[q] >= 1 /\ Value(q)' \notin failed'
    BY <1>0, <2>1, <2>2, <2>3 DEF Accounted
  <2>8. \A q \in Procs : pc'[q] \in Unseen =>
          \A f \in onDisk' : \A e \in EntriesOf(f.ops) : e.new # Value(q)'
    <3>1. \A f \in onDisk' : \A e \in EntriesOf(f.ops) : e.new # Value(p)'
      BY <2>1, <2>2, <2>3, <2>4
    <3>2. ASSUME NEW q \in Procs \ {p}, pc'[q] \in Unseen
          PROVE  \A f \in onDisk' : \A e \in EntriesOf(f.ops) : e.new # Value(q)'
      <4>1. Value(q)' = Value(q) /\ pc[q] \in Unseen
        BY <2>1, <2>2, <2>3, <3>2
      <4> QED BY <2>1, <4>1 DEF Accounted
    <3> QED BY <3>1, <3>2
  <2> QED BY <2>5, <2>6, <2>7, <2>8 DEF Accounted
<1>2. ASSUME NEW p \in Procs,
             Acquire(p) \/ Load(p) \/ Mutate(p) \/ Stage(p) \/ Fsync(p) \/ SyncDir(p)
               \/ Return(p) \/ Kill(p)
      PROVE  Accounted'
  <2>1. onDisk' \subseteq onDisk /\ failed' = failed /\ calls' = calls
    BY <1>2 DEF Acquire, Load, Mutate, Stage, Fsync, SyncDir, Return, Kill, files,
                history, Files
  <2>2. \A q \in Procs : /\ pc'[q] # "idle" => pc[q] # "idle"
                         /\ pc'[q] \in Unseen => pc[q] \in Unseen
    BY <1>2 DEF Acquire, Load, Mutate, Stage, Fsync, SyncDir, Return, Kill, Goto,
                TypeOK, Unseen, Pending
  <2>3. \A q \in Procs : Value(q)' = Value(q)
    BY <2>1 DEF Value
  <2> QED BY <2>1, <2>2, <2>3 DEF Accounted
<1>3. ASSUME NEW p \in Procs, pc[p] \in Unseen, ReturnErr(p) PROVE Accounted'
  <2>1. /\ onDisk' = onDisk /\ calls' = calls /\ failed' = failed \cup {Value(p)}
        /\ pc'[p] = "idle" /\ \A q \in Procs \ {p} : pc'[q] = pc[q]
        /\ \A q \in Procs : Value(q)' = Value(q)
    BY <1>3 DEF ReturnErr, Goto, files, TypeOK, Value
  <2>2. Value(p)[1] = p /\ Value(p)[2] = calls[p]
        /\ \A q \in Procs \ {p} : Value(q) # Value(p)
    BY DEF Value
  <2> QED BY <1>0, <1>3, <2>1, <2>2 DEF Accounted
<1>4. ASSUME NEW p \in Procs, Rename(p) PROVE Accounted'
  <2>1. /\ onDisk' = onDisk \cup {visible'} /\ visible'.ops = buf[p]
        /\ calls' = calls /\ failed' = failed /\ pc[p] = "synced"
        /\ pc'[p] = "renamed" /\ \A q \in Procs \ {p} : pc'[q] = pc[q]
        /\ \A q \in Procs : Value(q)' = Value(q)
    BY <1>4 DEF Rename, Goto, history, TypeOK, File, Value
  <2>2. buf[p] = WithMutation(p, visible.ops) /\ visible \in onDisk
    BY <2>1 DEF Buffers, Pending, Files
  <2>3. \A e \in EntriesOf(visible'.ops) : e \in EntriesOf(visible.ops) \/ e.new = Value(p)
    BY <1>0, <2>1, <2>2, MutationEntries
  <2>4. Value(p) \notin failed /\ Value(p)[1] = p /\ Value(p)[2] = calls[p]
        /\ \A q \in Procs \ {p} : Value(q) # Value(p)
    BY <2>1 DEF Accounted, Value
  <2>5. \A f \in onDisk' : \A e \in EntriesOf(f.ops) :
          (\E g \in onDisk : e \in EntriesOf(g.ops)) \/ e.new = Value(p)
    BY <2>1, <2>2, <2>3
  <2>6. \A f \in onDisk' : \A e \in EntriesOf(f.ops) :
          e.new \notin failed' /\ e.new[2] <= calls'[e.new[1]]
    BY <1>0, <2>1, <2>4, <2>5 DEF Accounted
  <2>7. \A q \in Procs : pc'[q] \in Unseen =>
          \A f \in onDisk' : \A e \in EntriesOf(f.ops) : e.new # Value(q)'
    BY <2>1, <2>4, <2>5 DEF Accounted, Unseen, Pending
  <2>8. \A q \in Procs : pc'[q] # "idle" => calls'[q] >= 1 /\ Value(q)' \notin failed'
    BY <2>1 DEF Accounted
  <2>9. \A x \in failed' : x[2] <= calls'[x[1]]
    BY <2>1 DEF Accounted
  <2> QED BY <2>6, <2>7, <2>8, <2>9 DEF Accounted
<1>5. ASSUME PowerLoss PROVE Accounted'
  <2>1. PICK f \in onDisk : visible' = [f EXCEPT !.torn = @ \/ ~f.synced]
    BY <1>5 DEF PowerLoss
  <2>2. visible' = f
    BY <2>1 DEF Files, TypeOK, FileType
  <2>3. /\ onDisk' = {f} /\ calls' = calls /\ failed' = failed
        /\ \A q \in Procs : pc'[q] = "idle"
    BY <1>5, <2>2 DEF PowerLoss, history
  <2> QED BY <2>3 DEF Accounted, Unseen, Pending
<1>6. CASE UNCHANGED vars
  BY <1>6 DEF vars, Accounted, Value
<1> QED
  BY <1>1, <1>2, <1>3, <1>4, <1>5, <1>6
     DEF Next, Progress, MutateFails, WriteFails, Unseen, Pending

(* A call that returned an error - a busy lock, a mutation refused, a      *)
(* write that failed - has no entry in the log and none comes back.        *)
THEOREM FailuresLeaveNoTrace == Spec => []FailedLeavesNoTrace
<1>1. Init => Accounted
  BY DEF Init, Accounted, File, EntriesOf, Unseen, Pending
<1>2. IInv /\ Accounted /\ [Next]_vars => Accounted'
  BY NextAccounted
<1>3. IInv /\ Accounted => FailedLeavesNoTrace
  BY DEF IInv, Files, Accounted, FailedLeavesNoTrace
<1> QED BY <1>1, <1>2, <1>3, Invariant, PTL DEF Spec

-----------------------------------------------------------------------------
(* What the disk may bring back, when the fsync of the directory works:    *)
(* the log itself or a beginning of it, and always with every entry that   *)
(* was reported as done.                                                   *)

Durable ==
  /\ \A p \in Procs : pc[p] = "saved" => onDisk = {visible}
  /\ \A f \in onDisk : acked \subseteq EntriesOf(f.ops)
  /\ \A f \in onDisk : \E k \in 0 .. Len(visible.ops) : f.ops = SubSeq(visible.ops, 1, k)

(* The beginning of a log is the beginning of the log it is extended to.   *)
LEMMA Prefixes ==
  ASSUME TypeOK, NEW p \in Procs, NEW s \in Seq(EntryType), NEW k \in 0 .. Len(s)
  PROVE  /\ SubSeq(s, 1, k) = SubSeq(WithMutation(p, s), 1, k)
         /\ k \in 0 .. Len(WithMutation(p, s))
<1> DEFINE t == WithMutation(p, s)
<1>1. t \in Seq(EntryType) /\ Len(t) = Len(s) + 1 /\ Len(s) \in Nat
  BY MutationType
<1>2. \A i \in 1 .. Len(s) : t[i] = s[i]
  BY DEF WithMutation
<1> HIDE DEF t
<1>3. SubSeq(s, 1, k) = [i \in 1 .. k |-> s[i]] /\ SubSeq(t, 1, k) = [i \in 1 .. k |-> t[i]]
  BY <1>1
<1>4. \A i \in 1 .. k : t[i] = s[i]
  BY <1>1, <1>2
<1> QED BY <1>1, <1>3, <1>4 DEF t

LEMMA NextDurable == ~DirSyncMayFail /\ IInv /\ Durable /\ [Next]_vars => Durable'
<1> SUFFICES ASSUME ~DirSyncMayFail, IInv, Durable, [Next]_vars PROVE Durable'
  OBVIOUS
<1> USE DEF IInv
<1>1. ASSUME NEW p \in Procs,
             \/ Begin(p) \/ TryAcquire(p) \/ Acquire(p) \/ Load(p) \/ Mutate(p) \/ Stage(p)
             \/ Fsync(p) \/ ReturnErr(p) \/ Kill(p)
      PROVE  Durable'
  <2>1. visible' = visible /\ onDisk' = onDisk /\ acked' = acked
    BY <1>1 DEF Begin, TryAcquire, Acquire, Load, Mutate, Stage, Fsync, ReturnErr, Kill,
                files, history
  <2>2. \A q \in Procs : pc'[q] = "saved" => pc[q] = "saved"
    BY <1>1 DEF Begin, TryAcquire, Acquire, Load, Mutate, Stage, Fsync, ReturnErr, Kill,
                Goto, TypeOK
  <2> QED BY <2>1, <2>2 DEF Durable
<1>2. ASSUME NEW p \in Procs, Rename(p) PROVE Durable'
  <2>1. /\ visible'.ops = WithMutation(p, visible.ops) /\ onDisk' = onDisk \cup {visible'}
        /\ acked' = acked /\ visible \in onDisk /\ visible.ops \in Seq(EntryType)
    BY <1>2 DEF Rename, File, Buffers, Pending, Files, history, TypeOK, FileType
  <2>2. \A q \in Procs : pc'[q] # "saved"
    BY <1>2 DEF Rename, Goto, TypeOK, Holding, Critical, Steps
  <2>3. \A f \in onDisk' : acked' \subseteq EntriesOf(f.ops)
    BY <2>1, MutationEntries DEF Durable
  <2>4. \A f \in onDisk : \E k \in 0 .. Len(visible'.ops) : f.ops = SubSeq(visible'.ops, 1, k)
    BY <2>1, Prefixes DEF Durable
  <2>5. visible'.ops = SubSeq(visible'.ops, 1, Len(visible'.ops))
        /\ Len(visible'.ops) \in 0 .. Len(visible'.ops)
    <3>1. visible'.ops \in Seq(EntryType)
      BY <2>1, MutationType
    <3> QED BY <3>1
  <2> QED BY <2>1, <2>2, <2>3, <2>4, <2>5 DEF Durable
<1>3. ASSUME NEW p \in Procs, SyncDir(p) PROVE Durable'
  <2>1. visible' = visible /\ onDisk' = {visible} /\ acked' = acked /\ visible \in onDisk
    BY <1>3 DEF SyncDir, history, Files
  <2> QED BY <2>1 DEF Durable
<1>4. ASSUME NEW p \in Procs, Return(p) PROVE Durable'
  <2>1. /\ onDisk = {visible} /\ onDisk' = onDisk /\ visible' = visible
        /\ acked' = acked \cup {visible.ops[Len(visible.ops)]}
        /\ visible.ops # << >> /\ visible.ops \in Seq(EntryType)
    BY <1>4 DEF Return, files, Durable, Buffers, Swapped, TypeOK, FileType
  <2>2. visible.ops[Len(visible.ops)] \in EntriesOf(visible.ops)
    BY <2>1 DEF EntriesOf
  <2> QED BY <2>1, <2>2 DEF Durable
<1>5. ASSUME PowerLoss PROVE Durable'
  <2>1. PICK f \in onDisk : visible' = [f EXCEPT !.torn = @ \/ ~f.synced]
    BY <1>5 DEF PowerLoss
  <2>2. visible' = f /\ f.ops \in Seq(EntryType)
    BY <2>1 DEF Files, TypeOK, FileType
  <2>3. onDisk' = {f} /\ acked' = acked /\ \A q \in Procs : pc'[q] = "idle"
    BY <1>5, <2>2 DEF PowerLoss, history
  <2>4. f.ops = SubSeq(f.ops, 1, Len(f.ops)) /\ Len(f.ops) \in 0 .. Len(f.ops)
    BY <2>2
  <2> QED BY <2>2, <2>3, <2>4 DEF Durable
<1>6. CASE UNCHANGED vars
  BY <1>6 DEF vars, Durable
<1> QED
  BY <1>1, <1>2, <1>3, <1>4, <1>5, <1>6 DEF Next, Progress, MutateFails, WriteFails

LEMMA InitDurable == Init => Durable
<1>1. << >> = SubSeq(<< >>, 1, 0) /\ Len(<< >>) = 0
  OBVIOUS
<1> QED BY <1>1 DEF Init, Durable, File, EntriesOf

(* An update that was reported as done is in the log for good, whoever     *)
(* writes at the same time and whatever crashes, as long as the fsync of   *)
(* the directory does not fail behind the caller's back.                   *)
THEOREM NoUpdateIsLost == ASSUME ~DirSyncMayFail PROVE Spec => []NoLostUpdate
<1>1. IInv /\ Durable /\ [Next]_vars => Durable'
  BY NextDurable
<1>2. IInv /\ Durable => NoLostUpdate
  BY DEF IInv, Files, Durable, NoLostUpdate
<1> QED BY <1>1, <1>2, InitDurable, Invariant, PTL DEF Spec

(* A reader, who takes no lock, always finds the whole log, with all that  *)
(* was reported as done and nothing that was reported as failed: the three *)
(* guarantees above, together.                                             *)
THEOREM ReadersAreSafe == ASSUME ~DirSyncMayFail PROVE Spec => []LogIsSound
<1>1. NeverTorn /\ NoLostUpdate /\ FailedLeavesNoTrace => LogIsSound
  BY DEF LogIsSound
<1> QED BY <1>1, LogIsWhole, NoUpdateIsLost, FailuresLeaveNoTrace, PTL

-----------------------------------------------------------------------------
(* Step simulation: a rename is the abstract mutation, a return the        *)
(* abstract report, a power loss the abstract one, and every other step    *)
(* leaves the abstract log alone.                                          *)
LEMMA Simulation ==
  ASSUME ~DirSyncMayFail, IInv, Accounted, Durable, Durable', [Next]_vars
  PROVE  [Abstract!Next]_(Abstract!vars)
<1> USE DEF IInv
<1>0. \A s : Abstract!EntriesOf(s) = EntriesOf(s) /\ Abstract!Current(s) = Current(s)
  BY DEF Abstract!EntriesOf, EntriesOf, Abstract!Current, Current
<1>1. ASSUME NEW p \in Procs,
             \/ Begin(p) \/ TryAcquire(p) \/ Acquire(p) \/ Load(p) \/ Mutate(p) \/ Stage(p)
             \/ Fsync(p) \/ SyncDir(p) \/ ReturnErr(p) \/ Kill(p)
      PROVE  UNCHANGED Abstract!vars
  BY <1>1 DEF Begin, TryAcquire, Acquire, Load, Mutate, Stage, Fsync, SyncDir, ReturnErr,
              Kill, files, history, Abstract!vars
<1>2. ASSUME NEW p \in Procs, Rename(p) PROVE Abstract!Mutate(p, calls[p])
  <2>1. visible'.ops = WithMutation(p, visible.ops) /\ acked' = acked /\ visible \in onDisk
    BY <1>2 DEF Rename, File, Buffers, Pending, Files, history
  <2>2. \A e \in EntriesOf(visible.ops) : e.new # <<p, calls[p]>>
    BY <1>2, <2>1 DEF Rename, Accounted, Unseen, Pending, Value
  <2>3. WithMutation(p, visible.ops)
          = Append(visible.ops, Abstract!Entry(p, calls[p], visible.ops))
    BY <1>0 DEF WithMutation, Abstract!Entry, Value
  <2> QED BY <1>0, <2>1, <2>2, <2>3 DEF Abstract!Mutate
<1>3. ASSUME NEW p \in Procs, Rename(p) PROVE calls[p] \in 1 .. MaxCalls
  BY <1>3 DEF Rename, Accounted, TypeOK
<1>4. ASSUME NEW p \in Procs, Return(p)
      PROVE  \E e \in Abstract!EntriesOf(visible.ops) : Abstract!Report(e)
  <2>1. /\ buf[p] = visible.ops /\ visible.ops # << >> /\ visible.ops \in Seq(EntryType)
        /\ visible' = visible /\ acked' = acked \cup {buf[p][Len(buf[p])]}
    BY <1>4 DEF Return, files, Buffers, Swapped, TypeOK, FileType
  <2>2. visible.ops[Len(visible.ops)] \in EntriesOf(visible.ops)
    BY <2>1 DEF EntriesOf
  <2> QED BY <1>0, <2>1, <2>2 DEF Abstract!Report
<1>5. ASSUME PowerLoss PROVE Abstract!PowerLoss
  <2>1. PICK f \in onDisk : visible' = [f EXCEPT !.torn = @ \/ ~f.synced]
    BY <1>5 DEF PowerLoss
  <2>2. visible'.ops = f.ops
    BY <2>1 DEF TypeOK, FileType
  <2>3. \E k \in 0 .. Len(visible.ops) : visible'.ops = SubSeq(visible.ops, 1, k)
    BY <2>2 DEF Durable
  <2>4. acked' = acked /\ acked \subseteq EntriesOf(visible'.ops)
    BY <1>5, <2>2 DEF PowerLoss, history, Durable
  <2> QED BY <1>0, <2>3, <2>4 DEF Abstract!PowerLoss
<1>6. CASE UNCHANGED vars
  BY <1>6 DEF vars, Abstract!vars
<1> QED
  BY <1>1, <1>2, <1>3, <1>4, <1>5, <1>6
     DEF Next, Progress, MutateFails, WriteFails, Abstract!Next

(* The lock, the temporary file and the renames together are an atomic     *)
(* log: a mutation takes effect in one step, is computed from the log it   *)
(* is added to, and outlives every crash once it has been reported.        *)
THEOREM Refinement == ASSUME ~DirSyncMayFail PROVE Spec => ImplementsAtomicLog
<1>1. Init => Abstract!Init
  BY DEF Init, Abstract!Init, File
<1>2. IInv /\ Accounted /\ Durable /\ Durable' /\ [Next]_vars => [Abstract!Next]_(Abstract!vars)
  BY Simulation
<1>3. Init => Accounted
  BY DEF Init, Accounted, File, EntriesOf, Unseen, Pending
<1>4. IInv /\ Accounted /\ [Next]_vars => Accounted'
  BY NextAccounted
<1>5. IInv /\ Durable /\ [Next]_vars => Durable'
  BY NextDurable
<1>6. Spec => [](IInv /\ Accounted /\ Durable)
  BY <1>3, <1>4, <1>5, InitDurable, Invariant, PTL DEF Spec
<1> QED BY <1>1, <1>2, <1>6, PTL DEF Spec, ImplementsAtomicLog, Abstract!Spec
=============================================================================
