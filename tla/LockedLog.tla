----------------------------- MODULE LockedLog -----------------------------
(***************************************************************************)
(* OpLog::mutate_locked (crates/omoplata-work/src/oplog.rs) over the lock  *)
(* and the atomic write of crates/omoplata-store/src/lock.rs, step by      *)
(* step, for several processes on one repository: flock, load, mutate,     *)
(* write a temporary file, fsync it, rename it over the log, fsync the     *)
(* directory, drop the lock.  A process may be killed, any step may fail   *)
(* with an I/O error and the machine may lose power between any two steps. *)
(*                                                                         *)
(* A mutation writes one ref, whose new value names the process and the    *)
(* call: enough to tell every mutation from every other, and to see what   *)
(* log each was computed from.                                             *)
(***************************************************************************)
EXTENDS Integers, Sequences, FiniteSets

CONSTANTS Procs,          \* processes that mutate the log
          NoProc,         \* nobody holds the lock
          NoValue,        \* the ref before the first mutation
          MaxCalls,       \* bound on the calls of one process
          MaxCrashes,     \* bound on kills and power losses, together
          DirSyncMayFail  \* the best-effort fsync of the directory can fail

ASSUME LockedLogAssumption ==
  /\ NoProc \notin Procs
  /\ MaxCalls \in Nat
  /\ MaxCrashes \in Nat
  /\ DirSyncMayFail \in BOOLEAN

VARIABLES
  pc,       \* how far each process is in mutate_locked
  holder,   \* the process whose descriptor holds the flock on .omoplata/lock
  buf,      \* the OpLog each process has in memory
  visible,  \* the file that .omoplata/oplog.jsonl names now
  onDisk,   \* the files that name may be bound to after a power loss
  calls,    \* calls each process has begun
  crashes,  \* kills and power losses so far
  acked,    \* history: the entries whose call returned Ok
  failed    \* history: the calls that returned Err, by their value

vars == << pc, holder, buf, visible, onDisk, calls, crashes, acked, failed >>

Steps == {"idle", "waiting", "locked", "loaded", "mutated", "staged", "synced",
          "renamed", "saved"}
Critical == Steps \ {"idle", "waiting"}

EntriesOf(s) == {s[i] : i \in 1 .. Len(s)}
Current(s)   == IF s = << >> THEN NoValue ELSE s[Len(s)].new

(* A file: its operations, whether its data is on the disk, and whether it *)
(* is torn (a truncated or mixed content that does not parse).             *)
File(ops, synced) == [ops |-> ops, synced |-> synced, torn |-> FALSE]

Value(p) == <<p, calls[p]>>

(* A mutation stamped with the seq of the entry before it.                 *)
WithMutation_SeqOfLast(p, log) ==
  Append(log, [seq |-> Len(log) - 1, old |-> Current(log), new |-> Value(p)])

(* OpLog::set_ref as the mutation: seq and old are of the log it is given. *)
WithMutation(p, log) ==
  Append(log, [seq |-> Len(log), old |-> Current(log), new |-> Value(p)])

Init ==
  /\ pc = [p \in Procs |-> "idle"]
  /\ holder = NoProc
  /\ buf = [p \in Procs |-> << >>]
  /\ visible = File(<< >>, TRUE)
  /\ onDisk = {File(<< >>, TRUE)}
  /\ calls = [p \in Procs |-> 0]
  /\ crashes = 0
  /\ acked = {}
  /\ failed = {}

Goto(p, step) == pc' = [pc EXCEPT ![p] = step]

(* Dropping the guard, or the process dying, frees the lock.               *)
Release(p) == holder' = IF holder = p THEN NoProc ELSE holder

files   == << visible, onDisk >>
history == << acked, failed >>

-----------------------------------------------------------------------------
(* Bugs the protocol could have.                                           *)

Rename_BeforeFsync(p) ==
  /\ pc[p] = "staged"
  /\ visible' = File(buf[p], FALSE)
  /\ onDisk' = onDisk \cup {visible'}
  /\ Goto(p, "renamed")
  /\ UNCHANGED << holder, buf, calls, crashes, history >>

SyncDir_Skipped(p) ==
  /\ pc[p] = "renamed"
  /\ Goto(p, "saved")
  /\ UNCHANGED << holder, buf, files, calls, crashes, history >>

(* A PID lockfile instead of flock: the lock outlives its holder.          *)
Kill_KeepsTheLock(p) ==
  /\ crashes < MaxCrashes
  /\ pc[p] # "idle"
  /\ Goto(p, "idle")
  /\ crashes' = crashes + 1
  /\ UNCHANGED << holder, buf, files, calls, history >>

-----------------------------------------------------------------------------
(* Repository::lock: open the lock file and block until it is ours.        *)
Begin(p) ==
  /\ pc[p] = "idle"
  /\ calls[p] < MaxCalls
  /\ calls' = [calls EXCEPT ![p] = @ + 1]
  /\ Goto(p, "waiting")
  /\ UNCHANGED << holder, buf, files, crashes, history >>

Acquire(p) ==
  /\ pc[p] = "waiting"
  /\ holder = NoProc
  /\ holder' = p
  /\ Goto(p, "locked")
  /\ UNCHANGED << buf, files, calls, crashes, history >>

(* Repository::try_lock: the lock is taken at once or not at all.          *)
TryAcquire(p) ==
  /\ pc[p] = "idle"
  /\ calls[p] < MaxCalls
  /\ calls' = [calls EXCEPT ![p] = @ + 1]
  /\ \/ /\ holder = NoProc
        /\ holder' = p
        /\ Goto(p, "locked")
        /\ UNCHANGED failed
     \/ /\ holder # NoProc
        /\ failed' = failed \cup {<<p, calls'[p]>>}
        /\ UNCHANGED << pc, holder >>
  /\ UNCHANGED << buf, files, crashes, acked >>

(* OpLog::load, inside the critical section.                               *)
Load(p) ==
  /\ pc[p] = "locked"
  /\ ~visible.torn
  /\ buf' = [buf EXCEPT ![p] = visible.ops]
  /\ Goto(p, "loaded")
  /\ UNCHANGED << holder, files, calls, crashes, history >>

(* f(&mut log)?: the closure appends its operation, or returns an error,   *)
(* and then the log in memory is dropped with the guard and not saved.     *)
Mutate(p) ==
  /\ pc[p] = "loaded"
  /\ buf' = [buf EXCEPT ![p] = WithMutation(p, @)]
  /\ Goto(p, "mutated")
  /\ UNCHANGED << holder, files, calls, crashes, history >>

(* An error of a step before the rename is returned; the guard is dropped. *)
ReturnErr(p) ==
  /\ Goto(p, "idle")
  /\ Release(p)
  /\ failed' = failed \cup {Value(p)}
  /\ UNCHANGED << buf, files, calls, crashes, acked >>

MutateFails(p) == pc[p] = "loaded" /\ ReturnErr(p)

(* atomic_write, steps 1 and 2: the temporary sibling has a name no other  *)
(* writer uses, so it is the process's own until it is renamed; when a     *)
(* step fails it stays behind and nothing ever reads it.                   *)
Stage(p) ==
  /\ pc[p] = "mutated"
  /\ Goto(p, "staged")
  /\ UNCHANGED << holder, buf, files, calls, crashes, history >>

Fsync(p) ==
  /\ pc[p] = "staged"
  /\ Goto(p, "synced")
  /\ UNCHANGED << holder, buf, files, calls, crashes, history >>

(* Step 3: the name is swapped to the complete, synced file.  Until the    *)
(* directory is synced the disk may still hold an earlier binding.         *)
Rename(p) ==
  /\ pc[p] = "synced"
  /\ visible' = File(buf[p], TRUE)
  /\ onDisk' = onDisk \cup {visible'}
  /\ Goto(p, "renamed")
  /\ UNCHANGED << holder, buf, calls, crashes, history >>

WriteFails(p) == pc[p] \in {"mutated", "staged", "synced"} /\ ReturnErr(p)

(* Step 4: the rename is made durable.  An error here is ignored.          *)
SyncDir(p) ==
  /\ pc[p] = "renamed"
  /\ \/ onDisk' = {visible}
     \/ DirSyncMayFail /\ UNCHANGED onDisk
  /\ Goto(p, "saved")
  /\ UNCHANGED << holder, buf, visible, calls, crashes, history >>

(* The guard is dropped and the caller is told that the mutation is done.  *)
Return(p) ==
  /\ pc[p] = "saved"
  /\ Goto(p, "idle")
  /\ Release(p)
  /\ acked' = acked \cup {buf[p][Len(buf[p])]}
  /\ UNCHANGED << buf, files, calls, crashes, failed >>

(* kill -9: the kernel closes the descriptor and with it drops the flock.  *)
Kill(p) ==
  /\ crashes < MaxCrashes
  /\ pc[p] # "idle"
  /\ Goto(p, "idle")
  /\ Release(p)
  /\ crashes' = crashes + 1
  /\ UNCHANGED << buf, files, calls, history >>

(* Every process dies.  The name is bound to the file it had at the latest *)
(* directory sync or to one renamed over it since; data that was never     *)
(* synced comes back torn.                                                 *)
PowerLoss ==
  /\ crashes < MaxCrashes
  /\ pc' = [p \in Procs |-> "idle"]
  /\ holder' = NoProc
  /\ crashes' = crashes + 1
  /\ \E f \in onDisk : visible' = [f EXCEPT !.torn = @ \/ ~f.synced]
  /\ onDisk' = {visible'}
  /\ UNCHANGED << buf, calls, history >>

Progress(p) ==
  \/ Acquire(p) \/ Load(p)  \/ Mutate(p) \/ MutateFails(p)
  \/ Stage(p)   \/ Fsync(p) \/ Rename(p) \/ WriteFails(p)
  \/ SyncDir(p) \/ Return(p)

Next ==
  \/ \E p \in Procs : Begin(p) \/ TryAcquire(p) \/ Progress(p) \/ Kill(p)
  \/ PowerLoss

Spec == Init /\ [][Next]_vars

(* A process inside a call keeps running, or dies, and the kernel hands a  *)
(* free lock to a waiter; nothing makes a process begin a call.            *)
Fairness == \A p \in Procs : WF_vars(Progress(p))

FairSpec == Spec /\ Fairness

-----------------------------------------------------------------------------
EntryType == [seq : Nat, old : (Procs \X Nat) \cup {NoValue}, new : Procs \X Nat]
FileType  == [ops : Seq(EntryType), synced : BOOLEAN, torn : BOOLEAN]

TypeOK ==
  /\ pc \in [Procs -> Steps]
  /\ holder \in Procs \cup {NoProc}
  /\ buf \in [Procs -> Seq(EntryType)]
  /\ visible \in FileType
  /\ onDisk \subseteq FileType
  /\ calls \in [Procs -> 0 .. MaxCalls]
  /\ crashes \in Nat
  /\ acked \subseteq EntryType
  /\ failed \subseteq Procs \X Nat

(* flock: two processes are never inside load -> mutate -> save together.  *)
MutualExclusion ==
  \A p, q \in Procs : pc[p] \in Critical /\ pc[q] \in Critical => p = q

(* The log is never torn: a reader, who takes no lock and loads whatever   *)
(* file the name is bound to, sees a complete log at any moment, and no    *)
(* crash leaves anything else behind.                                      *)
NeverTorn == ~visible.torn

(* No lost update: what a call reported as done is in the log, now and     *)
(* after any crash.                                                        *)
NoLostUpdate == acked \subseteq EntriesOf(visible.ops)

(* A call that returned an error left nothing in the log.                  *)
FailedLeavesNoTrace ==
  \A e \in EntriesOf(visible.ops) : e.new \notin failed

(* What a reader of the log may rely on at any moment: it is whole, holds  *)
(* every mutation its caller was told is done, and none its caller was     *)
(* told has failed, whoever writes, is killed or loses power meanwhile.    *)
LogIsSound == NeverTorn /\ NoLostUpdate /\ FailedLeavesNoTrace

(* The log as a whole behaves as an atomic one.                            *)
Abstract ==
  INSTANCE AtomicLog WITH Calls <- 1 .. MaxCalls, log <- visible.ops, acked <- acked
ImplementsAtomicLog == Abstract!Spec

(* A call always ends: nobody waits on a process that has died.            *)
CallsEnd == \A p \in Procs : pc[p] # "idle" ~> pc[p] = "idle"
=============================================================================
