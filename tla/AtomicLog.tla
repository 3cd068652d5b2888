----------------------------- MODULE AtomicLog -----------------------------
(***************************************************************************)
(* What ADR-0008 promises of the operation log, with no lock, file or      *)
(* process in sight: a mutation appears in the log in one step, computed   *)
(* from the log it is appended to; and a mutation reported as done is      *)
(* never taken back, although a power loss may take back the ones nobody   *)
(* was told of.                                                            *)
(***************************************************************************)
EXTENDS Integers, Sequences

CONSTANTS Procs,    \* processes (invocations of omo, threads of omo serve)
          Calls,    \* numbers of a process's calls
          NoValue   \* the value of the ref before the first mutation

VARIABLES log,      \* the log every reader sees
          acked     \* the mutations reported as done

vars == << log, acked >>

EntriesOf(s) == {s[i] : i \in 1 .. Len(s)}

(* The ref the mutations write holds what the newest entry put there.      *)
Current(s) == IF s = << >> THEN NoValue ELSE s[Len(s)].new

(* The n-th mutation of process p, computed from the log s.                *)
Entry(p, n, s) == [seq |-> Len(s), old |-> Current(s), new |-> <<p, n>>]

Init == log = << >> /\ acked = {}

Mutate(p, n) ==
  /\ \A e \in EntriesOf(log) : e.new # <<p, n>>
  /\ log' = Append(log, Entry(p, n, log))
  /\ UNCHANGED acked

Report(e) ==
  /\ e \in EntriesOf(log)
  /\ acked' = acked \cup {e}
  /\ UNCHANGED log

PowerLoss ==
  /\ \E k \in 0 .. Len(log) : log' = SubSeq(log, 1, k)
  /\ acked \subseteq EntriesOf(log')
  /\ UNCHANGED acked

Next ==
  \/ \E p \in Procs, n \in Calls : Mutate(p, n)
  \/ \E e \in EntriesOf(log) : Report(e)
  \/ PowerLoss

Spec == Init /\ [][Next]_vars
=============================================================================
