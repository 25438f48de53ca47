------------------------------ MODULE RecordLog ------------------------------
(***************************************************************************)
(* What a log promises to the code that writes the WAL and the MANIFEST:   *)
(* records are appended, a record that was acknowledged is never lost, and *)
(* a reader that starts after a crash gets the records that are left, all  *)
(* of them and in their order, or it says that it failed.                  *)
(***************************************************************************)
EXTENDS Naturals, Sequences

CONSTANT Record

VARIABLES
  log,    \* the records appended; after the crash, the ones that are left
  acked,  \* how many of them are acknowledged
  got,    \* the records the reader has returned
  mode    \* "write", "read", "done", "failed"

vars == <<log, acked, got, mode>>

Init == log = <<>> /\ acked = 0 /\ got = <<>> /\ mode = "write"

AppendRecord ==
  /\ mode = "write"
  /\ \E r \in Record : log' = Append(log, r)
  /\ UNCHANGED <<acked, got, mode>>

Acknowledge ==
  /\ mode = "write" /\ acked' = Len(log)
  /\ UNCHANGED <<log, got, mode>>

\* A crash takes any part of what was not acknowledged, from the end.
Crash ==
  /\ mode = "write" /\ mode' = "read"
  /\ \E k \in acked .. Len(log) : log' = SubSeq(log, 1, k)
  /\ UNCHANGED <<acked, got>>

Read ==
  /\ mode = "read" /\ Len(got) < Len(log)
  /\ got' = Append(got, log[Len(got) + 1])
  /\ UNCHANGED <<log, acked, mode>>

EndOfLog ==
  /\ mode = "read" /\ got = log /\ mode' = "done"
  /\ UNCHANGED <<log, acked, got>>

Fail ==
  /\ mode = "read" /\ mode' = "failed"
  /\ UNCHANGED <<log, acked, got>>

Next == AppendRecord \/ Acknowledge \/ Crash \/ Read \/ EndOfLog \/ Fail

Spec == Init /\ [][Next]_vars

=============================================================================
