---------------------------- MODULE DeliveryLog ----------------------------
(***************************************************************************)
(* What the deployment ledger promises to its callers: an append-only log  *)
(* of deploy / upgrade / rollback records.  A call to Append either adds   *)
(* its record at the end and is acknowledged, or changes nothing.  There   *)
(* is no torn or rewritten log, whatever fails in between.                 *)
(*                                                                         *)
(* Ledger.tla is the file-backed implementation (internal/state/store.go). *)
(***************************************************************************)
EXTENDS Naturals, Sequences

VARIABLES
    log,        \* the records, oldest first
    acked       \* ids of the records whose Append returned without an error

logVars == <<log, acked>>

Init ==
    /\ log = <<>>
    /\ acked = {}

\* One record is added at the end; everything before it stays as it was.
Commit ==
    /\ Len(log') = Len(log) + 1
    /\ \A i \in 1..Len(log) : log'[i] = log[i]
    /\ acked' = acked \cup {log'[Len(log')].id}

Spec == Init /\ [][Commit]_logVars
=============================================================================
