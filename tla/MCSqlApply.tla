----------------------------- MODULE MCSqlApply -----------------------------
(* A package of SQL scripts for SqlApply.                                   *)
EXTENDS SqlApply, SqlNames

Sql(patch, seq) == [db |-> 1, version |-> <<4, 0, patch>>, seq |-> seq]

\* V4.0.2_1, V4.0.2_2 and V4.0.2_10 of one database; the first one has DDL.
Package == {Sql(2, 1), Sql(2, 2), Sql(2, 10)}
PackageOrder == WalkOrder(Package)
PackageDdl == {Sql(2, 1)}

\* Two scripts are enough for races between runners.
Pair == {Sql(2, 1), Sql(2, 2)}
PairOrder == WalkOrder(Pair)

\* Plan 6.8: scripts run "sorted by version and sequence number".
AppliedInNumberOrder ==
    \A i, j \in DOMAIN history : i < j => ~NumberLess(history[j].script, history[i].script)

\* The comment of ListPending: it lists the scripts that will be executed.
\* While no run is at work, those are the scripts without a row.
PreviewIsPending ==
    (\A r \in Runners : pc[r] = "idle") =>
        ToSet(Preview(Scripts)) = {s \in Scripts : RowsOf(s) = {}}
=============================================================================
