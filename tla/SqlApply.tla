------------------------------ MODULE SqlApply ------------------------------
(***************************************************************************)
(* db.Run of internal/db/apply.go: the SQL scripts of a package, one after *)
(* the other in the order of the walk, each at most once according to the  *)
(* table wpg_deploy_history.  An upgrade and a "db apply" may run at the   *)
(* same time, and each may lose its connection or die at any point.        *)
(*                                                                         *)
(* A script runs in a transaction with the insert of its history row.      *)
(* MySQL commits a transaction by itself before a DDL statement and stays  *)
(* in autocommit afterwards, so a script with DDL takes effect at once and *)
(* its row is committed by the insert.  The row's filename is UNIQUE: an   *)
(* insert waits for an uncommitted row of the same name.                   *)
(***************************************************************************)
EXTENDS Naturals, Sequences, FiniteSets

CONSTANTS
    Order,      \* the scripts of the package, in the order of filepath.Walk
    Ddl,        \* scripts with DDL statements
    Content,    \* what a script file may hold; a checksum tells them apart
    Runners,    \* processes that may be in db.Run at the same time
    MaxRuns     \* bound: calls of db.Run in a behaviour

Scripts == {Order[i] : i \in DOMAIN Order}

ASSUME SqlAssumption ==
    /\ Order \in Seq(Scripts)
    /\ Ddl \subseteq Scripts
    /\ MaxRuns \in Nat

VARIABLES
    content,    \* what is in each script file now
    pc,         \* where each runner is
    next,       \* the script each runner is at
    dry,        \* runners in a dry run
    outcome,    \* how the last run of each runner ended
    history,    \* rows of wpg_deploy_history, in the order of their ids
    done,       \* contents each script has been executed with, for good
    runs        \* calls of db.Run so far

sqlVars == <<content, pc, next, dry, outcome, history, done, runs>>

Row == [script : Scripts, sum : Content]
RowsOf(s) == {i \in DOMAIN history : history[i].script = s}

-----------------------------------------------------------------------------
Init ==
    /\ content \in [Scripts -> Content]
    /\ pc = [r \in Runners |-> "idle"]
    /\ next = [r \in Runners |-> 1]
    /\ dry = {}
    /\ outcome = [r \in Runners |-> "none"]
    /\ history = <<>>
    /\ done = [s \in Scripts |-> <<>>]
    /\ runs = 0

Start(r) ==
    /\ pc[r] = "idle"
    /\ runs < MaxRuns
    /\ runs' = runs + 1
    /\ pc' = [pc EXCEPT ![r] = "check"]
    /\ next' = [next EXCEPT ![r] = 1]
    /\ dry' \in {dry \cup {r}, dry \ {r}}
    /\ outcome' = [outcome EXCEPT ![r] = "none"]
    /\ UNCHANGED <<content, history, done>>

Leave(r, res) ==
    /\ pc' = [pc EXCEPT ![r] = "idle"]
    /\ outcome' = [outcome EXCEPT ![r] = res]

Proceed(r) ==
    /\ pc' = [pc EXCEPT ![r] = "check"]
    /\ next' = [next EXCEPT ![r] = @ + 1]
    /\ UNCHANGED outcome

\* Where the site file says that MySQL is disabled, the run ends before it has
\* looked at the package.  To its caller this is a success like any other.
Disabled(r) ==
    /\ pc[r] = "idle"
    /\ runs < MaxRuns
    /\ runs' = runs + 1
    /\ Leave(r, "skipped")
    /\ UNCHANGED <<content, next, dry, history, done>>

AtScript(r) == next[r] <= Len(Order)
Script(r) == Order[next[r]]

End(r) ==
    /\ pc[r] = "check"
    /\ ~AtScript(r)
    /\ Leave(r, "ok")
    /\ UNCHANGED <<content, next, dry, history, done, runs>>

\* Fault: any row of that name will do.
AnyRow(s) == RowsOf(s) # {}

\* The row has the checksum of the file.
SameRow(s) == \E i \in RowsOf(s) : history[i].sum = content[s]

\* A script that has been executed is passed over.
Skip(r) ==
    /\ pc[r] = "check" /\ AtScript(r)
    /\ SameRow(Script(r))
    /\ Proceed(r)
    /\ UNCHANGED <<content, dry, history, done, runs>>

\* A script that was executed with other contents stops the run.
Block(r) ==
    /\ pc[r] = "check" /\ AtScript(r)
    /\ RowsOf(Script(r)) # {} /\ ~SameRow(Script(r))
    /\ Leave(r, "error")
    /\ UNCHANGED <<content, next, dry, history, done, runs>>

DryRun(r) ==
    /\ pc[r] = "check" /\ AtScript(r) /\ r \in dry
    /\ RowsOf(Script(r)) = {}
    /\ Proceed(r)
    /\ UNCHANGED <<content, dry, history, done, runs>>

Executes(r) == r \notin dry

\* A new script: begin a transaction and execute the file.
Exec(r) ==
    /\ pc[r] = "check" /\ AtScript(r) /\ Executes(r)
    /\ RowsOf(Script(r)) = {}
    /\ pc' = [pc EXCEPT ![r] = "insert"]
    /\ done' = IF Script(r) \in Ddl
               THEN [done EXCEPT ![Script(r)] = Append(@, content[Script(r)])] ELSE done
    /\ UNCHANGED <<content, next, dry, outcome, history, runs>>

\* Runners whose insert of a row for s is not committed yet.
Locking(s) == {r \in Runners : pc[r] = "commit" /\ Script(r) = s}

AddRow(s) == history' = Append(history, [script |-> s, sum |-> content[s]])

\* Fault: the name is not UNIQUE, and rows of one name do not meet.
InsertFree(r) == TRUE

InsertOK(r) == Locking(Script(r)) = {} /\ RowsOf(Script(r)) = {}

\* The insert of the row.  After DDL it is on its own and commits.
Insert(r) ==
    /\ pc[r] = "insert"
    /\ InsertOK(r)
    /\ IF Script(r) \in Ddl
       THEN AddRow(Script(r)) /\ Proceed(r)
       ELSE pc' = [pc EXCEPT ![r] = "commit"] /\ UNCHANGED <<next, outcome, history>>
    /\ UNCHANGED <<content, dry, done, runs>>

\* Another runner has committed the row since the check.
Duplicate(r) ==
    /\ pc[r] = "insert"
    /\ RowsOf(Script(r)) # {}
    /\ Leave(r, "error")
    /\ UNCHANGED <<content, next, dry, history, done, runs>>

\* Fault: the row goes in with the next statement, outside the transaction.
CommitScriptOnly(r) ==
    /\ done' = [done EXCEPT ![Script(r)] = Append(@, content[Script(r)])]
    /\ \/ AddRow(Script(r)) /\ Proceed(r)
       \/ Leave(r, "error") /\ UNCHANGED <<next, history>>

CommitBoth(r) ==
    /\ done' = [done EXCEPT ![Script(r)] = Append(@, content[Script(r)])]
    /\ AddRow(Script(r))
    /\ Proceed(r)

Commit(r) ==
    /\ pc[r] = "commit"
    /\ CommitBoth(r)
    /\ UNCHANGED <<content, dry, runs>>

\* The commit has happened, and the answer does not arrive.
CommitUnheard(r) ==
    /\ pc[r] = "commit"
    /\ done' = [done EXCEPT ![Script(r)] = Append(@, content[Script(r)])]
    /\ AddRow(Script(r))
    /\ Leave(r, "error")
    /\ UNCHANGED <<content, next, dry, runs>>

\* A statement fails, a lock takes too long, the connection or the process is
\* gone: the open transaction is rolled back, what DDL has done stays.
Fail(r) ==
    /\ pc[r] # "idle"
    /\ Leave(r, "error")
    /\ UNCHANGED <<content, next, dry, history, done, runs>>

\* Between runs the package is replaced by one with other contents.  What an
\* earlier run returned says nothing about the new package.
Replace(s) ==
    /\ \A r \in Runners : pc[r] = "idle"
    /\ content' \in {[content EXCEPT ![s] = c] : c \in Content}
    /\ outcome' = [r \in Runners |-> "none"]
    /\ UNCHANGED <<pc, next, dry, history, done, runs>>

Step(r) ==
    \/ Start(r) \/ Disabled(r) \/ End(r) \/ Skip(r) \/ Block(r) \/ DryRun(r)
    \/ Exec(r) \/ Insert(r) \/ Duplicate(r) \/ Commit(r) \/ CommitUnheard(r) \/ Fail(r)

Next == (\E r \in Runners : Step(r)) \/ (\E s \in Scripts : Replace(s))

Spec == Init /\ [][Next]_sqlVars

-----------------------------------------------------------------------------
(* Properties.                                                              *)

\* Types; a runner is at a script exactly while it works on one.
TypeOK ==
    /\ content \in [Scripts -> Content]
    /\ pc \in [Runners -> {"idle", "check", "insert", "commit"}]
    /\ next \in [Runners -> 1..(Len(Order) + 1)]
    /\ dry \subseteq Runners
    /\ outcome \in [Runners -> {"none", "ok", "skipped", "error"}]
    /\ history \in Seq(Row)
    /\ done \in [Scripts -> Seq(Content)]
    /\ \A r \in Runners : pc[r] \in {"insert", "commit"} => AtScript(r) /\ r \notin dry

\* The history has one row for a script at most, and none is of a script that
\* has not been executed with just that content.
HistoryIsTrue ==
    /\ \A i, j \in DOMAIN history : history[i].script = history[j].script => i = j
    /\ \A i \in DOMAIN history :
          \E k \in DOMAIN done[history[i].script] : done[history[i].script][k] = history[i].sum

\* The types, and the history.
HistoryOK == TypeOK /\ HistoryIsTrue

\* A script without DDL takes effect exactly once: as often as it has rows,
\* whichever runners race for it and wherever they fail or die.
DmlExactlyOnce ==
    \A s \in Scripts \ Ddl : Len(done[s]) = Cardinality(RowsOf(s))

\* A run that returns success, is not dry and has MySQL enabled, leaves every
\* script of the package in the history with the checksum it has in the package:
\* a script changed after it was executed can not pass ("checksum changed: stop").
SuccessMeansApplied ==
    \A r \in Runners : outcome[r] = "ok" /\ r \notin dry =>
        \A s \in Scripts : \E i \in RowsOf(s) : history[i].sum = content[s]
=============================================================================
