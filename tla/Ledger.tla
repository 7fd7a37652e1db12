------------------------------- MODULE Ledger -------------------------------
(***************************************************************************)
(* The deployment ledger of internal/state/store.go: one JSON file,        *)
(* deployments.json, that every deploy, upgrade and rollback appends to.   *)
(*                                                                         *)
(* Append reads the whole file, adds a record in memory, writes the result *)
(* to deployments.json.tmp and renames that over the file.  A Store has a  *)
(* mutex, but every caller makes a Store of its own with NewStore (and the *)
(* console and the command line are different processes), so the mutex     *)
(* never makes one Append wait for another: it is not part of the model.   *)
(* A writer is a place where Append runs: a console job or a command.      *)
(*                                                                         *)
(* The model is at the level of system calls, because all writers share    *)
(* the name of the temporary file: an open descriptor follows its file     *)
(* through a rename, so one writer may be writing into what another has    *)
(* just made the ledger.                                                   *)
(***************************************************************************)
EXTENDS Naturals, Sequences, FiniteSets

CONSTANTS
    Writers,        \* where Append may run
    Sites,          \* site codes records are about
    AnySite,        \* the empty site code of a query: every record matches
    NoRecord,       \* the nil that LatestSuccess returns
    MaxAppends      \* bound: Append calls in a behaviour

ASSUME LedgerAssumption ==
    /\ AnySite \notin Sites
    /\ MaxAppends \in Nat

VARIABLES
    ledger,     \* contents of deployments.json
    tmp,        \* contents of deployments.json.tmp
    fd,         \* where the descriptor of each writer points
    syscall,    \* next system call of each writer
    list,       \* the record list each writer has in memory
    calls,      \* Append calls so far; the source of record ids (UnixNano)
    acked,      \* ids of records whose Append returned nil
    seen        \* the last list that List returned to a reader

ledgerVars == <<ledger, tmp, fd, syscall, list, calls, acked, seen>>

-----------------------------------------------------------------------------
(* Files.  A file of zero bytes reads as an empty list, exactly as a        *)
(* missing one does; anything json.Unmarshal refuses is "corrupt".          *)

Record == [id : Nat, site : Sites, ok : BOOLEAN]
File == [state : {"absent", "valid", "corrupt"}, recs : Seq(Record)]

Absent  == [state |-> "absent",  recs |-> <<>>]
Empty   == [state |-> "valid",   recs |-> <<>>]
Corrupt == [state |-> "corrupt", recs |-> <<>>]
Holding(recs) == [state |-> "valid", recs |-> recs]

Readable(file) == file.state # "corrupt"

\* What a write of new at offset 0 may leave in a file that holds old.  Only
\* a file somebody else has filled since it was opened is not empty; whether
\* bytes of old stay behind the new ones depends on their lengths.
Overlay(old, new) == IF old = Empty THEN {new} ELSE {new, Corrupt}

\* What an interrupted or failed write may leave: nothing written, or part.
PartOf(old) == {old, Corrupt}

-----------------------------------------------------------------------------
(* Queries (LatestSuccess, rollback's search, the delivery report).         *)

Matching(recs, site) ==
    {i \in DOMAIN recs : recs[i].ok /\ (site = AnySite \/ recs[i].site = site)}

\* Fault: the loop runs from the start of the list.
EarliestSuccess(recs, site) ==
    IF Matching(recs, site) = {} THEN NoRecord
    ELSE recs[CHOOSE i \in Matching(recs, site) :
                \A j \in Matching(recs, site) : i <= j]

\* The loops run from the end of the list and stop at the first match.
LatestSuccess(recs, site) ==
    IF Matching(recs, site) = {} THEN NoRecord
    ELSE recs[CHOOSE i \in Matching(recs, site) :
                \A j \in Matching(recs, site) : j <= i]

-----------------------------------------------------------------------------
LedgerInit ==
    /\ ledger = Absent
    /\ tmp = Absent
    /\ fd = [w \in Writers |-> "none"]
    /\ syscall = [w \in Writers |-> "idle"]
    /\ list = [w \in Writers |-> <<>>]
    /\ calls = 0
    /\ acked = {}
    /\ seen = <<>>

\* Fault: the descriptor is not closed on the way out.
ReturnWithoutClose(w) ==
    /\ syscall' = [syscall EXCEPT ![w] = "idle"]
    /\ list' = [list EXCEPT ![w] = <<>>]
    /\ UNCHANGED fd

\* Writer w is back in its caller, with or without an error: its descriptor
\* is closed and its list is garbage.
Return(w) ==
    /\ syscall' = [syscall EXCEPT ![w] = "idle"]
    /\ fd' = [fd EXCEPT ![w] = "none"]
    /\ list' = [list EXCEPT ![w] = <<>>]

\* Append: read the file and add the record.  A file that does not parse is
\* an error, and nothing is written.
ReadAndAdd(w, site, ok) ==
    /\ syscall[w] = "idle"
    /\ calls < MaxAppends
    /\ calls' = calls + 1
    /\ IF Readable(ledger)
       THEN /\ list' = [list EXCEPT ![w] = Append(ledger.recs,
                            [id |-> calls + 1, site |-> site, ok |-> ok])]
            /\ syscall' = [syscall EXCEPT ![w] = "open"]
       ELSE UNCHANGED <<list, syscall>>
    /\ UNCHANGED <<ledger, tmp, fd, acked, seen>>

\* Fault: the ledger is written in place, without a temporary file.
OpenLedger(w) ==
    /\ syscall[w] = "open"
    /\ ledger' = Empty
    /\ fd' = [fd EXCEPT ![w] = "ledger"]
    /\ syscall' = [syscall EXCEPT ![w] = "write"]
    /\ UNCHANGED <<tmp, list, calls, acked, seen>>

\* os.WriteFile: open the temporary file, creating it or cutting it to zero.
OpenTmp(w) ==
    /\ syscall[w] = "open"
    /\ tmp' = Empty
    /\ fd' = [fd EXCEPT ![w] = "tmp"]
    /\ syscall' = [syscall EXCEPT ![w] = "write"]
    /\ UNCHANGED <<ledger, list, calls, acked, seen>>

\* The file the descriptor of w points at takes one of the contents forTmp or
\* forLedger, according to the name it goes by now.
Put(w, forTmp, forLedger) ==
    \/ /\ fd[w] = "tmp"
       /\ tmp' \in forTmp
       /\ UNCHANGED ledger
    \/ /\ fd[w] = "ledger"
       /\ ledger' \in forLedger
       /\ UNCHANGED tmp
    \/ /\ fd[w] \notin {"tmp", "ledger"}
       /\ UNCHANGED <<ledger, tmp>>

\* os.WriteFile: write the list and close.
WriteTmp(w) ==
    /\ syscall[w] = "write"
    /\ Put(w, Overlay(tmp, Holding(list[w])), Overlay(ledger, Holding(list[w])))
    /\ syscall' = [syscall EXCEPT ![w] = "rename"]
    /\ fd' = [fd EXCEPT ![w] = "none"]
    /\ UNCHANGED <<list, calls, acked, seen>>

\* Fault: the error of a failed write is dropped and the rename goes ahead.
WriteFailsUnnoticed(w) ==
    /\ syscall[w] = "write"
    /\ Put(w, PartOf(tmp), PartOf(ledger))
    /\ syscall' = [syscall EXCEPT ![w] = "rename"]
    /\ fd' = [fd EXCEPT ![w] = "none"]
    /\ UNCHANGED <<list, calls, acked, seen>>

\* os.WriteFile fails (disk full): Append returns the error, callers drop it.
WriteFails(w) ==
    /\ syscall[w] = "write"
    /\ Put(w, PartOf(tmp), PartOf(ledger))
    /\ Return(w)
    /\ UNCHANGED <<calls, acked, seen>>

\* os.Rename.  Descriptors on the temporary file now point at the ledger;
\* those on the old ledger point at a file that has no name any more.
Rename(w) ==
    /\ syscall[w] = "rename"
    /\ tmp # Absent
    /\ ledger' = tmp
    /\ tmp' = Absent
    /\ fd' = [v \in Writers |-> CASE fd[v] = "tmp"    -> "ledger"
                                  [] fd[v] = "ledger" -> "unlinked"
                                  [] OTHER            -> fd[v]]
    /\ acked' = acked \cup {list[w][Len(list[w])].id}
    /\ syscall' = [syscall EXCEPT ![w] = "idle"]
    /\ list' = [list EXCEPT ![w] = <<>>]
    /\ UNCHANGED <<calls, seen>>

\* Another writer has already renamed the temporary file away.
RenameFails(w) ==
    /\ syscall[w] = "rename"
    /\ tmp = Absent
    /\ Return(w)
    /\ UNCHANGED <<ledger, tmp, calls, acked, seen>>

\* The process of w dies inside Append.  A new one may take its place.
Crash(w) ==
    /\ syscall[w] # "idle"
    /\ Put(w, PartOf(tmp), PartOf(ledger))
    /\ Return(w)
    /\ UNCHANGED <<calls, acked, seen>>

\* List, for the history page, the report, the baseline check, rollback.
List ==
    /\ Readable(ledger)
    /\ seen' = ledger.recs
    /\ UNCHANGED <<ledger, tmp, fd, syscall, list, calls, acked>>

AppendStep(w) ==
    \/ \E site \in Sites, ok \in BOOLEAN : ReadAndAdd(w, site, ok)
    \/ OpenTmp(w)
    \/ WriteTmp(w)
    \/ WriteFails(w)
    \/ Rename(w)
    \/ RenameFails(w)
    \/ Crash(w)

LedgerNext == List \/ \E w \in Writers : AppendStep(w)

LedgerSpec == LedgerInit /\ [][LedgerNext]_ledgerVars

-----------------------------------------------------------------------------
(* Properties.                                                              *)

\* Types; a writer has a descriptor open only between the open and the end of
\* its write, and holds a list with its own record from the read to the return.
LedgerTypeOK ==
    /\ ledger \in File /\ tmp \in File
    /\ fd \in [Writers -> {"none", "tmp", "ledger", "unlinked"}]
    /\ syscall \in [Writers -> {"idle", "open", "write", "rename"}]
    /\ list \in [Writers -> Seq(Record)]
    /\ \A w \in Writers : fd[w] # "none" <=> syscall[w] = "write"
    /\ \A w \in Writers : syscall[w] # "idle" => Len(list[w]) > 0
    /\ calls \in Nat
    /\ acked \subseteq Nat
    /\ seen \in Seq(Record)

\* The answer of LatestSuccess is the newest matching record of the file, for
\* every site and for any number of writers, although writers overwrite each
\* other's lists and the loop looks at positions and never at times.
LatestIsNewest ==
    \A site \in Sites \cup {AnySite} :
        LET recs == ledger.recs IN
        \A i \in Matching(recs, site) :
            recs[i].id <= LatestSuccess(recs, site).id

\* Every record whose Append returned nil is in the file: the promise of
\* deployment-tool-plan.md 6.12, "each deploy/upgrade/rollback is recorded".
AckedKept ==
    \A id \in acked : \E i \in DOMAIN ledger.recs : ledger.recs[i].id = id

\* A reader never finds a file it cannot parse, although writes fail halfway
\* and processes die in the middle of Append.
AlwaysReadable == Readable(ledger)

\* Nothing that was acknowledged is lost, and what is there can be read.
Durable == AckedKept /\ AlwaysReadable

\* What a reader has seen stays: a later List returns the same records first.
HistoryGrows ==
    [][ /\ Len(seen) <= Len(seen')
        /\ \A i \in 1..Len(seen) : seen'[i] = seen[i] ]_seen

\* The comment of List (store.go:65) says "all records, in descending time".
ListedNewestFirst ==
    \A i, j \in DOMAIN seen : i < j => seen[i].id > seen[j].id

\* The ledger as the log its callers expect.
Log == INSTANCE DeliveryLog WITH log <- ledger.recs, acked <- acked
ImplementsLog == Log!Spec
=============================================================================
