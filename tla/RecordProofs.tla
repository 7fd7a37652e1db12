---------------------------- MODULE RecordProofs ----------------------------
(***************************************************************************)
(* Proofs about the two records that the program keeps of its own past:    *)
(* the deployment ledger (Ledger), and the history of the scripts that a   *)
(* database has seen (SqlApply).  The two have no state in common: what is *)
(* proved of one never cites the other.                                    *)
(*                                                                         *)
(* Ledger, for any writers, sites and number of appends: the types, the    *)
(* newest success (LatestIsNewest), and, for one writer, durability and    *)
(* the refinement of the append-only log.                                  *)
(*                                                                         *)
(* SqlApply, for any package, any number of runners and runs: the history  *)
(* is true (HistoryOK), a script without DDL takes effect exactly once     *)
(* (DmlExactlyOnce), and success means that the package is in the database *)
(* (SuccessMeansApplied).                                                  *)
(***************************************************************************)
EXTENDS Ledger, SqlApply, FiniteSetTheorems, SequenceTheorems, WellFoundedInduction, TLAPS

-----------------------------------------------------------------------------
(* The deployment ledger.                                                   *)

NatLess == {p \in Nat \X Nat : p[1] < p[2]}

\* A non-empty set of naturals has a least element.
LEMMA LeastNatural ==
    ASSUME NEW T \in SUBSET Nat, T # {}
    PROVE  \E x \in T : \A y \in T : x <= y
<1>1. IsWellFoundedOn(NatLess, Nat)
  BY NatLessThanWellFounded DEF NatLess, OpToRel
<1>2. PICK x \in T : \A y \in T : ~(<<y, x>> \in NatLess)
  BY <1>1, WFMin
<1>3. ASSUME NEW y \in T PROVE x <= y
  <2>1. x \in Nat /\ y \in Nat
    OBVIOUS
  <2>2. <<y, x>> \in Nat \X Nat /\ <<y, x>> \notin NatLess
    BY <1>2, <2>1
  <2>3. ~(y < x)
    BY <2>2 DEF NatLess
  <2> QED
    BY <2>1, <2>3
<1> QED
  BY <1>3

\* A non-empty set of naturals up to n has a greatest element.
LEMMA GreatestNatural ==
    ASSUME NEW n \in Nat, NEW S \in SUBSET (0..n), S # {}
    PROVE  \E x \in S : \A y \in S : y <= x
<1> DEFINE T == {n - i : i \in S}
<1>1. T \in SUBSET Nat
  BY SMT
<1>2. T # {}
  <2>1. PICK e \in S : TRUE
    OBVIOUS
  <2>2. n - e \in T
    OBVIOUS
  <2> QED
    BY <2>2
<1>3. PICK x \in T : \A y \in T : x <= y
  <2> HIDE DEF T
  <2> QED
    BY <1>1, <1>2, LeastNatural
<1>4. PICK i \in S : x = n - i
  OBVIOUS
<1>5. ASSUME NEW y \in S PROVE y <= i
  <2>1. n - y \in T
    BY SMT
  <2>2. n - i <= n - y
    BY <1>3, <1>4, <2>1
  <2>3. n \in Nat /\ i \in 0..n /\ y \in 0..n
    OBVIOUS
  <2> QED
    BY <2>2, <2>3
<1> QED
  BY <1>5

-----------------------------------------------------------------------------
(* The files and lists of the model.                                        *)

LEMMA FileFacts ==
    /\ Absent \in File /\ Empty \in File /\ Corrupt \in File
    /\ \A recs \in Seq(Record) : Holding(recs) \in File
    /\ \A old \in File, recs \in Seq(Record) :
          /\ Overlay(old, Holding(recs)) \subseteq {Holding(recs), Corrupt}
          /\ PartOf(old) \subseteq File
BY DEF File, Absent, Empty, Corrupt, Holding, Overlay, PartOf

\* The seven record fields of a file, and what Put can do to the two files.
LEMMA PutFacts ==
    ASSUME NEW w \in Writers, NEW forTmp, NEW forLedger, Put(w, forTmp, forLedger)
    PROVE  /\ tmp' \in forTmp \cup {tmp}
           /\ ledger' \in forLedger \cup {ledger}
BY DEF Put

-----------------------------------------------------------------------------
(* Type correctness.                                                        *)

LEMMA LedgerInitTypeOK == LedgerInit => LedgerTypeOK
BY FileFacts DEF LedgerInit, LedgerTypeOK, File, Absent

LEMMA LedgerNextTypeOK == LedgerTypeOK /\ [LedgerNext]_ledgerVars => LedgerTypeOK'
<1> SUFFICES ASSUME LedgerTypeOK, [LedgerNext]_ledgerVars PROVE LedgerTypeOK'
  OBVIOUS
<1>0. /\ ledger \in File /\ tmp \in File
      /\ ledger.recs \in Seq(Record)
      /\ list \in [Writers -> Seq(Record)]
  BY DEF LedgerTypeOK, File
<1>1. CASE List
  BY <1>0, <1>1 DEF List, LedgerTypeOK
<1>2. ASSUME NEW w \in Writers, NEW site \in Sites, NEW ok \in BOOLEAN,
             ReadAndAdd(w, site, ok)
      PROVE  LedgerTypeOK'
  <2>1. CASE Readable(ledger)
    <3> DEFINE rec == [id |-> calls + 1, site |-> site, ok |-> ok]
               recs == Append(ledger.recs, rec)
    <3>1. rec \in Record
      BY DEF Record, LedgerTypeOK
    <3>2. recs \in Seq(Record) /\ Len(recs) > 0
      BY <1>0, <3>1, AppendProperties
    <3>3. /\ syscall[w] = "idle" /\ syscall' = [syscall EXCEPT ![w] = "open"]
          /\ list' = [list EXCEPT ![w] = recs]
          /\ calls' = calls + 1 /\ UNCHANGED <<ledger, tmp, fd, acked, seen>>
      BY <1>2, <2>1 DEF ReadAndAdd
    <3> HIDE DEF recs
    <3> QED
      BY <3>2, <3>3 DEF LedgerTypeOK
  <2>2. CASE ~Readable(ledger)
    BY <1>2, <2>2 DEF ReadAndAdd, LedgerTypeOK
  <2> QED
    BY <2>1, <2>2
<1>3. ASSUME NEW w \in Writers, OpenTmp(w) PROVE LedgerTypeOK'
  BY <1>3, FileFacts DEF OpenTmp, LedgerTypeOK
<1>4. ASSUME NEW w \in Writers, WriteTmp(w) PROVE LedgerTypeOK'
  <2>1. list[w] \in Seq(Record)
    BY <1>0
  <2>2. /\ Overlay(tmp, Holding(list[w])) \subseteq File
        /\ Overlay(ledger, Holding(list[w])) \subseteq File
    BY <1>0, <2>1, FileFacts
  <2>3. Put(w, Overlay(tmp, Holding(list[w])), Overlay(ledger, Holding(list[w])))
    BY <1>4 DEF WriteTmp
  <2>4. tmp' \in File /\ ledger' \in File
    BY <1>0, <2>2, <2>3, PutFacts
  <2> QED
    BY <1>4, <2>4 DEF WriteTmp, LedgerTypeOK
<1>5. ASSUME NEW w \in Writers, WriteFails(w) \/ Crash(w) PROVE LedgerTypeOK'
  <2>1. PartOf(tmp) \subseteq File /\ PartOf(ledger) \subseteq File
    BY <1>0, FileFacts
  <2>2. Put(w, PartOf(tmp), PartOf(ledger))
    BY <1>5 DEF WriteFails, Crash
  <2>3. tmp' \in File /\ ledger' \in File
    BY <1>0, <2>1, <2>2, PutFacts
  <2>4. Return(w) /\ UNCHANGED <<calls, acked, seen>>
    BY <1>5 DEF WriteFails, Crash
  <2> QED
    BY <2>3, <2>4 DEF Return, LedgerTypeOK
<1>6. ASSUME NEW w \in Writers, Rename(w) PROVE LedgerTypeOK'
  <2>1. list[w] \in Seq(Record) /\ Len(list[w]) > 0
    BY <1>6 DEF Rename, LedgerTypeOK
  <2>2. list[w][Len(list[w])] \in Record
    BY <2>1, LenProperties, ElementOfSeq
  <2>3. acked' \subseteq Nat
    BY <1>6, <2>2 DEF Rename, Record, LedgerTypeOK
  <2>4. /\ fd' \in [Writers -> {"none", "tmp", "ledger", "unlinked"}]
        /\ \A v \in Writers : fd'[v] # "none" <=> fd[v] # "none"
    BY <1>6 DEF Rename, LedgerTypeOK
  <2>5. ledger' \in File /\ tmp' \in File
    BY <1>6, FileFacts DEF Rename, LedgerTypeOK
  <2>6. /\ syscall[w] = "rename" /\ syscall' = [syscall EXCEPT ![w] = "idle"]
        /\ list' = [list EXCEPT ![w] = <<>>]
        /\ UNCHANGED <<calls, seen>>
    BY <1>6 DEF Rename
  <2> QED
    BY <2>3, <2>4, <2>5, <2>6 DEF LedgerTypeOK
<1>7. ASSUME NEW w \in Writers, RenameFails(w) PROVE LedgerTypeOK'
  BY <1>7 DEF RenameFails, Return, LedgerTypeOK
<1>8. CASE UNCHANGED ledgerVars
  BY <1>8 DEF ledgerVars, LedgerTypeOK
<1> QED
  BY <1>1, <1>2, <1>3, <1>4, <1>5, <1>6, <1>7, <1>8 DEF LedgerNext, AppendStep

\* The variables keep their types, and the descriptor and the list of a writer
\* agree with where it is in Append.
THEOREM LedgerTypeCorrect == LedgerSpec => []LedgerTypeOK
BY LedgerInitTypeOK, LedgerNextTypeOK, PTL DEF LedgerSpec

-----------------------------------------------------------------------------
(* Any number of writers: every list of records anybody holds is in the     *)
(* order of the calls, so the last success is the newest.                   *)

InCallOrder(recs, n) ==
    /\ \A i, j \in 1..Len(recs) : i < j => recs[i].id < recs[j].id
    /\ \A i \in 1..Len(recs) : recs[i].id <= n

OrderInv ==
    /\ InCallOrder(ledger.recs, calls)
    /\ InCallOrder(tmp.recs, calls)
    /\ \A w \in Writers : InCallOrder(list[w], calls)

LEMMA IdsAreNumbers ==
    ASSUME NEW recs \in Seq(Record), NEW i \in 1..Len(recs)
    PROVE  recs[i].id \in Nat
<1>1. recs[i] \in Record
  BY ElementOfSeq
<1> QED
  BY <1>1 DEF Record

LEMMA EmptyInOrder == \A n \in Nat : InCallOrder(<<>>, n)
BY DEF InCallOrder

LEMMA LaterInOrder ==
    ASSUME NEW recs \in Seq(Record), NEW n \in Nat, InCallOrder(recs, n)
    PROVE  InCallOrder(recs, n + 1)
<1>1. ASSUME NEW i \in 1..Len(recs) PROVE recs[i].id <= n + 1
  <2>1. recs[i] \in Record
    BY ElementOfSeq
  <2> QED
    BY <2>1 DEF InCallOrder, Record
<1> QED
  BY <1>1 DEF InCallOrder

LEMMA AppendInOrder ==
    ASSUME NEW recs \in Seq(Record), NEW n \in Nat, InCallOrder(recs, n),
           NEW rec \in Record, rec.id = n + 1
    PROVE  InCallOrder(Append(recs, rec), n + 1)
<1> DEFINE more == Append(recs, rec)
<1>1. /\ Len(more) = Len(recs) + 1 /\ Len(recs) \in Nat
      /\ \A i \in 1..Len(recs) : more[i] = recs[i]
      /\ more[Len(recs) + 1] = rec
  BY AppendProperties, LenProperties
<1>2. \A i \in 1..Len(recs) : recs[i].id \in Nat /\ recs[i].id <= n
  BY IdsAreNumbers DEF InCallOrder
<1> HIDE DEF more
<1>3. ASSUME NEW i \in 1..Len(more) PROVE more[i].id <= n + 1
  BY <1>1, <1>2
<1>4. ASSUME NEW i \in 1..Len(more), NEW j \in 1..Len(more), i < j
      PROVE  more[i].id < more[j].id
  <2>1. i \in 1..Len(recs)
    BY <1>1, <1>4
  <2>2. CASE j \in 1..Len(recs)
    BY <1>1, <1>4, <2>1, <2>2 DEF InCallOrder
  <2>3. CASE j = Len(recs) + 1
    BY <1>1, <1>2, <2>1, <2>3
  <2> QED
    BY <1>1, <2>2, <2>3
<1>5. InCallOrder(more, n + 1)
  BY <1>3, <1>4 DEF InCallOrder
<1> QED
  BY <1>5 DEF more

\* The contents a write or a crash leaves hold either nothing or a list that
\* was in order before.
LEMMA OutcomesInOrder ==
    ASSUME NEW old \in File, NEW recs \in Seq(Record), NEW n \in Nat,
           InCallOrder(old.recs, n), InCallOrder(recs, n)
    PROVE  /\ \A f \in Overlay(old, Holding(recs)) : InCallOrder(f.recs, n)
           /\ \A f \in PartOf(old) : InCallOrder(f.recs, n)
BY EmptyInOrder DEF Overlay, PartOf, Holding, Corrupt

LEMMA NextOrder == LedgerTypeOK /\ OrderInv /\ [LedgerNext]_ledgerVars => OrderInv'
<1> SUFFICES ASSUME LedgerTypeOK, OrderInv, [LedgerNext]_ledgerVars PROVE OrderInv'
  OBVIOUS
<1>0. /\ ledger \in File /\ tmp \in File /\ calls \in Nat
      /\ ledger.recs \in Seq(Record) /\ tmp.recs \in Seq(Record)
      /\ list \in [Writers -> Seq(Record)]
      /\ \A w \in Writers : list[w] \in Seq(Record)
      /\ InCallOrder(<<>>, calls)
  BY EmptyInOrder DEF LedgerTypeOK, File
<1>1. CASE List
  BY <1>1 DEF List, OrderInv
<1>2. ASSUME NEW w \in Writers, NEW site \in Sites, NEW ok \in BOOLEAN,
             ReadAndAdd(w, site, ok)
      PROVE  OrderInv'
  <2> DEFINE rec == [id |-> calls + 1, site |-> site, ok |-> ok]
             recs == Append(ledger.recs, rec)
  <2>1. rec \in Record /\ rec.id = calls + 1
    BY <1>0 DEF Record
  <2>2. InCallOrder(recs, calls + 1)
    BY <1>0, <2>1, AppendInOrder DEF OrderInv
  <2>3. \A v \in Writers : InCallOrder(list[v], calls + 1)
    BY <1>0, LaterInOrder DEF OrderInv
  <2>4. InCallOrder(ledger.recs, calls + 1) /\ InCallOrder(tmp.recs, calls + 1)
    BY <1>0, LaterInOrder DEF OrderInv
  <2>5. /\ list' = [list EXCEPT ![w] = recs] \/ list' = list
        /\ calls' = calls + 1 /\ UNCHANGED <<ledger, tmp>>
    BY <1>2 DEF ReadAndAdd
  <2> HIDE DEF recs
  <2>6. \A v \in Writers : list'[v] = list[v] \/ list'[v] = recs
    BY <1>0, <2>5
  <2> QED
    BY <2>2, <2>3, <2>4, <2>5, <2>6 DEF OrderInv
<1>3. ASSUME NEW w \in Writers, OpenTmp(w) PROVE OrderInv'
  BY <1>0, <1>3 DEF OpenTmp, OrderInv, Empty
<1>4. ASSUME NEW w \in Writers, WriteTmp(w) PROVE OrderInv'
  <2>1. Put(w, Overlay(tmp, Holding(list[w])), Overlay(ledger, Holding(list[w])))
    BY <1>4 DEF WriteTmp
  <2>2. InCallOrder(tmp'.recs, calls) /\ InCallOrder(ledger'.recs, calls)
    BY <1>0, <2>1, PutFacts, OutcomesInOrder DEF OrderInv
  <2> QED
    BY <1>4, <2>2 DEF WriteTmp, OrderInv
<1>5. ASSUME NEW w \in Writers, WriteFails(w) \/ Crash(w) PROVE OrderInv'
  <2>1. /\ Put(w, PartOf(tmp), PartOf(ledger))
        /\ Return(w) /\ calls' = calls
    BY <1>5 DEF WriteFails, Crash
  <2>2. InCallOrder(tmp'.recs, calls) /\ InCallOrder(ledger'.recs, calls)
    BY <1>0, <2>1, PutFacts, OutcomesInOrder DEF OrderInv
  <2>3. \A v \in Writers : list'[v] = list[v] \/ list'[v] = <<>>
    BY <1>0, <2>1 DEF Return
  <2> QED
    BY <1>0, <2>1, <2>2, <2>3 DEF OrderInv
<1>6. ASSUME NEW w \in Writers, Rename(w) PROVE OrderInv'
  <2>1. \A v \in Writers : list'[v] = list[v] \/ list'[v] = <<>>
    BY <1>0, <1>6 DEF Rename
  <2>2. ledger' = tmp /\ tmp'.recs = <<>> /\ calls' = calls
    BY <1>6 DEF Rename, Absent
  <2> QED
    BY <1>0, <2>1, <2>2 DEF OrderInv
<1>7. ASSUME NEW w \in Writers, RenameFails(w) PROVE OrderInv'
  <2>1. \A v \in Writers : list'[v] = list[v] \/ list'[v] = <<>>
    BY <1>0, <1>7 DEF RenameFails, Return
  <2> QED
    BY <1>0, <1>7, <2>1 DEF RenameFails, OrderInv
<1>8. CASE UNCHANGED ledgerVars
  BY <1>8 DEF ledgerVars, OrderInv
<1> QED
  BY <1>1, <1>2, <1>3, <1>4, <1>5, <1>6, <1>7, <1>8 DEF LedgerNext, AppendStep

\* In a list in call order, the last match is the newest.
LEMMA LastIsNewest ==
    ASSUME NEW recs \in Seq(Record), NEW n, InCallOrder(recs, n),
           NEW site, NEW i \in Matching(recs, site)
    PROVE  recs[i].id <= LatestSuccess(recs, site).id
<1> DEFINE M == Matching(recs, site)
<1>1. Len(recs) \in Nat /\ DOMAIN recs = 1..Len(recs)
  BY LenProperties
<1>2. M \in SUBSET (0..Len(recs)) /\ M \subseteq 1..Len(recs) /\ i \in M
  BY <1>1 DEF Matching
<1> DEFINE k == CHOOSE x \in M : \A y \in M : y <= x
<1>3. k \in M /\ \A y \in M : y <= k
  <2> HIDE DEF M
  <2> QED
    BY <1>1, <1>2, GreatestNatural
<1>4. LatestSuccess(recs, site) = recs[k]
  BY <1>2 DEF LatestSuccess
<1> HIDE DEF k, M
<1>5. i <= k /\ i \in 1..Len(recs) /\ k \in 1..Len(recs)
  BY <1>2, <1>3
<1>6. recs[i].id \in Nat /\ recs[k].id \in Nat
  BY <1>5, IdsAreNumbers
<1>7. recs[i].id <= recs[k].id
  BY <1>1, <1>5, <1>6 DEF InCallOrder
<1> QED
  BY <1>4, <1>7

\* Whatever the writers do to each other's lists, the record that the upgrade
\* baseline check and the report read is the newest success in the file.
THEOREM NewestSuccessIsRead == LedgerSpec => []LatestIsNewest
<1>1. LedgerInit => OrderInv
  BY EmptyInOrder DEF LedgerInit, OrderInv, Absent
<1>2. LedgerTypeOK /\ OrderInv => LatestIsNewest
  <2> SUFFICES ASSUME LedgerTypeOK, OrderInv, NEW site,
                      NEW i \in Matching(ledger.recs, site)
               PROVE  ledger.recs[i].id <= LatestSuccess(ledger.recs, site).id
    BY DEF LatestIsNewest
  <2>1. ledger.recs \in Seq(Record) /\ InCallOrder(ledger.recs, calls)
    BY DEF LedgerTypeOK, File, OrderInv
  <2> QED
    BY <2>1, LastIsNewest
<1> QED
  BY <1>1, <1>2, NextOrder, LedgerTypeCorrect, PTL DEF LedgerSpec

-----------------------------------------------------------------------------
(* One Append at a time: the ledger is the log of DeliveryLog.  The         *)
(* strengthening says where the bytes are: a list in memory extends the     *)
(* file by one record, and what is about to be renamed is that list.        *)

SoleWriter == \A v, w \in Writers : v = w

ExtendsBy(longer, recs) ==
    /\ Len(longer) = Len(recs) + 1
    /\ \A i \in 1..Len(recs) : longer[i] = recs[i]

SoloInv ==
    /\ Readable(ledger)
    /\ \A w \in Writers :
          /\ fd[w] \in {"none", "tmp"}
          /\ syscall[w] # "idle" => ExtendsBy(list[w], ledger.recs)
          /\ syscall[w] = "write" => tmp = Empty
          /\ syscall[w] = "rename" => tmp = Holding(list[w])
    /\ \A id \in acked : \E i \in 1..Len(ledger.recs) : ledger.recs[i].id = id
    /\ Len(seen) <= Len(ledger.recs)
    /\ \A i \in 1..Len(seen) : seen[i] = ledger.recs[i]

LEMMA InitSolo == LedgerInit => SoloInv
BY DEF LedgerInit, SoloInv, Absent, Readable

\* As long as the file and what was promised about it stay the same, only the
\* writer's own position matters.
LEMMA SoloStep ==
    ASSUME SoleWriter, SoloInv, NEW w \in Writers,
           UNCHANGED <<ledger, acked, seen>>,
           /\ fd'[w] \in {"none", "tmp"}
           /\ syscall'[w] # "idle" => ExtendsBy(list'[w], ledger.recs)
           /\ syscall'[w] = "write" => tmp' = Empty
           /\ syscall'[w] = "rename" => tmp' = Holding(list'[w])
    PROVE  SoloInv'
<1>1. \A v \in Writers : v = w
  BY DEF SoleWriter
<1> QED
  BY <1>1 DEF SoloInv

\* The rename is the commit: the file grows by the writer's record.
LEMMA RenameCommits ==
    ASSUME SoleWriter, LedgerTypeOK, SoloInv, NEW w \in Writers, Rename(w)
    PROVE  /\ ledger' = Holding(list[w])
           /\ ExtendsBy(ledger'.recs, ledger.recs)
           /\ acked' = acked \cup {ledger'.recs[Len(ledger.recs) + 1].id}
           /\ Len(ledger.recs) \in Nat
<1>1. syscall[w] = "rename" /\ ledger' = tmp
  BY DEF Rename
<1>2. ledger' = Holding(list[w]) /\ ExtendsBy(list[w], ledger.recs)
  BY <1>1 DEF SoloInv
<1>3. ledger'.recs = list[w]
  BY <1>2 DEF Holding
<1>4. Len(list[w]) = Len(ledger.recs) + 1
  BY <1>2 DEF ExtendsBy
<1>5. acked' = acked \cup {list[w][Len(list[w])].id}
  BY DEF Rename
<1>6. ledger.recs \in Seq(Record)
  BY DEF LedgerTypeOK, File
<1> QED
  BY <1>2, <1>3, <1>4, <1>5, <1>6, LenProperties

LEMMA NextSolo ==
    ASSUME SoleWriter
    PROVE  LedgerTypeOK /\ SoloInv /\ [LedgerNext]_ledgerVars => SoloInv'
<1> SUFFICES ASSUME LedgerTypeOK, SoloInv, [LedgerNext]_ledgerVars PROVE SoloInv'
  OBVIOUS
<1>0. /\ ledger.recs \in Seq(Record)
      /\ list \in [Writers -> Seq(Record)]
      /\ syscall \in [Writers -> {"idle", "open", "write", "rename"}]
      /\ fd \in [Writers -> {"none", "tmp", "ledger", "unlinked"}]
      /\ calls \in Nat
      /\ Len(ledger.recs) \in Nat
  BY LenProperties DEF LedgerTypeOK, File
<1>1. CASE List
  BY <1>0, <1>1 DEF List, SoloInv
<1>2. ASSUME NEW w \in Writers, NEW site \in Sites, NEW ok \in BOOLEAN,
             ReadAndAdd(w, site, ok)
      PROVE  SoloInv'
  <2> DEFINE rec == [id |-> calls + 1, site |-> site, ok |-> ok]
             recs == Append(ledger.recs, rec)
  <2>1. rec \in Record
    BY <1>0 DEF Record
  <2>2. ExtendsBy(recs, ledger.recs)
    BY <1>0, <2>1, AppendProperties DEF ExtendsBy
  <2>3. /\ syscall' = [syscall EXCEPT ![w] = "open"] /\ list' = [list EXCEPT ![w] = recs]
        /\ UNCHANGED <<ledger, tmp, fd, acked, seen>>
    BY <1>2 DEF ReadAndAdd, SoloInv
  <2> HIDE DEF recs
  <2>4. syscall'[w] = "open" /\ list'[w] = recs
    BY <1>0, <2>3
  <2>5. fd'[w] \in {"none", "tmp"}
    BY <2>3 DEF SoloInv
  <2> QED
    BY <2>2, <2>3, <2>4, <2>5, SoloStep
<1>3. ASSUME NEW w \in Writers, OpenTmp(w) PROVE SoloInv'
  <2>1. /\ syscall[w] = "open" /\ syscall'[w] = "write" /\ fd'[w] = "tmp" /\ tmp' = Empty
        /\ UNCHANGED <<ledger, list, acked, seen>>
    BY <1>0, <1>3 DEF OpenTmp
  <2>2. ExtendsBy(list[w], ledger.recs)
    BY <2>1 DEF SoloInv
  <2> QED
    BY <2>1, <2>2, SoloStep
<1>4. ASSUME NEW w \in Writers, WriteTmp(w) PROVE SoloInv'
  <2>1. /\ syscall[w] = "write" /\ syscall'[w] = "rename" /\ fd'[w] = "none"
        /\ Put(w, Overlay(tmp, Holding(list[w])), Overlay(ledger, Holding(list[w])))
        /\ UNCHANGED <<list, acked, seen>>
    BY <1>0, <1>4 DEF WriteTmp
  <2>2. fd[w] = "tmp" /\ tmp = Empty /\ ExtendsBy(list[w], ledger.recs)
    BY <2>1 DEF SoloInv, LedgerTypeOK
  <2>3. ledger' = ledger /\ tmp' = Holding(list[w])
    BY <2>1, <2>2 DEF Put, Overlay
  <2> QED
    BY <2>1, <2>2, <2>3, SoloStep
<1>5. ASSUME NEW w \in Writers, WriteFails(w) \/ Crash(w) PROVE SoloInv'
  <2>1. /\ Put(w, PartOf(tmp), PartOf(ledger)) /\ Return(w)
        /\ UNCHANGED <<acked, seen>>
    BY <1>5 DEF WriteFails, Crash
  <2>2. fd[w] # "ledger"
    BY DEF SoloInv
  <2>3. ledger' = ledger
    BY <2>1, <2>2 DEF Put
  <2>4. syscall'[w] = "idle" /\ fd'[w] = "none"
    BY <1>0, <2>1 DEF Return
  <2> QED
    BY <2>1, <2>3, <2>4, SoloStep
<1>6. ASSUME NEW w \in Writers, Rename(w) PROVE SoloInv'
  <2> DEFINE n == Len(ledger.recs)
  <2>1. /\ ledger' = Holding(list[w]) /\ ExtendsBy(ledger'.recs, ledger.recs)
        /\ acked' = acked \cup {ledger'.recs[n + 1].id} /\ n \in Nat
    BY <1>6, RenameCommits
  <2>2. /\ syscall' = [syscall EXCEPT ![w] = "idle"] /\ seen' = seen
        /\ fd' = [v \in Writers |-> CASE fd[v] = "tmp"    -> "ledger"
                                      [] fd[v] = "ledger" -> "unlinked"
                                      [] OTHER            -> fd[v]]
    BY <1>6 DEF Rename
  <2>3. fd[w] = "none"
    BY <1>6 DEF Rename, LedgerTypeOK
  <2>4. \A v \in Writers : syscall'[v] = "idle" /\ fd'[v] = "none"
    BY <1>0, <2>2, <2>3 DEF SoleWriter
  <2>5. Readable(ledger')
    BY <2>1 DEF Holding, Readable
  <2>6. Len(ledger'.recs) = n + 1 /\ \A i \in 1..n : ledger'.recs[i] = ledger.recs[i]
    BY <2>1 DEF ExtendsBy
  <2>7. \A id \in acked' : \E i \in 1..Len(ledger'.recs) : ledger'.recs[i].id = id
    <3>1. ASSUME NEW id \in acked PROVE \E i \in 1..(n + 1) : ledger'.recs[i].id = id
      <4>1. PICK i \in 1..n : ledger.recs[i].id = id
        BY DEF SoloInv
      <4>2. i \in 1..(n + 1) /\ ledger'.recs[i].id = id
        BY <2>1, <2>6, <4>1
      <4> QED
        BY <4>2
    <3>2. n + 1 \in 1..(n + 1)
      BY <2>1
    <3> QED
      BY <2>1, <2>6, <3>1, <3>2
  <2>8. /\ Len(seen) <= n + 1
        /\ \A i \in 1..Len(seen) : seen[i] = ledger'.recs[i]
    <3>1. Len(seen) \in Nat /\ Len(seen) <= n /\ \A i \in 1..Len(seen) : seen[i] = ledger.recs[i]
      BY LenProperties DEF SoloInv, LedgerTypeOK
    <3> QED
      BY <2>1, <2>6, <3>1
  <2> QED
    BY <2>2, <2>4, <2>5, <2>6, <2>7, <2>8 DEF SoloInv
<1>7. ASSUME NEW w \in Writers, RenameFails(w) PROVE SoloInv'
  <2>1. /\ syscall'[w] = "idle" /\ fd'[w] = "none"
        /\ UNCHANGED <<ledger, acked, seen>>
    BY <1>0, <1>7 DEF RenameFails, Return
  <2> QED
    BY <2>1, SoloStep
<1>8. CASE UNCHANGED ledgerVars
  BY <1>8 DEF ledgerVars, SoloInv
<1> QED
  BY <1>1, <1>2, <1>3, <1>4, <1>5, <1>6, <1>7, <1>8 DEF LedgerNext, AppendStep

\* With one Append at a time, every acknowledged record stays in the file and
\* the file can always be read, whatever fails or dies in between.
THEOREM SoloDurable == ASSUME SoleWriter PROVE LedgerSpec => []Durable
<1>1. LedgerTypeOK /\ SoloInv => Durable
  BY LenProperties DEF SoloInv, Durable, AckedKept, AlwaysReadable, LedgerTypeOK, File
<1> QED
  BY <1>1, InitSolo, NextSolo, LedgerTypeCorrect, PTL DEF LedgerSpec

\* With one Append at a time, the file-backed ledger is the append-only log.
THEOREM SoloImplementsLog == ASSUME SoleWriter PROVE LedgerSpec => ImplementsLog
<1>1. LedgerInit => Log!Init
  BY DEF LedgerInit, Log!Init, Absent
<1>2. ASSUME LedgerTypeOK, SoloInv, [LedgerNext]_ledgerVars
      PROVE  [Log!Commit]_Log!logVars
  <2>1. ASSUME NEW w \in Writers, Rename(w) PROVE Log!Commit
    <3>1. /\ ExtendsBy(ledger'.recs, ledger.recs) /\ Len(ledger.recs) \in Nat
          /\ acked' = acked \cup {ledger'.recs[Len(ledger.recs) + 1].id}
      BY <1>2, <2>1, RenameCommits
    <3> QED
      BY <3>1 DEF Log!Commit, ExtendsBy
  <2>2. ASSUME NEW w \in Writers,
               WriteTmp(w) \/ WriteFails(w) \/ Crash(w)
        PROVE  UNCHANGED <<ledger, acked>>
    <3>1. fd[w] # "ledger"
      BY <1>2 DEF SoloInv
    <3> QED
      BY <2>2, <3>1 DEF WriteTmp, WriteFails, Crash, Put
  <2>3. ASSUME NEW w \in Writers, NEW site \in Sites, NEW ok \in BOOLEAN,
               ReadAndAdd(w, site, ok) \/ OpenTmp(w) \/ RenameFails(w) \/ List
        PROVE  UNCHANGED <<ledger, acked>>
    BY <2>3 DEF ReadAndAdd, OpenTmp, RenameFails, List
  <2>4. CASE List \/ UNCHANGED ledgerVars
    BY <2>4 DEF List, ledgerVars, Log!logVars
  <2>5. CASE \E w \in Writers : AppendStep(w)
    <3>1. PICK w \in Writers : AppendStep(w)
      BY <2>5
    <3>2. Log!Commit \/ UNCHANGED <<ledger, acked>>
      BY <3>1, <2>1, <2>2, <2>3 DEF AppendStep, OpenTmp, RenameFails
    <3> QED
      BY <3>2 DEF Log!logVars
  <2> QED
    BY <1>2, <2>4, <2>5 DEF LedgerNext
<1> QED
  BY <1>1, <1>2, InitSolo, NextSolo, LedgerTypeCorrect, PTL DEF LedgerSpec, ImplementsLog, Log!Spec

\* With one Append at a time, a reader's next view extends its last one.
THEOREM SoloHistoryGrows == ASSUME SoleWriter PROVE LedgerSpec => HistoryGrows
<1> DEFINE Grows == /\ Len(seen) <= Len(seen')
                    /\ \A i \in 1..Len(seen) : seen'[i] = seen[i]
<1>1. ASSUME SoloInv, [LedgerNext]_ledgerVars PROVE [Grows]_seen
  <2>1. CASE List
    BY <1>1, <2>1 DEF List, SoloInv
  <2>2. CASE ~List
    BY <1>1, <2>2 DEF LedgerNext, AppendStep, ReadAndAdd, OpenTmp, WriteTmp, WriteFails,
                      Rename, RenameFails, Crash, ledgerVars
  <2> QED
    BY <2>1, <2>2
<1> QED
  BY <1>1, InitSolo, NextSolo, LedgerTypeCorrect, PTL DEF LedgerSpec, HistoryGrows

-----------------------------------------------------------------------------
(* The history of scripts.                                                  *)

\* A row that waits for its commit is the first of its name, and of a script
\* without DDL; a second runner with the same name waits.
Locked ==
    \A r \in Runners : pc[r] = "commit" =>
        /\ Script(r) \notin Ddl /\ RowsOf(Script(r)) = {}
        /\ \A q \in Runners : pc[q] = "commit" /\ Script(q) = Script(r) => q = r

\* What DDL has done is done before its row is inserted.
Executed(s) == \E k \in DOMAIN done[s] : done[s][k] = content[s]
DdlFirst == \A r \in Runners : pc[r] = "insert" /\ Script(r) \in Ddl => Executed(Script(r))

\* A script without DDL has taken effect once if it has a row, else never.
OnceIfRow == \A s \in Scripts \ Ddl : Len(done[s]) = IF RowsOf(s) = {} THEN 0 ELSE 1

\* What a runner has passed is in the history as it is in the package.
Passed ==
    \A r \in Runners \ dry : pc[r] # "idle" => \A i \in 1..(next[r] - 1) : SameRow(Order[i])

\* What a run has to say ends with the next one, and there is none before.
AllApplied == \A r \in Runners \ dry : outcome[r] = "ok" => \A s \in Scripts : SameRow(s)

SqlInv == HistoryOK /\ Locked /\ DdlFirst /\ OnceIfRow /\ Passed /\ AllApplied

-----------------------------------------------------------------------------
(* Rows and places.                                                         *)

\* Where a runner is.
LEMMA ScriptIsThere ==
    ASSUME TypeOK, NEW r \in Runners, AtScript(r)
    PROVE  Script(r) \in Scripts /\ next[r] \in 1..Len(Order) /\ next[r] + 1 \in 1..(Len(Order) + 1)
<1>1. Order \in Seq(Scripts) /\ Len(Order) \in Nat
  BY SqlAssumption
<1>2. next[r] \in 1..Len(Order)
  BY <1>1 DEF TypeOK, AtScript
<1>3. DOMAIN Order = 1..Len(Order)
  BY <1>1
<1> QED
  BY <1>1, <1>2, <1>3 DEF Script, Scripts

\* Rows are of scripts.
LEMMA RowScript == ASSUME TypeOK PROVE \A i \in DOMAIN history : history[i].script \in Scripts
<1>1. history \in Seq(Row)
  BY DEF TypeOK
<1>2. \A i \in DOMAIN history : history[i] \in Row
  BY <1>1, ElementOfSeq
<1> QED
  BY <1>2 DEF Row

\* What a new row does to the rows of each script.
LEMMA RowAdded ==
    ASSUME TypeOK, NEW s \in Scripts, AddRow(s)
    PROVE  /\ history' \in Seq(Row) /\ Len(history') = Len(history) + 1 /\ Len(history) \in Nat
           /\ \A i \in DOMAIN history : history'[i] = history[i]
           /\ history'[Len(history) + 1] = [script |-> s, sum |-> content[s]]
           /\ \A t : RowsOf(t)' = IF t = s THEN RowsOf(t) \cup {Len(history) + 1} ELSE RowsOf(t)
<1> DEFINE row == [script |-> s, sum |-> content[s]]
<1>1. row \in Row /\ history \in Seq(Row) /\ row.script = s
  BY DEF TypeOK, Row
<1>2. history' = Append(history, row)
  BY DEF AddRow
<1> HIDE DEF row
<1>3. /\ history' \in Seq(Row) /\ Len(history') = Len(history) + 1 /\ Len(history) \in Nat
      /\ \A i \in 1..Len(history) : history'[i] = history[i]
      /\ history'[Len(history) + 1] = row
  BY <1>1, <1>2, AppendProperties
<1>4. DOMAIN history = 1..Len(history) /\ DOMAIN history' = 1..(Len(history) + 1)
  BY <1>1, <1>3
<1>5. ASSUME NEW t PROVE RowsOf(t)' = IF t = s THEN RowsOf(t) \cup {Len(history) + 1} ELSE RowsOf(t)
  BY <1>1, <1>3, <1>4 DEF RowsOf
<1> QED
  BY <1>3, <1>4, <1>5 DEF row

\* What is in the history stays there, under the same contents.
LEMMA SameRowStays ==
    ASSUME TypeOK, content' = content, NEW s,
           history' = history \/ \E t \in Scripts : AddRow(t), SameRow(s)
    PROVE  SameRow(s)'
<1>1. PICK i \in RowsOf(s) : history[i].sum = content[s]
  BY DEF SameRow
<1>2. CASE history' = history
  BY <1>1, <1>2 DEF SameRow, RowsOf
<1>3. CASE \E t \in Scripts : AddRow(t)
  <2>1. PICK t \in Scripts : AddRow(t)
    BY <1>3
  <2>2. i \in DOMAIN history
    BY <1>1 DEF RowsOf
  <2>3. i \in RowsOf(s)' /\ history'[i] = history[i]
    BY <1>1, <2>1, <2>2, RowAdded
  <2> QED
    BY <1>1, <2>3 DEF SameRow
<1> QED
  BY <1>2, <1>3


-----------------------------------------------------------------------------
(* A step of one runner.                                                    *)

Elsewhere(r) == \A q \in Runners \ {r} :
    /\ pc'[q] = pc[q] /\ next'[q] = next[q] /\ outcome'[q] = outcome[q]
    /\ q \in dry' <=> q \in dry

\* What is to be shown of the runner itself.
RunnerGood(r) ==
    /\ pc[r] = "commit" => /\ Script(r) \notin Ddl /\ RowsOf(Script(r)) = {}
                           /\ \A q \in Runners \ {r} : ~(pc[q] = "commit" /\ Script(q) = Script(r))
    /\ pc[r] = "insert" /\ Script(r) \in Ddl => Executed(Script(r))
    /\ r \notin dry /\ pc[r] # "idle" => \A i \in 1..(next[r] - 1) : SameRow(Order[i])
    /\ r \notin dry /\ outcome[r] = "ok" => \A s \in Scripts : SameRow(s)

\* All of the invariant, from what the step does to the database and to its
\* runner.
LEMMA RunnerStep ==
    ASSUME SqlInv, TypeOK', HistoryIsTrue', OnceIfRow', NEW r \in Runners, Elsewhere(r), RunnerGood(r)',
           \A s : SameRow(s) => SameRow(s)',
           \A s \in Scripts : Executed(s) => Executed(s)',
           \A q \in Runners \ {r} : pc[q] = "commit" => RowsOf(Script(q))' = {}
    PROVE  SqlInv'
<1>1. \A q \in Runners \ {r} : Script(q)' = Script(q)
  BY DEF Elsewhere, Script
<1>2. Locked'
  <2>1. ASSUME NEW q \in Runners, pc'[q] = "commit"
        PROVE  /\ Script(q)' \notin Ddl /\ RowsOf(Script(q))' = {}
               /\ \A p \in Runners : pc'[p] = "commit" /\ Script(p)' = Script(q)' => p = q
    <3>1. CASE q = r
      BY <2>1, <3>1, <1>1 DEF RunnerGood, Elsewhere
    <3>2. CASE q # r
      BY <2>1, <3>2, <1>1 DEF RunnerGood, Elsewhere, SqlInv, Locked
    <3> QED
      BY <3>1, <3>2
  <2> QED
    BY <2>1 DEF Locked
<1>3. DdlFirst'
  <2>1. ASSUME NEW q \in Runners, pc'[q] = "insert", Script(q)' \in Ddl PROVE Executed(Script(q))'
    <3>1. CASE q = r
      BY <2>1, <3>1 DEF RunnerGood
    <3>2. CASE q # r
      <4>1. pc[q] = "insert" /\ Script(q) \in Ddl /\ Script(q)' = Script(q)
        BY <2>1, <3>2, <1>1 DEF Elsewhere
      <4>2. Executed(Script(q)) /\ Script(q) \in Scripts
        BY <4>1, ScriptIsThere DEF SqlInv, DdlFirst, HistoryOK, TypeOK
      <4> QED
        BY <4>1, <4>2
    <3> QED
      BY <3>1, <3>2
  <2> QED
    BY <2>1 DEF DdlFirst
<1>4. Passed'
  <2>1. ASSUME NEW q \in Runners, q \notin dry', pc'[q] # "idle", NEW i \in 1..(next'[q] - 1) PROVE SameRow(Order[i])'
    <3>1. CASE q = r
      BY <2>1, <3>1 DEF RunnerGood
    <3>2. CASE q # r
      <4>1. SameRow(Order[i])
        BY <2>1, <3>2 DEF Elsewhere, SqlInv, Passed
      <4> QED
        BY <4>1
    <3> QED
      BY <3>1, <3>2
  <2> QED
    BY <2>1 DEF Passed
<1>5. AllApplied'
  <2>1. ASSUME NEW q \in Runners, q \notin dry', outcome'[q] = "ok", NEW s \in Scripts PROVE SameRow(s)'
    <3>1. CASE q = r
      BY <2>1, <3>1 DEF RunnerGood
    <3>2. CASE q # r
      <4>1. SameRow(s)
        BY <2>1, <3>2 DEF Elsewhere, SqlInv, AllApplied
      <4> QED
        BY <4>1
    <3> QED
      BY <3>1, <3>2
  <2> QED
    BY <2>1 DEF AllApplied
<1> QED
  BY <1>2, <1>3, <1>4, <1>5 DEF SqlInv, HistoryOK

\* A step that leaves the database alone.
LEMMA PlainStep ==
    ASSUME SqlInv, TypeOK', NEW r \in Runners, Elsewhere(r), RunnerGood(r)', UNCHANGED <<content, history, done>>
    PROVE  SqlInv'
<1>1. HistoryIsTrue' /\ OnceIfRow'
  BY DEF SqlInv, HistoryOK, HistoryIsTrue, OnceIfRow, RowsOf
<1>2. \A s : SameRow(s) => SameRow(s)'
  BY DEF SameRow, RowsOf
<1>3. \A s \in Scripts : Executed(s) => Executed(s)'
  BY DEF Executed
<1>4. \A q \in Runners \ {r} : pc[q] = "commit" => RowsOf(Script(q))' = {}
  BY DEF SqlInv, Locked, Elsewhere, RowsOf, Script
<1> QED
  BY <1>1, <1>2, <1>3, <1>4, RunnerStep

\* A run that ends with an error, wherever it is.
LEMMA LeaveSafe ==
    ASSUME SqlInv, NEW r \in Runners, Leave(r, "error"), UNCHANGED <<content, next, dry, history, done, runs>>
    PROVE  SqlInv'
<1>1. TypeOK'
  BY DEF SqlInv, HistoryOK, TypeOK, Leave, AtScript
<1>2. Elsewhere(r) /\ pc'[r] = "idle" /\ outcome'[r] = "error"
  BY DEF SqlInv, HistoryOK, TypeOK, Leave, Elsewhere
<1>3. RunnerGood(r)'
  BY <1>2 DEF RunnerGood
<1> QED
  BY <1>1, <1>2, <1>3, PlainStep

LEMMA StartSafe == ASSUME SqlInv, NEW r \in Runners, Start(r) PROVE SqlInv'
<1>1. Len(Order) \in Nat
  BY SqlAssumption
<1>2. TypeOK'
  BY <1>1 DEF SqlInv, HistoryOK, TypeOK, Start, AtScript
<1>3. Elsewhere(r) /\ pc'[r] = "check" /\ next'[r] = 1 /\ outcome'[r] = "none" /\ UNCHANGED <<content, history, done>>
  BY DEF SqlInv, HistoryOK, TypeOK, Start, Elsewhere
<1>4. RunnerGood(r)'
  BY <1>3 DEF RunnerGood
<1> QED
  BY <1>2, <1>3, <1>4, PlainStep

LEMMA DisabledSafe == ASSUME SqlInv, NEW r \in Runners, Disabled(r) PROVE SqlInv'
<1>1. TypeOK'
  BY DEF SqlInv, HistoryOK, TypeOK, Disabled, Leave, AtScript
<1>2. Elsewhere(r) /\ pc'[r] = "idle" /\ outcome'[r] = "skipped" /\ UNCHANGED <<content, history, done>>
  BY DEF SqlInv, HistoryOK, TypeOK, Disabled, Leave, Elsewhere
<1>3. RunnerGood(r)'
  BY <1>2 DEF RunnerGood
<1> QED
  BY <1>1, <1>2, <1>3, PlainStep

\* Success: there is no script that was not passed.
LEMMA EndSafe == ASSUME SqlInv, NEW r \in Runners, End(r) PROVE SqlInv'
<1>1. TypeOK'
  BY DEF SqlInv, HistoryOK, TypeOK, End, Leave, AtScript
<1>2. Elsewhere(r) /\ pc'[r] = "idle" /\ UNCHANGED <<content, history, done>>
  BY DEF SqlInv, HistoryOK, TypeOK, End, Leave, Elsewhere
<1>3. ASSUME r \notin dry', NEW s \in Scripts PROVE SameRow(s)'
  <2>1. Order \in Seq(Scripts) /\ Len(Order) \in Nat /\ DOMAIN Order = 1..Len(Order)
    BY SqlAssumption
  <2>2. PICK i \in 1..Len(Order) : s = Order[i]
    BY <2>1 DEF Scripts
  <2>3. pc[r] = "check" /\ next[r] \in Nat /\ next[r] > Len(Order) /\ r \notin dry
    BY <1>3, <2>1 DEF End, AtScript, SqlInv, HistoryOK, TypeOK
  <2>4. SameRow(s)
    BY <2>1, <2>2, <2>3 DEF SqlInv, Passed
  <2> QED
    BY <1>2, <2>4 DEF SameRow, RowsOf
<1>4. RunnerGood(r)'
  BY <1>2, <1>3 DEF RunnerGood
<1> QED
  BY <1>1, <1>2, <1>4, PlainStep

\* The next script, if the one before is in the history.
LEMMA PassSafe ==
    ASSUME SqlInv, NEW r \in Runners, pc[r] = "check", AtScript(r), Proceed(r), r \in dry \/ SameRow(Script(r)),
           UNCHANGED <<content, dry, history, done, runs>>
    PROVE  SqlInv'
<1>1. next[r] \in 1..Len(Order) /\ next[r] + 1 \in 1..(Len(Order) + 1)
  BY ScriptIsThere DEF SqlInv, HistoryOK
<1>2. TypeOK'
  BY <1>1 DEF SqlInv, HistoryOK, TypeOK, Proceed, AtScript
<1>3. Elsewhere(r) /\ pc'[r] = "check" /\ next'[r] = next[r] + 1 /\ outcome'[r] = outcome[r]
  BY DEF SqlInv, HistoryOK, TypeOK, Proceed, Elsewhere
<1>4. r \notin dry => \A i \in 1..next[r] : SameRow(Order[i])
  BY <1>1 DEF SqlInv, Passed, Script
<1>5. r \notin dry => \A i \in 1..(next'[r] - 1) : SameRow(Order[i])'
  BY <1>1, <1>3, <1>4 DEF SameRow, RowsOf
<1>6. r \notin dry /\ outcome'[r] = "ok" => \A s \in Scripts : SameRow(s)'
  BY <1>3 DEF SqlInv, AllApplied, SameRow, RowsOf
<1>7. RunnerGood(r)'
  BY <1>3, <1>5, <1>6 DEF RunnerGood
<1> QED
  BY <1>2, <1>3, <1>7, PlainStep

-----------------------------------------------------------------------------
(* Steps that change the database.                                          *)

AddDone(s) == done' = [done EXCEPT ![s] = Append(@, content[s])]

LEMMA DoneAdded ==
    ASSUME TypeOK, NEW s \in Scripts, AddDone(s)
    PROVE  /\ done' \in [Scripts -> Seq(Content)]
           /\ Len(done'[s]) = Len(done[s]) + 1 /\ Len(done[s]) \in Nat
           /\ \A t \in Scripts : \A k \in DOMAIN done[t] : k \in DOMAIN done'[t] /\ done'[t][k] = done[t][k]
           /\ Len(done[s]) + 1 \in DOMAIN done'[s] /\ done'[s][Len(done[s]) + 1] = content[s]
           /\ \A t \in Scripts \ {s} : done'[t] = done[t]
<1>1. done \in [Scripts -> Seq(Content)] /\ done[s] \in Seq(Content) /\ content[s] \in Content
  BY DEF TypeOK
<1> DEFINE new == Append(done[s], content[s])
<1>2. /\ new \in Seq(Content) /\ Len(new) = Len(done[s]) + 1 /\ Len(done[s]) \in Nat
      /\ \A k \in 1..Len(done[s]) : new[k] = done[s][k]
      /\ new[Len(done[s]) + 1] = content[s]
  BY <1>1, AppendProperties
<1>3. done' = [done EXCEPT ![s] = new]
  BY DEF AddDone
<1>4. DOMAIN done[s] = 1..Len(done[s]) /\ DOMAIN new = 1..(Len(done[s]) + 1)
  BY <1>1, <1>2
<1> HIDE DEF new
<1>5. done' \in [Scripts -> Seq(Content)] /\ done'[s] = new /\ \A t \in Scripts \ {s} : done'[t] = done[t]
  BY <1>1, <1>2, <1>3
<1>6. Len(done[s]) + 1 \in 1..(Len(done[s]) + 1) /\ 1..Len(done[s]) \subseteq 1..(Len(done[s]) + 1)
  BY <1>2
<1>7. ASSUME NEW t \in Scripts, NEW k \in DOMAIN done[t] PROVE k \in DOMAIN done'[t] /\ done'[t][k] = done[t][k]
  <2>1. CASE t = s
    BY <1>2, <1>4, <1>5, <1>6, <2>1
  <2>2. CASE t # s
    BY <1>5, <2>2
  <2> QED
    BY <2>1, <2>2
<1> QED
  BY <1>2, <1>4, <1>5, <1>6, <1>7

\* What was executed stays executed.
LEMMA ExecutedStays ==
    ASSUME TypeOK, content' = content, NEW s \in Scripts, AddDone(s)
    PROVE  \A t \in Scripts : Executed(t) => Executed(t)'
  BY DoneAdded DEF Executed

\* The history stays true when a script is executed once more.
LEMMA TrueAfterDone ==
    ASSUME TypeOK, HistoryIsTrue, history' = history, NEW s \in Scripts, AddDone(s)
    PROVE  HistoryIsTrue'
<1>1. \A i \in DOMAIN history : history[i].script \in Scripts
  BY RowScript
<1>2. ASSUME NEW i \in DOMAIN history
      PROVE  \E k \in DOMAIN done'[history[i].script] : done'[history[i].script][k] = history[i].sum
  <2>1. PICK k \in DOMAIN done[history[i].script] : done[history[i].script][k] = history[i].sum
    BY DEF HistoryIsTrue
  <2> QED
    BY <1>1, <2>1, DoneAdded
<1> QED
  BY <1>2 DEF HistoryIsTrue

\* And when a row is added of a script that has been executed and had none.
LEMMA TrueAfterRow ==
    ASSUME TypeOK, content' = content, NEW s \in Scripts, AddRow(s), RowsOf(s) = {}, Executed(s)',
           HistoryIsTrue, AddDone(s) \/ done' = done
    PROVE  HistoryIsTrue'
<1> DEFINE n == Len(history) + 1
<1>1. /\ n \in Nat /\ DOMAIN history = 1..Len(history) /\ DOMAIN history' = 1..n
      /\ \A i \in DOMAIN history : history'[i] = history[i] /\ history[i].script \in Scripts
      /\ history'[n].script = s /\ history'[n].sum = content[s]
  <2>1. /\ history' \in Seq(Row) /\ Len(history') = n /\ Len(history) \in Nat
        /\ \A i \in DOMAIN history : history'[i] = history[i]
        /\ history'[n] = [script |-> s, sum |-> content[s]]
    BY RowAdded
  <2>2. history \in Seq(Row) /\ \A i \in DOMAIN history : history[i].script \in Scripts
    BY RowScript DEF TypeOK
  <2> QED
    BY <2>1, <2>2
<1>2. \A i \in DOMAIN history : history[i].script # s
  BY DEF RowsOf
<1> HIDE DEF n
<1>3. \A i \in DOMAIN history' : i \in DOMAIN history \/ i = n
  <2>1. Len(history) \in Nat /\ n = Len(history) + 1
    BY DEF n, TypeOK
  <2> QED
    BY <1>1, <2>1
<1>4. ASSUME NEW i \in DOMAIN history', NEW j \in DOMAIN history', history'[i].script = history'[j].script PROVE i = j
  BY <1>1, <1>2, <1>3, <1>4 DEF HistoryIsTrue
<1>5. ASSUME NEW i \in DOMAIN history'
      PROVE  \E k \in DOMAIN done'[history'[i].script] : done'[history'[i].script][k] = history'[i].sum
  <2>1. CASE i = n
    BY <1>1, <2>1 DEF Executed
  <2>2. CASE i \in DOMAIN history
    <3>1. PICK k \in DOMAIN done[history[i].script] : done[history[i].script][k] = history[i].sum
      BY <2>2 DEF HistoryIsTrue
    <3>2. k \in DOMAIN done'[history[i].script] /\ done'[history[i].script][k] = done[history[i].script][k]
      BY <1>1, <2>2, <3>1, DoneAdded
    <3> QED
      BY <1>1, <2>2, <3>1, <3>2
  <2> QED
    BY <1>3, <2>1, <2>2
<1> QED
  BY <1>4, <1>5 DEF HistoryIsTrue

LEMMA ExecSafe == ASSUME SqlInv, NEW r \in Runners, Exec(r) PROVE SqlInv'
<1> DEFINE s == Script(r)
<1>1. /\ TypeOK /\ AtScript(r) /\ s \in Scripts /\ r \notin dry /\ pc' = [pc EXCEPT ![r] = "insert"]
      /\ UNCHANGED <<content, next, dry, outcome, history, runs>>
  BY ScriptIsThere DEF Exec, Executes, SqlInv, HistoryOK
<1>2. (s \in Ddl /\ AddDone(s)) \/ (s \notin Ddl /\ done' = done)
  BY DEF Exec, AddDone
<1>3. TypeOK'
  <2>1. done' \in [Scripts -> Seq(Content)]
    BY <1>1, <1>2, DoneAdded DEF TypeOK
  <2> QED
    BY <1>1, <2>1 DEF TypeOK, AtScript
<1>4. HistoryIsTrue'
  <2>1. HistoryIsTrue
    BY DEF SqlInv, HistoryOK
  <2>2. CASE done' = done
    BY <1>1, <2>1, <2>2 DEF HistoryIsTrue
  <2>3. CASE AddDone(s)
    BY <1>1, <2>1, <2>3, TrueAfterDone
  <2> QED
    BY <1>2, <2>2, <2>3
<1>5. OnceIfRow'
  <2>1. \A t \in Scripts \ Ddl : done'[t] = done[t]
    BY <1>1, <1>2, DoneAdded
  <2> QED
    BY <1>1, <2>1 DEF SqlInv, OnceIfRow, RowsOf
<1>6. Elsewhere(r) /\ pc'[r] = "insert" /\ Script(r)' = s
  BY <1>1 DEF TypeOK, Elsewhere, Script
<1>7. \A t : SameRow(t) => SameRow(t)'
  BY <1>1 DEF SameRow, RowsOf
<1>8. \A t \in Scripts : Executed(t) => Executed(t)'
  BY <1>1, <1>2, ExecutedStays DEF Executed
<1>9. \A q \in Runners \ {r} : pc[q] = "commit" => RowsOf(Script(q))' = {}
  BY <1>1 DEF SqlInv, Locked, RowsOf, Script
<1>10. s \in Ddl => Executed(s)'
  BY <1>1, <1>2, <1>6, DoneAdded DEF Executed
<1>11. RunnerGood(r)'
  <2>1. \A i \in 1..(next'[r] - 1) : SameRow(Order[i])'
    <3>1. pc[r] # "idle"
      BY DEF Exec
    <3> QED
      BY <1>1, <1>7, <3>1 DEF SqlInv, Passed
  <2>2. outcome'[r] = "ok" => \A t \in Scripts : SameRow(t)'
    BY <1>1, <1>7 DEF SqlInv, AllApplied
  <2>3. Script(r)' \in Ddl => Executed(Script(r))'
    BY <1>6, <1>10
  <2> QED
    BY <1>6, <2>1, <2>2, <2>3 DEF RunnerGood
<1> QED
  BY <1>3, <1>4, <1>5, <1>6, <1>7, <1>8, <1>9, <1>11, RunnerStep

\* The row of a script goes in: the first one, for what has been executed.
LEMMA RowStep ==
    ASSUME SqlInv, NEW r \in Runners, NEW s \in Scripts, s = Script(r), pc[r] # "idle", AtScript(r), r \notin dry,
           RowsOf(s) = {}, \A q \in Runners \ {r} : ~(pc[q] = "commit" /\ Script(q) = s),
           AddRow(s), Executed(s)',
           (s \in Ddl /\ done' = done) \/ (s \notin Ddl /\ AddDone(s)),
           Proceed(r) \/ (Leave(r, "error") /\ next' = next),
           UNCHANGED <<content, dry, runs>>
    PROVE  SqlInv'
<1>1. TypeOK /\ next[r] \in 1..Len(Order) /\ next[r] + 1 \in 1..(Len(Order) + 1)
  BY ScriptIsThere DEF SqlInv, HistoryOK
<1>2. /\ pc'[r] \in {"idle", "check"} /\ pc' \in [Runners -> {"idle", "check", "insert", "commit"}]
      /\ next' \in [Runners -> 1..(Len(Order) + 1)] /\ outcome' \in [Runners -> {"none", "ok", "skipped", "error"}]
      /\ (next'[r] = next[r] + 1 /\ outcome'[r] = outcome[r]) \/ (pc'[r] = "idle" /\ outcome'[r] = "error")
      /\ Elsewhere(r)
  BY <1>1 DEF TypeOK, Proceed, Leave, Elsewhere
<1>3. TypeOK'
  <2>1. done' \in [Scripts -> Seq(Content)]
    BY <1>1, DoneAdded DEF TypeOK
  <2>2. history' \in Seq(Row)
    BY <1>1, RowAdded
  <2>3. \A q \in Runners : pc'[q] \in {"insert", "commit"} => AtScript(q)' /\ q \notin dry'
    BY <1>1, <1>2 DEF TypeOK, Elsewhere, AtScript
  <2> QED
    BY <1>1, <1>2, <2>1, <2>2, <2>3 DEF TypeOK
<1>4. HistoryIsTrue'
  BY <1>1, TrueAfterRow DEF SqlInv, HistoryOK
<1>5. OnceIfRow'
  <2>1. ASSUME NEW t \in Scripts \ Ddl PROVE Len(done'[t]) = IF RowsOf(t)' = {} THEN 0 ELSE 1
    <3>1. CASE t = s
      <4>1. Len(done[s]) = 0
        BY <2>1, <3>1 DEF SqlInv, OnceIfRow
      <4>2. Len(done'[s]) = 1
        <5>1. AddDone(s)
          BY <2>1, <3>1
        <5>2. Len(done'[s]) = Len(done[s]) + 1
          BY <1>1, <5>1, DoneAdded
        <5> QED
          BY <4>1, <5>2
      <4>3. RowsOf(s)' # {}
        BY <1>1, RowAdded
      <4> QED
        BY <3>1, <4>2, <4>3
    <3>2. CASE t # s
      <4>1. RowsOf(t)' = RowsOf(t)
        BY <1>1, <3>2, RowAdded
      <4>2. done'[t] = done[t]
        BY <1>1, <3>2, DoneAdded
      <4> QED
        BY <4>1, <4>2 DEF SqlInv, OnceIfRow
    <3> QED
      BY <3>1, <3>2
  <2> QED
    BY <2>1 DEF OnceIfRow
<1>6. \A t : SameRow(t) => SameRow(t)'
  BY <1>1, SameRowStays
<1>7. \A t \in Scripts : Executed(t) => Executed(t)'
  BY <1>1, ExecutedStays DEF Executed
<1>8. \A q \in Runners \ {r} : pc[q] = "commit" => RowsOf(Script(q))' = {}
  <2>1. ASSUME NEW q \in Runners \ {r}, pc[q] = "commit" PROVE RowsOf(Script(q))' = {}
    <3>1. Script(q)' = Script(q) /\ Script(q) # s /\ RowsOf(Script(q)) = {}
      BY <1>2, <2>1 DEF SqlInv, Locked, Elsewhere, Script
    <3>2. \A t : t # s => RowsOf(t)' = RowsOf(t)
      BY <1>1, RowAdded
    <3>3. PICK t : t = Script(q)
      OBVIOUS
    <3>4. RowsOf(t)' = {}
      BY <3>1, <3>2, <3>3
    <3> QED
      BY <3>1, <3>3, <3>4 DEF RowsOf
  <2> QED
    BY <2>1
<1>9. SameRow(s)'
  <2>1. RowsOf(s)' = RowsOf(s) \cup {Len(history) + 1}
    BY <1>1, RowAdded
  <2>2. history'[Len(history) + 1] = [script |-> s, sum |-> content[s]]
    BY <1>1, RowAdded
  <2>3. Len(history) + 1 \in RowsOf(s)' /\ history'[Len(history) + 1].sum = content[s]
    BY <2>1, <2>2
  <2> QED
    BY <2>3 DEF SameRow
<1>10. RunnerGood(r)'
  <2>1. ASSUME pc'[r] # "idle", NEW i \in 1..(next'[r] - 1) PROVE SameRow(Order[i])'
    <3>1. i \in 1..(next[r] - 1) \/ i = next[r]
      BY <1>1, <1>2, <2>1
    <3>2. CASE i = next[r]
      BY <1>9, <3>2 DEF Script
    <3>3. CASE i \in 1..(next[r] - 1)
      <4>1. SameRow(Order[i])
        BY <3>3 DEF SqlInv, Passed
      <4> QED
        BY <1>6, <4>1
    <3> QED
      BY <3>1, <3>2, <3>3
  <2>2. outcome'[r] = "ok" => \A t \in Scripts : SameRow(t)'
    BY <1>2, <1>6 DEF SqlInv, AllApplied
  <2> QED
    BY <1>2, <2>1, <2>2 DEF RunnerGood
<1> QED
  BY <1>2, <1>3, <1>4, <1>5, <1>6, <1>7, <1>8, <1>10, RunnerStep

LEMMA InsertSafe == ASSUME SqlInv, NEW r \in Runners, Insert(r) PROVE SqlInv'
<1>1. TypeOK /\ pc[r] = "insert" /\ AtScript(r) /\ r \notin dry /\ Script(r) \in Scripts
  BY ScriptIsThere DEF Insert, SqlInv, HistoryOK, TypeOK
<1>2. PICK s \in Scripts : s = Script(r)
  BY <1>1
<1>3. RowsOf(s) = {} /\ \A q \in Runners \ {r} : ~(pc[q] = "commit" /\ Script(q) = s)
  BY <1>2 DEF Insert, InsertOK, Locking
<1>4. CASE s \in Ddl
  <2>1. AddRow(s) /\ Proceed(r) /\ UNCHANGED <<content, dry, done, runs>>
    BY <1>2, <1>4 DEF Insert
  <2>2. Executed(s)'
    BY <1>1, <1>2, <1>4, <2>1 DEF SqlInv, DdlFirst, Executed
  <2> QED
    BY <1>1, <1>2, <1>3, <1>4, <2>1, <2>2, RowStep
<1>5. CASE s \notin Ddl
  <2>1. pc' = [pc EXCEPT ![r] = "commit"] /\ UNCHANGED <<content, next, dry, outcome, history, done, runs>>
    BY <1>2, <1>5 DEF Insert
  <2>2. TypeOK'
    BY <1>1, <2>1 DEF TypeOK, AtScript
  <2>3. Elsewhere(r) /\ pc'[r] = "commit" /\ Script(r)' = s
    BY <1>1, <1>2, <2>1 DEF TypeOK, Elsewhere, Script
  <2>4. RowsOf(Script(r))' = {}
    BY <1>3, <2>1, <2>3 DEF RowsOf
  <2>5. \A q \in Runners \ {r} : ~(pc'[q] = "commit" /\ Script(q)' = Script(r)')
    BY <1>3, <2>1, <2>3 DEF Elsewhere, Script
  <2>6. \A i \in 1..(next'[r] - 1) : SameRow(Order[i])'
    BY <1>1, <2>1 DEF SqlInv, Passed, SameRow, RowsOf
  <2>7. outcome'[r] = "ok" => \A t \in Scripts : SameRow(t)'
    BY <1>1, <2>1 DEF SqlInv, AllApplied, SameRow, RowsOf
  <2>8. RunnerGood(r)'
    BY <1>5, <2>3, <2>4, <2>5, <2>6, <2>7 DEF RunnerGood
  <2> QED
    BY <2>1, <2>2, <2>3, <2>8, PlainStep
<1> QED
  BY <1>4, <1>5

\* A commit, whether or not its answer arrives.
LEMMA CommitSafe == ASSUME SqlInv, NEW r \in Runners, Commit(r) \/ CommitUnheard(r) PROVE SqlInv'
<1>1. TypeOK /\ pc[r] = "commit" /\ AtScript(r) /\ r \notin dry /\ Script(r) \in Scripts
  BY ScriptIsThere DEF Commit, CommitUnheard, SqlInv, HistoryOK, TypeOK
<1>2. PICK s \in Scripts : s = Script(r)
  BY <1>1
<1>3. s \notin Ddl /\ RowsOf(s) = {} /\ \A q \in Runners \ {r} : ~(pc[q] = "commit" /\ Script(q) = s)
  BY <1>1, <1>2 DEF SqlInv, Locked
<1>4. AddDone(s) /\ AddRow(s) /\ UNCHANGED <<content, dry, runs>>
  BY <1>2 DEF Commit, CommitBoth, CommitUnheard, AddDone
<1>5. Proceed(r) \/ (Leave(r, "error") /\ next' = next)
  BY DEF Commit, CommitBoth, CommitUnheard
<1>6. Executed(s)'
  BY <1>1, <1>4, DoneAdded DEF Executed
<1> QED
  BY <1>1, <1>2, <1>3, <1>4, <1>5, <1>6, RowStep

\* Another package: nobody is at work, and nobody has said anything about it.
LEMMA ReplaceSafe == ASSUME SqlInv, NEW s \in Scripts, Replace(s) PROVE SqlInv'
<1>1. /\ \A r \in Runners : pc[r] = "idle"
      /\ content' \in [Scripts -> Content] /\ outcome' = [r \in Runners |-> "none"]
      /\ UNCHANGED <<pc, next, dry, history, done, runs>>
  BY DEF Replace, SqlInv, HistoryOK, TypeOK
<1>2. TypeOK'
  BY <1>1 DEF SqlInv, HistoryOK, TypeOK, AtScript
<1>3. HistoryIsTrue' /\ OnceIfRow'
  BY <1>1 DEF SqlInv, HistoryOK, HistoryIsTrue, OnceIfRow, RowsOf
<1>4. Locked' /\ DdlFirst' /\ Passed' /\ AllApplied'
  BY <1>1 DEF Locked, DdlFirst, Passed, AllApplied
<1> QED
  BY <1>2, <1>3, <1>4 DEF SqlInv, HistoryOK

-----------------------------------------------------------------------------
(* The theorems.                                                            *)

LEMMA InitSafe == ASSUME Init PROVE SqlInv
<1>1. Len(Order) \in Nat
  BY SqlAssumption
<1>2. TypeOK
  BY <1>1 DEF Init, TypeOK
<1>3. \A s : RowsOf(s) = {}
  BY DEF Init, RowsOf
<1>4. HistoryIsTrue /\ OnceIfRow
  BY <1>3 DEF Init, HistoryIsTrue, OnceIfRow
<1>5. Locked /\ DdlFirst /\ Passed /\ AllApplied
  BY DEF Init, Locked, DdlFirst, Passed, AllApplied
<1> QED
  BY <1>2, <1>4, <1>5 DEF SqlInv, HistoryOK

LEMMA NextSafe == ASSUME SqlInv, [Next]_sqlVars PROVE SqlInv'
<1>1. CASE UNCHANGED sqlVars
  <2>1. TypeOK' /\ HistoryIsTrue' /\ OnceIfRow'
    BY <1>1 DEF sqlVars, SqlInv, HistoryOK, TypeOK, HistoryIsTrue, OnceIfRow, RowsOf, AtScript
  <2>2. Locked' /\ DdlFirst' /\ Passed' /\ AllApplied'
    BY <1>1 DEF sqlVars, SqlInv, Locked, DdlFirst, Passed, AllApplied, Script, RowsOf, SameRow, Executed
  <2> QED
    BY <2>1, <2>2 DEF SqlInv, HistoryOK
<1>2. ASSUME NEW r \in Runners, Step(r) PROVE SqlInv'
  <2>1. CASE Start(r) \/ Disabled(r) \/ End(r)
    BY <2>1, StartSafe, DisabledSafe, EndSafe
  <2>2. CASE Skip(r) \/ DryRun(r)
    BY <2>2, PassSafe DEF Skip, DryRun
  <2>3. CASE Block(r) \/ Duplicate(r) \/ Fail(r)
    BY <2>3, LeaveSafe DEF Block, Duplicate, Fail
  <2>4. CASE Exec(r) \/ Insert(r) \/ Commit(r) \/ CommitUnheard(r)
    BY <2>4, ExecSafe, InsertSafe, CommitSafe
  <2> QED
    BY <1>2, <2>1, <2>2, <2>3, <2>4 DEF Step
<1>3. ASSUME NEW s \in Scripts, Replace(s) PROVE SqlInv'
  BY <1>3, ReplaceSafe
<1> QED
  BY <1>1, <1>2, <1>3 DEF Next

LEMMA SqlAlways == Spec => []SqlInv
<1>1. Init => SqlInv
  BY InitSafe
<1>2. SqlInv /\ [Next]_sqlVars => SqlInv'
  BY NextSafe
<1> QED
  BY <1>1, <1>2, PTL DEF Spec

\* Whichever runners race and wherever they die: wpg_deploy_history has one row
\* for a script at most (the name is UNIQUE), and each row is of a script that
\* was executed with just the contents it tells (apply.go: Run, recordHistory).
THEOREM HistoryTrue == Spec => []HistoryOK
<1>1. SqlInv => HistoryOK
  BY DEF SqlInv
<1> QED
  BY <1>1, SqlAlways, PTL

LEMMA OnceAlways == ASSUME SqlInv PROVE DmlExactlyOnce
<1>1. ASSUME NEW s \in Scripts \ Ddl PROVE Len(done[s]) = Cardinality(RowsOf(s))
  <2>1. CASE RowsOf(s) = {}
    BY <2>1, FS_EmptySet DEF SqlInv, OnceIfRow
  <2>2. CASE RowsOf(s) # {}
    <3>1. PICK i : i \in RowsOf(s)
      BY <2>2
    <3>2. \A j \in RowsOf(s) : j = i
      BY <3>1 DEF SqlInv, HistoryOK, HistoryIsTrue, RowsOf
    <3>3. RowsOf(s) = {i}
      BY <3>1, <3>2
    <3>4. Cardinality({i}) = 1
      BY FS_Singleton
    <3> QED
      BY <2>2, <3>3, <3>4 DEF SqlInv, OnceIfRow
  <2> QED
    BY <2>1, <2>2
<1> QED
  BY <1>1 DEF DmlExactlyOnce

\* A script without DDL takes effect as often as it has rows, and that is once
\* at most: never twice by a retry or by a second runner, and never without
\* its row, because the row is committed together with it.
THEOREM ExactlyOnce == Spec => []DmlExactlyOnce
<1>1. SqlInv => DmlExactlyOnce
  BY OnceAlways
<1> QED
  BY <1>1, SqlAlways, PTL

\* A run that returns success, and was not dry, leaves every script of the
\* package in the history with the checksum it has in the package.
THEOREM SuccessIsWhole == Spec => []SuccessMeansApplied
<1>1. SqlInv => SuccessMeansApplied
  BY DEF SqlInv, AllApplied, SameRow, SuccessMeansApplied
<1> QED
  BY <1>1, SqlAlways, PTL
=============================================================================
