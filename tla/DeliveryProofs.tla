--------------------------- MODULE DeliveryProofs ---------------------------
(***************************************************************************)
(* Proofs about Delivery, for any services, releases, patches and runners, *)
(* any number of runs beside one another and any crash: what the records   *)
(* of the ledger say stays true of the local docker and of the database,   *)
(* and the frontend of the customer is kept.  Where runs do not overlap,   *)
(* an image holds the jar of its tag, and a site takes no patch that was   *)
(* made for another version than the one it has.                           *)
(***************************************************************************)
EXTENDS Delivery, FiniteSetTheorems, SequenceTheorems, WellFoundedInduction, TLAPS

NatLess == {p \in Nat \X Nat : p[1] < p[2]}

\* A non-empty set of naturals has a least element.
LEMMA LeastNatural ==
    ASSUME NEW T \in SUBSET Nat, T # {}
    PROVE  \E x \in T : \A y \in T : x <= y
<1>1. IsWellFoundedOn(NatLess, Nat)
  BY NatLessThanWellFounded DEF NatLess, OpToRel
<1>2. PICK x \in T : \A y \in T : ~(<<y, x>> \in NatLess)
  BY <1>1, WFMin
<1>3. ASSUME NEW y \in T PROVE x <= y
  <2>1. x \in Nat /\ y \in Nat
    OBVIOUS
  <2>2. <<y, x>> \in Nat \X Nat /\ <<y, x>> \notin NatLess
    BY <1>2, <2>1
  <2>3. ~(y < x)
    BY <2>2 DEF NatLess
  <2> QED
    BY <2>1, <2>3
<1> QED
  BY <1>3

\* A non-empty set of naturals up to n has a greatest element.
LEMMA GreatestNatural ==
    ASSUME NEW n \in Nat, NEW S \in SUBSET (0..n), S # {}
    PROVE  \E x \in S : \A y \in S : y <= x
<1> DEFINE T == {n - i : i \in S}
<1>1. T \in SUBSET Nat
  BY SMT
<1>2. T # {}
  <2>1. PICK e \in S : TRUE
    OBVIOUS
  <2>2. n - e \in T
    OBVIOUS
  <2> QED
    BY <2>2
<1>3. PICK x \in T : \A y \in T : x <= y
  <2> HIDE DEF T
  <2> QED
    BY <1>1, <1>2, LeastNatural
<1>4. PICK i \in S : x = n - i
  OBVIOUS
<1>5. ASSUME NEW y \in S PROVE y <= i
  <2>1. n - y \in T
    BY SMT
  <2>2. n - i <= n - y
    BY <1>3, <1>4, <2>1
  <2>3. n \in Nat /\ i \in 0..n /\ y \in 0..n
    OBVIOUS
  <2> QED
    BY <2>2, <2>3
<1> QED
  BY <1>5

RunState == {Idle} \cup DeployRun \cup UpgradeRun \cup RollbackRun

\* Those of the tags that are of patches are in the local docker.
TagsBuilt(tags) == \A s \in Services : tags[s] \in Version \ Releases => <<s, tags[s]>> \in DOMAIN images

SqlApplied(p) == sqlDone[p] = NumScripts

\* What a record of a success says is so.
GoodRecord(rec) ==
    rec.ok => /\ TagsBuilt(rec.tags)
              /\ rec.mysql => \E p \in Patches : p.version = rec.ver /\ SqlApplied(p)

\* What a run has done already is so.
GoodRun(x) ==
    /\ x \in UpgradeRun => TagsBuilt(x.tags) /\ \A s \in x.built : <<s, x.patch.version>> \in DOMAIN images
    /\ x \in UpgradeRun /\ x.mysql => SqlApplied(x.patch)
    /\ x.step = "build" => x.svc \in Services
    /\ x \in RollbackRun => TagsBuilt(x.tags)

DeliveryInv ==
    /\ TypeOK
    /\ \A i \in DOMAIN ledger : GoodRecord(ledger[i])
    /\ \A r \in Runners : GoodRun(run[r])
    /\ OriginalFrontendKept

-----------------------------------------------------------------------------
(* Kinds of runs, and the ledger.                                           *)

LEMMA RunKinds ==
    ASSUME NEW x \in RunState
    PROVE  /\ x.step \in {"render", "layers"} => x \in DeployRun
           /\ x.step = "back" => x \in RollbackRun
           /\ x.step \in {"backup", "copy", "build", "sql", "nacos", "frontend", "roll", "revert"} => x \in UpgradeRun
           /\ x.step = "idle" => x = Idle
<1>1. Idle.step = "idle"
  BY DEF Idle
<1>2. x \in DeployRun => x.step \in {"render", "layers"}
  BY DEF DeployRun
<1>3. x \in RollbackRun => x.step = "back"
  BY DEF RollbackRun
<1>4. x \in UpgradeRun => x.step \in {"backup", "copy", "build", "sql", "nacos", "frontend", "roll", "revert"}
  BY DEF UpgradeRun
<1> QED
  BY <1>1, <1>2, <1>3, <1>4 DEF RunState

\* The last of the records that fit is one of them.
LEMMA LastIsOne ==
    ASSUME ledger \in Seq(Record), NEW S \in SUBSET (DOMAIN ledger), S # {}
    PROVE  Last(S) \in S /\ \A j \in S : j <= Last(S)
<1>1. DOMAIN ledger = 1..Len(ledger) /\ Len(ledger) \in Nat
  BY LenProperties
<1>2. S \in SUBSET (0..Len(ledger))
  BY <1>1
<1>3. \E x \in S : \A y \in S : y <= x
  BY <1>1, <1>2, GreatestNatural
<1> QED
  BY <1>3 DEF Last

\* A success that is looked for is a record of a success.
LEMMA SuccessFound ==
    ASSUME DeliveryInv, NEW to, Successes(to) # {}
    PROVE  /\ Last(Successes(to)) \in Successes(to)
           /\ Target(to) \in Record /\ Target(to).ok /\ TagsBuilt(Target(to).tags)
<1>1. ledger \in Seq(Record) /\ Successes(to) \subseteq DOMAIN ledger
  BY DEF DeliveryInv, TypeOK, Successes
<1>2. Last(Successes(to)) \in Successes(to)
  BY <1>1, LastIsOne
<1>3. Target(to) \in Record /\ Target(to).ok
  <2>1. Last(Successes(to)) \in DOMAIN ledger /\ ledger[Last(Successes(to))].ok
    BY <1>2 DEF Successes
  <2> QED
    BY <1>1, <2>1, ElementOfSeq DEF Target
<1>4. GoodRecord(Target(to))
  BY <1>1, <1>2 DEF DeliveryInv, Target
<1> QED
  BY <1>2, <1>3, <1>4 DEF GoodRecord
-----------------------------------------------------------------------------
(* One step of one run.                                                     *)

SiteTypes ==
    /\ rendered \subseteq Releases
    /\ DOMAIN images \subseteq Services \X Version
    /\ \A t \in DOMAIN images : images[t] \in Version \cup {None}
    /\ running \in Tags /\ jar \in Jars
    /\ bak \in [Version -> Tags]
    /\ sqlDone \in [Patches -> 0..NumScripts]
    /\ nacos \in Version \cup {None}
    /\ html \subseteq File
    /\ DOMAIN htmlBak \subseteq 0..MaxTime

\* Images and scripts only become more.
SiteGoesOn ==
    /\ DOMAIN images \subseteq DOMAIN images'
    /\ \A p \in Patches : SqlApplied(p) => sqlDone'[p] = NumScripts

SiteSafe == SiteTypes' /\ SiteGoesOn /\ OriginalFrontendKept'

Rest == now' = now /\ crew' = crew

LEMMA TagsStayBuilt ==
    ASSUME SiteGoesOn, NEW tags, TagsBuilt(tags)
    PROVE  TagsBuilt(tags)'
BY DEF SiteGoesOn, TagsBuilt

LEMMA RunStaysGood ==
    ASSUME SiteGoesOn, NEW x, GoodRun(x)
    PROVE  GoodRun(x)'
<1>2. x \in UpgradeRun => TagsBuilt(x.tags)' /\ \A s \in x.built : <<s, x.patch.version>> \in DOMAIN images'
  BY TagsStayBuilt DEF GoodRun, SiteGoesOn
<1>3. x \in UpgradeRun => x.patch \in Patches
  BY DEF UpgradeRun
<1>4. x \in UpgradeRun /\ x.mysql => SqlApplied(x.patch)'
  BY <1>3 DEF GoodRun, SiteGoesOn, SqlApplied
<1>5. x \in RollbackRun => TagsBuilt(x.tags)'
  BY TagsStayBuilt DEF GoodRun
<1> QED
  BY <1>2, <1>4, <1>5 DEF GoodRun

LEMMA RecordStaysGood ==
    ASSUME SiteGoesOn, NEW rec, GoodRecord(rec)
    PROVE  GoodRecord(rec)'
<1>1. TagsBuilt(rec.tags) => TagsBuilt(rec.tags)'
  BY TagsStayBuilt
<1>2. \A p \in Patches : SqlApplied(p) => SqlApplied(p)'
  BY DEF SiteGoesOn, SqlApplied
<1> QED
  BY <1>1, <1>2 DEF GoodRecord

LEMMA SiteSame == ASSUME DeliveryInv, UNCHANGED siteVars PROVE SiteSafe
<1>1. SiteTypes
  BY DEF DeliveryInv, TypeOK, SiteTypes
<1>2. OriginalFrontendKept
  BY DEF DeliveryInv
<1>3. /\ rendered' = rendered /\ images' = images /\ running' = running /\ jar' = jar /\ bak' = bak
      /\ sqlDone' = sqlDone /\ nacos' = nacos /\ html' = html /\ htmlBak' = htmlBak
  BY DEF siteVars
<1> QED
  BY <1>1, <1>2, <1>3 DEF SiteSafe, SiteTypes, SiteGoesOn, OriginalFrontendKept, SqlApplied

\* The record of a success is good when it is written.
Appends(rec) == ledger' = Append(ledger, rec)

LEMMA LedgerSafe ==
    ASSUME DeliveryInv, SiteGoesOn, NEW rec \in Record, Appends(rec), GoodRecord(rec)'
    PROVE  ledger' \in Seq(Record) /\ (\A i \in DOMAIN ledger : GoodRecord(ledger[i]))'
<1>1. ledger \in Seq(Record)
  BY DEF DeliveryInv, TypeOK
<1>2. /\ ledger' \in Seq(Record) /\ Len(ledger') = Len(ledger) + 1
      /\ \A i \in 1..Len(ledger) : ledger'[i] = ledger[i]
      /\ ledger'[Len(ledger) + 1] = rec
  BY <1>1, AppendProperties DEF Appends
<1>3. DOMAIN ledger = 1..Len(ledger) /\ Len(ledger) \in Nat /\ DOMAIN ledger' = 1..(Len(ledger) + 1)
  BY <1>1, <1>2, LenProperties
<1>4. ASSUME NEW i \in DOMAIN ledger' PROVE GoodRecord(ledger[i])'
  <2>1. CASE i = Len(ledger) + 1
    BY <1>2, <2>1
  <2>2. CASE i # Len(ledger) + 1
    <3>1. i \in DOMAIN ledger /\ ledger'[i] = ledger[i]
      BY <1>2, <1>3, <2>2
    <3>2. PICK old : old = ledger[i]
      OBVIOUS
    <3>3. GoodRecord(old)'
      BY <3>1, <3>2, RecordStaysGood DEF DeliveryInv
    <3> QED
      BY <3>1, <3>2, <3>3
  <2> QED
    BY <2>1, <2>2
<1> QED
  BY <1>2, <1>4

LEMMA LedgerSame ==
    ASSUME DeliveryInv, SiteGoesOn, ledger' = ledger
    PROVE  ledger' \in Seq(Record) /\ (\A i \in DOMAIN ledger : GoodRecord(ledger[i]))'
<1>1. ASSUME NEW i \in DOMAIN ledger PROVE GoodRecord(ledger[i])'
  <2>1. PICK old : old = ledger[i]
    OBVIOUS
  <2>2. GoodRecord(old)'
    BY <2>1, RecordStaysGood DEF DeliveryInv
  <2> QED
    BY <2>1, <2>2
<1> QED
  BY <1>1 DEF DeliveryInv, TypeOK

\* The run at r goes on as y, and the others as they were.
LEMMA StepSafe ==
    ASSUME DeliveryInv, NEW r \in Runners, NEW y \in RunState, Go(r, y), SiteSafe, GoodRun(y)', Rest,
           ledger' \in Seq(Record), (\A i \in DOMAIN ledger : GoodRecord(ledger[i]))'
    PROVE  DeliveryInv'
<1>1. run \in [Runners -> RunState] /\ run' = [run EXCEPT ![r] = y]
  BY DEF DeliveryInv, TypeOK, RunState, Go
<1>2. run' \in [Runners -> RunState]
  BY <1>1
<1>3. ASSUME NEW q \in Runners PROVE GoodRun(run[q])'
  <2>1. CASE q = r
    BY <1>1, <2>1
  <2>2. CASE q # r
    <3>1. PICK x \in RunState : x = run[q]
      BY <1>1
    <3>2. run'[q] = x
      BY <1>1, <2>2, <3>1
    <3>3. GoodRun(x)'
      BY <3>1, RunStaysGood DEF DeliveryInv, SiteSafe
    <3> QED
      BY <3>2, <3>3
  <2> QED
    BY <2>1, <2>2
<1>4. TypeOK'
  BY <1>2 DEF DeliveryInv, TypeOK, SiteSafe, SiteTypes, Rest, RunState
<1> QED
  BY <1>3, <1>4 DEF DeliveryInv, SiteSafe

\* A run ends without a record.
LEMMA ReturnSafe ==
    ASSUME DeliveryInv, NEW r \in Runners, Return(r), SiteSafe, Rest, ledger' = ledger
    PROVE  DeliveryInv'
<1>1. Idle \in RunState /\ GoodRun(Idle)'
  <2>1. Idle.step = "idle"
    BY DEF Idle
  <2>2. Idle \notin UpgradeRun /\ Idle \notin RollbackRun
    BY <2>1 DEF UpgradeRun, RollbackRun
  <2> QED
    BY <2>1, <2>2 DEF RunState, GoodRun
<1>2. ledger' \in Seq(Record) /\ (\A i \in DOMAIN ledger : GoodRecord(ledger[i]))'
  BY LedgerSame DEF SiteSafe
<1> QED
  BY <1>1, <1>2, StepSafe DEF Return

\* A run ends with a record.
LEMMA RecordSafe ==
    ASSUME DeliveryInv, NEW r \in Runners, Return(r), SiteSafe, Rest,
           NEW rec \in Record, Appends(rec), GoodRecord(rec)
    PROVE  DeliveryInv'
<1>1. Idle \in RunState /\ GoodRun(Idle)'
  <2>1. Idle.step = "idle"
    BY DEF Idle
  <2>2. Idle \notin UpgradeRun /\ Idle \notin RollbackRun
    BY <2>1 DEF UpgradeRun, RollbackRun
  <2> QED
    BY <2>1, <2>2 DEF RunState, GoodRun
<1>2. GoodRecord(rec)'
  BY RecordStaysGood DEF SiteSafe
<1>3. ledger' \in Seq(Record) /\ (\A i \in DOMAIN ledger : GoodRecord(ledger[i]))'
  BY <1>2, LedgerSafe DEF SiteSafe
<1> QED
  BY <1>1, <1>3, StepSafe DEF Return

\* An upgrade goes on to another state.
LEMMA UpgradeGoes ==
    ASSUME DeliveryInv, NEW r \in Runners, SiteSafe, Rest, ledger' = ledger,
           NEW x \in UpgradeRun, x = run[r], NEW y \in UpgradeRun, Go(r, y),
           y.patch = x.patch, y.tags = x.tags,
           \A s \in y.built : s \in x.built \/ <<s, y.patch.version>> \in DOMAIN images',
           y.mysql => x.mysql \/ SqlApplied(y.patch)',
           y.step = "build" => y.svc \in Services
    PROVE  DeliveryInv'
<1>1. GoodRun(x)'
  BY RunStaysGood DEF DeliveryInv, SiteSafe
<1>2. y \in RunState /\ y \notin RollbackRun
  BY DEF RunState, UpgradeRun, RollbackRun
<1>3. TagsBuilt(y.tags)' /\ (\A s \in x.built : <<s, x.patch.version>> \in DOMAIN images')
  BY <1>1 DEF GoodRun
<1>4. y.mysql => SqlApplied(y.patch)'
  BY <1>1 DEF GoodRun
<1>5. GoodRun(y)'
  BY <1>2, <1>3, <1>4 DEF GoodRun
<1>6. ledger' \in Seq(Record) /\ (\A i \in DOMAIN ledger : GoodRecord(ledger[i]))'
  BY LedgerSame DEF SiteSafe
<1> QED
  BY <1>2, <1>5, <1>6, StepSafe
-----------------------------------------------------------------------------
(* Runs begin.                                                              *)

LEMMA BeginSafe ==
    ASSUME DeliveryInv, NEW r \in Runners, NEW y \in RunState, Begin(r, y), GoodRun(y), crew' = crew
    PROVE  DeliveryInv'
<1>1. Go(r, y) /\ ledger' = ledger /\ UNCHANGED siteVars /\ Rest
  BY DEF Begin, Go, Rest
<1>2. SiteSafe
  BY <1>1, SiteSame
<1>3. GoodRun(y)'
  BY <1>2, RunStaysGood DEF SiteSafe
<1>4. ledger' \in Seq(Record) /\ (\A i \in DOMAIN ledger : GoodRecord(ledger[i]))'
  BY <1>1, <1>2, LedgerSame DEF SiteSafe
<1> QED
  BY <1>1, <1>2, <1>3, <1>4, StepSafe

LEMMA DeployStartSafe ==
    ASSUME DeliveryInv, NEW r \in Runners, NEW v \in Releases, DeployStart(r, v), crew' = crew
    PROVE  DeliveryInv'
<1> DEFINE y == [step |-> "render", ver |-> v, todo |-> Services]
<1>1. y \in DeployRun /\ y.step = "render"
  BY DEF DeployRun
<1>2. Begin(r, y)
  BY DEF DeployStart
<1> HIDE DEF y
<1>3. y \in RunState /\ y \notin UpgradeRun /\ y \notin RollbackRun
  BY <1>1 DEF RunState, UpgradeRun, RollbackRun
<1>4. GoodRun(y)
  BY <1>1, <1>3 DEF GoodRun
<1> QED
  BY <1>2, <1>3, <1>4, BeginSafe

\* The record an upgrade starts from.
LEMMA LatestFound ==
    ASSUME DeliveryInv, Latest # None
    PROVE  /\ Successes(None) # {} /\ Latest = ledger[Last(Successes(None))]
           /\ Latest \in Record /\ TagsBuilt(Latest.tags)
<1>1. Successes(None) # {} /\ Latest = ledger[Last(Successes(None))]
  BY DEF Latest
<1> QED
  BY <1>1, SuccessFound DEF Target

LEMMA UpgradeStartsAs ==
    ASSUME DeliveryInv, NEW p \in Patches, Latest # None
    PROVE  /\ UpgradeState(p) \in UpgradeRun
           /\ UpgradeState(p).step = "backup" /\ UpgradeState(p).patch = p
           /\ UpgradeState(p).tags = Latest.tags /\ UpgradeState(p).built = {}
           /\ UpgradeState(p).mysql = FALSE
<1>1. Latest.ver \in Version /\ Latest.tags \in Tags
  BY LatestFound DEF Record
<1>2. p.services \subseteq Services /\ 1 \in 1..(NumFiles + 1)
  BY DeliveryAssumption
<1> DEFINE was == [nacos |-> nacos, html |-> html]
<1>3. was \in [nacos : Version \cup {None}, html : SUBSET File]
  BY DEF DeliveryInv, TypeOK
<1> HIDE DEF was
<1>4. UpgradeState(p) = [step |-> "backup", patch |-> p, from |-> Latest.ver, tags |-> Latest.tags,
                         built |-> {}, todo |-> p.services, svc |-> None, file |-> 1, mysql |-> FALSE,
                         was |-> was]
  BY DEF UpgradeState, was
<1>5. UpgradeState(p) \in UpgradeRun
  BY <1>1, <1>2, <1>3, <1>4 DEF UpgradeRun
<1> QED
  BY <1>4, <1>5

LEMMA UpgradeStartSafe ==
    ASSUME DeliveryInv, NEW r \in Runners, NEW p \in Patches, UpgradeStart(r, p), crew' = crew
    PROVE  DeliveryInv'
<1>1. PICK y : y = UpgradeState(p)
  OBVIOUS
<1>2. Latest # None /\ Begin(r, y)
  BY <1>1 DEF UpgradeStart
<1>3. y \in UpgradeRun /\ y.step = "backup" /\ y.tags = Latest.tags /\ y.built = {} /\ y.mysql = FALSE
  BY <1>1, <1>2, UpgradeStartsAs
<1>4. y \in RunState /\ y \notin RollbackRun
  BY <1>3 DEF RunState, RollbackRun
<1>5. TagsBuilt(y.tags)
  BY <1>2, <1>3, LatestFound
<1>6. GoodRun(y)
  BY <1>3, <1>4, <1>5 DEF GoodRun
<1> QED
  BY <1>2, <1>4, <1>6, BeginSafe

LEMMA RollbackStartSafe ==
    ASSUME DeliveryInv, NEW r \in Runners, NEW to, RollbackStart(r, to), crew' = crew
    PROVE  DeliveryInv'
<1>1. Successes(to) # {}
  BY DEF RollbackStart
<1>2. PICK t : t = Target(to)
  OBVIOUS
<1>3. t \in Record /\ t.ok /\ TagsBuilt(t.tags)
  BY <1>1, <1>2, SuccessFound
<1> DEFINE y == [step |-> "back", ver |-> t.ver, tags |-> t.tags, todo |-> {s \in Services : t.tags[s] # None}]
<1>4. t.ver \in Version /\ t.tags \in Tags
  BY <1>3 DEF Record
<1>5. y \in RollbackRun /\ y.step = "back" /\ y.tags = t.tags
  BY <1>4 DEF RollbackRun
<1>6. Begin(r, y)
  BY <1>2 DEF RollbackStart
<1> HIDE DEF y
<1>7. y \in RunState /\ y \notin UpgradeRun
  BY <1>5 DEF RunState, UpgradeRun
<1>8. GoodRun(y)
  BY <1>3, <1>5, <1>7 DEF GoodRun
<1> QED
  BY <1>6, <1>7, <1>8, BeginSafe

-----------------------------------------------------------------------------
(* Steps that touch nothing but containers.                                 *)

LEMMA RunsAs ==
    ASSUME DeliveryInv, NEW r \in Runners
    PROVE  \E x \in RunState : x = run[r] /\ GoodRun(x)
BY DEF DeliveryInv, TypeOK, RunState

\* docker compose up puts an image in a container that is there.
LEMMA ContainersSafe ==
    ASSUME DeliveryInv, NEW ver, NEW s \in Services, Up(ver, s) \/ UNCHANGED running,
           UNCHANGED <<rendered, images, jar, bak, sqlDone, nacos, html, htmlBak>>
    PROVE  SiteSafe
<1>1. SiteTypes /\ OriginalFrontendKept
  BY DEF DeliveryInv, TypeOK, SiteTypes
<1>2. running' \in Tags
  BY <1>1 DEF SiteTypes, Up, Tags
<1> QED
  BY <1>1, <1>2 DEF SiteSafe, SiteTypes, SiteGoesOn, OriginalFrontendKept, SqlApplied

LEMMA UpgradeTodo ==
    ASSUME NEW x \in UpgradeRun, NEW todo \in SUBSET Services
    PROVE  LET y == [x EXCEPT !.todo = todo] IN
           y \in UpgradeRun /\ y.patch = x.patch /\ y.tags = x.tags /\ y.mysql = x.mysql /\ y.built = x.built /\ y.step = x.step
           /\ y.svc = x.svc /\ y.todo = todo /\ y.from = x.from
BY DEF UpgradeRun

LEMMA UpgradeOnlyStep ==
    ASSUME NEW x \in UpgradeRun,
           NEW step \in {"backup", "copy", "build", "sql", "nacos", "frontend", "roll", "revert"}
    PROVE  LET y == [x EXCEPT !.step = step] IN
           y \in UpgradeRun /\ y.patch = x.patch /\ y.tags = x.tags /\ y.mysql = x.mysql /\ y.built = x.built /\ y.step = step
           /\ y.svc = x.svc /\ y.from = x.from
BY DEF UpgradeRun
-----------------------------------------------------------------------------
(* Steps of a deploy.                                                       *)

LEMMA DeployRenderSafe ==
    ASSUME DeliveryInv, NEW r \in Runners, DeployRender(r), crew' = crew
    PROVE  DeliveryInv'
<1>1. PICK x \in RunState : x = run[r] /\ GoodRun(x)
  BY RunsAs
<1>2. x \in DeployRun
  BY <1>1, RunKinds DEF DeployRender, At
<1>3. x.ver \in Releases /\ x.ver \in Version
  BY <1>2 DEF DeployRun, Version
<1>4. /\ rendered' \in {rendered, rendered \cup {x.ver}} /\ ledger' = ledger /\ Rest
      /\ UNCHANGED <<running, jar, bak, sqlDone, nacos, html, htmlBak>>
  BY <1>1 DEF DeployRender, Rest
<1>5. SiteTypes /\ OriginalFrontendKept
  BY DEF DeliveryInv, TypeOK, SiteTypes
<1>6. PICK loaded \in SUBSET Missing(x.ver) : images' = Put(images, loaded, x.ver)
  BY <1>1 DEF DeployRender
<1>7. loaded \subseteq Services \X {x.ver}
  BY <1>6 DEF Missing
<1>8. DOMAIN images' = loaded \cup DOMAIN images
  BY <1>6 DEF Put
<1>9. \A t \in DOMAIN images' : images'[t] \in Version \cup {None}
  BY <1>3, <1>5, <1>6, <1>8 DEF SiteTypes, Put
<1>10. DOMAIN images' \subseteq Services \X Version
  BY <1>3, <1>5, <1>7, <1>8 DEF SiteTypes
<1>11. SiteSafe
  BY <1>3, <1>4, <1>5, <1>8, <1>9, <1>10
     DEF SiteSafe, SiteTypes, SiteGoesOn, OriginalFrontendKept, SqlApplied
<1>12. CASE Return(r)
  BY <1>4, <1>11, <1>12, ReturnSafe
<1>13. CASE Go(r, [x EXCEPT !.step = "layers"])
  <2> DEFINE y == [x EXCEPT !.step = "layers"]
  <2>1. y \in DeployRun /\ y.step = "layers" /\ y.ver = x.ver
    BY <1>2 DEF DeployRun
  <2>2. Go(r, y)
    BY <1>13
  <2> HIDE DEF y
  <2>3. y \in RunState /\ y \notin UpgradeRun /\ y \notin RollbackRun
    BY <2>1 DEF RunState, UpgradeRun, RollbackRun
  <2>4. GoodRun(y)'
    BY <2>1, <2>3 DEF GoodRun
  <2>5. ledger' \in Seq(Record) /\ (\A i \in DOMAIN ledger : GoodRecord(ledger[i]))'
    BY <1>4, <1>11, LedgerSame DEF SiteSafe
  <2> QED
    BY <1>4, <1>11, <2>2, <2>3, <2>4, <2>5, StepSafe
<1> QED
  BY <1>1, <1>12, <1>13 DEF DeployRender

LEMMA DeployUpSafe ==
    ASSUME DeliveryInv, NEW r \in Runners, NEW s \in Services, DeployUp(r, s), crew' = crew
    PROVE  DeliveryInv'
<1>1. PICK x \in RunState : x = run[r] /\ GoodRun(x)
  BY RunsAs
<1>2. x \in DeployRun /\ x.step = "layers"
  BY <1>1, RunKinds DEF DeployUp, At
<1> DEFINE y == [x EXCEPT !.todo = x.todo \ {s}]
<1>3. y \in DeployRun /\ y.step = "layers" /\ y.ver = x.ver
  BY <1>2 DEF DeployRun
<1>4. Go(r, y) /\ ledger' = ledger /\ Rest /\ (Up(x.ver, s) \/ UNCHANGED running)
  BY <1>1 DEF DeployUp, Rest
<1> HIDE DEF y
<1>5. SiteSafe
  BY <1>4, ContainersSafe DEF DeployUp
<1>6. GoodRun(x)'
  BY <1>1, <1>5, RunStaysGood DEF SiteSafe
<1>7. y \in RunState /\ y \notin UpgradeRun /\ y \notin RollbackRun
  BY <1>3 DEF RunState, UpgradeRun, RollbackRun
<1>8. GoodRun(y)'
  BY <1>2, <1>3, <1>6, <1>7 DEF GoodRun
<1>9. ledger' \in Seq(Record) /\ (\A i \in DOMAIN ledger : GoodRecord(ledger[i]))'
  BY <1>4, <1>5, LedgerSame DEF SiteSafe
<1> QED
  BY <1>4, <1>5, <1>7, <1>8, <1>9, StepSafe

\* A record of the model, from its parts.
LEMMA RecordOf ==
    ASSUME NEW action \in {"deploy", "upgrade", "rollback"}, NEW ver \in Version, NEW ok \in BOOLEAN,
           NEW tags \in Tags, NEW mysql \in BOOLEAN
    PROVE  LET rec == [action |-> action, ver |-> ver, ok |-> ok, tags |-> tags, mysql |-> mysql] IN
           /\ rec \in Record /\ rec.action = action /\ rec.ver = ver /\ rec.ok = ok /\ rec.tags = tags
           /\ rec.mysql = mysql
BY DEF Record

LEMMA DeployEndSafe ==
    ASSUME DeliveryInv, NEW r \in Runners, DeployEnd(r), crew' = crew
    PROVE  DeliveryInv'
<1>1. PICK x \in RunState : x = run[r] /\ GoodRun(x)
  BY RunsAs
<1>2. x \in DeployRun /\ x.step = "layers"
  BY <1>1, RunKinds DEF DeployEnd, At
<1>3. x.ver \in Version
  BY <1>2 DEF DeployRun, Version
<1> DEFINE tags == [s \in Services |-> x.ver]
<1>4. tags \in Tags /\ \A s \in Services : tags[s] = x.ver
  BY <1>3 DEF Tags
<1>5. PICK ok \in BOOLEAN : Commit("deploy", x.ver, ok, tags, FALSE)
  BY <1>1 DEF DeployEnd
<1> HIDE DEF tags
<1> DEFINE rec == [action |-> "deploy", ver |-> x.ver, ok |-> ok, tags |-> tags, mysql |-> FALSE]
<1>6. rec \in Record /\ rec.action = "deploy" /\ rec.tags = tags /\ rec.mysql = FALSE
  BY <1>3, <1>4, RecordOf
<1>7. Appends(rec)
  BY <1>5 DEF Commit, Appends
<1> HIDE DEF rec
<1>8. GoodRecord(rec)
  BY <1>2, <1>4, <1>6 DEF GoodRecord, TagsBuilt, DeployRun
<1>9. Return(r) /\ Rest /\ UNCHANGED siteVars
  BY DEF DeployEnd, Rest
<1>10. SiteSafe
  BY <1>9, SiteSame
<1> QED
  BY <1>6, <1>7, <1>8, <1>9, <1>10, RecordSafe

-----------------------------------------------------------------------------
(* Steps of an upgrade.                                                     *)

LEMMA BackupJarSafe ==
    ASSUME DeliveryInv, NEW r \in Runners, NEW s \in Services, BackupJar(r, s), crew' = crew
    PROVE  DeliveryInv'
<1>1. PICK x \in RunState : x = run[r] /\ GoodRun(x)
  BY RunsAs
<1>2. x \in UpgradeRun /\ x.step = "backup"
  BY <1>1, RunKinds DEF BackupJar, At
<1> DEFINE y == [x EXCEPT !.todo = x.todo \ {s}]
<1>3. y \in UpgradeRun /\ y.patch = x.patch /\ y.tags = x.tags /\ y.mysql = x.mysql /\ y.built = x.built /\ y.step = x.step
  BY <1>2, UpgradeTodo DEF UpgradeRun
<1>4. /\ Go(r, y) /\ ledger' = ledger /\ Rest
      /\ UNCHANGED <<rendered, images, running, jar, sqlDone, nacos, html, htmlBak>>
      /\ bak' = [bak EXCEPT ![x.from][s] = FindJar(s)] \/ bak' = bak
  BY <1>1 DEF BackupJar, Rest
<1> HIDE DEF y
<1>5. SiteTypes /\ OriginalFrontendKept
  BY DEF DeliveryInv, TypeOK, SiteTypes
<1>6. bak' \in [Version -> Tags]
  <2>1. CASE bak' = bak
    BY <1>5, <2>1 DEF SiteTypes
  <2>2. CASE bak' = [bak EXCEPT ![x.from][s] = FindJar(s)]
    <3> DEFINE found == FindJar(s)
    <3>1. bak \in [Version -> Tags] /\ found \in Version \cup {None} /\ x.from \in Version
      BY <1>2, <1>5 DEF SiteTypes, Jars, JarName, PlainJars, FindJar, UpgradeRun
    <3>4. bak' = [bak EXCEPT ![x.from] = [bak[x.from] EXCEPT ![s] = found]]
      BY <2>2
    <3> HIDE DEF found
    <3>2. bak[x.from] \in Tags
      BY <3>1
    <3>3. [bak[x.from] EXCEPT ![s] = found] \in Tags
      BY <3>1, <3>2 DEF Tags
    <3> QED
      BY <3>1, <3>3, <3>4
  <2> QED
    BY <1>4, <2>1, <2>2
<1>7. SiteSafe
  BY <1>4, <1>5, <1>6 DEF SiteSafe, SiteTypes, SiteGoesOn, OriginalFrontendKept, SqlApplied
<1> QED
  BY <1>1, <1>2, <1>3, <1>4, <1>7, UpgradeGoes

LEMMA BackupDoneSafe ==
    ASSUME DeliveryInv, NEW r \in Runners, BackupDone(r), crew' = crew
    PROVE  DeliveryInv'
<1>1. PICK x \in RunState : x = run[r] /\ GoodRun(x)
  BY RunsAs
<1>2. x \in UpgradeRun /\ x.patch \in Patches
  BY <1>1, RunKinds DEF BackupDone, At, UpgradeRun
<1>3. x.patch.jars \subseteq Services
  BY <1>2, DeliveryAssumption
<1> DEFINE y == [x EXCEPT !.step = "copy", !.todo = x.patch.jars]
<1>4. y \in UpgradeRun /\ y.patch = x.patch /\ y.tags = x.tags /\ y.mysql = x.mysql /\ y.built = x.built /\ y.step = "copy"
  BY <1>2, <1>3 DEF UpgradeRun
<1>5. Go(r, y) /\ ledger' = ledger /\ Rest /\ UNCHANGED siteVars
  BY <1>1 DEF BackupDone, Rest
<1> HIDE DEF y
<1>6. SiteSafe
  BY <1>5, SiteSame
<1> QED
  BY <1>1, <1>2, <1>4, <1>5, <1>6, UpgradeGoes

\* A jar that is put takes the place of the one of its name.
LEMMA JarPut ==
    ASSUME jar \in Jars, NEW r, NEW s \in Services, PutJar(r, s), run[r].patch.version \in Version
    PROVE  /\ jar' \in Jars
           /\ jar'[s][PatchJar(run[r].patch, s)] = run[r].patch.version
           /\ \A q \in Services, n \in JarName : jar[q][n] # None => jar'[q][n] # None
<1> DEFINE n == PatchJar(run[r].patch, s)
           v == run[r].patch.version
<1>1. n \in JarName /\ v \in Version /\ v # None
  BY DeliveryAssumption DEF PatchJar, JarName, PlainJars
<1>2. jar' = [jar EXCEPT ![s] = [jar[s] EXCEPT ![n] = v]]
  BY DEF PutJar
<1> HIDE DEF n, v
<1>3. jar[s] \in [JarName -> Version \cup {None}]
  BY DEF Jars
<1>4. [jar[s] EXCEPT ![n] = v] \in [JarName -> Version \cup {None}]
  BY <1>1, <1>3
<1>5. jar' \in Jars
  BY <1>2, <1>4 DEF Jars
<1>6. jar'[s] = [jar[s] EXCEPT ![n] = v] /\ \A q \in Services : q # s => jar'[q] = jar[q]
  BY <1>2 DEF Jars
<1>7. jar'[s][n] = v
  BY <1>1, <1>3, <1>6
<1>8. ASSUME NEW q \in Services, NEW m \in JarName, jar[q][m] # None PROVE jar'[q][m] # None
  BY <1>1, <1>3, <1>6, <1>8
<1> QED
  BY <1>5, <1>7, <1>8 DEF n, v

LEMMA CopyJarSafe ==
    ASSUME DeliveryInv, NEW r \in Runners, NEW s \in Services, CopyJar(r, s), crew' = crew
    PROVE  DeliveryInv'
<1>1. PICK x \in RunState : x = run[r] /\ GoodRun(x)
  BY RunsAs
<1>2. x \in UpgradeRun /\ x.patch \in Patches /\ x.todo \in SUBSET Services
  BY <1>1, RunKinds DEF CopyJar, At, UpgradeRun
<1>3. x.patch.version \in Version
  BY <1>2 DEF Version
<1>4. SiteTypes /\ OriginalFrontendKept
  BY DEF DeliveryInv, TypeOK, SiteTypes
<1>5. ledger' = ledger /\ Rest /\ UNCHANGED <<rendered, images, running, bak, sqlDone, nacos, html, htmlBak>>
  BY DEF CopyJar, Rest
<1>6. jar' = jar \/ PutJar(r, s)
  BY DEF CopyJar
<1>7. jar' \in Jars
  BY <1>1, <1>3, <1>4, <1>6, JarPut DEF SiteTypes
<1>8. SiteSafe
  BY <1>4, <1>5, <1>7 DEF SiteSafe, SiteTypes, SiteGoesOn, OriginalFrontendKept, SqlApplied
<1>9. CASE Return(r)
  BY <1>5, <1>8, <1>9, ReturnSafe
<1>10. CASE Go(r, [x EXCEPT !.step = "build", !.todo = x.todo \ {s}, !.svc = s])
  <2> DEFINE y == [x EXCEPT !.step = "build", !.todo = x.todo \ {s}, !.svc = s]
  <2>1. x.todo \ {s} \in SUBSET Services /\ s \in Services \cup {None}
    BY <1>2
  <2>2. y \in UpgradeRun /\ y.patch = x.patch /\ y.tags = x.tags /\ y.mysql = x.mysql /\ y.built = x.built /\ y.step = "build"
        /\ y.svc = s
    BY <1>2, <2>1 DEF UpgradeRun
  <2>3. Go(r, y)
    BY <1>10
  <2> HIDE DEF y
  <2> QED
    BY <1>1, <1>2, <1>5, <1>8, <2>2, <2>3, UpgradeGoes
<1> QED
  BY <1>1, <1>9, <1>10 DEF CopyJar

LEMMA BuildSafe ==
    ASSUME DeliveryInv, NEW r \in Runners, Build(r), crew' = crew
    PROVE  DeliveryInv'
<1>1. PICK x \in RunState : x = run[r] /\ GoodRun(x)
  BY RunsAs
<1>2. x \in UpgradeRun /\ x.step = "build" /\ x.patch \in Patches /\ x.svc \in Services
  BY <1>1, RunKinds DEF Build, At, UpgradeRun, GoodRun
<1>3. x.patch.version \in Version
  BY <1>2 DEF Version
<1>4. SiteTypes /\ OriginalFrontendKept
  BY DEF DeliveryInv, TypeOK, SiteTypes
<1>5. ledger' = ledger /\ Rest /\ UNCHANGED <<rendered, running, jar, bak, sqlDone, nacos, html, htmlBak>>
  BY DEF Build, Rest
<1>6. CASE images' = images /\ Return(r)
  <2>1. SiteSafe
    BY <1>4, <1>5, <1>6 DEF SiteSafe, SiteTypes, SiteGoesOn, OriginalFrontendKept, SqlApplied
  <2> QED
    BY <1>5, <1>6, <2>1, ReturnSafe
<1>7. ASSUME NEW n \in JarName, jar[x.svc][n] # None,
             images' = Put(images, {<<x.svc, x.patch.version>>}, jar[x.svc][n]),
             Go(r, [x EXCEPT !.step = "copy", !.built = x.built \cup {x.svc}])
      PROVE  DeliveryInv'
  <2> DEFINE y == [x EXCEPT !.step = "copy", !.built = x.built \cup {x.svc}]
  <2>1. y \in UpgradeRun /\ y.patch = x.patch /\ y.tags = x.tags /\ y.mysql = x.mysql /\ y.built = x.built \cup {x.svc}
        /\ y.step = "copy"
    BY <1>2 DEF UpgradeRun
  <2>2. Go(r, y)
    BY <1>7
  <2> HIDE DEF y
  <2>3. DOMAIN images' = {<<x.svc, x.patch.version>>} \cup DOMAIN images
    BY <1>7 DEF Put
  <2>4. jar[x.svc][n] \in Version \cup {None}
    BY <1>2, <1>4 DEF SiteTypes, Jars
  <2>5. \A t \in DOMAIN images' : images'[t] \in Version \cup {None}
    BY <1>4, <1>7, <2>4 DEF SiteTypes, Put
  <2>6. SiteSafe
    BY <1>2, <1>3, <1>4, <1>5, <2>3, <2>5 DEF SiteSafe, SiteTypes, SiteGoesOn, OriginalFrontendKept, SqlApplied
  <2>7. \A s \in y.built : s \in x.built \/ <<s, y.patch.version>> \in DOMAIN images'
    BY <2>1, <2>3
  <2> QED
    BY <1>1, <1>2, <1>5, <2>1, <2>2, <2>6, <2>7, UpgradeGoes
<1> QED
  BY <1>1, <1>6, <1>7 DEF Build

LEMMA BuildDoneSafe ==
    ASSUME DeliveryInv, NEW r \in Runners, BuildDone(r), crew' = crew
    PROVE  DeliveryInv'
<1>1. PICK x \in RunState : x = run[r] /\ GoodRun(x)
  BY RunsAs
<1>2. x \in UpgradeRun
  BY <1>1, RunKinds DEF BuildDone, At
<1> DEFINE y == [x EXCEPT !.step = "sql"]
<1>3. y \in UpgradeRun /\ y.patch = x.patch /\ y.tags = x.tags /\ y.mysql = x.mysql /\ y.built = x.built /\ y.step = "sql"
  BY <1>2, UpgradeOnlyStep
<1>4. Go(r, y) /\ ledger' = ledger /\ Rest /\ UNCHANGED siteVars
  BY <1>1 DEF BuildDone, Rest
<1> HIDE DEF y
<1>5. SiteSafe
  BY <1>4, SiteSame
<1> QED
  BY <1>1, <1>2, <1>3, <1>4, <1>5, UpgradeGoes

LEMMA SqlSafe ==
    ASSUME DeliveryInv, NEW r \in Runners, Sql(r), crew' = crew
    PROVE  DeliveryInv'
<1>1. PICK x \in RunState : x = run[r] /\ GoodRun(x)
  BY RunsAs
<1>2. x \in UpgradeRun /\ x.patch \in Patches
  BY <1>1, RunKinds DEF Sql, At, UpgradeRun
<1>3. SiteTypes /\ OriginalFrontendKept
  BY DEF DeliveryInv, TypeOK, SiteTypes
<1>4. ledger' = ledger /\ Rest /\ UNCHANGED <<rendered, images, running, jar, bak, nacos, html, htmlBak>>
  BY DEF Sql, Rest
<1>5. ASSUME NEW k \in sqlDone[x.patch]..NumScripts, sqlDone' = [sqlDone EXCEPT ![x.patch] = k], SqlEnd(r, k)
      PROVE  DeliveryInv'
  <2>1. /\ sqlDone \in [Patches -> 0..NumScripts] /\ NumScripts \in Nat
        /\ sqlDone[x.patch] \in 0..NumScripts
    BY <1>2, <1>3, DeliveryAssumption DEF SiteTypes
  <2>2. k \in 0..NumScripts /\ (sqlDone[x.patch] = NumScripts => k = NumScripts)
    BY <2>1
  <2>3. sqlDone' \in [Patches -> 0..NumScripts] /\ \A p \in Patches : SqlApplied(p) => sqlDone'[p] = NumScripts
    BY <1>2, <1>5, <2>1, <2>2 DEF SqlApplied
  <2>4. SiteSafe
    BY <1>3, <1>4, <2>3 DEF SiteSafe, SiteTypes, SiteGoesOn, OriginalFrontendKept
  <2>5. CASE k = NumScripts
    <3> DEFINE y == [x EXCEPT !.step = "nacos", !.mysql = TRUE]
    <3>1. y \in UpgradeRun /\ y.patch = x.patch /\ y.tags = x.tags /\ y.built = x.built /\ y.step = "nacos"
      BY <1>2 DEF UpgradeRun
    <3>2. Go(r, y)
      BY <1>1, <1>5, <2>5 DEF SqlEnd
    <3> HIDE DEF y
    <3>3. SqlApplied(y.patch)'
      BY <1>2, <1>5, <2>1, <2>5, <3>1 DEF SqlApplied
    <3> QED
      BY <1>1, <1>2, <1>4, <2>4, <3>1, <3>2, <3>3, UpgradeGoes
  <2>6. CASE k # NumScripts
    <3>1. Return(r)
      BY <1>5, <2>6 DEF SqlEnd
    <3> QED
      BY <1>4, <2>4, <3>1, ReturnSafe
  <2> QED
    BY <2>5, <2>6
<1>6. CASE sqlDone' = sqlDone /\ Go(r, [x EXCEPT !.step = "nacos"])
  <2> DEFINE y == [x EXCEPT !.step = "nacos"]
  <2>1. /\ y \in UpgradeRun /\ y.patch = x.patch /\ y.tags = x.tags /\ y.mysql = x.mysql
        /\ y.built = x.built /\ y.step = "nacos"
    BY <1>2, UpgradeOnlyStep
  <2>2. Go(r, y)
    BY <1>6
  <2> HIDE DEF y
  <2>3. SiteSafe
    BY <1>4, <1>6, SiteSame DEF siteVars
  <2> QED
    BY <1>1, <1>2, <1>4, <2>1, <2>2, <2>3, UpgradeGoes
<1> QED
  BY <1>1, <1>5, <1>6 DEF Sql
LEMMA NacosSafe ==
    ASSUME DeliveryInv, NEW r \in Runners, Nacos(r), crew' = crew
    PROVE  DeliveryInv'
<1>1. PICK x \in RunState : x = run[r] /\ GoodRun(x)
  BY RunsAs
<1>2. x \in UpgradeRun /\ x.step = "nacos" /\ x.patch \in Patches
  BY <1>1, RunKinds DEF Nacos, At, UpgradeRun
<1>3. x.patch.version \in Version
  BY <1>2 DEF Version
<1> DEFINE y == [x EXCEPT !.step = "frontend"]
<1>4. y \in UpgradeRun /\ y.patch = x.patch /\ y.tags = x.tags /\ y.mysql = x.mysql /\ y.built = x.built /\ y.step = "frontend"
  BY <1>2, UpgradeOnlyStep
<1>5. /\ Go(r, y) /\ ledger' = ledger /\ Rest
      /\ UNCHANGED <<rendered, images, running, jar, bak, sqlDone, html, htmlBak>>
      /\ nacos' = nacos \/ nacos' = x.patch.version
  BY <1>1 DEF Nacos, Rest
<1> HIDE DEF y
<1>6. SiteTypes /\ OriginalFrontendKept
  BY DEF DeliveryInv, TypeOK, SiteTypes
<1>7. SiteSafe
  BY <1>3, <1>5, <1>6 DEF SiteSafe, SiteTypes, SiteGoesOn, OriginalFrontendKept, SqlApplied
<1> QED
  BY <1>1, <1>2, <1>4, <1>5, <1>7, UpgradeGoes

\* Whatever html has goes to a backup, and no backup with something in it is
\* written over: what was in html before the first upgrade stays somewhere.
LEMMA ReplaceKeeps ==
    ASSUME DeliveryInv, NEW a \in File, ReplaceHtml(a)
    PROVE  html' \subseteq File /\ DOMAIN htmlBak' \subseteq 0..MaxTime /\ OriginalFrontendKept'
<1>1. html \subseteq File /\ DOMAIN htmlBak \subseteq 0..MaxTime /\ now \in 0..MaxTime /\ OriginalFrontendKept
  BY DEF DeliveryInv, TypeOK
<1>2. CASE now \in DOMAIN htmlBak /\ htmlBak[now] # {}
  <2>1. html' = html \cup {a} /\ htmlBak' = htmlBak
    BY <1>2 DEF ReplaceHtml
  <2> QED
    BY <1>1, <2>1 DEF OriginalFrontendKept
<1>3. CASE ~(now \in DOMAIN htmlBak /\ htmlBak[now] # {})
  <2>1. htmlBak' = Put(htmlBak, {now}, html) /\ html' = {a}
    BY <1>3 DEF ReplaceHtml
  <2>2. DOMAIN htmlBak' = {now} \cup DOMAIN htmlBak /\ htmlBak'[now] = html
        /\ \A t \in DOMAIN htmlBak : t # now => htmlBak'[t] = htmlBak[t]
    BY <2>1 DEF Put
  <2>3. \E t \in DOMAIN htmlBak' : Original \in htmlBak'[t]
    <3>1. CASE Original \in html
      BY <2>2, <3>1
    <3>2. ASSUME NEW t \in DOMAIN htmlBak, Original \in htmlBak[t]
          PROVE  \E u \in DOMAIN htmlBak' : Original \in htmlBak'[u]
      <4>1. t # now
        BY <1>3, <3>2
      <4> QED
        BY <2>2, <3>2, <4>1
    <3> QED
      BY <1>1, <3>1, <3>2 DEF OriginalFrontendKept
  <2> QED
    BY <1>1, <2>1, <2>2, <2>3 DEF OriginalFrontendKept
<1> QED
  BY <1>2, <1>3

LEMMA FrontendSafe ==
    ASSUME DeliveryInv, NEW r \in Runners, Frontend(r), crew' = crew
    PROVE  DeliveryInv'
<1>1. PICK x \in RunState : x = run[r] /\ GoodRun(x)
  BY RunsAs
<1>2. /\ x \in UpgradeRun /\ x.step = "frontend" /\ x.patch \in Patches
      /\ x.file \in 1..(NumFiles + 1) /\ x.file <= NumFiles
  BY <1>1, RunKinds DEF Frontend, At, UpgradeRun
<1>3. x.patch.version \in Version /\ x.file \in 1..NumFiles /\ x.file + 1 \in 1..(NumFiles + 1)
  BY <1>2, DeliveryAssumption DEF Version
<1>4. Archive(r, x.file) \in File
  BY <1>1, <1>3 DEF Archive, File
<1> DEFINE y == [x EXCEPT !.file = x.file + 1]
<1>5. y \in UpgradeRun /\ y.patch = x.patch /\ y.tags = x.tags /\ y.mysql = x.mysql /\ y.built = x.built /\ y.step = "frontend"
  BY <1>2, <1>3 DEF UpgradeRun
<1>6. /\ Go(r, y) /\ ledger' = ledger /\ Rest /\ ReplaceHtml(Archive(r, x.file))
      /\ UNCHANGED <<rendered, images, running, jar, bak, sqlDone, nacos>>
  BY <1>1 DEF Frontend, Rest
<1> HIDE DEF y
<1>7. SiteTypes
  BY DEF DeliveryInv, TypeOK, SiteTypes
<1>8. html' \subseteq File /\ DOMAIN htmlBak' \subseteq 0..MaxTime /\ OriginalFrontendKept'
  BY <1>4, <1>6, ReplaceKeeps
<1>9. SiteSafe
  BY <1>6, <1>7, <1>8 DEF SiteSafe, SiteTypes, SiteGoesOn, SqlApplied
<1> QED
  BY <1>1, <1>2, <1>5, <1>6, <1>9, UpgradeGoes

LEMMA FrontendDoneSafe ==
    ASSUME DeliveryInv, NEW r \in Runners, FrontendDone(r), crew' = crew
    PROVE  DeliveryInv'
<1>1. PICK x \in RunState : x = run[r] /\ GoodRun(x)
  BY RunsAs
<1>2. x \in UpgradeRun /\ x.step = "frontend" /\ x.built \in SUBSET Services
  BY <1>1, RunKinds DEF FrontendDone, At, UpgradeRun
<1> DEFINE y == [x EXCEPT !.step = "roll", !.todo = x.built]
<1>3. y \in UpgradeRun /\ y.patch = x.patch /\ y.tags = x.tags /\ y.mysql = x.mysql /\ y.built = x.built /\ y.step = "roll"
  BY <1>2 DEF UpgradeRun
<1>4. Go(r, y) /\ ledger' = ledger /\ Rest /\ UNCHANGED siteVars
  BY <1>1 DEF FrontendDone, Rest
<1> HIDE DEF y
<1>5. SiteSafe
  BY <1>4, SiteSame
<1> QED
  BY <1>1, <1>2, <1>3, <1>4, <1>5, UpgradeGoes

LEMMA RollSafe ==
    ASSUME DeliveryInv, NEW r \in Runners, NEW s \in Services, Roll(r, s) \/ RevertService(r, s), crew' = crew
    PROVE  DeliveryInv'
<1>1. PICK x \in RunState : x = run[r] /\ GoodRun(x)
  BY RunsAs
<1>2. x \in UpgradeRun /\ x.step \in {"roll", "revert"} /\ x.todo \in SUBSET Services
  BY <1>1, RunKinds DEF Roll, RevertService, At, UpgradeRun
<1> DEFINE y == [x EXCEPT !.todo = x.todo \ {s}]
<1>3. y \in UpgradeRun /\ y.patch = x.patch /\ y.tags = x.tags /\ y.mysql = x.mysql /\ y.built = x.built /\ y.step = x.step
  BY <1>2, UpgradeTodo
<1>4. /\ Go(r, y) /\ ledger' = ledger /\ Rest
      /\ Up(x.from, s) \/ UNCHANGED running
      /\ UNCHANGED <<rendered, images, jar, bak, sqlDone, nacos, html, htmlBak>>
  BY <1>1 DEF Roll, RevertService, Rest
<1> HIDE DEF y
<1>5. SiteSafe
  BY <1>4, ContainersSafe
<1> QED
  BY <1>1, <1>2, <1>3, <1>4, <1>5, UpgradeGoes

LEMMA RollFailsSafe ==
    ASSUME DeliveryInv, NEW r \in Runners, NEW s \in Services, RollFails(r, s), crew' = crew
    PROVE  DeliveryInv'
<1>1. PICK x \in RunState : x = run[r] /\ GoodRun(x)
  BY RunsAs
<1>2. x \in UpgradeRun /\ x.patch \in Patches
  BY <1>1, RunKinds DEF RollFails, At, UpgradeRun
<1>3. x.patch.services \in SUBSET Services
  BY <1>2, DeliveryAssumption
<1> DEFINE y == [x EXCEPT !.step = "revert", !.todo = x.patch.services]
<1>4. y \in UpgradeRun /\ y.patch = x.patch /\ y.tags = x.tags /\ y.mysql = x.mysql /\ y.built = x.built /\ y.step = "revert"
  BY <1>2, <1>3 DEF UpgradeRun
<1>5. /\ Go(r, y) /\ ledger' = ledger /\ Rest
      /\ Up(x.from, s) \/ UNCHANGED running
      /\ UNCHANGED <<rendered, images, jar, bak, sqlDone, nacos, html, htmlBak>>
  BY <1>1 DEF RollFails, Rest
<1> HIDE DEF y
<1>6. SiteSafe
  BY <1>5, ContainersSafe
<1> QED
  BY <1>1, <1>2, <1>4, <1>5, <1>6, UpgradeGoes

\* A failure is on record as one, which says nothing of images or scripts.
LEMMA RevertDoneSafe ==
    ASSUME DeliveryInv, NEW r \in Runners, RevertDone(r), crew' = crew
    PROVE  DeliveryInv'
<1>1. PICK x \in RunState : x = run[r] /\ GoodRun(x)
  BY RunsAs
<1>2. x \in UpgradeRun /\ x.patch \in Patches /\ x.tags \in Tags /\ x.mysql \in BOOLEAN
  BY <1>1, RunKinds DEF RevertDone, At, UpgradeRun
<1>3. x.patch.version \in Version
  BY <1>2 DEF Version
<1> DEFINE tags == [s \in Services |-> IF s \in x.patch.services THEN x.tags[s] ELSE None]
<1>4. tags \in Tags
  BY <1>2 DEF Tags
<1>5. Commit("upgrade", x.patch.version, FALSE, tags, x.mysql)
  BY <1>1 DEF RevertDone
<1> HIDE DEF tags
<1> DEFINE rec == [action |-> "upgrade", ver |-> x.patch.version, ok |-> FALSE, tags |-> tags, mysql |-> x.mysql]
<1>6. rec \in Record /\ rec.ok = FALSE
  BY <1>2, <1>3, <1>4, RecordOf
<1>7. Appends(rec)
  BY <1>5 DEF Commit, Appends
<1> HIDE DEF rec
<1>8. GoodRecord(rec)
  BY <1>6 DEF GoodRecord
<1>9. Return(r) /\ Rest /\ UNCHANGED siteVars
  BY DEF RevertDone, Rest
<1>10. SiteSafe
  BY <1>9, SiteSame
<1> QED
  BY <1>6, <1>7, <1>8, <1>9, <1>10, RecordSafe

\* The tags of a success: those it starts from are built, and so are the new.
LEMMA MergedBuilt ==
    ASSUME NEW r \in Runners, NEW x \in UpgradeRun, x = run[r], GoodRun(x)
    PROVE  Merged(r) \in Tags /\ TagsBuilt(Merged(r))
<1>1. x.patch.version \in Version /\ x.tags \in Tags /\ x.built \subseteq Services
  BY DEF UpgradeRun, Version
<1>2. Merged(r) = [s \in Services |-> IF s \in x.built THEN x.patch.version ELSE x.tags[s]]
  BY DEF Merged
<1>3. Merged(r) \in Tags
  BY <1>1, <1>2 DEF Tags
<1>4. TagsBuilt(x.tags) /\ \A s \in x.built : <<s, x.patch.version>> \in DOMAIN images
  BY DEF GoodRun
<1>5. ASSUME NEW s \in Services, Merged(r)[s] \in Version \ Releases PROVE <<s, Merged(r)[s]>> \in DOMAIN images
  <2>1. CASE s \in x.built
    BY <1>2, <1>4, <2>1
  <2>2. CASE s \notin x.built
    BY <1>2, <1>4, <1>5, <2>2 DEF TagsBuilt
  <2> QED
    BY <2>1, <2>2
<1> QED
  BY <1>3, <1>5 DEF TagsBuilt

LEMMA UpgradeEndSafe ==
    ASSUME DeliveryInv, NEW r \in Runners, UpgradeEnd(r), crew' = crew
    PROVE  DeliveryInv'
<1>1. PICK x \in RunState : x = run[r] /\ GoodRun(x)
  BY RunsAs
<1>2. x \in UpgradeRun /\ x.step = "roll" /\ x.patch \in Patches /\ x.mysql \in BOOLEAN
  BY <1>1, RunKinds DEF UpgradeEnd, At, UpgradeRun
<1>3. x.patch.version \in Version
  BY <1>2 DEF Version
<1>4. PICK tags \in Tags : tags = Merged(r) /\ TagsBuilt(tags)
  BY <1>1, <1>2, MergedBuilt
<1>5. Commit("upgrade", x.patch.version, TRUE, tags, x.mysql)
  BY <1>1, <1>4 DEF UpgradeEnd
<1> DEFINE rec == [action |-> "upgrade", ver |-> x.patch.version, ok |-> TRUE, tags |-> tags, mysql |-> x.mysql]
<1>6. rec \in Record /\ rec.tags = tags /\ rec.ver = x.patch.version /\ rec.mysql = x.mysql
  BY <1>2, <1>3, RecordOf
<1>7. Appends(rec)
  BY <1>5 DEF Commit, Appends
<1> HIDE DEF rec
<1>8. x.mysql => SqlApplied(x.patch)
  BY <1>1, <1>2 DEF GoodRun
<1>9. GoodRecord(rec)
  BY <1>2, <1>4, <1>6, <1>8 DEF GoodRecord
<1>10. Return(r) /\ Rest /\ UNCHANGED siteVars
  BY DEF UpgradeEnd, Rest
<1>11. SiteSafe
  BY <1>10, SiteSame
<1> QED
  BY <1>6, <1>7, <1>9, <1>10, <1>11, RecordSafe

-----------------------------------------------------------------------------
(* Steps of a rollback, and what happens to any run.                        *)

LEMMA RollbackServiceSafe ==
    ASSUME DeliveryInv, NEW r \in Runners, NEW s \in Services, RollbackService(r, s), crew' = crew
    PROVE  DeliveryInv'
<1>1. PICK x \in RunState : x = run[r] /\ GoodRun(x)
  BY RunsAs
<1>2. x \in RollbackRun
  BY <1>1, RunKinds DEF RollbackService, At
<1> DEFINE y == [x EXCEPT !.todo = x.todo \ {s}]
<1>3. y \in RollbackRun /\ y.tags = x.tags /\ y.step = "back"
  BY <1>2 DEF RollbackRun
<1>4. /\ Go(r, y) /\ ledger' = ledger /\ Rest
      /\ Up(x.ver, s) \/ UNCHANGED running
      /\ UNCHANGED <<rendered, images, jar, bak, sqlDone, nacos, html, htmlBak>>
  BY <1>1 DEF RollbackService, Rest
<1> HIDE DEF y
<1>5. SiteSafe
  BY <1>4, ContainersSafe
<1>6. GoodRun(x)'
  BY <1>1, <1>5, RunStaysGood DEF SiteSafe
<1>7. y \in RunState /\ y \notin UpgradeRun
  BY <1>3 DEF RunState, UpgradeRun
<1>8. GoodRun(y)'
  BY <1>2, <1>3, <1>6, <1>7 DEF GoodRun
<1>9. ledger' \in Seq(Record) /\ (\A i \in DOMAIN ledger : GoodRecord(ledger[i]))'
  BY <1>4, <1>5, LedgerSame DEF SiteSafe
<1> QED
  BY <1>4, <1>5, <1>7, <1>8, <1>9, StepSafe

LEMMA RollbackEndSafe ==
    ASSUME DeliveryInv, NEW r \in Runners, RollbackEnd(r), crew' = crew
    PROVE  DeliveryInv'
<1>1. PICK x \in RunState : x = run[r] /\ GoodRun(x)
  BY RunsAs
<1>2. x \in RollbackRun /\ x.ver \in Version /\ x.tags \in Tags
  BY <1>1, RunKinds DEF RollbackEnd, At, RollbackRun
<1>3. Commit("rollback", x.ver, TRUE, x.tags, FALSE)
  BY <1>1 DEF RollbackEnd
<1> DEFINE rec == [action |-> "rollback", ver |-> x.ver, ok |-> TRUE, tags |-> x.tags, mysql |-> FALSE]
<1>4. rec \in Record /\ rec.action = "rollback" /\ rec.tags = x.tags /\ rec.mysql = FALSE
  BY <1>2, RecordOf
<1>5. Appends(rec)
  BY <1>3 DEF Commit, Appends
<1> HIDE DEF rec
<1>6. GoodRecord(rec)
  BY <1>1, <1>2, <1>4 DEF GoodRecord, GoodRun
<1>7. Return(r) /\ Rest /\ UNCHANGED siteVars
  BY DEF RollbackEnd, Rest
<1>8. SiteSafe
  BY <1>7, SiteSame
<1> QED
  BY <1>4, <1>5, <1>6, <1>7, <1>8, RecordSafe

LEMMA CrashSafe == ASSUME DeliveryInv, NEW r \in Runners, Crash(r), crew' = crew PROVE DeliveryInv'
<1>1. Return(r) /\ ledger' = ledger /\ Rest /\ UNCHANGED siteVars
  BY DEF Crash, Rest
<1>2. SiteSafe
  BY <1>1, SiteSame
<1> QED
  BY <1>1, <1>2, ReturnSafe

\* Nothing but the clock moves.
LEMMA StillSafe ==
    ASSUME DeliveryInv, UNCHANGED <<ledger, run, siteVars>>, crew' = crew, now' \in 0..MaxTime
    PROVE  DeliveryInv'
<1>1. SiteSafe
  BY SiteSame
<1>2. ledger' \in Seq(Record) /\ (\A i \in DOMAIN ledger : GoodRecord(ledger[i]))'
  BY <1>1, LedgerSame DEF SiteSafe
<1>3. TypeOK'
  BY <1>1, <1>2 DEF DeliveryInv, TypeOK, SiteSafe, SiteTypes
<1>4. ASSUME NEW q \in Runners PROVE GoodRun(run[q])'
  <2>1. PICK x : x = run[q]
    OBVIOUS
  <2>2. GoodRun(x)'
    BY <1>1, <2>1, RunStaysGood DEF DeliveryInv, SiteSafe
  <2> QED
    BY <2>1, <2>2
<1> QED
  BY <1>1, <1>2, <1>3, <1>4 DEF DeliveryInv, SiteSafe
-----------------------------------------------------------------------------
(* The specification.                                                       *)

LEMMA InitSafe == Init => DeliveryInv
<1> SUFFICES ASSUME Init PROVE DeliveryInv
  OBVIOUS
<1>1. ledger = <<>> /\ ledger \in Seq(Record) /\ DOMAIN ledger = {}
  BY EmptySeq, SMT DEF Init
<1>2. images = <<>> /\ htmlBak = <<>> /\ DOMAIN images = {} /\ DOMAIN htmlBak = {}
  BY SMT DEF Init
<1>3. run \in [Runners -> RunState] /\ \A r \in Runners : run[r] = Idle
  BY DEF Init, RunState
<1>4. NoTags \in Tags
  BY DEF NoTags, Tags
<1>5. \A p \in Patches : 0 \in 0..NumScripts
  BY DeliveryAssumption
<1>6. TypeOK
  <2>1. jar \in Jars /\ running \in Tags /\ bak \in [Version -> Tags]
    BY <1>4, DeliveryAssumption DEF Init
  <2>2. sqlDone \in [Patches -> 0..NumScripts] /\ now \in 0..MaxTime /\ html \subseteq File
    BY <1>5, DeliveryAssumption DEF Init, File
  <2> QED
    BY <1>1, <1>2, <1>3, <2>1, <2>2 DEF Init, TypeOK, RunState
<1>7. GoodRun(Idle)
  <2>1. Idle.step = "idle"
    BY DEF Idle
  <2> QED
    BY <2>1 DEF GoodRun, UpgradeRun, RollbackRun
<1>8. OriginalFrontendKept
  BY DEF Init, OriginalFrontendKept
<1> QED
  BY <1>1, <1>3, <1>6, <1>7, <1>8 DEF DeliveryInv

LEMMA NextSafe == ASSUME DeliveryInv, [Next]_vars PROVE DeliveryInv'
<1>1. CASE UNCHANGED vars
  <2>1. UNCHANGED <<ledger, run, siteVars>> /\ crew' = crew /\ now' \in 0..MaxTime
    BY <1>1 DEF vars, DeliveryInv, TypeOK
  <2> QED
    BY <2>1, StillSafe
<1>2. ASSUME Tick, crew' = crew PROVE DeliveryInv'
  <2>1. now' \in 0..MaxTime
    BY <1>2, DeliveryAssumption DEF Tick, DeliveryInv, TypeOK
  <2> QED
    BY <1>2, <2>1, StillSafe DEF Tick
<1>3. ASSUME NEW r \in Runners, DeployStep(r), crew' = crew PROVE DeliveryInv'
  BY <1>3, DeployStartSafe, DeployRenderSafe, DeployEndSafe, DeployUpSafe DEF DeployStep
<1>4. ASSUME NEW r \in Runners, UpgradeStep(r), crew' = crew PROVE DeliveryInv'
  <2>1. CASE (\E p \in Patches : UpgradeStart(r, p)) \/ BackupDone(r) \/ Build(r) \/ BuildDone(r)
    BY <1>4, <2>1, UpgradeStartSafe, BackupDoneSafe, BuildSafe, BuildDoneSafe
  <2>2. CASE Sql(r) \/ Nacos(r) \/ Frontend(r) \/ FrontendDone(r) \/ RevertDone(r) \/ UpgradeEnd(r)
    BY <1>4, <2>2, SqlSafe, NacosSafe, FrontendSafe, FrontendDoneSafe, RevertDoneSafe, UpgradeEndSafe
  <2>3. ASSUME NEW s \in Services,
               BackupJar(r, s) \/ CopyJar(r, s) \/ Roll(r, s) \/ RollFails(r, s) \/ RevertService(r, s)
        PROVE  DeliveryInv'
    BY <1>4, <2>3, BackupJarSafe, CopyJarSafe, RollSafe, RollFailsSafe
  <2> QED
    BY <1>4, <2>1, <2>2, <2>3 DEF UpgradeStep
<1>5. ASSUME NEW r \in Runners, RollbackStep(r), crew' = crew PROVE DeliveryInv'
  BY <1>5, RollbackStartSafe, RollbackServiceSafe, RollbackEndSafe DEF RollbackStep
<1>6. ASSUME NEW r \in Runners, Crash(r), crew' = crew PROVE DeliveryInv'
  BY <1>6, CrashSafe
<1> QED
  BY <1>1, <1>2, <1>3, <1>4, <1>5, <1>6 DEF Next

LEMMA DeliveryAlways == Spec => []DeliveryInv
<1>1. Init => DeliveryInv
  BY InitSafe
<1>2. DeliveryInv /\ [Next]_vars => DeliveryInv'
  BY NextSafe
<1> QED
  BY <1>1, <1>2, PTL DEF Spec

\* Whatever runs overlap, fail or die: a tag of a patch that a success on record
\* has, built by that run or taken over from the records before it, is in the
\* local docker (upgrade.go: Run, merged, Rollback; deploy.go: Run).
THEOREM ImagesOfRecords == Spec => []SiteOK
<1>1. DeliveryInv => SiteOK
  BY DEF DeliveryInv, SiteOK, RecordedTagsBuilt, GoodRecord, TagsBuilt
<1> QED
  BY <1>1, DeliveryAlways, PTL

\* An upgrade that is on record as a success and had MySQL enabled has all its
\* SQL in the database, however many attempts it took and whatever ran beside it
\* (upgrade.go: Run; db/apply.go: Run).
THEOREM ScriptsOfRecords == Spec => []SuccessHasItsSql
<1>1. DeliveryInv => SuccessHasItsSql
  BY DEF DeliveryInv, SuccessHasItsSql, GoodRecord, SqlApplied
<1> QED
  BY <1>1, DeliveryAlways, PTL

\* What was in html before the first upgrade stays in html or in a backup, for
\* any number of archives, upgrades and seconds (upgrade.go: applyFrontend).
THEOREM FrontendKept == Spec => []OriginalFrontendKept
<1>1. DeliveryInv => OriginalFrontendKept
  BY DEF DeliveryInv
<1> QED
  BY <1>1, DeliveryAlways, PTL

-----------------------------------------------------------------------------
(* Where runs do not overlap.                                               *)

Busy == {k \in Runners : run[k] # Idle}

\* An upgrade still has the baseline it was checked for, and builds from the
\* jar that it has put there.
LoneRun(x) ==
    /\ x \in UpgradeRun => Successes(None) # {} /\ Latest.ver = x.patch.base
    /\ x \in UpgradeRun /\ x.step = "build" => jar[x.svc][PatchJar(x.patch, x.svc)] = x.patch.version

JarsInImages == \A t \in DOMAIN images : OneJar(t[1]) => images[t] = t[2]

LoneInv ==
    /\ IsFiniteSet(Busy)
    /\ crew = 1 => /\ \A r \in Busy : Busy \subseteq {r}
                   /\ \A r \in Runners : LoneRun(run[r])
                   /\ JarsInImages

LEMMA IdleAlone == \A r \in Runners : run[r] = Idle => LoneRun(run[r])
<1>1. Idle.step = "idle"
  BY DEF Idle
<1>2. Idle \notin UpgradeRun
  BY <1>1 DEF UpgradeRun
<1> QED
  BY <1>2 DEF LoneRun

LEMMA IdleAloneNext == \A r \in Runners : run'[r] = Idle => LoneRun(run[r])'
<1>1. Idle.step = "idle"
  BY DEF Idle
<1>2. Idle \notin UpgradeRun
  BY <1>1 DEF UpgradeRun
<1> QED
  BY <1>2 DEF LoneRun

\* Jars are only put: where there is one now, there was no other before.
LEMMA JarsOfImages ==
    ASSUME DeliveryInv, images' = images,
           \A s \in Services, n \in JarName : jar[s][n] # None => jar'[s][n] # None
    PROVE  JarsInImages => JarsInImages'
<1>1. ASSUME JarsInImages, NEW t \in DOMAIN images', OneJar(t[1])' PROVE images'[t] = t[2]
  <2>1. t \in DOMAIN images /\ t[1] \in Services
    BY DEF DeliveryInv, TypeOK
  <2>2. OneJar(t[1])
    BY <1>1, <2>1 DEF OneJar
  <2> QED
    BY <1>1, <2>1, <2>2 DEF JarsInImages
<1> QED
  BY <1>1 DEF JarsInImages

LEMMA JarsSame == ASSUME DeliveryInv, images' = images, jar' = jar PROVE JarsInImages => JarsInImages'
BY JarsOfImages

\* A step of the only run there is.
LEMMA LoneStep ==
    ASSUME DeliveryInv, LoneInv, NEW r \in Runners, NEW y \in RunState, Go(r, y), crew' = crew,
           run[r] # Idle \/ (crew = 1 => Busy = {}),
           crew = 1 => LoneRun(y)' /\ JarsInImages'
    PROVE  LoneInv'
<1>1. run \in [Runners -> RunState] /\ run' = [run EXCEPT ![r] = y]
  BY DEF DeliveryInv, TypeOK, RunState, Go
<1>2. Busy' \subseteq Busy \cup {r}
  BY <1>1 DEF Busy
<1>3. IsFiniteSet(Busy')
  <2>1. IsFiniteSet(Busy \cup {r})
    BY FS_AddElement DEF LoneInv
  <2> QED
    BY <1>2, <2>1, FS_Subset
<1>4. ASSUME crew = 1, NEW q \in Runners, q # r PROVE run'[q] = Idle
  <2>1. run'[q] = run[q]
    BY <1>1, <1>4
  <2>2. run[q] = Idle
    BY <1>4 DEF LoneInv, Busy
  <2> QED
    BY <2>1, <2>2
<1>5. ASSUME crew = 1 PROVE Busy' \subseteq {r}
  BY <1>4, <1>5 DEF Busy
<1>6. ASSUME crew = 1, NEW q \in Runners PROVE LoneRun(run[q])'
  <2>1. CASE q = r
    <3>1. run'[q] = y
      BY <1>1, <2>1
    <3> QED
      BY <1>6, <3>1
  <2>2. CASE q # r
    BY <1>4, <1>6, <2>2, IdleAloneNext
  <2> QED
    BY <2>1, <2>2
<1> QED
  BY <1>3, <1>5, <1>6 DEF LoneInv

LEMMA LoneReturn ==
    ASSUME DeliveryInv, LoneInv, NEW r \in Runners, run[r] # Idle, Return(r), crew' = crew, JarsInImages => JarsInImages'
    PROVE  LoneInv'
<1>1. Idle \in RunState /\ LoneRun(Idle)'
  <2>1. Idle.step = "idle"
    BY DEF Idle
  <2>2. Idle \notin UpgradeRun
    BY <2>1 DEF UpgradeRun
  <2> QED
    BY <2>2 DEF LoneRun, RunState
<1> QED
  BY <1>1, LoneStep DEF Return, LoneInv

\* The upgrade goes on to a step that is not the build.
LEMMA LoneGoes ==
    ASSUME DeliveryInv, LoneInv, NEW r \in Runners, NEW x \in RunState, x = run[r], x # Idle,
           NEW y \in RunState, Go(r, y), crew' = crew, ledger' = ledger,
           y \in UpgradeRun => x \in UpgradeRun /\ y.patch = x.patch /\ y.step # "build",
           crew = 1 => JarsInImages'
    PROVE  LoneInv'
<1>1. Successes(None)' = Successes(None) /\ Latest' = Latest
  BY DEF Successes, Latest, Last
<1>2. crew = 1 => LoneRun(x)
  BY DEF LoneInv
<1>3. crew = 1 => LoneRun(y)'
  BY <1>1, <1>2 DEF LoneRun
<1> QED
  BY <1>3, LoneStep

LEMMA LoneBegins ==
    ASSUME DeliveryInv, LoneInv, NEW r \in Runners, NEW y \in RunState, Begin(r, y), crew' = crew,
           y \in UpgradeRun => Successes(None) # {} /\ Latest.ver = y.patch.base /\ y.step # "build"
    PROVE  LoneInv'
<1>1. ledger' = ledger /\ images' = images /\ jar' = jar /\ Go(r, y) /\ Cardinality(Busy) < crew
  BY DEF Begin, siteVars, Go, Busy
<1>2. Successes(None)' = Successes(None) /\ Latest' = Latest
  BY <1>1 DEF Successes, Latest, Last
<1>3. LoneRun(y)'
  BY <1>2 DEF LoneRun
<1>4. crew = 1 => Busy = {}
  <2>1. IsFiniteSet(Busy)
    BY DEF LoneInv
  <2>2. Cardinality(Busy) \in Nat
    BY <2>1, FS_CardinalityType
  <2>3. crew = 1 => Cardinality(Busy) = 0
    BY <1>1, <2>2
  <2> QED
    BY <2>1, <2>3, FS_EmptySet
<1> QED
  BY <1>1, <1>3, <1>4, JarsSame, LoneStep DEF LoneInv

LEMMA LoneStarts ==
    ASSUME DeliveryInv, LoneInv, NEW r \in Runners, crew' = crew,
           \/ \E v \in Releases : DeployStart(r, v)
           \/ \E p \in Patches : UpgradeStart(r, p)
           \/ \E to \in Version \cup {None} : RollbackStart(r, to)
    PROVE  LoneInv'
<1>1. ASSUME NEW v \in Releases, DeployStart(r, v) PROVE LoneInv'
  <2> DEFINE y == [step |-> "render", ver |-> v, todo |-> Services]
  <2>1. y \in DeployRun /\ y.step = "render"
    BY DEF DeployRun
  <2>2. Begin(r, y)
    BY <1>1 DEF DeployStart
  <2> HIDE DEF y
  <2>3. y \in RunState /\ y \notin UpgradeRun
    BY <2>1 DEF RunState, UpgradeRun
  <2> QED
    BY <2>2, <2>3, LoneBegins
<1>2. ASSUME NEW p \in Patches, UpgradeStart(r, p) PROVE LoneInv'
  <2>1. PICK y : y = UpgradeState(p)
    OBVIOUS
  <2>2. Latest # None /\ Latest.ver = p.base /\ Begin(r, y)
    BY <1>2, <2>1 DEF UpgradeStart
  <2>3. y \in UpgradeRun /\ y.step = "backup" /\ y.patch = p
    BY <2>1, <2>2, UpgradeStartsAs
  <2>4. y \in RunState /\ Successes(None) # {}
    BY <2>2, <2>3, LatestFound DEF RunState
  <2> QED
    BY <2>2, <2>3, <2>4, LoneBegins
<1>3. ASSUME NEW to \in Version \cup {None}, RollbackStart(r, to) PROVE LoneInv'
  <2>1. Successes(to) # {}
    BY <1>3 DEF RollbackStart
  <2>2. PICK t : t = Target(to)
    OBVIOUS
  <2>3. t.ver \in Version /\ t.tags \in Tags
    BY <2>1, <2>2, SuccessFound DEF Record
  <2> DEFINE y == [step |-> "back", ver |-> t.ver, tags |-> t.tags, todo |-> {s \in Services : t.tags[s] # None}]
  <2>4. y \in RollbackRun /\ y.step = "back"
    BY <2>3 DEF RollbackRun
  <2>5. Begin(r, y)
    BY <1>3, <2>2 DEF RollbackStart
  <2> HIDE DEF y
  <2>6. y \in RunState /\ y \notin UpgradeRun
    BY <2>4 DEF RunState, UpgradeRun
  <2> QED
    BY <2>5, <2>6, LoneBegins
<1> QED
  BY <1>1, <1>2, <1>3

\* Steps that end a run, or take it on without an image.
LEMMA LoneEnds ==
    ASSUME DeliveryInv, LoneInv, NEW r \in Runners, crew' = crew,
           DeployEnd(r) \/ RevertDone(r) \/ UpgradeEnd(r) \/ RollbackEnd(r) \/ Crash(r)
    PROVE  LoneInv'
<1>1. run[r] # Idle
  <2>1. CASE Crash(r)
    BY <2>1 DEF Crash
  <2>2. CASE DeployEnd(r) \/ RevertDone(r) \/ UpgradeEnd(r) \/ RollbackEnd(r)
    <3>1. run[r].step \in {"layers", "revert", "roll", "back"}
      BY <2>2 DEF DeployEnd, RevertDone, UpgradeEnd, RollbackEnd, At
    <3>2. Idle.step = "idle"
      BY DEF Idle
    <3> QED
      BY <3>1, <3>2
  <2> QED
    BY <2>1, <2>2
<1>2. Return(r) /\ images' = images /\ jar' = jar
  BY DEF DeployEnd, RevertDone, UpgradeEnd, RollbackEnd, Crash, siteVars
<1> QED
  BY <1>1, <1>2, JarsSame, LoneReturn

LEMMA LoneDeploys ==
    ASSUME DeliveryInv, LoneInv, NEW r \in Runners, crew' = crew,
           DeployRender(r) \/ \E s \in Services : DeployUp(r, s)
    PROVE  LoneInv'
<1>1. PICK x \in RunState : x = run[r] /\ GoodRun(x)
  BY RunsAs
<1>2. x \in DeployRun /\ x # Idle
  <2>1. x.step \in {"render", "layers"}
    BY <1>1 DEF DeployRender, DeployUp, At
  <2>2. Idle.step = "idle"
    BY DEF Idle
  <2> QED
    BY <2>1, <2>2, RunKinds
<1>3. ASSUME DeployRender(r) PROVE LoneInv'
  <2>1. JarsInImages => JarsInImages'
    <3>1. PICK loaded \in SUBSET Missing(x.ver) : images' = Put(images, loaded, x.ver)
      BY <1>1, <1>3 DEF DeployRender
    <3>2. jar' = jar
      BY <1>3 DEF DeployRender
    <3>3. ASSUME JarsInImages, NEW t \in DOMAIN images', OneJar(t[1])' PROVE images'[t] = t[2]
      <4>1. OneJar(t[1])
        BY <3>2, <3>3 DEF OneJar
      <4>2. CASE t \in loaded
        BY <3>1, <4>2 DEF Missing, Put
      <4>3. CASE t \notin loaded
        BY <3>1, <3>3, <4>1, <4>3 DEF Put, JarsInImages
      <4> QED
        BY <4>2, <4>3
    <3> QED
      BY <3>3 DEF JarsInImages
  <2>2. CASE Return(r)
    BY <1>1, <1>2, <2>1, <2>2, LoneReturn
  <2>3. CASE Go(r, [x EXCEPT !.step = "layers"])
    <3> DEFINE y == [x EXCEPT !.step = "layers"]
    <3>1. y \in DeployRun /\ y.step = "layers"
      BY <1>2 DEF DeployRun
    <3>2. Go(r, y)
      BY <2>3
    <3> HIDE DEF y
    <3>3. y \in RunState /\ y \notin UpgradeRun
      BY <3>1 DEF RunState, UpgradeRun
    <3>4. crew = 1 => JarsInImages'
      BY <2>1 DEF LoneInv
    <3>5. ledger' = ledger
      BY <1>3 DEF DeployRender
    <3> QED
      BY <1>1, <1>2, <3>2, <3>3, <3>4, <3>5, LoneGoes
  <2> QED
    BY <1>1, <1>3, <2>2, <2>3 DEF DeployRender
<1>4. ASSUME NEW s \in Services, DeployUp(r, s) PROVE LoneInv'
  <2> DEFINE y == [x EXCEPT !.todo = x.todo \ {s}]
  <2>1. y \in DeployRun /\ y.step = x.step
    BY <1>2 DEF DeployRun
  <2>2. Go(r, y) /\ ledger' = ledger /\ images' = images /\ jar' = jar
    BY <1>1, <1>4 DEF DeployUp
  <2> HIDE DEF y
  <2>3. y \in RunState /\ y \notin UpgradeRun
    BY <1>2, <2>1 DEF RunState, UpgradeRun, DeployRun
  <2>4. crew = 1 => JarsInImages'
    BY <2>2, JarsSame DEF LoneInv
  <2> QED
    BY <1>1, <1>2, <2>2, <2>3, <2>4, LoneGoes
<1> QED
  BY <1>3, <1>4

LEMMA LoneRollsBack ==
    ASSUME DeliveryInv, LoneInv, NEW r \in Runners, NEW s \in Services, crew' = crew, RollbackService(r, s)
    PROVE  LoneInv'
<1>1. PICK x \in RunState : x = run[r] /\ GoodRun(x)
  BY RunsAs
<1>2. x \in RollbackRun /\ x.step = "back"
  BY <1>1, RunKinds DEF RollbackService, At
<1>3. x # Idle
  BY <1>2 DEF Idle
<1> DEFINE y == [x EXCEPT !.todo = x.todo \ {s}]
<1>4. y \in RollbackRun /\ y.step = "back"
  BY <1>2 DEF RollbackRun
<1>5. Go(r, y) /\ ledger' = ledger /\ images' = images /\ jar' = jar
  BY <1>1 DEF RollbackService
<1> HIDE DEF y
<1>6. y \in RunState /\ y \notin UpgradeRun
  BY <1>4 DEF RunState, UpgradeRun
<1>7. crew = 1 => JarsInImages'
  BY <1>5, JarsSame DEF LoneInv
<1> QED
  BY <1>1, <1>3, <1>5, <1>6, <1>7, LoneGoes

\* An upgrade goes on to y, with the images and the jars as they were.
LEMMA LoneUpgrade ==
    ASSUME DeliveryInv, LoneInv, NEW r \in Runners, crew' = crew, NEW x \in UpgradeRun, x = run[r],
           ledger' = ledger, images' = images, jar' = jar,
           NEW y \in UpgradeRun, Go(r, y), y.patch = x.patch, y.step # "build"
    PROVE  LoneInv'
<1>1. x \in RunState /\ y \in RunState
  BY DEF RunState
<1>2. x # Idle
  <2>1. Idle.step = "idle"
    BY DEF Idle
  <2> QED
    BY <2>1 DEF UpgradeRun
<1>3. crew = 1 => JarsInImages'
  BY JarsSame DEF LoneInv
<1> QED
  BY <1>1, <1>2, <1>3, LoneGoes

LEMMA LonePrepares ==
    ASSUME DeliveryInv, LoneInv, NEW r \in Runners, crew' = crew,
           \/ BackupDone(r) \/ BuildDone(r) \/ Sql(r) \/ Nacos(r) \/ Frontend(r) \/ FrontendDone(r)
    PROVE  LoneInv'
<1>1. PICK x \in RunState : x = run[r] /\ GoodRun(x)
  BY RunsAs
<1>2. x \in UpgradeRun
  BY <1>1, RunKinds DEF BackupDone, BuildDone, Sql, Nacos, Frontend, FrontendDone, At
<1>3. run[r] # Idle
  BY DEF BackupDone, BuildDone, Sql, Nacos, Frontend, FrontendDone, At, Idle
<1>4. ledger' = ledger /\ images' = images /\ jar' = jar
  BY DEF BackupDone, BuildDone, Sql, Nacos, Frontend, FrontendDone, siteVars
<1>5. CASE BackupDone(r)
  <2> DEFINE y == [x EXCEPT !.step = "copy", !.todo = x.patch.jars]
  <2>1. x.patch \in Patches
    BY <1>2 DEF UpgradeRun
  <2>2. x.patch.jars \subseteq Services
    BY <2>1, DeliveryAssumption
  <2>3. y \in UpgradeRun /\ y.patch = x.patch /\ y.step = "copy"
    BY <1>2, <2>2 DEF UpgradeRun
  <2>4. Go(r, y)
    BY <1>1, <1>5 DEF BackupDone
  <2> HIDE DEF y
  <2> QED
    BY <1>1, <1>2, <1>4, <2>3, <2>4, LoneUpgrade
<1>6. CASE BuildDone(r) \/ Nacos(r)
  <2>1. PICK step \in {"sql", "frontend"} : Go(r, [x EXCEPT !.step = step])
    BY <1>1, <1>6 DEF BuildDone, Nacos
  <2> DEFINE y == [x EXCEPT !.step = step]
  <2>2. y \in UpgradeRun /\ y.patch = x.patch /\ y.step # "build"
    BY <1>2 DEF UpgradeRun
  <2>3. Go(r, y)
    BY <2>1
  <2> HIDE DEF y
  <2> QED
    BY <1>1, <1>2, <1>4, <2>2, <2>3, LoneUpgrade
<1>7. CASE Sql(r)
  <2>1. CASE Return(r)
    BY <1>3, <1>4, <2>1, JarsSame, LoneReturn
  <2>2. CASE Go(r, [x EXCEPT !.step = "nacos"])
    <3> DEFINE y == [x EXCEPT !.step = "nacos"]
    <3>1. y \in UpgradeRun /\ y.patch = x.patch /\ y.step = "nacos"
      BY <1>2, UpgradeOnlyStep
    <3>2. Go(r, y)
      BY <2>2
    <3> HIDE DEF y
    <3> QED
      BY <1>1, <1>2, <1>4, <3>1, <3>2, LoneUpgrade
  <2>3. CASE Go(r, [x EXCEPT !.step = "nacos", !.mysql = TRUE])
    <3> DEFINE y == [x EXCEPT !.step = "nacos", !.mysql = TRUE]
    <3>1. y \in UpgradeRun /\ y.patch = x.patch /\ y.step = "nacos"
      BY <1>2 DEF UpgradeRun
    <3>2. Go(r, y)
      BY <2>3
    <3> HIDE DEF y
    <3> QED
      BY <1>1, <1>2, <1>4, <3>1, <3>2, LoneUpgrade
  <2> QED
    BY <1>1, <1>7, <2>1, <2>2, <2>3 DEF Sql, SqlEnd
<1>8. CASE Frontend(r)
  <2>1. x.file \in 1..(NumFiles + 1) /\ x.file <= NumFiles /\ x.step = "frontend" /\ NumFiles \in Nat
    BY <1>1, <1>2, <1>8, DeliveryAssumption DEF Frontend, At, UpgradeRun
  <2>2. x.file + 1 \in 1..(NumFiles + 1)
    BY <2>1
  <2> DEFINE y == [x EXCEPT !.file = x.file + 1]
  <2>3. y \in UpgradeRun /\ y.patch = x.patch /\ y.step = "frontend"
    BY <1>2, <2>1, <2>2 DEF UpgradeRun
  <2>4. Go(r, y)
    BY <1>1, <1>8 DEF Frontend
  <2> HIDE DEF y
  <2> QED
    BY <1>1, <1>2, <1>4, <2>3, <2>4, LoneUpgrade
<1>9. CASE FrontendDone(r)
  <2> DEFINE y == [x EXCEPT !.step = "roll", !.todo = x.built]
  <2>1. y \in UpgradeRun /\ y.patch = x.patch /\ y.step = "roll"
    BY <1>2 DEF UpgradeRun
  <2>2. Go(r, y)
    BY <1>1, <1>9 DEF FrontendDone
  <2> HIDE DEF y
  <2> QED
    BY <1>1, <1>2, <1>4, <2>1, <2>2, LoneUpgrade
<1> QED
  BY <1>5, <1>6, <1>7, <1>8, <1>9

LEMMA LoneServices ==
    ASSUME DeliveryInv, LoneInv, NEW r \in Runners, NEW s \in Services, crew' = crew,
           BackupJar(r, s) \/ Roll(r, s) \/ RollFails(r, s) \/ RevertService(r, s)
    PROVE  LoneInv'
<1>1. PICK x \in RunState : x = run[r] /\ GoodRun(x)
  BY RunsAs
<1>2. x \in UpgradeRun /\ x.step \in {"backup", "roll", "revert"}
  BY <1>1, RunKinds DEF BackupJar, Roll, RollFails, RevertService, At
<1>3. ledger' = ledger /\ images' = images /\ jar' = jar
  BY DEF BackupJar, Roll, RollFails, RevertService
<1>4. CASE BackupJar(r, s) \/ Roll(r, s) \/ RevertService(r, s)
  <2> DEFINE y == [x EXCEPT !.todo = x.todo \ {s}]
  <2>1. y \in UpgradeRun /\ y.patch = x.patch /\ y.step = x.step
    BY <1>2, UpgradeTodo DEF UpgradeRun
  <2>2. Go(r, y)
    BY <1>1, <1>4 DEF BackupJar, Roll, RevertService
  <2> HIDE DEF y
  <2> QED
    BY <1>1, <1>2, <1>3, <2>1, <2>2, LoneUpgrade
<1>5. CASE RollFails(r, s)
  <2> DEFINE y == [x EXCEPT !.step = "revert", !.todo = x.patch.services]
  <2>1. x.patch \in Patches
    BY <1>2 DEF UpgradeRun
  <2>2. x.patch.services \subseteq Services
    BY <2>1, DeliveryAssumption
  <2>3. y \in UpgradeRun /\ y.patch = x.patch /\ y.step = "revert"
    BY <1>2, <2>2 DEF UpgradeRun
  <2>4. Go(r, y)
    BY <1>1, <1>5 DEF RollFails
  <2> HIDE DEF y
  <2> QED
    BY <1>1, <1>2, <1>3, <2>3, <2>4, LoneUpgrade
<1> QED
  BY <1>4, <1>5

\* The jar of the patch is put under its name, and nothing else is there to put
\* another in its place before the image is built.
LEMMA LoneCopies ==
    ASSUME DeliveryInv, LoneInv, NEW r \in Runners, NEW s \in Services, crew' = crew, CopyJar(r, s)
    PROVE  LoneInv'
<1>1. PICK x \in RunState : x = run[r] /\ GoodRun(x)
  BY RunsAs
<1>2. x \in UpgradeRun /\ x.todo \subseteq Services
  BY <1>1, RunKinds DEF CopyJar, At, UpgradeRun
<1>3. run[r] # Idle /\ ledger' = ledger /\ images' = images
  BY DEF CopyJar, At, Idle
<1>4. CASE UNCHANGED jar /\ Return(r)
  BY <1>3, <1>4, JarsSame, LoneReturn
<1>5. CASE PutJar(r, s) /\ Go(r, [x EXCEPT !.step = "build", !.todo = x.todo \ {s}, !.svc = s])
  <2> DEFINE y == [x EXCEPT !.step = "build", !.todo = x.todo \ {s}, !.svc = s]
  <2>1. y \in UpgradeRun /\ y.patch = x.patch /\ y.step = "build" /\ y.svc = s
    BY <1>2 DEF UpgradeRun
  <2>2. Go(r, y)
    BY <1>5
  <2> HIDE DEF y
  <2>3. x.patch.version \in Version
    BY <1>2 DEF UpgradeRun, Version
  <2>4. /\ jar'[s][PatchJar(x.patch, s)] = x.patch.version
        /\ \A q \in Services, n \in JarName : jar[q][n] # None => jar'[q][n] # None
    BY <1>1, <1>5, <2>3, JarPut DEF DeliveryInv, TypeOK
  <2>5. Successes(None)' = Successes(None) /\ Latest' = Latest
    BY <1>3 DEF Successes, Latest, Last
  <2>6. crew = 1 => LoneRun(x)
    BY <1>1 DEF LoneInv
  <2>7. crew = 1 => LoneRun(y)'
    BY <1>2, <2>1, <2>4, <2>5, <2>6 DEF LoneRun, PatchJar
  <2>8. crew = 1 => JarsInImages'
    BY <1>3, <2>4, JarsOfImages DEF LoneInv
  <2>9. y \in RunState
    BY <2>1 DEF RunState
  <2> QED
    BY <1>3, <2>2, <2>7, <2>8, <2>9, LoneStep
<1> QED
  BY <1>1, <1>4, <1>5 DEF CopyJar

LEMMA LoneBuilds ==
    ASSUME DeliveryInv, LoneInv, NEW r \in Runners, crew' = crew, Build(r)
    PROVE  LoneInv'
<1>1. PICK x \in RunState : x = run[r] /\ GoodRun(x)
  BY RunsAs
<1>2. x \in UpgradeRun /\ x.step = "build" /\ x.svc \in Services
  BY <1>1, RunKinds DEF Build, At, GoodRun
<1>3. run[r] # Idle /\ ledger' = ledger /\ jar' = jar
  BY DEF Build, At, Idle
<1>4. CASE Return(r) /\ images' = images
  BY <1>3, <1>4, JarsSame, LoneReturn
<1>5. ASSUME NEW n \in JarName, jar[x.svc][n] # None,
             images' = Put(images, {<<x.svc, x.patch.version>>}, jar[x.svc][n]),
             Go(r, [x EXCEPT !.step = "copy", !.built = x.built \cup {x.svc}])
      PROVE  LoneInv'
  <2> DEFINE y == [x EXCEPT !.step = "copy", !.built = x.built \cup {x.svc}]
  <2>1. y \in UpgradeRun /\ y.patch = x.patch /\ y.step = "copy"
    BY <1>2 DEF UpgradeRun
  <2>2. Go(r, y)
    BY <1>5
  <2> HIDE DEF y
  <2>3. ASSUME crew = 1, OneJar(x.svc) PROVE jar[x.svc][n] = x.patch.version
    <3>1. jar[x.svc][PatchJar(x.patch, x.svc)] = x.patch.version
      BY <1>1, <1>2, <2>3 DEF LoneInv, LoneRun
    <3>2. x.patch.version \in Version /\ x.patch.version # None
      BY <1>2, DeliveryAssumption DEF UpgradeRun, Version
    <3>3. PatchJar(x.patch, x.svc) \in JarName
      BY <3>2 DEF PatchJar, JarName, PlainJars
    <3>4. PatchJar(x.patch, x.svc) = n
      BY <1>5, <2>3, <3>1, <3>2, <3>3 DEF OneJar
    <3> QED
      BY <3>1, <3>4
  <2>4. ASSUME crew = 1, NEW t \in DOMAIN images', OneJar(t[1])' PROVE images'[t] = t[2]
    <3>1. OneJar(t[1])
      BY <1>3, <2>4 DEF OneJar
    <3>2. CASE t = <<x.svc, x.patch.version>>
      BY <1>5, <2>3, <2>4, <3>1, <3>2 DEF Put
    <3>3. CASE t # <<x.svc, x.patch.version>>
      BY <1>5, <2>4, <3>1, <3>3 DEF LoneInv, JarsInImages, Put
    <3> QED
      BY <3>2, <3>3
  <2>6. crew = 1 => JarsInImages'
    BY <2>4 DEF JarsInImages
  <2>5. x \in RunState /\ y \in RunState
    BY <1>2, <2>1 DEF RunState
  <2> QED
    BY <1>1, <1>2, <1>3, <2>1, <2>2, <2>5, <2>6, LoneGoes
<1> QED
  BY <1>1, <1>4, <1>5 DEF Build

LEMMA LoneStays == ASSUME LoneInv, UNCHANGED <<ledger, run, siteVars, crew>> PROVE LoneInv'
<1>1. ledger' = ledger /\ run' = run /\ images' = images /\ jar' = jar /\ crew' = crew
  BY DEF siteVars
<1>2. Successes(None)' = Successes(None) /\ Latest' = Latest /\ Busy' = Busy
  BY <1>1 DEF Successes, Latest, Last, Busy
<1> QED
  BY <1>1, <1>2 DEF LoneInv, LoneRun, JarsInImages, OneJar, PatchJar

LEMMA LoneNext == ASSUME DeliveryInv, LoneInv, [Next]_vars PROVE LoneInv'
<1>1. CASE UNCHANGED vars
  BY <1>1, LoneStays DEF vars
<1>2. ASSUME Tick, crew' = crew PROVE LoneInv'
  BY <1>2, LoneStays DEF Tick
<1>3. ASSUME NEW r \in Runners, DeployStep(r), crew' = crew PROVE LoneInv'
  BY <1>3, LoneStarts, LoneDeploys, LoneEnds DEF DeployStep
<1>4. ASSUME NEW r \in Runners, UpgradeStep(r), crew' = crew PROVE LoneInv'
  <2>1. CASE (\E p \in Patches : UpgradeStart(r, p)) \/ RevertDone(r) \/ UpgradeEnd(r) \/ Build(r)
    BY <1>4, <2>1, LoneStarts, LoneEnds, LoneBuilds
  <2>2. CASE BackupDone(r) \/ BuildDone(r) \/ Sql(r) \/ Nacos(r) \/ Frontend(r) \/ FrontendDone(r)
    BY <1>4, <2>2, LonePrepares
  <2>3. ASSUME NEW s \in Services,
               BackupJar(r, s) \/ CopyJar(r, s) \/ Roll(r, s) \/ RollFails(r, s) \/ RevertService(r, s)
        PROVE  LoneInv'
    BY <1>4, <2>3, LoneServices, LoneCopies
  <2> QED
    BY <1>4, <2>1, <2>2, <2>3 DEF UpgradeStep
<1>5. ASSUME NEW r \in Runners, RollbackStep(r), crew' = crew PROVE LoneInv'
  BY <1>5, LoneStarts, LoneRollsBack, LoneEnds DEF RollbackStep
<1>6. ASSUME NEW r \in Runners, Crash(r), crew' = crew PROVE LoneInv'
  BY <1>6, LoneEnds
<1> QED
  BY <1>1, <1>2, <1>3, <1>4, <1>5, <1>6 DEF Next

LEMMA LoneAlways == Spec => []LoneInv
<1>1. Init => LoneInv
  <2> SUFFICES ASSUME Init PROVE LoneInv
    OBVIOUS
  <2>1. \A r \in Runners : run[r] = Idle
    BY DEF Init
  <2>2. Busy = {}
    BY <2>1 DEF Busy
  <2>3. images = <<>>
    BY DEF Init
  <2>4. DOMAIN images = {}
    BY <2>3, SMT
  <2> QED
    BY <2>1, <2>2, <2>4, IdleAlone, FS_EmptySet DEF LoneInv, JarsInImages
<1>2. DeliveryInv /\ LoneInv /\ [Next]_vars => LoneInv'
  BY LoneNext
<1> QED
  BY <1>1, <1>2, DeliveryAlways, PTL DEF Spec

\* Where runs do not overlap and the jars of a service have the one name, an
\* image of it holds the jar of the version in its tag, after failed copies,
\* builds, retries and deaths as well: the jar is put in its place right before
\* each build (upgrade.go: Run, findPatchJar).
THEOREM ImagesHoldTheirJars == Spec => []TagIsItsJar
<1>1. LoneInv => TagIsItsJar
  BY DEF LoneInv, JarsInImages, TagIsItsJar
<1> QED
  BY <1>1, LoneAlways, PTL

\* What LatestSuccess finds after a record has been added.
LEMMA LatestAfter ==
    ASSUME ledger \in Seq(Record), NEW rec \in Record, Appends(rec)
    PROVE  /\ rec.ok = TRUE => Latest' = rec
           /\ rec.ok = FALSE => Latest' = Latest
<1> DEFINE n == Len(ledger)
<1>1. /\ ledger' \in Seq(Record) /\ Len(ledger') = n + 1 /\ ledger'[n + 1] = rec
      /\ \A i \in 1..n : ledger'[i] = ledger[i]
  BY AppendProperties DEF Appends
<1>2. DOMAIN ledger = 1..n /\ n \in Nat /\ DOMAIN ledger' = 1..(n + 1)
  BY <1>1, LenProperties
<1> HIDE DEF n
<1>3. ASSUME rec.ok = TRUE PROVE Latest' = rec
  <2>1. n + 1 \in Successes(None)' /\ Successes(None)' \subseteq 1..(n + 1)
    BY <1>1, <1>2, <1>3 DEF Successes
  <2>2. Last(Successes(None)') = n + 1
    <3> DEFINE S == Successes(None)'
    <3>1. n + 1 \in S /\ S \subseteq 1..(n + 1)
      BY <2>1
    <3> HIDE DEF S
    <3>2. \A i \in S : (\A j \in S : j <= i) => i = n + 1
      BY <1>2, <3>1
    <3>3. \A j \in S : j <= n + 1
      BY <1>2, <3>1
    <3>4. Last(S) \in S /\ \A j \in S : j <= Last(S)
      BY <3>1, <3>3 DEF Last
    <3>5. Last(S) = n + 1
      BY <3>2, <3>4
    <3> QED
      BY <3>5 DEF S
  <2>3. Latest' = ledger'[Last(Successes(None)')]
    BY <2>1 DEF Latest, Last
  <2> QED
    BY <1>1, <2>2, <2>3
<1>4. ASSUME rec.ok = FALSE PROVE Latest' = Latest
  <2>1. Successes(None)' = Successes(None)
    <3>1. \A i \in DOMAIN ledger' : i \in 1..n \/ i = n + 1
      BY <1>2
    <3>2. \A i \in DOMAIN ledger : i \in DOMAIN ledger'
      BY <1>2
    <3> QED
      BY <1>1, <1>2, <1>4, <3>1, <3>2 DEF Successes
  <2>2. CASE Successes(None) = {}
    BY <2>1, <2>2 DEF Latest
  <2>3. CASE Successes(None) # {}
    <3>1. Last(Successes(None)) \in 1..n
      <4>1. Successes(None) \subseteq DOMAIN ledger
        BY DEF Successes
      <4> QED
        BY <1>2, <2>3, <4>1, LastIsOne
    <3>2. Latest = ledger[Last(Successes(None))]
      BY <2>3 DEF Latest
    <3>3. Latest' = ledger'[Last(Successes(None))]
      BY <2>1, <2>3 DEF Latest, Last
    <3> QED
      BY <1>1, <3>1, <3>2, <3>3
  <2> QED
    BY <2>2, <2>3
<1> QED
  BY <1>3, <1>4

\* "No skipped versions": where runs do not overlap, the version of a site
\* changes by a deploy, by a rollback, or by a patch made for the version it
\* has (upgrade.go: Run; store.go: LatestSuccess).
THEOREM ChainOfBaselines == Spec => BaselineChain
<1> DEFINE Chained ==
      crew = 1 /\ Latest # None /\ Latest' # Latest =>
          \/ Latest'.action \in {"deploy", "rollback"}
          \/ \E p \in Patches : p.version = Latest'.ver /\ p.base = Latest.ver
<1>1. ASSUME DeliveryInv, LoneInv, NEW r \in Runners, UpgradeEnd(r) PROVE Chained
  <2>1. PICK x \in RunState : x = run[r] /\ GoodRun(x)
    BY <1>1, RunsAs
  <2>2. x \in UpgradeRun /\ x.patch \in Patches /\ x.mysql \in BOOLEAN
    BY <1>1, <2>1, RunKinds DEF UpgradeEnd, At, UpgradeRun
  <2>3. PICK tags \in Tags : tags = Merged(r)
    BY <1>1, <2>1, <2>2, MergedBuilt
  <2> DEFINE rec == [action |-> "upgrade", ver |-> x.patch.version, ok |-> TRUE, tags |-> tags, mysql |-> x.mysql]
  <2>4. x.patch.version \in Version
    BY <2>2 DEF Version
  <2>5. rec \in Record /\ rec.ok = TRUE /\ rec.ver = x.patch.version
    BY <2>2, <2>4, RecordOf
  <2>6. Appends(rec)
    BY <1>1, <2>1, <2>3 DEF UpgradeEnd, Commit, Appends
  <2> HIDE DEF rec
  <2>7. Latest' = rec
    BY <1>1, <2>5, <2>6, LatestAfter DEF DeliveryInv, TypeOK
  <2>8. crew = 1 => Latest.ver = x.patch.base
    BY <1>1, <2>1, <2>2 DEF LoneInv, LoneRun
  <2> QED
    BY <2>2, <2>5, <2>7, <2>8
<1>2. ASSUME DeliveryInv, NEW r \in Runners, RevertDone(r) PROVE Chained
  <2>1. PICK x \in RunState : x = run[r] /\ GoodRun(x)
    BY <1>2, RunsAs
  <2>2. x \in UpgradeRun /\ x.patch \in Patches /\ x.tags \in Tags /\ x.mysql \in BOOLEAN
    BY <1>2, <2>1, RunKinds DEF RevertDone, At, UpgradeRun
  <2> DEFINE tags == [s \in Services |-> IF s \in x.patch.services THEN x.tags[s] ELSE None]
  <2>3. tags \in Tags /\ x.patch.version \in Version
    BY <2>2 DEF Tags, Version
  <2>4. Commit("upgrade", x.patch.version, FALSE, tags, x.mysql)
    BY <1>2, <2>1 DEF RevertDone
  <2> HIDE DEF tags
  <2> DEFINE rec == [action |-> "upgrade", ver |-> x.patch.version, ok |-> FALSE, tags |-> tags, mysql |-> x.mysql]
  <2>5. rec \in Record /\ rec.ok = FALSE
    BY <2>2, <2>3, RecordOf
  <2>6. Appends(rec)
    BY <2>4 DEF Commit, Appends
  <2> HIDE DEF rec
  <2>7. Latest' = Latest
    BY <1>2, <2>5, <2>6, LatestAfter DEF DeliveryInv, TypeOK
  <2> QED
    BY <2>7
<1>3. ASSUME DeliveryInv, NEW r \in Runners, DeployEnd(r) PROVE Chained
  <2>1. PICK x \in RunState : x = run[r] /\ GoodRun(x)
    BY <1>3, RunsAs
  <2>2. x.ver \in Version
    BY <1>3, <2>1, RunKinds DEF DeployEnd, At, DeployRun, Version
  <2> DEFINE tags == [s \in Services |-> x.ver]
  <2>3. tags \in Tags
    BY <2>2 DEF Tags
  <2>4. PICK ok \in BOOLEAN : Commit("deploy", x.ver, ok, tags, FALSE)
    BY <1>3, <2>1 DEF DeployEnd
  <2> HIDE DEF tags
  <2> DEFINE rec == [action |-> "deploy", ver |-> x.ver, ok |-> ok, tags |-> tags, mysql |-> FALSE]
  <2>5. rec \in Record /\ rec.action = "deploy" /\ rec.ok = ok
    BY <2>2, <2>3, RecordOf
  <2>6. Appends(rec)
    BY <2>4 DEF Commit, Appends
  <2> HIDE DEF rec
  <2>7. Latest' = rec \/ Latest' = Latest
    BY <1>3, <2>4, <2>5, <2>6, LatestAfter DEF DeliveryInv, TypeOK
  <2> QED
    BY <2>5, <2>7
<1>4. ASSUME DeliveryInv, NEW r \in Runners, RollbackEnd(r) PROVE Chained
  <2>1. PICK x \in RunState : x = run[r] /\ GoodRun(x)
    BY <1>4, RunsAs
  <2>2. x.ver \in Version /\ x.tags \in Tags
    BY <1>4, <2>1, RunKinds DEF RollbackEnd, At, RollbackRun
  <2> DEFINE rec == [action |-> "rollback", ver |-> x.ver, ok |-> TRUE, tags |-> x.tags, mysql |-> FALSE]
  <2>3. rec \in Record /\ rec.action = "rollback" /\ rec.ok = TRUE
    BY <2>2, RecordOf
  <2>4. Appends(rec)
    BY <1>4, <2>1 DEF RollbackEnd, Commit, Appends
  <2> HIDE DEF rec
  <2>5. Latest' = rec
    BY <1>4, <2>3, <2>4, LatestAfter DEF DeliveryInv, TypeOK
  <2> QED
    BY <2>3, <2>5
<1>5. ASSUME Next, ledger' # ledger
      PROVE  \E r \in Runners : DeployEnd(r) \/ RevertDone(r) \/ UpgradeEnd(r) \/ RollbackEnd(r)
  <2>1. ~Tick
    BY <1>5 DEF Tick
  <2>2. PICK r \in Runners : DeployStep(r) \/ UpgradeStep(r) \/ RollbackStep(r) \/ Crash(r)
    BY <1>5, <2>1 DEF Next
  <2>3. CASE DeployStep(r)
    BY <1>5, <2>3 DEF DeployStep, DeployStart, DeployRender, DeployUp, Begin
  <2>4. CASE UpgradeStep(r)
    <3>1. \A p \in Patches : ~UpgradeStart(r, p)
      BY <1>5 DEF UpgradeStart, Begin
    <3>2. ~(BackupDone(r) \/ Build(r) \/ BuildDone(r) \/ Sql(r) \/ Nacos(r) \/ Frontend(r) \/ FrontendDone(r))
      BY <1>5 DEF BackupDone, Build, BuildDone, Sql, Nacos, Frontend, FrontendDone
    <3>3. \A s \in Services : ~(\/ BackupJar(r, s) \/ CopyJar(r, s) \/ Roll(r, s)
                                \/ RollFails(r, s) \/ RevertService(r, s))
      BY <1>5 DEF BackupJar, CopyJar, Roll, RollFails, RevertService
    <3> QED
      BY <2>4, <3>1, <3>2, <3>3 DEF UpgradeStep
  <2>5. CASE RollbackStep(r)
    BY <1>5, <2>5 DEF RollbackStep, RollbackStart, RollbackService, Begin
  <2>6. ~Crash(r)
    BY <1>5 DEF Crash
  <2> QED
    BY <2>2, <2>3, <2>4, <2>5, <2>6
<1> HIDE DEF Chained
<1>6. DeliveryInv /\ LoneInv /\ [Next]_vars => [Chained]_ledger
  <2> SUFFICES ASSUME DeliveryInv, LoneInv, [Next]_vars, ledger' # ledger PROVE Chained
    OBVIOUS
  <2>1. Next
    BY DEF vars
  <2> QED
    BY <1>1, <1>2, <1>3, <1>4, <1>5, <2>1
<1>7. Spec => [][Chained]_ledger
  BY <1>6, DeliveryAlways, LoneAlways, PTL DEF Spec
<1> QED
  BY <1>7 DEF BaselineChain, Chained
=============================================================================
