------------------------- MODULE ModuleDeployProofs -------------------------
(***************************************************************************)
(* Proofs about ModuleDeploy: the types (Types), that with crew = 1 one    *)
(* job is at work (Alone), which job holds what it writes (HeldOpen), what *)
(* docker's lists and tags have to do with each other (BaseInv), how far a *)
(* walk has come (PrepInv), and what a full job has done (FullInv).        *)
(***************************************************************************)
EXTENDS ModuleDeploy, FiniteSetTheorems, SequenceTheorems, WellFoundedInduction, TLAPS

\* An expansion that writes is at an entry of an archive, and only one that
\* writes has a descriptor.
Busy == {"open", "write", "rename"}
Standing(x) ==
  /\ x.at \in Busy => x.i \in DOMAIN Order /\ x.e \in DOMAIN Entries(Order[x.i])
  /\ x.on = "closed" <=> x.at \notin {"write", "rename"}

\* What is asked of a job, by where it stands.
Asked(r) ==
  /\ r.pc \in {"prepare", "expand", "html", "load", "loading"} => r.kind \in {"full", "nginx"}
  /\ r.pc \in {"findagain", "base", "baseloading", "basetag"} => r.kind = "build"
  /\ r.pc \in {"write", "check"} => r.kind # "build"
  /\ r.pc = "env" => r.kind \in {"full", "build"}
  /\ r.pc = "html" => r.kind = "nginx"

\* What a job goes through is there while it does.
Lists(r) ==
  /\ r.pc \in {"loading", "baseloading"} => r.todo # {}
  /\ r.pc \in {"one", "write", "check", "base", "baseloading", "basetag", "compose"} => r.ups # {}
  /\ r.pc = "write" => r.want \in Tags

\* A tag that a job has loaded, and a base image that it has made sure of, stay.
TagsStay(j) ==
  /\ \A i \in DOMAIN job[j].refs : images[job[j].refs[i]] # "none"
  /\ job[j].pc = "compose" /\ job[j].kind = "build" => Still(j) = {}

Types ==
  /\ TypeOK
  /\ \A j \in Jobs : Standing(exp[j]) /\ Asked(job[j]) /\ Lists(job[j]) /\ TagsStay(j)

-----------------------------------------------------------------------------
(* Numbers, lists and archives.                                            *)

NatLess == {p \in Nat \X Nat : p[1] < p[2]}

\* A non-empty set of naturals has a least element, and Least is it.
LEMMA LeastIsIn ==
  ASSUME NEW S \in SUBSET Nat, S # {}
  PROVE  Least(S) \in S /\ \A k \in S : Least(S) <= k
<1>1. IsWellFoundedOn(NatLess, Nat)
  BY NatLessThanWellFounded DEF NatLess, OpToRel
<1>2. PICK i \in S : \A k \in S : ~(<<k, i>> \in NatLess)
  BY <1>1, WFMin
<1>3. ASSUME NEW k \in S PROVE i <= k
  <2>1. i \in Nat /\ k \in Nat
    OBVIOUS
  <2>2. <<k, i>> \in Nat \X Nat /\ <<k, i>> \notin NatLess
    BY <1>2, <2>1
  <2>3. ~(k < i)
    BY <2>2 DEF NatLess
  <2> QED
    BY <2>1, <2>3
<1> QED
  BY <1>3 DEF Least

\* The first of a set in a list that has one of them.
LEMMA FirstIsIn ==
  ASSUME NEW T, NEW order \in Seq(T), NEW set, \E i \in DOMAIN order : order[i] \in set
  PROVE  First(order, set) \in set
<1> DEFINE S == {i \in DOMAIN order : order[i] \in set}
<1>1. S \in SUBSET Nat /\ S # {}
  OBVIOUS
<1>2. Least(S) \in S
  BY <1>1, LeastIsIn
<1> QED
  BY <1>2 DEF First

LEMMA ArchiveIn == ASSUME NEW i \in DOMAIN Order PROVE Order[i] \in Archive
BY ArchivesAssumption

LEMMA ArchiveAt == ASSUME NEW a \in Archive PROVE \E i \in DOMAIN Order : Order[i] = a
BY ArchivesAssumption

LEMMA FirstArchive ==
  ASSUME NEW set \in SUBSET Archive, set # {}
  PROVE  First(Order, set) \in set
<1>1. \E i \in DOMAIN Order : Order[i] \in set
  BY ArchiveAt
<1> QED
  BY <1>1, FirstIsIn, ArchivesAssumption

LEMMA FirstProject ==
  ASSUME NEW set \in SUBSET Project, set # {}
  PROVE  First(Projects, set) \in set
<1>1. \E i \in DOMAIN Projects : Projects[i] \in set
  BY DEF Project
<1> QED
  BY <1>1, FirstIsIn, ModuleDeployAssumption

\* The entries of an archive have names.
LEMMA EntriesNamed ==
  ASSUME NEW a \in Archive
  PROVE  /\ Len(Entries(a)) \in Nat \ {0} /\ DOMAIN Entries(a) = 1 .. Len(Entries(a))
         /\ \A e \in DOMAIN Entries(a) : Entries(a)[e] \in Name
<1>1. CASE a \in Zips
  <2>1. Entries(a) = Inside[a] /\ Inside[a] \in Seq(Held(a)) /\ Len(Inside[a]) > 0
    BY <1>1, ArchivesAssumption DEF Entries
  <2>2. Held(a) \subseteq Name
    BY <1>1 DEF Name
  <2> QED
    BY <2>1, <2>2
<1>2. CASE a \notin Zips
  <2>1. a \in TarZips /\ Entries(a) = <<TarOf[a]>>
    BY <1>2 DEF Archive, Entries
  <2>2. TarOf[a] \in Name
    BY <2>1 DEF Name
  <2>3. Len(<<TarOf[a]>>) = 1 /\ DOMAIN <<TarOf[a]>> = 1 .. 1 /\ <<TarOf[a]>>[1] = TarOf[a]
    OBVIOUS
  <2>4. \A e \in 1 .. 1 : e = 1
    OBVIOUS
  <2> QED
    BY <2>1, <2>2, <2>3, <2>4
<1> QED
  BY <1>1, <1>2

LEMMA ArchivesNamed == Archive \subseteq Name /\ Project \subseteq Name /\ \A t \in TarZips : TarOf[t] \in Name
<1>1. Archive \subseteq Name
  BY DEF Name
<1>2. \A t \in TarZips : TarOf[t] \in Name
  BY DEF Name
<1>3. UNION {Held(z) : z \in Zips} \subseteq Name
  BY Zenon DEF Name
<1>4. Project \subseteq UNION {Held(z) : z \in Zips}
  BY ModuleDeployAssumption
<1> QED
  BY <1>1, <1>2, <1>3, <1>4

LEMMA TargetNamed ==
  ASSUME NEW j \in Jobs, exp[j].i \in DOMAIN Order, exp[j].e \in DOMAIN Entries(Order[exp[j].i])
  PROVE  Target(j) \in Name /\ Current(j) \in Archive
BY ArchiveIn, EntriesNamed DEF Target, Current

-----------------------------------------------------------------------------
(* What the actions of an expansion do to exp.                             *)

LEMMA ExpSet ==
  ASSUME exp \in [Jobs -> Expansion], NEW j \in Jobs, NEW x \in Expansion,
         exp' = [exp EXCEPT ![j] = x]
  PROVE  /\ exp' \in [Jobs -> Expansion]
         /\ exp'[j] = x
         /\ \A k \in Jobs : k # j => exp'[k] = exp[k]
OBVIOUS

LEMMA OffFacts ==
  /\ Off \in Expansion
  /\ Off.at = "off" /\ Off.on = "closed"
<1>1. Len(Order) \in Nat /\ MaxPass \in Nat
  BY ArchivesAssumption
<1>2. 0 \in 0 .. Len(Order) /\ 0 \in 0 .. MaxPass
  BY <1>1
<1> QED
  BY <1>2 DEF Off, Expansion

LEMMA ExpandDoes ==
  ASSUME exp \in [Jobs -> Expansion], NEW j \in Jobs, NEW scope \in SUBSET Archive, NEW n \in 1 .. MaxPass,
         exp' = [exp EXCEPT ![j] =
           [Off EXCEPT !.at = "walk", !.pass = n, !.scope = scope,
                       !.seen = {a \in scope : Visible(a)}]]
  PROVE  /\ exp' \in [Jobs -> Expansion]
         /\ \A k \in Jobs : k # j => exp'[k] = exp[k]
         /\ exp'[j].at = "walk" /\ exp'[j].pass = n /\ exp'[j].scope = scope
         /\ exp'[j].seen = {a \in scope : Visible(a)}
         /\ exp'[j].i = 0 /\ exp'[j].on = "closed" /\ ~exp'[j].changed
<1> DEFINE S == {a \in scope : Visible(a)}
<1>1. S \in SUBSET Archive /\ n \in 0 .. MaxPass
  BY ArchivesAssumption
<1> HIDE DEF S
<1> DEFINE x == [Off EXCEPT !.at = "walk", !.pass = n, !.scope = scope, !.seen = S]
<1>2. x \in Expansion
  BY <1>1, OffFacts DEF Expansion
<1>3. /\ x.at = "walk" /\ x.pass = n /\ x.scope = scope /\ x.seen = S
      /\ x.i = 0 /\ x.on = "closed" /\ ~x.changed
  BY DEF Off
<1> HIDE DEF x
<1>4. exp' = [exp EXCEPT ![j] = x]
  BY DEF x, S
<1> QED
  BY <1>2, <1>3, <1>4, ExpSet DEF S

LEMMA MeetDoes ==
  ASSUME exp \in [Jobs -> Expansion], NEW j \in Jobs, Meet(j)
  PROVE  /\ exp' \in [Jobs -> Expansion]
         /\ \A k \in Jobs : k # j => exp'[k] = exp[k]
         /\ exp'[j].scope = exp[j].scope /\ exp'[j].seen = exp[j].seen
         /\ exp'[j].pass = exp[j].pass /\ exp'[j].changed = exp[j].changed
         /\ exp'[j].on = exp[j].on
         /\ \E i \in exp[j].i + 1 .. Len(Order) :
              /\ PassedOver(j, i) /\ Order[i] \in exp[j].scope
              /\ Visible(Order[i]) /\ ~Expanded(Order[i])
              /\ exp'[j].i = i
              /\ IF file[Order[i]] = "whole" THEN exp'[j].at = "open" /\ exp'[j].e = 1
                 ELSE exp'[j].at = "walk"
<1>1. PICK i \in exp[j].i + 1 .. Len(Order) :
        /\ PassedOver(j, i) /\ Order[i] \in exp[j].scope
        /\ Visible(Order[i]) /\ ~Expanded(Order[i])
        /\ exp' = [exp EXCEPT ![j].i = i,
                              ![j].e = IF file[Order[i]] = "whole" THEN 1 ELSE 0,
                              ![j].at = IF file[Order[i]] = "whole" THEN "open" ELSE "walk"]
  BY DEF Meet
<1>2. i \in 0 .. Len(Order)
  BY ArchivesAssumption DEF Expansion
<1> DEFINE x == [exp[j] EXCEPT !.i = i, !.e = IF file[Order[i]] = "whole" THEN 1 ELSE 0,
                              !.at = IF file[Order[i]] = "whole" THEN "open" ELSE "walk"]
<1>3. x \in Expansion
  BY <1>2 DEF Expansion
<1>4. /\ x.scope = exp[j].scope /\ x.seen = exp[j].seen /\ x.pass = exp[j].pass
      /\ x.changed = exp[j].changed /\ x.on = exp[j].on /\ x.i = i
      /\ IF file[Order[i]] = "whole" THEN x.at = "open" /\ x.e = 1 ELSE x.at = "walk"
  BY DEF Expansion
<1>5. exp' = [exp EXCEPT ![j] = x]
  BY <1>1
<1> HIDE DEF x
<1> QED
  BY <1>1, <1>3, <1>4, <1>5, ExpSet

LEMMA EndPassDoes ==
  ASSUME exp \in [Jobs -> Expansion], NEW j \in Jobs, EndPass(j)
  PROVE  /\ exp' \in [Jobs -> Expansion]
         /\ \A k \in Jobs : k # j => exp'[k] = exp[k]
         /\ exp'[j].scope = exp[j].scope /\ exp'[j].on = exp[j].on
         /\ IF AnotherPass(exp[j])
            THEN /\ exp'[j].at = "walk" /\ exp'[j].pass = exp[j].pass + 1
                 /\ exp'[j].i = 0 /\ ~exp'[j].changed
                 /\ exp'[j].seen = {a \in exp[j].scope : Visible(a)}
            ELSE exp'[j].at = "done"
<1>1. exp[j] \in Expansion
  OBVIOUS
<1>2. exp' = [exp EXCEPT ![j] = AfterPass(j)]
  BY DEF EndPass
<1>3. CASE AnotherPass(exp[j])
  <2> DEFINE S == {a \in exp[j].scope : Visible(a)}
  <2>1. S \in SUBSET Archive
    BY <1>1 DEF Expansion
  <2>2. exp[j].pass + 1 \in 0 .. MaxPass /\ 0 \in 0 .. Len(Order)
    BY <1>1, <1>3, ArchivesAssumption DEF AnotherPass, Expansion
  <2> HIDE DEF S
  <2> DEFINE x == [exp[j] EXCEPT !.at = "walk", !.i = 0, !.pass = @ + 1, !.changed = FALSE, !.seen = S]
  <2>3. x \in Expansion
    BY <1>1, <2>1, <2>2 DEF Expansion
  <2>4. /\ x.scope = exp[j].scope /\ x.on = exp[j].on
        /\ x.at = "walk" /\ x.pass = exp[j].pass + 1 /\ x.i = 0 /\ ~x.changed /\ x.seen = S
    BY <1>1 DEF Expansion
  <2>5. AfterPass(j) = x
    BY <1>3 DEF AfterPass, PassBegins, S
  <2> HIDE DEF x
  <2> QED
    BY <1>2, <1>3, <2>3, <2>4, <2>5, ExpSet DEF S
<1>4. CASE ~AnotherPass(exp[j])
  <2> DEFINE x == [exp[j] EXCEPT !.at = "done", !.seen = {}, !.i = 0]
  <2>1. 0 \in 0 .. Len(Order)
    BY ArchivesAssumption
  <2>2. x \in Expansion
    BY <1>1, <2>1 DEF Expansion
  <2>3. x.scope = exp[j].scope /\ x.on = exp[j].on /\ x.at = "done"
    BY <1>1 DEF Expansion
  <2>4. AfterPass(j) = x
    BY <1>4 DEF AfterPass
  <2> HIDE DEF x
  <2> QED
    BY <1>2, <1>4, <2>2, <2>3, <2>4, ExpSet
<1> QED
  BY <1>3, <1>4

LEMMA OpenDoes ==
  ASSUME exp \in [Jobs -> Expansion], NEW j \in Jobs, Open(j)
  PROVE  /\ exp' \in [Jobs -> Expansion]
         /\ \A k \in Jobs : k # j => exp'[k] = exp[k]
         /\ exp'[j].scope = exp[j].scope /\ exp'[j].seen = exp[j].seen
         /\ exp'[j].pass = exp[j].pass /\ exp'[j].changed = exp[j].changed
         /\ exp'[j].i = exp[j].i /\ exp'[j].e = exp[j].e
         /\ exp'[j].at = "write" /\ exp'[j].on = "part"
<1>1. exp[j] \in Expansion
  OBVIOUS
<1> DEFINE x == [exp[j] EXCEPT !.at = "write", !.on = "part"]
<1>2. x \in Expansion
  BY <1>1 DEF Expansion
<1>3. /\ x.scope = exp[j].scope /\ x.seen = exp[j].seen /\ x.pass = exp[j].pass
      /\ x.changed = exp[j].changed /\ x.i = exp[j].i /\ x.e = exp[j].e
      /\ x.at = "write" /\ x.on = "part"
  BY <1>1 DEF Expansion
<1>4. exp' = [exp EXCEPT ![j] = x]
  BY DEF Open, OnPart
<1> HIDE DEF x
<1> QED
  BY <1>2, <1>3, <1>4, ExpSet

LEMMA WriteDoes ==
  ASSUME exp \in [Jobs -> Expansion], NEW j \in Jobs, Write(j)
  PROVE  /\ exp' \in [Jobs -> Expansion]
         /\ \A k \in Jobs : k # j => exp'[k] = exp[k]
         /\ exp'[j].scope = exp[j].scope /\ exp'[j].seen = exp[j].seen
         /\ exp'[j].pass = exp[j].pass /\ exp'[j].changed = exp[j].changed
         /\ exp'[j].i = exp[j].i /\ exp'[j].e = exp[j].e
         /\ exp'[j].at = "rename" /\ exp'[j].on = exp[j].on
<1>1. exp[j] \in Expansion
  OBVIOUS
<1> DEFINE x == [exp[j] EXCEPT !.at = "rename"]
<1>2. x \in Expansion
  BY <1>1 DEF Expansion
<1>3. /\ x.scope = exp[j].scope /\ x.seen = exp[j].seen /\ x.pass = exp[j].pass
      /\ x.changed = exp[j].changed /\ x.i = exp[j].i /\ x.e = exp[j].e
      /\ x.at = "rename" /\ x.on = exp[j].on
  BY <1>1 DEF Expansion
<1>4. exp' = [exp EXCEPT ![j] = x]
  BY DEF Write
<1> HIDE DEF x
<1> QED
  BY <1>2, <1>3, <1>4, ExpSet

\* An archive that is passed over.
LEMMA GoOnDoes ==
  ASSUME exp \in [Jobs -> Expansion], NEW j \in Jobs
  PROVE  /\ GoOn(exp[j]) \in Expansion
         /\ GoOn(exp[j]).scope = exp[j].scope /\ GoOn(exp[j]).seen = exp[j].seen
         /\ GoOn(exp[j]).pass = exp[j].pass /\ GoOn(exp[j]).changed = exp[j].changed
         /\ GoOn(exp[j]).i = exp[j].i
         /\ GoOn(exp[j]).at = "walk" /\ GoOn(exp[j]).on = "closed"
<1>1. exp[j] \in Expansion
  OBVIOUS
<1> QED
  BY <1>1 DEF GoOn, Expansion

\* Where an entry is the last one, and where not.
LEMMA AfterEntryDoes ==
  ASSUME exp \in [Jobs -> Expansion], NEW j \in Jobs, Standing(exp[j]), exp[j].at \in Busy
  PROVE  /\ AfterEntry(j) \in Expansion
         /\ AfterEntry(j).scope = exp[j].scope /\ AfterEntry(j).seen = exp[j].seen
         /\ AfterEntry(j).pass = exp[j].pass /\ AfterEntry(j).i = exp[j].i
         /\ AfterEntry(j).on = "closed"
         /\ \/ /\ AfterEntry(j).at = "open" /\ AfterEntry(j).changed = exp[j].changed
               /\ AfterEntry(j).e \in DOMAIN Entries(Current(j)) /\ AfterEntry(j).e # 1
            \/ AfterEntry(j).at = "walk" /\ AfterEntry(j).changed
<1>1. exp[j] \in Expansion
  OBVIOUS
<1>2. exp[j].i \in DOMAIN Order /\ exp[j].e \in DOMAIN Entries(Current(j))
  BY DEF Standing, Current
<1>3. Current(j) \in Archive
  BY <1>2, ArchiveIn DEF Current
<1>4. Len(Entries(Current(j))) \in Nat /\ DOMAIN Entries(Current(j)) = 1 .. Len(Entries(Current(j)))
  BY <1>3, EntriesNamed
<1> DEFINE n == Len(Entries(Current(j)))
<1>5. CASE exp[j].e < n
  <2> DEFINE x == [exp[j] EXCEPT !.at = "open", !.e = @ + 1, !.on = "closed"]
  <2>1. exp[j].e + 1 \in Nat /\ exp[j].e + 1 \in 1 .. n /\ exp[j].e + 1 # 1
    BY <1>2, <1>4, <1>5
  <2>2. x \in Expansion
    BY <1>1, <2>1 DEF Expansion
  <2>3. /\ x.scope = exp[j].scope /\ x.seen = exp[j].seen /\ x.pass = exp[j].pass
        /\ x.i = exp[j].i /\ x.on = "closed" /\ x.at = "open" /\ x.changed = exp[j].changed
        /\ x.e = exp[j].e + 1
    BY <1>1 DEF Expansion
  <2>4. AfterEntry(j) = x
    BY <1>5 DEF AfterEntry
  <2> HIDE DEF x
  <2> QED
    BY <1>4, <2>1, <2>2, <2>3, <2>4
<1>6. CASE ~(exp[j].e < n)
  <2> DEFINE y == GoOn(exp[j])
             x == [y EXCEPT !.changed = TRUE, !.did = TRUE]
  <2>1. /\ y \in Expansion /\ y.scope = exp[j].scope /\ y.seen = exp[j].seen
        /\ y.pass = exp[j].pass /\ y.i = exp[j].i /\ y.on = "closed" /\ y.at = "walk"
    BY GoOnDoes
  <2>2. AfterEntry(j) = x
    BY <1>6 DEF AfterEntry
  <2> HIDE DEF y
  <2>3. x \in Expansion
    BY <2>1 DEF Expansion
  <2>4. /\ x.scope = y.scope /\ x.seen = y.seen /\ x.pass = y.pass
        /\ x.i = y.i /\ x.on = y.on /\ x.at = y.at /\ x.changed
    BY <2>1 DEF Expansion
  <2> HIDE DEF x
  <2> QED
    BY <2>1, <2>2, <2>3, <2>4
<1> QED
  BY <1>5, <1>6

\* What two expansions have in common when only a descriptor leads elsewhere.
SameWork(x, y) == x.at = y.at /\ x.i = y.i /\ x.e = y.e

LEMMA OthersDo ==
  ASSUME exp \in [Jobs -> Expansion], \A k \in Jobs : Standing(exp[k]),
         NEW j \in Jobs, NEW f, NEW moved \in [Descriptor -> Descriptor], NEW k \in Jobs
  PROVE  /\ Others(j, f, moved)[k] \in Expansion
         /\ SameWork(Others(j, f, moved)[k], exp[k])
         /\ Others(j, f, moved)[k].on =
              IF k # j /\ Writes(k, f) THEN moved[exp[k].on] ELSE exp[k].on
<1>1. exp[k] \in Expansion /\ Standing(exp[k])
  OBVIOUS
<1>2. Others(j, f, moved)[k] =
        IF k # j /\ Writes(k, f) THEN [exp[k] EXCEPT !.on = moved[@]] ELSE exp[k]
  BY DEF Others
<1>3. CASE k # j /\ Writes(k, f)
  <2>1. exp[k].on \in Descriptor
    BY <1>1, <1>3 DEF Standing, Writes, Expansion, Descriptor
  <2>2. moved[exp[k].on] \in {"closed", "part", "target", "unnamed"}
    BY <2>1 DEF Descriptor
  <2> DEFINE on == moved[exp[k].on]
             x == [exp[k] EXCEPT !.on = on]
  <2> HIDE DEF on
  <2>3. x \in Expansion
    BY <1>1, <2>2 DEF Expansion, on
  <2>4. x.at = exp[k].at /\ x.i = exp[k].i /\ x.e = exp[k].e /\ x.on = on
    BY <1>1 DEF Expansion
  <2>5. Others(j, f, moved)[k] = x
    BY <1>2, <1>3 DEF on
  <2> HIDE DEF x
  <2> QED
    BY <1>3, <2>3, <2>4, <2>5 DEF SameWork, on
<1>4. CASE ~(k # j /\ Writes(k, f))
  BY <1>1, <1>2, <1>4 DEF SameWork
<1> QED
  BY <1>3, <1>4

\* The same, with what becomes of job j itself.
LEMMA OthersAnd ==
  ASSUME exp \in [Jobs -> Expansion], \A k \in Jobs : Standing(exp[k]),
         NEW j \in Jobs, NEW f, NEW moved \in [Descriptor -> Descriptor], NEW x \in Expansion,
         exp' = [Others(j, f, moved) EXCEPT ![j] = x]
  PROVE  /\ exp' \in [Jobs -> Expansion]
         /\ exp'[j] = x
         /\ \A k \in Jobs : k # j =>
              /\ SameWork(exp'[k], exp[k])
              /\ exp'[k].on = IF Writes(k, f) THEN moved[exp[k].on] ELSE exp[k].on
<1> DEFINE o == Others(j, f, moved)
<1>1. o = [k \in Jobs |-> o[k]]
  BY DEF Others
<1>2. \A k \in Jobs :
        /\ o[k] \in Expansion
        /\ SameWork(o[k], exp[k])
        /\ o[k].on = IF k # j /\ Writes(k, f) THEN moved[exp[k].on] ELSE exp[k].on
  BY OthersDo
<1> HIDE DEF o
<1>3. exp' = [o EXCEPT ![j] = x]
  BY DEF o
<1>4. exp'[j] = x /\ \A k \in Jobs : k # j => exp'[k] = o[k]
  BY <1>1, <1>3
<1>5. exp' = [k \in Jobs |-> exp'[k]]
  BY <1>1, <1>3
<1>6. exp' \in [Jobs -> Expansion]
  BY <1>2, <1>4, <1>5
<1> QED
  BY <1>2, <1>4, <1>6

LEMMA MovedTypes == Renamed \in [Descriptor -> Descriptor] /\ Removed \in [Descriptor -> Descriptor]
BY DEF Renamed, Removed, Descriptor

LEMMA RenameDoes ==
  ASSUME exp \in [Jobs -> Expansion], \A k \in Jobs : Standing(exp[k]), NEW j \in Jobs, Rename(j)
  PROVE  /\ exp' \in [Jobs -> Expansion]
         /\ \A k \in Jobs : k # j =>
              /\ SameWork(exp'[k], exp[k])
              /\ exp'[k].on = IF Writes(k, Target(j)) THEN Renamed[exp[k].on] ELSE exp[k].on
         /\ exp'[j] = AfterEntry(j)
<1>1. exp' = [Others(j, Target(j), Renamed) EXCEPT ![j] = AfterEntry(j)]
  BY DEF Rename
<1>2. AfterEntry(j) \in Expansion
  BY AfterEntryDoes DEF Rename, Busy
<1> QED
  BY <1>1, <1>2, OthersAnd, MovedTypes

LEMMA NothingToRenameDoes ==
  ASSUME exp \in [Jobs -> Expansion], NEW j \in Jobs, NothingToRename(j)
  PROVE  /\ exp' \in [Jobs -> Expansion]
         /\ \A k \in Jobs : k # j => exp'[k] = exp[k]
         /\ exp'[j] = GoOn(exp[j])
<1>1. exp' = [exp EXCEPT ![j] = GoOn(exp[j])]
  BY DEF NothingToRename
<1> QED
  BY <1>1, GoOnDoes, ExpSet

LEMMA EntryFailsDoes ==
  ASSUME exp \in [Jobs -> Expansion], \A k \in Jobs : Standing(exp[k]), NEW j \in Jobs, EntryFails(j)
  PROVE  /\ exp' \in [Jobs -> Expansion]
         /\ \A k \in Jobs : k # j =>
              /\ SameWork(exp'[k], exp[k])
              /\ exp'[k].on = IF exp[j].at = "write" /\ Writes(k, Target(j))
                              THEN Removed[exp[k].on] ELSE exp[k].on
         /\ exp'[j] = GoOn(exp[j])
<1>1. GoOn(exp[j]) \in Expansion
  BY GoOnDoes
<1>2. CASE exp[j].at = "write"
  <2>1. exp' = [Others(j, Target(j), Removed) EXCEPT ![j] = GoOn(exp[j])]
    BY <1>2 DEF EntryFails
  <2> DEFINE x == GoOn(exp[j])
             f == Target(j)
  <2> HIDE DEF x, f
  <2>2. exp' = [Others(j, f, Removed) EXCEPT ![j] = x] /\ x \in Expansion
    BY <1>1, <2>1 DEF x, f
  <2>3. /\ exp' \in [Jobs -> Expansion]
        /\ exp'[j] = x
        /\ \A k \in Jobs : k # j =>
             /\ SameWork(exp'[k], exp[k])
             /\ exp'[k].on = IF Writes(k, f) THEN Removed[exp[k].on] ELSE exp[k].on
    BY <2>2, OthersAnd, MovedTypes
  <2> QED
    BY <1>2, <2>3 DEF x, f
<1>3. CASE exp[j].at # "write"
  <2>1. exp' = [exp EXCEPT ![j] = GoOn(exp[j])]
    BY <1>3 DEF EntryFails
  <2> QED
    BY <1>1, <1>3, <2>1, ExpSet DEF SameWork
<1> QED
  BY <1>2, <1>3

LEMMA CloseDoes ==
  ASSUME exp \in [Jobs -> Expansion], NEW j \in Jobs, Close(j)
  PROVE  /\ exp' \in [Jobs -> Expansion]
         /\ \A k \in Jobs : k # j => exp'[k] = exp[k]
         /\ exp'[j].at = "off" /\ exp'[j].on = "closed"
         /\ file' = file /\ part' = part /\ dirs' = dirs
BY OffFacts, ExpSet DEF Close

\* Where an expansion stands is known from its work alone, and from whether it
\* has a descriptor.
LEMMA SameStanding ==
  ASSUME NEW x, NEW y, SameWork(y, x), Standing(x), y.on = "closed" <=> x.on = "closed"
  PROVE  Standing(y)
BY DEF SameWork, Standing

LEMMA MovedStanding ==
  ASSUME NEW moved, moved \in {Renamed, Removed}, NEW f, NEW k \in Jobs, Standing(exp[k]),
         exp[k] \in Expansion, NEW y, SameWork(y, exp[k]), NEW b \in BOOLEAN,
         y.on = IF b /\ Writes(k, f) THEN moved[exp[k].on] ELSE exp[k].on
  PROVE  Standing(y)
<1>1. CASE b /\ Writes(k, f)
  <2>1. exp[k].on \in Descriptor
    BY <1>1 DEF Standing, Writes, Expansion, Descriptor
  <2>2. moved[exp[k].on] \in Descriptor
    BY <2>1, MovedTypes
  <2>3. y.on # "closed" /\ exp[k].on # "closed"
    BY <1>1, <2>1, <2>2 DEF Descriptor
  <2> QED
    BY <2>3, SameStanding
<1>2. CASE ~(b /\ Writes(k, f))
  BY <1>2, SameStanding
<1> QED
  BY <1>1, <1>2

\* The files and directories that an expansion leaves, and where it stands.
LEMMA ExpandStepTypes ==
  ASSUME TreeTypeOK, \A k \in Jobs : Standing(exp[k]), NEW j \in Jobs, ExpandStep(j)
  PROVE  /\ TreeTypeOK'
         /\ \A k \in Jobs : Standing(exp'[k])
         /\ \A k \in Jobs : k # j => exp'[k].at = exp[k].at
         /\ exp[j].at # "off"
         /\ \A f \in Name : Visible(f) => file'[f] # "none"
         /\ dirs \subseteq dirs'
<1>1. exp \in [Jobs -> Expansion] /\ exp[j] \in Expansion /\ Standing(exp[j])
  BY DEF TreeTypeOK
<1>2. CASE Meet(j)
  <2>1. /\ exp' \in [Jobs -> Expansion] /\ \A k \in Jobs : k # j => exp'[k] = exp[k]
        /\ exp'[j].on = exp[j].on
    BY <1>1, <1>2, MeetDoes
  <2>2. file' = file /\ part' = part /\ dirs' = dirs /\ exp[j].at = "walk"
    BY <1>2 DEF Meet
  <2>3. PICK i \in exp[j].i + 1 .. Len(Order) :
          /\ exp'[j].i = i
          /\ IF file[Order[i]] = "whole" THEN exp'[j].at = "open" /\ exp'[j].e = 1
             ELSE exp'[j].at = "walk"
    BY <1>1, <1>2, MeetDoes
  <2>4. i \in DOMAIN Order
    BY <1>1, ArchivesAssumption DEF Expansion
  <2>5. 1 \in DOMAIN Entries(Order[i])
    BY <2>4, ArchiveIn, EntriesNamed
  <2>6. Standing(exp'[j])
    BY <1>1, <2>1, <2>2, <2>3, <2>4, <2>5 DEF Standing, Busy
  <2> QED
    BY <2>1, <2>2, <2>6 DEF TreeTypeOK, Visible
<1>3. CASE EndPass(j)
  <2>1. /\ exp' \in [Jobs -> Expansion] /\ \A k \in Jobs : k # j => exp'[k] = exp[k]
        /\ exp'[j].on = exp[j].on /\ exp'[j].at \in {"walk", "done"}
    BY <1>1, <1>3, EndPassDoes
  <2>2. file' = file /\ part' = part /\ dirs' = dirs /\ exp[j].at = "walk"
    BY <1>3 DEF EndPass
  <2>3. Standing(exp'[j])
    BY <1>1, <2>1, <2>2 DEF Standing, Busy
  <2> QED
    BY <2>1, <2>2, <2>3 DEF TreeTypeOK, Visible
<1>4. CASE Open(j)
  <2>1. /\ exp' \in [Jobs -> Expansion] /\ \A k \in Jobs : k # j => exp'[k] = exp[k]
        /\ exp'[j].i = exp[j].i /\ exp'[j].e = exp[j].e
        /\ exp'[j].at = "write" /\ exp'[j].on = "part"
    BY <1>1, <1>4, OpenDoes
  <2>2. /\ file' = file /\ part' = [part EXCEPT ![Target(j)] = "torn"]
        /\ dirs' = dirs \cup ({Current(j)} \cap Zips) /\ exp[j].at = "open"
    BY <1>4 DEF Open
  <2>3. Standing(exp'[j])
    BY <1>1, <2>1, <2>2 DEF Standing, Busy
  <2>4. part' \in [Name -> Content] /\ dirs' \subseteq Zips
    BY <2>2 DEF TreeTypeOK, Content
  <2> QED
    BY <2>1, <2>2, <2>3, <2>4 DEF TreeTypeOK, Visible
<1>5. CASE Write(j)
  <2>1. /\ exp' \in [Jobs -> Expansion] /\ \A k \in Jobs : k # j => exp'[k] = exp[k]
        /\ exp'[j].i = exp[j].i /\ exp'[j].e = exp[j].e
        /\ exp'[j].at = "rename" /\ exp'[j].on = exp[j].on
    BY <1>1, <1>5, WriteDoes
  <2>2. /\ part' = IF exp[j].on = "part" THEN [part EXCEPT ![Target(j)] = "whole"] ELSE part
        /\ file' = IF exp[j].on = "target" THEN [file EXCEPT ![Target(j)] = "whole"] ELSE file
        /\ dirs' = dirs /\ exp[j].at = "write"
    BY <1>5 DEF Write
  <2>3. Standing(exp'[j])
    BY <1>1, <2>1, <2>2 DEF Standing, Busy
  <2>4. part' \in [Name -> Content] /\ file' \in [Name -> Content]
    BY <2>2 DEF TreeTypeOK, Content
  <2>5. \A f \in Name : file'[f] = file[f] \/ file'[f] = "whole"
    BY <2>2 DEF TreeTypeOK
  <2> QED
    BY <2>1, <2>2, <2>3, <2>4, <2>5 DEF TreeTypeOK, Visible
<1>6. CASE Rename(j)
  <2>1. /\ exp' \in [Jobs -> Expansion] /\ exp'[j] = AfterEntry(j)
        /\ \A k \in Jobs : k # j =>
              /\ SameWork(exp'[k], exp[k])
              /\ exp'[k].on = IF Writes(k, Target(j)) THEN Renamed[exp[k].on] ELSE exp[k].on
    BY <1>1, <1>6, RenameDoes
  <2>2. /\ file' = [file EXCEPT ![Target(j)] = part[Target(j)]]
        /\ part' = [part EXCEPT ![Target(j)] = "none"]
        /\ dirs' = dirs /\ exp[j].at = "rename" /\ part[Target(j)] # "none"
    BY <1>6 DEF Rename
  <2>3. Target(j) \in Name
    BY <1>1, <2>2, TargetNamed DEF Standing, Busy
  <2>4. /\ AfterEntry(j).i = exp[j].i /\ AfterEntry(j).on = "closed"
        /\ \/ AfterEntry(j).at = "open" /\ AfterEntry(j).e \in DOMAIN Entries(Current(j))
           \/ AfterEntry(j).at = "walk"
    BY <1>1, <2>2, AfterEntryDoes DEF Busy
  <2>5. Standing(exp'[j])
    BY <1>1, <2>1, <2>2, <2>4 DEF Standing, Busy, Current
  <2>6. ASSUME NEW k \in Jobs, k # j PROVE Standing(exp'[k])
    <3>1. /\ SameWork(exp'[k], exp[k])
          /\ exp'[k].on = IF TRUE /\ Writes(k, Target(j)) THEN Renamed[exp[k].on] ELSE exp[k].on
      BY <2>1, <2>6
    <3> QED
      BY <1>1, <3>1, MovedStanding
  <2>7. part' \in [Name -> Content] /\ file' \in [Name -> Content]
    BY <2>2, <2>3 DEF TreeTypeOK, Content
  <2>8. \A f \in Name : Visible(f) => file'[f] # "none"
    BY <2>2 DEF TreeTypeOK, Visible
  <2>9. \A k \in Jobs : k # j => exp'[k].at = exp[k].at
    BY <2>1 DEF SameWork
  <2> QED
    BY <2>1, <2>2, <2>5, <2>6, <2>7, <2>8, <2>9 DEF TreeTypeOK
<1>7. CASE NothingToRename(j)
  <2>1. /\ exp' \in [Jobs -> Expansion] /\ exp'[j] = GoOn(exp[j])
        /\ \A k \in Jobs : k # j => exp'[k] = exp[k]
    BY <1>1, <1>7, NothingToRenameDoes
  <2>2. file' = file /\ part' = part /\ dirs' = dirs /\ exp[j].at = "rename"
    BY <1>7 DEF NothingToRename
  <2>3. Standing(exp'[j])
    BY <1>1, <2>1, GoOnDoes DEF Standing, Busy
  <2> QED
    BY <2>1, <2>2, <2>3 DEF TreeTypeOK, Visible
<1> QED
  BY <1>2, <1>3, <1>4, <1>5, <1>6, <1>7 DEF ExpandStep

LEMMA EntryFailsTypes ==
  ASSUME TreeTypeOK, \A k \in Jobs : Standing(exp[k]), NEW j \in Jobs, EntryFails(j)
  PROVE  /\ TreeTypeOK'
         /\ \A k \in Jobs : Standing(exp'[k])
         /\ \A k \in Jobs : k # j => exp'[k].at = exp[k].at
         /\ exp[j].at # "off"
         /\ file' = file
<1>1. exp \in [Jobs -> Expansion] /\ exp[j] \in Expansion /\ Standing(exp[j])
  BY DEF TreeTypeOK
<1>2. /\ exp' \in [Jobs -> Expansion] /\ exp'[j] = GoOn(exp[j])
      /\ \A k \in Jobs : k # j =>
            /\ SameWork(exp'[k], exp[k])
            /\ exp'[k].on = IF exp[j].at = "write" /\ Writes(k, Target(j))
                            THEN Removed[exp[k].on] ELSE exp[k].on
  BY <1>1, EntryFailsDoes
<1>3. file' = file /\ exp[j].at \in {"open", "write"} /\ part' = IF exp[j].at = "write" THEN [part EXCEPT ![Target(j)] = "none"] ELSE part
  BY DEF EntryFails
<1>4. dirs' \subseteq Zips
  BY DEF EntryFails, TreeTypeOK
<1>5. part' \in [Name -> Content]
  BY <1>3 DEF TreeTypeOK, Content
<1>6. Standing(exp'[j])
  BY <1>1, <1>2, GoOnDoes DEF Standing, Busy
<1>7. ASSUME NEW k \in Jobs, k # j PROVE Standing(exp'[k])
  <2> DEFINE b == exp[j].at = "write"
  <2>1. /\ SameWork(exp'[k], exp[k])
        /\ exp'[k].on = IF b /\ Writes(k, Target(j)) THEN Removed[exp[k].on] ELSE exp[k].on
    BY <1>2, <1>7
  <2>2. b \in BOOLEAN
    OBVIOUS
  <2> QED
    BY <1>1, <2>1, <2>2, MovedStanding
<1>8. \A k \in Jobs : k # j => exp'[k].at = exp[k].at
  BY <1>2 DEF SameWork
<1> QED
  BY <1>2, <1>3, <1>4, <1>5, <1>6, <1>7, <1>8 DEF TreeTypeOK

-----------------------------------------------------------------------------
(* What the actions of a job do to it.                                     *)

Places == {"idle", "prepare", "expand", "html", "load", "loading", "env", "find",
           "findagain", "one", "write", "check", "base", "baseloading", "basetag", "compose"}

\* Only job j changes, and still answers the same request.
OnlyJob(j) == job' \in [Jobs -> Job] /\ \A k \in Jobs : k # j => job'[k] = job[k]
SameRequest(j) ==
  job'[j].kind = job[j].kind /\ job'[j].fresh = job[j].fresh /\ job'[j].end = job[j].end

LEMMA JobSet ==
  ASSUME job \in [Jobs -> Job], NEW j \in Jobs, NEW r \in Job, job' = [job EXCEPT ![j] = r]
  PROVE  OnlyJob(j) /\ job'[j] = r
BY DEF OnlyJob

LEMMA GotoDoes ==
  ASSUME job \in [Jobs -> Job], NEW j \in Jobs, NEW pc \in Places, Goto(j, pc)
  PROVE  /\ OnlyJob(j) /\ SameRequest(j) /\ job'[j].pc = pc
         /\ job'[j].todo = job[j].todo /\ job'[j].before = job[j].before
         /\ job'[j].refs = job[j].refs /\ job'[j].ups = job[j].ups /\ job'[j].want = job[j].want
<1>1. job[j] \in Job
  OBVIOUS
<1> DEFINE r == [job[j] EXCEPT !.pc = pc]
<1>2. r \in Job
  BY <1>1 DEF Job, Places
<1>3. /\ r.kind = job[j].kind /\ r.fresh = job[j].fresh /\ r.end = job[j].end /\ r.pc = pc
      /\ r.todo = job[j].todo /\ r.before = job[j].before
      /\ r.refs = job[j].refs /\ r.ups = job[j].ups /\ r.want = job[j].want
  BY <1>1 DEF Job
<1>4. job' = [job EXCEPT ![j] = r]
  BY DEF Goto
<1> HIDE DEF r
<1> QED
  BY <1>2, <1>3, <1>4, JobSet DEF SameRequest

LEMMA IdleFacts ==
  /\ Idle \in Job
  /\ Idle.pc = "idle" /\ Idle.kind = "none" /\ Idle.todo = {} /\ Idle.before = {}
  /\ Idle.refs = <<>> /\ Idle.ups = {} /\ Idle.want = "none" /\ ~Idle.fresh
<1>1. 0 \in 0 .. Rounds
  BY ModuleDeployAssumption
<1> QED
  BY <1>1 DEF Idle, Job

LEMMA EndedDoes ==
  ASSUME job \in [Jobs -> Job], NEW j \in Jobs,
         NEW end \in {"ok", "skipped", "failed", "died"}, Ended(j, end)
  PROVE  /\ OnlyJob(j) /\ job'[j].pc = "idle" /\ job'[j].kind = "none"
         /\ job'[j].refs = <<>> /\ job'[j].end = end
<1> DEFINE r == [Idle EXCEPT !.end = end]
<1>1. r \in Job
  BY IdleFacts DEF Job
<1>2. r.pc = "idle" /\ r.kind = "none" /\ r.refs = <<>> /\ r.end = end
  BY DEF Idle
<1>3. job' = [job EXCEPT ![j] = r]
  BY DEF Ended
<1> HIDE DEF r
<1> QED
  BY <1>1, <1>2, <1>3, JobSet

LEMMA RoundDoes ==
  ASSUME job \in [Jobs -> Job], NEW j \in Jobs, NEW n \in 0 .. Rounds,
         job' = [job EXCEPT ![j].pc = "expand", ![j].round = n]
  PROVE  /\ OnlyJob(j) /\ SameRequest(j) /\ job'[j].pc = "expand" /\ job'[j].refs = job[j].refs
<1>1. job[j] \in Job
  OBVIOUS
<1> DEFINE r == [job[j] EXCEPT !.pc = "expand", !.round = n]
<1>2. r \in Job
  BY <1>1 DEF Job
<1>3. /\ r.kind = job[j].kind /\ r.fresh = job[j].fresh /\ r.end = job[j].end /\ r.pc = "expand" /\ r.refs = job[j].refs
  BY <1>1 DEF Job
<1>4. job' = [job EXCEPT ![j] = r]
  OBVIOUS
<1> HIDE DEF r
<1> QED
  BY <1>2, <1>3, <1>4, JobSet DEF SameRequest

LEMMA RepeatDoes ==
  ASSUME job \in [Jobs -> Job], NEW j \in Jobs, AnotherRound(j)
  PROVE  /\ OnlyJob(j) /\ SameRequest(j) /\ job'[j].pc = "expand" /\ job'[j].refs = job[j].refs
<1>1. job[j] \in Job /\ job[j].pc = "expand"
  BY DEF AnotherRound, At
<1> DEFINE n == NextRound(j)
<1>2. n \in 0 .. Rounds
  BY <1>1, ModuleDeployAssumption DEF AnotherRound, MayRepeat, NextRound, Job
<1>3. job' = [job EXCEPT ![j].round = n]
  BY DEF AnotherRound
<1> HIDE DEF n
<1> DEFINE r == [job[j] EXCEPT !.round = n]
<1>4. r \in Job
  BY <1>1, <1>2 DEF Job
<1>5. /\ r.kind = job[j].kind /\ r.fresh = job[j].fresh /\ r.end = job[j].end /\ r.pc = "expand" /\ r.refs = job[j].refs
  BY <1>1 DEF Job
<1>6. job' = [job EXCEPT ![j] = r]
  BY <1>3
<1> HIDE DEF r
<1> QED
  BY <1>4, <1>5, <1>6, JobSet DEF SameRequest

LEMMA UpsDoes ==
  ASSUME job \in [Jobs -> Job], NEW j \in Jobs, NEW ups \in SUBSET Project,
         job' = [job EXCEPT ![j].pc = "one", ![j].ups = ups]
  PROVE  /\ OnlyJob(j) /\ SameRequest(j) /\ job'[j].pc = "one"
         /\ job'[j].refs = job[j].refs /\ job'[j].ups = ups
<1>1. job[j] \in Job
  OBVIOUS
<1> DEFINE r == [job[j] EXCEPT !.pc = "one", !.ups = ups]
<1>2. r \in Job
  BY <1>1 DEF Job
<1>3. /\ r.kind = job[j].kind /\ r.fresh = job[j].fresh /\ r.end = job[j].end /\ r.pc = "one"
      /\ r.refs = job[j].refs /\ r.ups = ups
  BY <1>1 DEF Job
<1>4. job' = [job EXCEPT ![j] = r]
  OBVIOUS
<1> HIDE DEF r
<1> QED
  BY <1>2, <1>3, <1>4, JobSet DEF SameRequest

LEMMA WantDoes ==
  ASSUME job \in [Jobs -> Job], NEW j \in Jobs, NEW pc \in {"write", "check"},
         NEW want \in Tags \cup {"none"},
         job' = [job EXCEPT ![j].pc = pc, ![j].want = want]
  PROVE  /\ OnlyJob(j) /\ SameRequest(j) /\ job'[j].pc = pc
         /\ job'[j].refs = job[j].refs /\ job'[j].ups = job[j].ups /\ job'[j].want = want
<1>1. job[j] \in Job
  OBVIOUS
<1> DEFINE r == [job[j] EXCEPT !.pc = pc, !.want = want]
<1>2. r \in Job
  BY <1>1 DEF Job
<1>3. /\ r.kind = job[j].kind /\ r.fresh = job[j].fresh /\ r.end = job[j].end /\ r.pc = pc
      /\ r.refs = job[j].refs /\ r.ups = job[j].ups /\ r.want = want
  BY <1>1 DEF Job
<1>4. job' = [job EXCEPT ![j] = r]
  OBVIOUS
<1> HIDE DEF r
<1> QED
  BY <1>2, <1>3, <1>4, JobSet DEF SameRequest

\* The job that its loads leave: pc, todo, before and refs are new.
Reloaded(r, pc, todo, before, refs) ==
  [r EXCEPT !.pc = pc, !.todo = todo, !.before = before, !.refs = refs]

LEMMA ReloadedDoes ==
  ASSUME job \in [Jobs -> Job], NEW j \in Jobs, NEW pc \in Places,
         NEW todo \in SUBSET TarZips, NEW before \in SUBSET Tags, NEW refs \in Seq(Tags),
         job' = [job EXCEPT ![j] = Reloaded(job[j], pc, todo, before, refs)]
  PROVE  /\ OnlyJob(j) /\ SameRequest(j) /\ job'[j].pc = pc
         /\ job'[j].todo = todo /\ job'[j].before = before /\ job'[j].refs = refs
         /\ job'[j].ups = job[j].ups
<1>1. job[j] \in Job
  OBVIOUS
<1> DEFINE r == Reloaded(job[j], pc, todo, before, refs)
<1>2. r \in Job
  BY <1>1 DEF Reloaded, Job, Places
<1>3. /\ r.kind = job[j].kind /\ r.fresh = job[j].fresh /\ r.end = job[j].end /\ r.pc = pc /\ r.ups = job[j].ups
      /\ r.todo = todo /\ r.before = before /\ r.refs = refs
  BY <1>1 DEF Reloaded, Job
<1> HIDE DEF r
<1> QED
  BY <1>2, <1>3, JobSet DEF SameRequest, r

\* A tag or more, in some order.
LEMMA SomeOrder ==
  ASSUME NEW S \in SUBSET Tags, S # {}, NEW refs \in SetToSeqs(S)
  PROVE  /\ refs \in Seq(Tags) /\ Len(refs) \in Nat \ {0} /\ DOMAIN refs = 1 .. Len(refs)
         /\ \A i \in DOMAIN refs : refs[i] \in S
         /\ Head(refs) = refs[1] /\ Head(refs) \in S
         /\ \A x : S = {x} => Len(refs) = 1
<1> DEFINE n == Cardinality(S)
<1>1. IsFiniteSet(S)
  BY FS_Subset, ModuleDeployAssumption
<1>2. n \in Nat /\ n # 0
  BY <1>1, FS_CardinalityType, FS_EmptySet
<1>3. refs \in [1 .. n -> S]
  BY DEF SetToSeqs
<1>4. \A x : S = {x} => n = 1
  BY FS_Singleton
<1> HIDE DEF n
<1>5. refs \in Seq(S) /\ Len(refs) = n /\ DOMAIN refs = 1 .. n
  BY <1>2, <1>3
<1>6. 1 \in 1 .. n
  BY <1>2
<1>7. Head(refs) = refs[1]
  BY <1>5
<1>8. refs \in Seq(Tags)
  BY <1>5
<1> QED
  BY <1>2, <1>3, <1>4, <1>5, <1>6, <1>7, <1>8

LEMMA NewRefsSome ==
  ASSUME TypeOK, NEW j \in Jobs, NEW tag \in Tags
  PROVE  /\ NewRefs(j, tag) \in SUBSET Tags /\ NewRefs(j, tag) # {}
         /\ NewRefs(j, tag) \subseteq Local \cup {tag}
         /\ job[j].before = Local => NewRefs(j, tag) = {tag}
BY DEF NewRefs, Local

LEMMA ConcatRefs ==
  ASSUME NEW s \in Seq(Tags), NEW t \in Seq(Tags)
  PROVE  /\ s \o t \in Seq(Tags)
         /\ \A i \in DOMAIN s : i \in DOMAIN (s \o t) /\ (s \o t)[i] = s[i]
         /\ \A i \in DOMAIN t : Len(s) + i \in DOMAIN (s \o t) /\ (s \o t)[Len(s) + i] = t[i]
         /\ \A i \in DOMAIN (s \o t) :
              \/ i \in DOMAIN s /\ (s \o t)[i] = s[i]
              \/ \E k \in DOMAIN t : (s \o t)[i] = t[k]
<1> DEFINE u == s \o t
<1>1. /\ u \in Seq(Tags) /\ Len(u) = Len(s) + Len(t)
      /\ \A i \in 1 .. Len(s) + Len(t) : u[i] = IF i <= Len(s) THEN s[i] ELSE t[i - Len(s)]
  BY ConcatProperties
<1> HIDE DEF u
<1>2. DOMAIN u = 1 .. Len(s) + Len(t) /\ DOMAIN s = 1 .. Len(s) /\ DOMAIN t = 1 .. Len(t)
  BY <1>1
<1>3. Len(s) \in Nat /\ Len(t) \in Nat
  OBVIOUS
<1>4. \A i \in DOMAIN s : i \in DOMAIN u /\ u[i] = s[i]
  BY <1>1, <1>2, <1>3
<1>5. ASSUME NEW i \in DOMAIN t PROVE Len(s) + i \in DOMAIN u /\ u[Len(s) + i] = t[i]
  <2>1. Len(s) + i \in 1 .. Len(s) + Len(t) /\ ~(Len(s) + i <= Len(s)) /\ (Len(s) + i) - Len(s) = i
    BY <1>2, <1>3
  <2> QED
    BY <1>1, <1>2, <2>1
<1>6. ASSUME NEW i \in DOMAIN u PROVE (i \in DOMAIN s /\ u[i] = s[i]) \/ \E k \in DOMAIN t : u[i] = t[k]
  <2>1. CASE i <= Len(s)
    BY <1>1, <1>2, <1>3, <2>1
  <2>2. CASE ~(i <= Len(s))
    <3>1. i - Len(s) \in DOMAIN t
      BY <1>2, <1>3, <2>2
    <3>2. u[i] = t[i - Len(s)]
      BY <1>1, <1>2, <2>2
    <3> QED
      BY <3>1, <3>2
  <2> QED
    BY <2>1, <2>2
<1> QED
  BY <1>1, <1>4, <1>5, <1>6 DEF u

\* What a load does to the tags of the host: the tag names what was loaded, and
\* java:8, when a build misses it, what the first new tag names.
LEMMA LoadedTags ==
  ASSUME TypeOK, NEW j \in Jobs, NEW tag \in Tags, NEW refs \in SetToSeqs(NewRefs(j, tag)),
         images' = BaseTag(j, refs, Loaded(j, tag))
  PROVE  /\ images' \in [Tags -> Tags \cup {"none"}]
         /\ images'[tag] = tag
         /\ \A x \in Tags : images[x] # "none" => images'[x] # "none"
         /\ \A x \in Tags : x # tag /\ images[x] # "none" => images'[x] = images[x]
         /\ \A i \in DOMAIN refs : images'[refs[i]] # "none"
         /\ \/ images'[Base] = images[Base]
            \/ images'[Base] = Base /\ tag = Base
            \/ job[j].kind = "build" /\ images'[Base] = images'[Head(refs)] /\ Head(refs) # Base
<1> DEFINE now == Loaded(j, tag)
<1>1. /\ now \in [Tags -> Tags \cup {"none"}] /\ now[tag] = tag
      /\ \A x \in Tags : x # tag => now[x] = images[x]
  BY DEF Loaded, TypeOK
<1>2. "none" \notin Tags /\ Base \in Tags
  BY ModuleDeployAssumption
<1>3. \A i \in DOMAIN refs : refs[i] \in Tags /\ refs[i] \in Local \cup {tag}
  BY SomeOrder, NewRefsSome
<1>4. Head(refs) \in Tags /\ Head(refs) \in Local \cup {tag}
  BY SomeOrder, NewRefsSome
<1>5. \A x \in Local \cup {tag} : now[x] # "none" /\ now[x] \in Tags
  BY <1>1, <1>2 DEF Local
<1> HIDE DEF now
<1>6. CASE job[j].kind = "build" /\ now[Base] = "none"
  <2>1. images' = [now EXCEPT ![Base] = now[Head(refs)]]
    BY <1>6 DEF BaseTag, now
  <2>2. now[Head(refs)] \in Tags /\ now[Head(refs)] # "none" /\ tag # Base /\ Head(refs) # Base
    BY <1>1, <1>2, <1>4, <1>5, <1>6
  <2>3. /\ images'[Base] = now[Head(refs)] /\ images'[Head(refs)] = now[Head(refs)]
        /\ \A x \in Tags : x # Base => images'[x] = now[x]
    BY <1>1, <1>2, <1>4, <2>1, <2>2
  <2>4. images' \in [Tags -> Tags \cup {"none"}]
    BY <1>1, <2>1, <2>2
  <2>5. images[Base] = "none"
    BY <1>1, <1>2, <1>6, <2>2
  <2> QED
    BY <1>1, <1>2, <1>3, <1>5, <1>6, <2>2, <2>3, <2>4, <2>5
<1>7. CASE ~(job[j].kind = "build" /\ now[Base] = "none")
  <2>1. images' = now
    BY <1>7 DEF BaseTag, now
  <2> QED
    BY <1>1, <1>2, <1>3, <1>5, <2>1
<1> QED
  BY <1>6, <1>7

\* What a load does to its job.
LEMMA LoadDoes ==
  ASSUME TypeOK, NEW j \in Jobs, Load(j), Lists(job[j])
  PROVE  /\ NextTar(j) \in job[j].todo /\ NextTar(j) \in TarZips /\ ImageIn[NextTar(j)] \in Tags
         /\ OnlyJob(j)
         /\ \/ images' = images /\ job'[j].pc = "idle" /\ job'[j].kind = "none" /\ job'[j].refs = <<>> /\ job'[j].end = "failed"
            \/ \E refs \in SetToSeqs(NewRefs(j, ImageIn[NextTar(j)])) :
                 /\ images' = BaseTag(j, refs, Loaded(j, ImageIn[NextTar(j)]))
                 /\ SameRequest(j) /\ job'[j].ups = job[j].ups
                 /\ job'[j].refs = job[j].refs \o refs
                 /\ IF job[j].todo \ {NextTar(j)} = {}
                    THEN job'[j].pc = IF job[j].pc = "loading" THEN AfterLoad(j) ELSE "basetag"
                    ELSE /\ job'[j].pc = job[j].pc /\ job'[j].todo = job[j].todo \ {NextTar(j)}
                         /\ job'[j].before = Local'
<1>1. job \in [Jobs -> Job] /\ job[j] \in Job /\ job[j].pc \in {"loading", "baseloading"}
  BY DEF TypeOK, Load
<1>2. job[j].todo \in SUBSET TarZips /\ job[j].todo # {} /\ job[j].refs \in Seq(Tags)
  BY <1>1 DEF Job, Lists
<1>3. NextTar(j) \in job[j].todo /\ NextTar(j) \in TarZips
  BY <1>2, FirstArchive DEF Archive, NextTar
<1>4. ImageIn[NextTar(j)] \in Tags
  BY <1>3, ModuleDeployAssumption
<1> DEFINE rest == job[j].todo \ {NextTar(j)}
<1>5. CASE file[TarOf[NextTar(j)]] # "whole"
  <2>1. Ended(j, "failed") /\ images' = images
    BY <1>5 DEF Load
  <2> QED
    BY <1>1, <1>3, <1>4, <2>1, EndedDoes
<1>6. CASE file[TarOf[NextTar(j)]] = "whole"
  <2>1. PICK refs \in SetToSeqs(NewRefs(j, ImageIn[NextTar(j)])) :
          /\ images' = BaseTag(j, refs, Loaded(j, ImageIn[NextTar(j)]))
          /\ job' = [job EXCEPT
               ![j].todo = rest,
               ![j].before = IF rest = {} THEN {}
                             ELSE Local',
               ![j].refs = @ \o refs,
               ![j].pc = IF rest # {} THEN @ ELSE IF @ = "loading" THEN AfterLoad(j) ELSE "basetag"]
    BY <1>6 DEF Load
  <2>2. refs \in Seq(Tags)
    BY <1>4, NewRefsSome, SomeOrder
  <2>3. job[j].refs \o refs \in Seq(Tags)
    BY <1>2, <2>2, ConcatRefs
  <2> DEFINE before == IF rest = {} THEN {} ELSE Local'
             refs2 == job[j].refs \o refs
             pc == IF rest # {} THEN job[j].pc
                   ELSE IF job[j].pc = "loading" THEN AfterLoad(j) ELSE "basetag"
  <2>4. before \in SUBSET Tags
    BY DEF Local
  <2>5. pc \in Places
    BY <1>1 DEF AfterLoad, Places
  <2>6. job' = [job EXCEPT ![j] = Reloaded(job[j], pc, rest, before, refs2)]
    BY <2>1 DEF Reloaded
  <2>7. rest \in SUBSET TarZips
    BY <1>2
  <2> HIDE DEF before, refs2, pc, rest
  <2>8. /\ OnlyJob(j) /\ SameRequest(j) /\ job'[j].pc = pc
        /\ job'[j].todo = rest /\ job'[j].before = before /\ job'[j].refs = refs2
        /\ job'[j].ups = job[j].ups
    BY <1>1, <2>3, <2>4, <2>5, <2>6, <2>7, ReloadedDoes DEF refs2
  <2> QED
    BY <1>3, <1>4, <2>1, <2>8 DEF before, refs2, pc, rest
<1> QED
  BY <1>5, <1>6

-----------------------------------------------------------------------------
(* Types.                                                                  *)

HostTypes ==
  /\ images \in [Tags -> Tags \cup {"none"}]
  /\ compose \in [Project -> Tags \cup {"cut"}]
  /\ env \subseteq Project
  /\ running \in [Project -> SUBSET Tags]
Bounds == crew \in Crews /\ asked \in 0 .. MaxAsked /\ harm \in 0 .. MaxHarm[crew]

\* An expansion belongs to a job that waits for it.
Waiting(j) == exp[j].at # "off" => job[j].pc \in {"expand", "html", "findagain", "base"}

LEMMA TypeParts == TypeOK <=> /\ TreeTypeOK /\ HostTypes /\ Bounds
                             /\ job \in [Jobs -> Job] /\ \A j \in Jobs : Waiting(j)
BY DEF TypeOK, HostTypes, Bounds, Waiting

\* A tag is never taken back.
TagsKept == \A x \in Tags : images[x] # "none" => images'[x] # "none"

LEMMA OtherTagsStay ==
  ASSUME Types, NEW k \in Jobs, TagsKept, job'[k] = job[k]
  PROVE  TagsStay(k)'
<1>1. job[k] \in Job /\ TagsStay(k)
  BY DEF Types, TypeOK
<1>2. \A i \in DOMAIN job[k].refs : job[k].refs[i] \in Tags
  BY <1>1 DEF Job
<1>3. \A i \in DOMAIN job'[k].refs : images'[job'[k].refs[i]] # "none"
  BY <1>1, <1>2 DEF TagsStay, TagsKept
<1>4. Still(k)' \subseteq Still(k)
  BY DEF Still, This, Local, TagsKept
<1> QED
  BY <1>1, <1>3, <1>4 DEF TagsStay

LEMMA StepTypes ==
  ASSUME Types, NEW j \in Jobs, OnlyJob(j), TreeTypeOK', HostTypes', Bounds',
         \A k \in Jobs : Standing(exp'[k]),
         \A k \in Jobs : k # j => exp'[k].at = exp[k].at,
         Waiting(j)', Asked(job'[j]), Lists(job'[j]), TagsKept, TagsStay(j)'
  PROVE  Types'
<1>1. \A k \in Jobs : k # j => job'[k] = job[k] /\ Waiting(k)
  BY TypeParts DEF OnlyJob, Types
<1>2. \A k \in Jobs : Waiting(k)'
  BY <1>1 DEF Waiting
<1>3. TypeOK'
  BY <1>2 DEF TypeOK, HostTypes, Bounds, Waiting, OnlyJob
<1>4. \A k \in Jobs : Asked(job'[k]) /\ Lists(job'[k])
  BY <1>1 DEF Types
<1>5. \A k \in Jobs : TagsStay(k)'
  BY <1>1, OtherTagsStay
<1> QED
  BY <1>3, <1>4, <1>5 DEF Types

\* A step of a job without an expansion, or with one that begins or is closed.
LEMMA ExpUnchangedTypes ==
  ASSUME Types, UNCHANGED treeVars
  PROVE  /\ TreeTypeOK' /\ \A k \in Jobs : Standing(exp'[k])
         /\ \A k \in Jobs : exp'[k].at = exp[k].at
<1>1. exp' = exp /\ file' = file /\ part' = part /\ dirs' = dirs
  BY DEF treeVars
<1> QED
  BY <1>1 DEF Types, TypeOK, TreeTypeOK

LEMMA ExpBegunTypes ==
  ASSUME Types, NEW j \in Jobs, NEW scope \in SUBSET Archive, UNCHANGED <<file, part, dirs>>,
         ExpandTree(j, scope) \/ ExpandOnce(j, scope)
  PROVE  /\ TreeTypeOK' /\ \A k \in Jobs : Standing(exp'[k])
         /\ \A k \in Jobs : k # j => exp'[k] = exp[k]
         /\ exp'[j].at = "walk"
<1>1. 1 \in 1 .. MaxPass /\ MaxPass \in 1 .. MaxPass
  BY ArchivesAssumption
<1>2. TreeTypeOK /\ \A k \in Jobs : Standing(exp[k])
  BY DEF Types, TypeOK
<1>3. /\ exp' \in [Jobs -> Expansion]
      /\ \A k \in Jobs : k # j => exp'[k] = exp[k]
      /\ exp'[j].at = "walk" /\ exp'[j].on = "closed"
  <2>1. CASE ExpandTree(j, scope)
    BY <1>1, <1>2, <2>1, ExpandDoes DEF ExpandTree, TreeTypeOK
  <2>2. CASE ExpandOnce(j, scope)
    BY <1>1, <1>2, <2>2, ExpandDoes DEF ExpandOnce, TreeTypeOK
  <2> QED
    BY <2>1, <2>2
<1>4. Standing(exp'[j])
  BY <1>3 DEF Standing, Busy
<1> QED
  BY <1>2, <1>3, <1>4 DEF TreeTypeOK

LEMMA ExpClosedTypes ==
  ASSUME Types, NEW j \in Jobs, Close(j)
  PROVE  /\ TreeTypeOK' /\ \A k \in Jobs : Standing(exp'[k])
         /\ \A k \in Jobs : k # j => exp'[k] = exp[k]
         /\ exp'[j].at = "off"
<1>1. TreeTypeOK /\ \A k \in Jobs : Standing(exp[k])
  BY DEF Types, TypeOK
<1>2. /\ exp' \in [Jobs -> Expansion]
      /\ \A k \in Jobs : k # j => exp'[k] = exp[k]
      /\ exp'[j].at = "off" /\ exp'[j].on = "closed"
      /\ file' = file /\ part' = part /\ dirs' = dirs
  BY <1>1, CloseDoes DEF TreeTypeOK
<1>3. Standing(exp'[j])
  BY <1>2 DEF Standing, Busy
<1> QED
  BY <1>1, <1>2, <1>3 DEF TreeTypeOK

\* A host that is left as it is.
LEMMA HostUnchanged ==
  ASSUME Types, UNCHANGED hostVars
  PROVE  HostTypes' /\ TagsKept
<1>1. images' = images /\ compose' = compose /\ env' = env /\ running' = running
  BY DEF hostVars
<1>2. HostTypes
  BY TypeParts DEF Types
<1> QED
  BY <1>1, <1>2 DEF HostTypes, TagsKept

\* A job that has come to its end needs nothing.
LEMMA EndedTypes ==
  ASSUME NEW j \in Jobs, job'[j].pc = "idle", job'[j].refs = <<>>
  PROVE  Asked(job'[j]) /\ Lists(job'[j]) /\ TagsStay(j)'
<1>1. DOMAIN job'[j].refs = {}
  OBVIOUS
<1> QED
  BY <1>1 DEF Asked, Lists, TagsStay

\* The tags of a job that keeps its list of them.
LEMMA SameRefsStay ==
  ASSUME Types, NEW j \in Jobs, TagsKept, job'[j].refs = job[j].refs,
         job'[j].pc = "compose" /\ job'[j].kind = "build" => Still(j)' = {}
  PROVE  TagsStay(j)'
<1>1. job[j] \in Job /\ TagsStay(j)
  BY DEF Types, TypeOK
<1>2. \A i \in DOMAIN job[j].refs : job[j].refs[i] \in Tags
  BY <1>1 DEF Job
<1> QED
  BY <1>1, <1>2 DEF TagsStay, TagsKept

LEMMA BoundsUnchanged == ASSUME Types, UNCHANGED bounds PROVE Bounds'
BY TypeParts DEF Types, Bounds, bounds

LEMMA NotWaiting ==
  ASSUME Types, NEW j \in Jobs, job[j].pc \notin {"expand", "html", "findagain", "base"}
  PROVE  exp[j].at = "off"
BY TypeParts DEF Types, Waiting

\* What every type proof begins with.
LEMMA TypeFacts ==
  ASSUME Types, NEW j \in Jobs
  PROVE  /\ job \in [Jobs -> Job] /\ job[j] \in Job /\ exp \in [Jobs -> Expansion]
         /\ Asked(job[j]) /\ Lists(job[j]) /\ TagsStay(j) /\ Standing(exp[j])
         /\ job[j].pc \in Places /\ job[j].refs \in Seq(Tags)
         /\ job[j].todo \in SUBSET TarZips /\ job[j].ups \in SUBSET Project
BY DEF Types, TypeOK, TreeTypeOK, Job, Places

LEMMA SkipTypes == ASSUME Types, NEW j \in Jobs, Skip(j) PROVE Types'
<1>1. job[j].pc = "prepare" /\ Ended(j, "skipped") /\ UNCHANGED treeVars /\ UNCHANGED hostVars /\ UNCHANGED bounds
  BY DEF Skip, At, NoTree
<1>2. OnlyJob(j) /\ job'[j].pc = "idle" /\ job'[j].refs = <<>>
  BY <1>1, TypeFacts, EndedDoes
<1>3. exp'[j].at = "off"
  BY <1>1, NotWaiting, ExpUnchangedTypes
<1> QED
  BY <1>1, <1>2, <1>3, EndedTypes, ExpUnchangedTypes, HostUnchanged, BoundsUnchanged, StepTypes DEF Waiting

LEMMA AlreadyThereTypes == ASSUME Types, NEW j \in Jobs, AlreadyThere(j) PROVE Types'
<1>1. job[j].pc = "prepare" /\ Goto(j, Prepared(j)) /\ UNCHANGED treeVars /\ UNCHANGED hostVars /\ UNCHANGED bounds
  BY DEF AlreadyThere, At, NoTree
<1>2. Prepared(j) \in {"html", "load"} /\ Prepared(j) \in Places /\ (Prepared(j) = "html" <=> job[j].kind = "nginx")
  BY DEF Prepared, Places
<1>3. OnlyJob(j) /\ SameRequest(j) /\ job'[j].pc = Prepared(j) /\ job'[j].refs = job[j].refs
  BY <1>1, <1>2, TypeFacts, GotoDoes
<1>4. exp'[j].at = "off"
  BY <1>1, NotWaiting, ExpUnchangedTypes
<1>5. Asked(job'[j]) /\ Lists(job'[j])
  BY <1>1, <1>2, <1>3, TypeFacts DEF Asked, Lists, SameRequest
<1>6. TagsKept /\ HostTypes'
  BY <1>1, HostUnchanged
<1>7. TagsStay(j)'
  BY <1>2, <1>3, <1>6, SameRefsStay
<1> QED
  BY <1>1, <1>3, <1>4, <1>5, <1>6, <1>7, ExpUnchangedTypes, BoundsUnchanged, StepTypes DEF Waiting

LEMMA StartExpandTypes == ASSUME Types, NEW j \in Jobs, StartExpand(j) PROVE Types'
<1>1. /\ job[j].pc = "prepare" /\ ExpandTree(j, Archive)
      /\ job' = [job EXCEPT ![j].pc = "expand", ![j].round = 1]
      /\ UNCHANGED <<file, part, dirs>> /\ UNCHANGED hostVars /\ UNCHANGED bounds
  BY DEF StartExpand, At
<1>2. 1 \in 0 .. Rounds
  BY ModuleDeployAssumption
<1>3. OnlyJob(j) /\ SameRequest(j) /\ job'[j].pc = "expand" /\ job'[j].refs = job[j].refs
  BY <1>1, <1>2, TypeFacts, RoundDoes
<1>4. /\ TreeTypeOK' /\ \A k \in Jobs : Standing(exp'[k])
      /\ \A k \in Jobs : k # j => exp'[k] = exp[k]
  BY <1>1, ExpBegunTypes
<1>5. Asked(job'[j]) /\ Lists(job'[j])
  BY <1>1, <1>3, TypeFacts DEF Asked, Lists, SameRequest
<1>6. TagsKept /\ HostTypes'
  BY <1>1, HostUnchanged
<1>7. TagsStay(j)'
  BY <1>3, <1>6, SameRefsStay
<1> QED
  BY <1>1, <1>3, <1>4, <1>5, <1>6, <1>7, BoundsUnchanged, StepTypes DEF Waiting

LEMMA AnotherRoundTypes == ASSUME Types, NEW j \in Jobs, AnotherRound(j) PROVE Types'
<1>1. /\ job[j].pc = "expand" /\ ExpandTree(j, Archive)
      /\ UNCHANGED <<file, part, dirs>> /\ UNCHANGED hostVars /\ UNCHANGED bounds
  BY DEF AnotherRound, At
<1>2. OnlyJob(j) /\ SameRequest(j) /\ job'[j].pc = "expand" /\ job'[j].refs = job[j].refs
  BY TypeFacts, RepeatDoes
<1>3. /\ TreeTypeOK' /\ \A k \in Jobs : Standing(exp'[k])
      /\ \A k \in Jobs : k # j => exp'[k] = exp[k]
  BY <1>1, ExpBegunTypes
<1>4. Asked(job'[j]) /\ Lists(job'[j])
  BY <1>1, <1>2, TypeFacts DEF Asked, Lists, SameRequest
<1>5. TagsKept /\ HostTypes'
  BY <1>1, HostUnchanged
<1>6. TagsStay(j)'
  BY <1>2, <1>5, SameRefsStay
<1> QED
  BY <1>1, <1>2, <1>3, <1>4, <1>5, <1>6, BoundsUnchanged, StepTypes DEF Waiting

LEMMA EndPrepareTypes == ASSUME Types, NEW j \in Jobs, EndPrepare(j) PROVE Types'
<1>1. /\ job[j].pc = "expand" /\ Close(j) /\ UNCHANGED hostVars /\ UNCHANGED bounds
      /\ IF PrepareFails(j) THEN Ended(j, "failed") ELSE Goto(j, Prepared(j))
  BY DEF EndPrepare, At
<1>2. /\ TreeTypeOK' /\ \A k \in Jobs : Standing(exp'[k])
      /\ \A k \in Jobs : k # j => exp'[k] = exp[k]
      /\ exp'[j].at = "off"
  BY <1>1, ExpClosedTypes
<1>3. TagsKept /\ HostTypes'
  BY <1>1, HostUnchanged
<1>4. CASE PrepareFails(j)
  <2>1. OnlyJob(j) /\ job'[j].pc = "idle" /\ job'[j].refs = <<>>
    BY <1>1, <1>4, TypeFacts, EndedDoes
  <2> QED
    BY <1>1, <1>2, <1>3, <2>1, EndedTypes, BoundsUnchanged, StepTypes DEF Waiting
<1>5. CASE ~PrepareFails(j)
  <2>1. Prepared(j) \in {"html", "load"} /\ Prepared(j) \in Places /\ (Prepared(j) = "html" <=> job[j].kind = "nginx")
    BY DEF Prepared, Places
  <2>2. OnlyJob(j) /\ SameRequest(j) /\ job'[j].pc = Prepared(j) /\ job'[j].refs = job[j].refs
    BY <1>1, <1>5, <2>1, TypeFacts, GotoDoes
  <2>3. Asked(job'[j]) /\ Lists(job'[j])
    BY <1>1, <2>1, <2>2, TypeFacts DEF Asked, Lists, SameRequest
  <2>4. TagsStay(j)'
    BY <1>3, <2>1, <2>2, SameRefsStay
  <2> QED
    BY <1>1, <1>2, <1>3, <2>2, <2>3, <2>4, BoundsUnchanged, StepTypes DEF Waiting
<1> QED
  BY <1>4, <1>5

LEMMA ExpandHtmlTypes == ASSUME Types, NEW j \in Jobs, ExpandHtml(j) PROVE Types'
<1>1. /\ job[j].pc = "html" /\ ExpandTree(j, Html)
      /\ UNCHANGED <<file, part, dirs>> /\ UNCHANGED hostVars /\ UNCHANGED bounds /\ job' = job
  BY DEF ExpandHtml, At
<1>2. Html \in SUBSET Archive
  BY ModuleDeployAssumption DEF Archive
<1>3. /\ TreeTypeOK' /\ \A k \in Jobs : Standing(exp'[k])
      /\ \A k \in Jobs : k # j => exp'[k] = exp[k]
  BY <1>1, <1>2, ExpBegunTypes
<1>4. OnlyJob(j) /\ Asked(job'[j]) /\ Lists(job'[j])
  BY <1>1, TypeFacts DEF OnlyJob
<1>5. TagsKept /\ HostTypes'
  BY <1>1, HostUnchanged
<1>6. TagsStay(j)'
  BY <1>1, <1>5, SameRefsStay
<1> QED
  BY <1>1, <1>3, <1>4, <1>5, <1>6, BoundsUnchanged, StepTypes DEF Waiting

LEMMA EndHtmlTypes == ASSUME Types, NEW j \in Jobs, EndHtml(j) PROVE Types'
<1>1. job[j].pc = "html" /\ Close(j) /\ Goto(j, "load") /\ UNCHANGED hostVars /\ UNCHANGED bounds
  BY DEF EndHtml, At
<1>2. /\ TreeTypeOK' /\ \A k \in Jobs : Standing(exp'[k])
      /\ \A k \in Jobs : k # j => exp'[k] = exp[k]
      /\ exp'[j].at = "off"
  BY <1>1, ExpClosedTypes
<1>3. "load" \in Places
  BY DEF Places
<1>4. OnlyJob(j) /\ SameRequest(j) /\ job'[j].pc = "load" /\ job'[j].refs = job[j].refs
  BY <1>1, <1>3, TypeFacts, GotoDoes
<1>5. Asked(job'[j]) /\ Lists(job'[j])
  BY <1>1, <1>4, TypeFacts DEF Asked, Lists, SameRequest
<1>6. TagsKept /\ HostTypes'
  BY <1>1, HostUnchanged
<1>7. TagsStay(j)'
  BY <1>4, <1>6, SameRefsStay
<1> QED
  BY <1>1, <1>2, <1>4, <1>5, <1>6, <1>7, BoundsUnchanged, StepTypes DEF Waiting

LEMMA ListTarsDoes ==
  ASSUME Types, NEW j \in Jobs, ListTars(j)
  PROVE  /\ job[j].pc = "load" /\ UNCHANGED treeVars /\ UNCHANGED hostVars /\ UNCHANGED bounds
         /\ OnlyJob(j)
         /\ \/ /\ TarsOf(TarZips) # {} /\ SameRequest(j) /\ job'[j].pc = "loading"
               /\ job'[j].todo = TarsOf(TarZips) /\ job'[j].before = Local
               /\ job'[j].refs = job[j].refs
            \/ job[j].kind = "nginx" /\ SameRequest(j) /\ job'[j].pc = "find" /\ job'[j].refs = job[j].refs
            \/ job'[j].pc = "idle" /\ job'[j].kind = "none" /\ job'[j].refs = <<>> /\ job'[j].end = "failed"
<1>1. job[j].pc = "load" /\ UNCHANGED treeVars /\ UNCHANGED hostVars /\ UNCHANGED bounds
  BY DEF ListTars, At, NoTree
<1>2. TarsOf(TarZips) \in SUBSET TarZips /\ Local \in SUBSET Tags
  BY DEF TarsOf, Local
<1>3. CASE TarsOf(TarZips) # {}
  <2> DEFINE todo == TarsOf(TarZips)
             before == Local
  <2>1. job' = [job EXCEPT ![j].pc = "loading", ![j].todo = todo, ![j].before = before]
    BY <1>3 DEF ListTars
  <2> HIDE DEF todo, before
  <2>2. job' = [job EXCEPT ![j] = Reloaded(job[j], "loading", todo, before, job[j].refs)]
    <3>1. job[j] = [job[j] EXCEPT !.refs = job[j].refs]
      BY TypeFacts DEF Job
    <3>2. [[job[j] EXCEPT !.refs = job[j].refs] EXCEPT !.pc = "loading", !.todo = todo, !.before = before]
            = Reloaded(job[j], "loading", todo, before, job[j].refs)
      BY TypeFacts DEF Job, Reloaded
    <3> QED
      BY <2>1, <3>1, <3>2
  <2>3. "loading" \in Places
    BY DEF Places
  <2>4. todo \in SUBSET TarZips /\ before \in SUBSET Tags
    BY <1>2 DEF todo, before
  <2> DEFINE refs == job[j].refs
  <2>5. refs \in Seq(Tags) /\ job \in [Jobs -> Job]
    BY TypeFacts
  <2>6. job' = [job EXCEPT ![j] = Reloaded(job[j], "loading", todo, before, refs)]
    BY <2>2
  <2> DEFINE pc == "loading"
  <2> HIDE DEF refs, pc
  <2>7. /\ OnlyJob(j) /\ SameRequest(j) /\ job'[j].pc = pc
        /\ job'[j].todo = todo /\ job'[j].before = before /\ job'[j].refs = refs
    <3>1. pc \in Places /\ job' = [job EXCEPT ![j] = Reloaded(job[j], pc, todo, before, refs)]
      BY <2>3, <2>6 DEF pc
    <3> QED
      BY <2>4, <2>5, <3>1, ReloadedDoes, ZenonT(60)
  <2> QED
    BY <1>1, <1>3, <2>7 DEF todo, before, refs, pc
<1>4. CASE TarsOf(TarZips) = {} /\ job[j].kind = "nginx"
  <2>1. Goto(j, "find") /\ "find" \in Places
    BY <1>4 DEF ListTars, Places
  <2> QED
    BY <1>1, <1>4, <2>1, TypeFacts, GotoDoes
<1>5. CASE TarsOf(TarZips) = {} /\ job[j].kind # "nginx"
  <2>1. Ended(j, "failed")
    BY <1>5 DEF ListTars
  <2> QED
    BY <1>1, <2>1, TypeFacts, EndedDoes
<1> QED
  BY <1>3, <1>4, <1>5

LEMMA ListTarsTypes == ASSUME Types, NEW j \in Jobs, ListTars(j) PROVE Types'
<1>1. exp'[j].at = "off"
  BY ListTarsDoes, NotWaiting, ExpUnchangedTypes
<1>2. TagsKept /\ HostTypes'
  BY ListTarsDoes, HostUnchanged
<1>3. Asked(job'[j]) /\ Lists(job'[j])
  BY ListTarsDoes, TypeFacts DEF Asked, Lists, SameRequest
<1>4. TagsStay(j)'
  <2>1. CASE job'[j].refs = job[j].refs /\ job'[j].pc # "compose"
    BY <1>2, <2>1, SameRefsStay
  <2>2. CASE job'[j].pc = "idle" /\ job'[j].refs = <<>>
    BY <2>2, EndedTypes
  <2> QED
    BY <2>1, <2>2, ListTarsDoes
<1> QED
  BY <1>1, <1>2, <1>3, <1>4, ListTarsDoes, ExpUnchangedTypes, BoundsUnchanged, StepTypes DEF Waiting

LEMMA LoadTypes == ASSUME Types, NEW j \in Jobs, Load(j) PROVE Types'
<1>1. /\ job[j].pc \in {"loading", "baseloading"} /\ UNCHANGED treeVars /\ UNCHANGED bounds
      /\ UNCHANGED <<compose, env, running>>
  BY DEF Load, NoTree
<1>2. OnlyJob(j) /\ ImageIn[NextTar(j)] \in Tags
  BY TypeFacts, LoadDoes DEF Types
<1>3. exp'[j].at = "off"
  BY <1>1, NotWaiting, ExpUnchangedTypes
<1>4. CASE images' = images /\ job'[j].pc = "idle" /\ job'[j].refs = <<>>
  <2>1. TagsKept /\ HostTypes'
    BY <1>1, <1>4, HostUnchanged DEF hostVars
  <2> QED
    BY <1>1, <1>2, <1>3, <1>4, <2>1, EndedTypes, ExpUnchangedTypes, BoundsUnchanged, StepTypes DEF Waiting
<1>5. ASSUME NEW refs \in SetToSeqs(NewRefs(j, ImageIn[NextTar(j)])),
             images' = BaseTag(j, refs, Loaded(j, ImageIn[NextTar(j)])),
             SameRequest(j), job'[j].ups = job[j].ups, job'[j].refs = job[j].refs \o refs,
             IF job[j].todo \ {NextTar(j)} = {}
             THEN job'[j].pc = IF job[j].pc = "loading" THEN AfterLoad(j) ELSE "basetag"
             ELSE job'[j].pc = job[j].pc /\ job'[j].todo = job[j].todo \ {NextTar(j)}
      PROVE  Types'
  <2>1. /\ images' \in [Tags -> Tags \cup {"none"}] /\ TagsKept
        /\ \A i \in DOMAIN refs : images'[refs[i]] # "none"
    BY <1>2, <1>5, LoadedTags DEF Types, TagsKept
  <2>2. HostTypes'
    BY <1>1, <2>1, TypeParts DEF Types, HostTypes
  <2>3. Asked(job'[j]) /\ Lists(job'[j])
    BY <1>1, <1>5, TypeFacts DEF Asked, Lists, SameRequest, AfterLoad
  <2>4. refs \in Seq(Tags)
    BY <1>2, NewRefsSome, SomeOrder DEF Types
  <2>5. ASSUME NEW i \in DOMAIN job'[j].refs PROVE images'[job'[j].refs[i]] # "none"
    <3>1. \/ i \in DOMAIN job[j].refs /\ job'[j].refs[i] = job[j].refs[i]
          \/ \E k \in DOMAIN refs : job'[j].refs[i] = refs[k]
      BY <1>5, <2>4, TypeFacts, ConcatRefs
    <3>2. CASE i \in DOMAIN job[j].refs /\ job'[j].refs[i] = job[j].refs[i]
      <4>1. job[j].refs[i] \in Tags /\ images[job[j].refs[i]] # "none"
        BY <3>2, TypeFacts DEF TagsStay
      <4> QED
        BY <2>1, <3>2, <4>1 DEF TagsKept
    <3> QED
      BY <2>1, <3>1, <3>2
  <2>6. job'[j].pc # "compose"
    BY <1>1, <1>5 DEF AfterLoad
  <2>7. TagsStay(j)'
    BY <2>5, <2>6 DEF TagsStay
  <2> QED
    BY <1>1, <1>2, <1>3, <2>1, <2>2, <2>3, <2>7, ExpUnchangedTypes, BoundsUnchanged, StepTypes DEF Waiting
<1> QED
  BY <1>4, <1>5, TypeFacts, LoadDoes DEF Types

LEMMA PatchEnvDoes ==
  ASSUME Types, NEW j \in Jobs, PatchEnv(j)
  PROVE  /\ job[j].pc = "env" /\ UNCHANGED treeVars /\ UNCHANGED bounds
         /\ UNCHANGED <<images, compose, running>>
         /\ env' \subseteq Project /\ OnlyJob(j) /\ SameRequest(j) /\ job'[j].refs = job[j].refs
         /\ \/ Found \subseteq env /\ env' = env /\ job'[j].pc = "find"
            \/ job'[j].pc = "env"
<1>1. /\ job[j].pc = "env" /\ UNCHANGED treeVars /\ UNCHANGED bounds
      /\ UNCHANGED <<images, compose, running>>
  BY DEF PatchEnv, At, NoTree
<1>2. env \subseteq Project /\ Patchable \in SUBSET Project
  BY TypeParts DEF Types, HostTypes, Patchable, Found
<1>3. CASE Patchable = {}
  <2>1. Goto(j, "find") /\ env' = env /\ "find" \in Places /\ Found \subseteq env
    BY <1>3 DEF PatchEnv, Places, Patchable
  <2> QED
    BY <1>1, <1>2, <2>1, TypeFacts, GotoDoes
<1>4. CASE Patchable # {}
  <2>1. env' = env \cup {First(Projects, Patchable)} /\ job' = job
    BY <1>4 DEF PatchEnv
  <2>2. First(Projects, Patchable) \in Project
    BY <1>2, <1>4, FirstProject
  <2> QED
    BY <1>1, <1>2, <2>1, <2>2, TypeFacts DEF OnlyJob, SameRequest
<1> QED
  BY <1>3, <1>4

LEMMA PatchEnvTypes == ASSUME Types, NEW j \in Jobs, PatchEnv(j) PROVE Types'
<1>1. exp'[j].at = "off"
  BY PatchEnvDoes, NotWaiting, ExpUnchangedTypes
<1>2. TagsKept /\ HostTypes'
  BY PatchEnvDoes, TypeParts DEF Types, HostTypes, TagsKept
<1>3. Asked(job'[j]) /\ Lists(job'[j])
  BY PatchEnvDoes, TypeFacts DEF Asked, Lists, SameRequest
<1>4. TagsStay(j)'
  BY <1>2, PatchEnvDoes, SameRefsStay
<1> QED
  BY <1>1, <1>2, <1>3, <1>4, PatchEnvDoes, ExpUnchangedTypes, BoundsUnchanged, StepTypes DEF Waiting

LEMMA FoundProjects == Found \in SUBSET Project
BY DEF Found

LEMMA FindProjectsDoes ==
  ASSUME Types, NEW j \in Jobs, FindProjects(j)
  PROVE  /\ job[j].pc = "find" /\ UNCHANGED <<file, part, dirs>> /\ UNCHANGED hostVars /\ UNCHANGED bounds
         /\ OnlyJob(j)
         /\ \/ /\ Found # {} /\ SameRequest(j) /\ job'[j].pc = "one" /\ job'[j].ups = Found
               /\ job'[j].refs = job[j].refs /\ exp' = exp
            \/ /\ job[j].kind = "build" /\ SameRequest(j) /\ job'[j].pc = "findagain"
               /\ job'[j].refs = job[j].refs /\ ExpandTree(j, Archive)
            \/ job'[j].pc = "idle" /\ job'[j].kind = "none" /\ job'[j].refs = <<>> /\ job'[j].end = "failed" /\ exp' = exp
<1>1. job[j].pc = "find" /\ UNCHANGED <<file, part, dirs>> /\ UNCHANGED hostVars /\ UNCHANGED bounds
  BY DEF FindProjects, At
<1>2. CASE Found # {}
  <2>1. job' = [job EXCEPT ![j].pc = "one", ![j].ups = Found] /\ exp' = exp
    BY <1>2 DEF FindProjects
  <2> DEFINE ups == Found
  <2> HIDE DEF ups
  <2>2. job' = [job EXCEPT ![j].pc = "one", ![j].ups = ups] /\ ups \in SUBSET Project
    BY <2>1, FoundProjects DEF ups
  <2> QED
    BY <1>1, <1>2, <2>1, <2>2, TypeFacts, UpsDoes DEF ups
<1>3. CASE Found = {} /\ job[j].kind = "build"
  <2>1. Goto(j, "findagain") /\ ExpandTree(j, Archive) /\ "findagain" \in Places
    BY <1>3 DEF FindProjects, Places
  <2> QED
    BY <1>1, <1>3, <2>1, TypeFacts, GotoDoes
<1>4. CASE Found = {} /\ job[j].kind # "build"
  <2>1. Ended(j, "failed") /\ exp' = exp
    BY <1>4 DEF FindProjects
  <2> QED
    BY <1>1, <2>1, TypeFacts, EndedDoes
<1> QED
  BY <1>2, <1>3, <1>4

LEMMA FindProjectsTypes == ASSUME Types, NEW j \in Jobs, FindProjects(j) PROVE Types'
<1>1. TagsKept /\ HostTypes'
  BY FindProjectsDoes, HostUnchanged
<1>2. CASE exp' = exp
  <2>1. UNCHANGED treeVars
    BY <1>2, FindProjectsDoes DEF treeVars
  <2>2. exp'[j].at = "off"
    BY <1>2, FindProjectsDoes, NotWaiting
  <2>3. CASE job'[j].pc = "one"
    <3>1. /\ OnlyJob(j) /\ SameRequest(j) /\ job'[j].ups # {} /\ job'[j].refs = job[j].refs
      BY <2>3, FindProjectsDoes
    <3>2. Asked(job'[j]) /\ Lists(job'[j])
      BY <2>3, <3>1 DEF Asked, Lists
    <3>3. TagsStay(j)'
      BY <1>1, <2>3, <3>1, SameRefsStay
    <3> QED
      BY <1>1, <2>1, <2>2, <3>1, <3>2, <3>3, FindProjectsDoes, ExpUnchangedTypes, BoundsUnchanged, StepTypes DEF Waiting
  <2>4. CASE job'[j].pc = "idle"
    <3>1. OnlyJob(j) /\ job'[j].refs = <<>>
      BY <2>4, FindProjectsDoes
    <3> QED
      BY <1>1, <2>1, <2>2, <2>4, <3>1, EndedTypes, FindProjectsDoes, ExpUnchangedTypes, BoundsUnchanged, StepTypes DEF Waiting
  <2>5. CASE job'[j].pc = "findagain"
    <3>1. /\ job[j].kind = "build" /\ OnlyJob(j) /\ SameRequest(j) /\ job'[j].refs = job[j].refs
      BY <2>5, FindProjectsDoes
    <3>2. Asked(job'[j]) /\ Lists(job'[j])
      BY <2>5, <3>1 DEF Asked, Lists, SameRequest
    <3>3. TagsStay(j)'
      BY <1>1, <2>5, <3>1, SameRefsStay
    <3> QED
      BY <1>1, <2>1, <2>2, <3>1, <3>2, <3>3, FindProjectsDoes, ExpUnchangedTypes, BoundsUnchanged, StepTypes DEF Waiting
  <2> QED
    BY <2>3, <2>4, <2>5, FindProjectsDoes
<1>3. CASE exp' # exp
  <2>1. /\ job[j].kind = "build" /\ OnlyJob(j) /\ SameRequest(j) /\ job'[j].refs = job[j].refs
        /\ job'[j].pc = "findagain" /\ ExpandTree(j, Archive)
    BY <1>3, FindProjectsDoes
  <2>2. /\ TreeTypeOK' /\ \A k \in Jobs : Standing(exp'[k])
        /\ \A k \in Jobs : k # j => exp'[k] = exp[k]
    BY <2>1, FindProjectsDoes, ExpBegunTypes
  <2>3. Asked(job'[j]) /\ Lists(job'[j])
    BY <2>1 DEF Asked, Lists, SameRequest
  <2>4. TagsStay(j)'
    BY <1>1, <2>1, SameRefsStay
  <2> QED
    BY <1>1, <2>1, <2>2, <2>3, <2>4, FindProjectsDoes, BoundsUnchanged, StepTypes DEF Waiting
<1> QED
  BY <1>2, <1>3

LEMMA FindAgainDoes ==
  ASSUME Types, NEW j \in Jobs, FindAgain(j)
  PROVE  /\ job[j].pc = "findagain" /\ Close(j) /\ UNCHANGED hostVars /\ UNCHANGED bounds
         /\ OnlyJob(j)
         /\ \/ /\ Found # {} /\ SameRequest(j) /\ job'[j].pc = "one" /\ job'[j].ups = Found
               /\ job'[j].refs = job[j].refs
            \/ job'[j].pc = "idle" /\ job'[j].kind = "none" /\ job'[j].refs = <<>> /\ job'[j].end = "failed"
<1>1. job[j].pc = "findagain" /\ Close(j) /\ UNCHANGED hostVars /\ UNCHANGED bounds
  BY DEF FindAgain, At
<1>2. CASE Found # {}
  <2>1. job' = [job EXCEPT ![j].pc = "one", ![j].ups = Found]
    BY <1>2 DEF FindAgain
  <2> DEFINE ups == Found
  <2> HIDE DEF ups
  <2>2. job' = [job EXCEPT ![j].pc = "one", ![j].ups = ups] /\ ups \in SUBSET Project
    BY <2>1, FoundProjects DEF ups
  <2> QED
    BY <1>1, <1>2, <2>2, TypeFacts, UpsDoes DEF ups
<1>3. CASE Found = {}
  <2>1. Ended(j, "failed")
    BY <1>3 DEF FindAgain
  <2> QED
    BY <1>1, <2>1, TypeFacts, EndedDoes
<1> QED
  BY <1>2, <1>3

LEMMA FindAgainTypes == ASSUME Types, NEW j \in Jobs, FindAgain(j) PROVE Types'
<1>1. /\ TreeTypeOK' /\ \A k \in Jobs : Standing(exp'[k])
      /\ \A k \in Jobs : k # j => exp'[k] = exp[k]
      /\ exp'[j].at = "off"
  BY FindAgainDoes, ExpClosedTypes
<1>2. TagsKept /\ HostTypes'
  BY FindAgainDoes, HostUnchanged
<1>3. Asked(job'[j]) /\ Lists(job'[j])
  BY FindAgainDoes DEF Asked, Lists
<1>4. TagsStay(j)'
  <2>1. CASE job'[j].refs = job[j].refs /\ job'[j].pc = "one"
    BY <1>2, <2>1, SameRefsStay
  <2>2. CASE job'[j].pc = "idle" /\ job'[j].refs = <<>>
    BY <2>2, EndedTypes
  <2> QED
    BY <2>1, <2>2, FindAgainDoes
<1> QED
  BY <1>1, <1>2, <1>3, <1>4, FindAgainDoes, BoundsUnchanged, StepTypes DEF Waiting

LEMMA ThisProject ==
  ASSUME Types, NEW j \in Jobs, job[j].ups # {}
  PROVE  This(j) \in job[j].ups /\ This(j) \in Project
BY TypeFacts, FirstProject DEF This

\* Whatever is written to a compose file is a tag; the file may be cut meanwhile.
LEMMA PicksTags ==
  ASSUME Types, NEW j \in Jobs, NEW cur \in Tags
  PROVE  /\ Picks(j, cur) \subseteq Tags
         /\ Preferred(j, cur) # {} => /\ Least(Preferred(j, cur)) \in DOMAIN job[j].refs
                                      /\ RepoOf[job[j].refs[Least(Preferred(j, cur))]] = RepoOf[cur]
<1>1. CASE Preferred(j, cur) # {}
  <2>1. Preferred(j, cur) \in SUBSET Nat
    BY TypeFacts DEF Preferred
  <2>2. Least(Preferred(j, cur)) \in Preferred(j, cur)
    BY <1>1, <2>1, LeastIsIn
  <2>3. /\ Least(Preferred(j, cur)) \in DOMAIN job[j].refs
        /\ RepoOf[job[j].refs[Least(Preferred(j, cur))]] = RepoOf[cur]
    BY <2>2 DEF Preferred
  <2>4. job[j].refs[Least(Preferred(j, cur))] \in Tags
    BY <2>3, TypeFacts
  <2> QED
    BY <1>1, <2>3, <2>4 DEF Picks
<1>2. CASE Preferred(j, cur) = {}
  BY <1>2 DEF Picks, Local
<1> QED
  BY <1>1, <1>2

LEMMA SyncDoes ==
  ASSUME Types, NEW j \in Jobs, Sync(j)
  PROVE  /\ job[j].pc = "one" /\ job[j].kind # "build" /\ UNCHANGED treeVars /\ UNCHANGED bounds
         /\ UNCHANGED <<images, env, running>>
         /\ This(j) \in Project /\ compose' \in [Project -> Tags \cup {"cut"}]
         /\ \A p \in Project : p # This(j) => compose'[p] = compose[p]
         /\ OnlyJob(j) /\ SameRequest(j) /\ job'[j].refs = job[j].refs /\ job'[j].ups = job[j].ups
         /\ \E new \in (IF Read(This(j)) = "cut" THEN {"cut"} ELSE Picks(j, compose[This(j)])) :
              \/ new = Read(This(j)) /\ job'[j].pc = "check" /\ compose' = compose
              \/ /\ new # Read(This(j)) /\ job'[j].pc = "write" /\ job'[j].want = new /\ new \in Tags
                 /\ compose[This(j)] \in Tags /\ compose'[This(j)] = "cut"
<1>1. /\ job[j].pc = "one" /\ job[j].kind # "build" /\ UNCHANGED treeVars /\ UNCHANGED bounds
      /\ UNCHANGED <<images, env, running>>
  BY DEF Sync, At, NoTree
<1>2. This(j) \in Project
  BY <1>1, ThisProject, TypeFacts DEF Lists
<1>3. compose \in [Project -> Tags \cup {"cut"}]
  BY TypeParts DEF Types, HostTypes
<1>4. PICK new \in (IF Read(This(j)) = "cut" THEN {"cut"} ELSE Picks(j, compose[This(j)])) :
        IF new = Read(This(j)) THEN Goto(j, "check") /\ UNCHANGED compose
        ELSE /\ compose' = [compose EXCEPT ![This(j)] = "cut"]
             /\ job' = [job EXCEPT ![j].pc = "write", ![j].want = new]
  BY DEF Sync
<1>5. CASE new = Read(This(j))
  <2>1. Goto(j, "check") /\ compose' = compose /\ "check" \in Places
    BY <1>4, <1>5 DEF Places
  <2> QED
    BY <1>1, <1>2, <1>3, <1>4, <1>5, <2>1, TypeFacts, GotoDoes
<1>6. CASE new # Read(This(j))
  <2>1. Read(This(j)) # "cut" /\ Read(This(j)) = compose[This(j)]
    BY <1>4, <1>6 DEF Read
  <2>2. compose[This(j)] \in Tags
    BY <1>2, <1>3, <2>1
  <2>3. new \in Picks(j, compose[This(j)])
    BY <1>4, <2>1
  <2>4. new \in Tags
    BY <2>2, <2>3, PicksTags
  <2>5. job' = [job EXCEPT ![j].pc = "write", ![j].want = new]
    BY <1>4, <1>6
  <2>6. OnlyJob(j) /\ SameRequest(j) /\ job'[j].pc = "write" /\ job'[j].refs = job[j].refs
        /\ job'[j].ups = job[j].ups /\ job'[j].want = new
    BY <2>4, <2>5, TypeFacts, WantDoes
  <2>7. compose' = [compose EXCEPT ![This(j)] = "cut"]
    BY <1>4, <1>6
  <2> QED
    BY <1>1, <1>2, <1>3, <1>4, <1>6, <2>2, <2>4, <2>6, <2>7
<1> QED
  BY <1>5, <1>6

LEMMA SyncTypes == ASSUME Types, NEW j \in Jobs, Sync(j) PROVE Types'
<1>1. exp'[j].at = "off"
  BY SyncDoes, NotWaiting, ExpUnchangedTypes
<1>2. TagsKept /\ HostTypes'
  BY SyncDoes, TypeParts DEF Types, HostTypes, TagsKept
<1>3. OnlyJob(j) /\ SameRequest(j) /\ job'[j].refs = job[j].refs /\ job'[j].ups = job[j].ups
      /\ job[j].pc = "one" /\ job[j].kind # "build"
  BY SyncDoes
<1>4. job'[j].pc = "check" \/ (job'[j].pc = "write" /\ job'[j].want \in Tags)
  BY SyncDoes
<1>5. Asked(job'[j]) /\ Lists(job'[j])
  BY <1>3, <1>4, TypeFacts DEF Asked, Lists, SameRequest
<1>6. TagsStay(j)'
  BY <1>2, <1>3, <1>4, SameRefsStay
<1> QED
  BY <1>1, <1>2, <1>3, <1>5, <1>6, SyncDoes, ExpUnchangedTypes, BoundsUnchanged, StepTypes DEF Waiting

LEMMA WriteComposeDoes ==
  ASSUME Types, NEW j \in Jobs, WriteCompose(j)
  PROVE  /\ job[j].pc = "write" /\ UNCHANGED treeVars /\ UNCHANGED bounds
         /\ UNCHANGED <<images, env, running>>
         /\ This(j) \in Project /\ job[j].want \in Tags
         /\ compose' = [compose EXCEPT ![This(j)] = job[j].want]
         /\ OnlyJob(j) /\ SameRequest(j) /\ job'[j].refs = job[j].refs /\ job'[j].ups = job[j].ups
         /\ job'[j].pc = "check"
<1>1. /\ job[j].pc = "write" /\ UNCHANGED treeVars /\ UNCHANGED bounds
      /\ UNCHANGED <<images, env, running>>
      /\ compose' = [compose EXCEPT ![This(j)] = job[j].want]
      /\ job' = [job EXCEPT ![j].pc = "check", ![j].want = "none"]
  BY DEF WriteCompose, At, NoTree
<1>2. This(j) \in Project /\ job[j].want \in Tags
  BY <1>1, ThisProject, TypeFacts DEF Lists
<1> QED
  BY <1>1, <1>2, TypeFacts, WantDoes

LEMMA WriteComposeTypes == ASSUME Types, NEW j \in Jobs, WriteCompose(j) PROVE Types'
<1>1. exp'[j].at = "off"
  BY WriteComposeDoes, NotWaiting, ExpUnchangedTypes
<1>2. TagsKept /\ HostTypes'
  BY WriteComposeDoes, TypeParts DEF Types, HostTypes, TagsKept
<1>3. Asked(job'[j]) /\ Lists(job'[j])
  BY WriteComposeDoes, TypeFacts DEF Asked, Lists, SameRequest
<1>4. TagsStay(j)'
  BY <1>2, WriteComposeDoes, SameRefsStay
<1> QED
  BY <1>1, <1>2, <1>3, <1>4, WriteComposeDoes, ExpUnchangedTypes, BoundsUnchanged, StepTypes DEF Waiting

LEMMA CheckDoes ==
  ASSUME Types, NEW j \in Jobs, Check(j)
  PROVE  /\ job[j].pc = "check" /\ UNCHANGED treeVars /\ UNCHANGED hostVars /\ UNCHANGED bounds
         /\ OnlyJob(j)
         /\ \/ /\ SameRequest(j) /\ job'[j].pc = "compose" /\ job'[j].ups = job[j].ups
               /\ job'[j].refs = job[j].refs
            \/ job'[j].pc = "idle" /\ job'[j].kind = "none" /\ job'[j].refs = <<>> /\ job'[j].end = "failed"
<1>1. job[j].pc = "check" /\ UNCHANGED treeVars /\ UNCHANGED hostVars /\ UNCHANGED bounds
  BY DEF Check, At, NoTree
<1>2. Goto(j, "compose") \/ Ended(j, "failed")
  BY DEF Check
<1>3. CASE Goto(j, "compose")
  <2>1. "compose" \in Places
    BY DEF Places
  <2> QED
    BY <1>1, <1>3, <2>1, TypeFacts, GotoDoes
<1>4. CASE Ended(j, "failed")
  BY <1>1, <1>4, TypeFacts, EndedDoes
<1> QED
  BY <1>2, <1>3, <1>4

LEMMA CheckTypes == ASSUME Types, NEW j \in Jobs, Check(j) PROVE Types'
<1>1. exp'[j].at = "off"
  BY CheckDoes, NotWaiting, ExpUnchangedTypes
<1>2. TagsKept /\ HostTypes'
  BY CheckDoes, HostUnchanged
<1>3. Asked(job'[j]) /\ Lists(job'[j]) /\ TagsStay(j)'
  <2>1. CASE job'[j].pc = "idle"
    BY <2>1, CheckDoes, EndedTypes
  <2>2. CASE job'[j].pc # "idle"
    <3>1. /\ SameRequest(j) /\ job'[j].pc = "compose" /\ job'[j].ups = job[j].ups
          /\ job'[j].refs = job[j].refs /\ job[j].pc = "check"
      BY <2>2, CheckDoes
    <3>2. Asked(job'[j]) /\ Lists(job'[j]) /\ job'[j].kind # "build"
      BY <3>1, TypeFacts DEF Asked, Lists, SameRequest
    <3> QED
      BY <1>2, <3>1, <3>2, SameRefsStay
  <2> QED
    BY <2>1, <2>2
<1> QED
  BY <1>1, <1>2, <1>3, CheckDoes, ExpUnchangedTypes, BoundsUnchanged, StepTypes DEF Waiting

LEMMA NeedBaseDoes ==
  ASSUME Types, NEW j \in Jobs, NeedBase(j)
  PROVE  /\ job[j].pc = "one" /\ job[j].kind = "build" /\ UNCHANGED <<file, part, dirs>>
         /\ UNCHANGED hostVars /\ UNCHANGED bounds
         /\ OnlyJob(j) /\ SameRequest(j) /\ job'[j].ups = job[j].ups /\ job'[j].refs = job[j].refs
         /\ \/ Still(j) = {} /\ job'[j].pc = "compose" /\ exp' = exp
            \/ job'[j].pc = "base" /\ ExpandOnce(j, BaseTars)
<1>1. /\ job[j].pc = "one" /\ job[j].kind = "build" /\ UNCHANGED <<file, part, dirs>>
      /\ UNCHANGED hostVars /\ UNCHANGED bounds
  BY DEF NeedBase, At
<1>2. CASE Still(j) = {}
  <2>1. Goto(j, "compose") /\ exp' = exp /\ "compose" \in Places
    BY <1>2 DEF NeedBase, Places
  <2> QED
    BY <1>1, <1>2, <2>1, TypeFacts, GotoDoes
<1>3. CASE Still(j) # {}
  <2>1. Goto(j, "base") /\ ExpandOnce(j, BaseTars) /\ "base" \in Places
    BY <1>3 DEF NeedBase, Places
  <2> QED
    BY <1>1, <2>1, TypeFacts, GotoDoes
<1> QED
  BY <1>2, <1>3

\* What is still missing depends on the images and on where the job is.
LEMMA SameStill ==
  ASSUME NEW j, job'[j].ups = job[j].ups, images' = images
  PROVE  Still(j)' = Still(j)
BY DEF Still, This, Local

LEMMA NeedBaseTypes == ASSUME Types, NEW j \in Jobs, NeedBase(j) PROVE Types'
<1>1. TagsKept /\ HostTypes'
  BY NeedBaseDoes, HostUnchanged
<1>2. images' = images
  BY NeedBaseDoes DEF hostVars
<1>3. CASE exp' = exp /\ Still(j) = {} /\ job'[j].pc = "compose"
  <2>1. UNCHANGED treeVars
    BY <1>3, NeedBaseDoes DEF treeVars
  <2>2. exp'[j].at = "off"
    BY <1>3, NeedBaseDoes, NotWaiting
  <2>3. Asked(job'[j]) /\ Lists(job'[j])
    BY <1>3, NeedBaseDoes, TypeFacts DEF Asked, Lists, SameRequest
  <2>4. Still(j)' = {}
    BY <1>2, <1>3, NeedBaseDoes, SameStill
  <2>5. TagsStay(j)'
    BY <1>1, <2>4, NeedBaseDoes, SameRefsStay
  <2> QED
    BY <1>1, <2>1, <2>2, <2>3, <2>5, NeedBaseDoes, ExpUnchangedTypes, BoundsUnchanged, StepTypes DEF Waiting
<1>4. CASE job'[j].pc = "base" /\ ExpandOnce(j, BaseTars)
  <2>1. BaseTars \in SUBSET Archive
    BY ModuleDeployAssumption DEF Archive
  <2>2. /\ TreeTypeOK' /\ \A k \in Jobs : Standing(exp'[k])
        /\ \A k \in Jobs : k # j => exp'[k] = exp[k]
    BY <1>4, <2>1, NeedBaseDoes, ExpBegunTypes
  <2>3. Asked(job'[j]) /\ Lists(job'[j])
    BY <1>4, NeedBaseDoes, TypeFacts DEF Asked, Lists, SameRequest
  <2>4. TagsStay(j)'
    BY <1>1, <1>4, NeedBaseDoes, SameRefsStay
  <2> QED
    BY <1>1, <1>4, <2>2, <2>3, <2>4, NeedBaseDoes, BoundsUnchanged, StepTypes DEF Waiting
<1> QED
  BY <1>3, <1>4, NeedBaseDoes

LEMMA ListBaseDoes ==
  ASSUME Types, NEW j \in Jobs, ListBase(j)
  PROVE  /\ job[j].pc = "base" /\ Close(j) /\ UNCHANGED hostVars /\ UNCHANGED bounds
         /\ OnlyJob(j) /\ SameRequest(j) /\ job'[j].ups = job[j].ups /\ job'[j].refs = <<>>
         /\ \/ job'[j].pc = "basetag"
            \/ /\ job'[j].pc = "baseloading" /\ job'[j].todo = TarsOf(BaseTars) /\ job'[j].todo # {}
               /\ job'[j].before = Local
<1>1. job[j].pc = "base" /\ Close(j) /\ UNCHANGED hostVars /\ UNCHANGED bounds
  BY DEF ListBase, At
<1> DEFINE todo == TarsOf(BaseTars)
           before == IF todo = {} THEN {} ELSE Local
           pc == IF todo = {} THEN "basetag" ELSE "baseloading"
<1>2. todo \in SUBSET TarZips /\ before \in SUBSET Tags /\ pc \in Places /\ <<>> \in Seq(Tags)
  BY DEF TarsOf, Local, Places
<1>3. job' = [job EXCEPT ![j].todo = todo, ![j].refs = <<>>, ![j].before = before, ![j].pc = pc]
  BY DEF ListBase
<1> HIDE DEF todo, before, pc
<1>4. job' = [job EXCEPT ![j] = Reloaded(job[j], pc, todo, before, <<>>)]
  BY <1>3, TypeFacts DEF Reloaded, Job
<1>5. /\ OnlyJob(j) /\ SameRequest(j) /\ job'[j].pc = pc
      /\ job'[j].todo = todo /\ job'[j].before = before /\ job'[j].refs = <<>>
      /\ job'[j].ups = job[j].ups
  BY <1>2, <1>4, TypeFacts, ReloadedDoes
<1>6. CASE todo = {}
  BY <1>1, <1>5, <1>6 DEF pc
<1>7. CASE todo # {}
  <2>1. pc = "baseloading" /\ before = Local
    BY <1>7 DEF pc, before
  <2> QED
    BY <1>1, <1>5, <1>7, <2>1 DEF todo
<1> QED
  BY <1>6, <1>7

LEMMA ListBaseTypes == ASSUME Types, NEW j \in Jobs, ListBase(j) PROVE Types'
<1>1. /\ TreeTypeOK' /\ \A k \in Jobs : Standing(exp'[k])
      /\ \A k \in Jobs : k # j => exp'[k] = exp[k]
      /\ exp'[j].at = "off"
  BY ListBaseDoes, ExpClosedTypes
<1>2. TagsKept /\ HostTypes'
  BY ListBaseDoes, HostUnchanged
<1>3. /\ job[j].pc = "base" /\ SameRequest(j) /\ job'[j].ups = job[j].ups /\ job'[j].refs = <<>>
      /\ \/ job'[j].pc = "basetag"
         \/ job'[j].pc = "baseloading" /\ job'[j].todo # {}
  BY ListBaseDoes
<1>4. Asked(job'[j]) /\ Lists(job'[j])
  BY <1>3, TypeFacts DEF Asked, Lists, SameRequest
<1>5. DOMAIN job'[j].refs = {}
  BY <1>3
<1>6. TagsStay(j)'
  BY <1>3, <1>5 DEF TagsStay
<1> QED
  BY <1>1, <1>2, <1>4, <1>6, ListBaseDoes, BoundsUnchanged, StepTypes DEF Waiting

LEMMA TagBaseDoes ==
  ASSUME Types, NEW j \in Jobs, TagBase(j)
  PROVE  /\ job[j].pc = "basetag" /\ UNCHANGED treeVars /\ UNCHANGED bounds
         /\ UNCHANGED <<compose, env, running>>
         /\ images' \in [Tags -> Tags \cup {"none"}] /\ TagsKept
         /\ OnlyJob(j)
         /\ \/ images' = images /\ job'[j].pc = "idle" /\ job'[j].kind = "none" /\ job'[j].refs = <<>> /\ job'[j].end = "failed"
            \/ /\ SameRequest(j) /\ job'[j].pc = "compose" /\ job'[j].ups = job[j].ups
               /\ job'[j].refs = job[j].refs
               /\ Still(j)' = {}
               /\ Still(j) # {} => 1 \in DOMAIN job[j].refs
               /\ \A t \in Tags : images'[t] = IF t \in Still(j) THEN images[job[j].refs[1]] ELSE images[t]
<1>1. /\ job[j].pc = "basetag" /\ UNCHANGED treeVars /\ UNCHANGED bounds
      /\ UNCHANGED <<compose, env, running>>
  BY DEF TagBase, At, NoTree
<1>2. images \in [Tags -> Tags \cup {"none"}]
  BY TypeParts DEF Types, HostTypes
<1>3. CASE Still(j) # {} /\ job[j].refs = <<>>
  <2>1. Ended(j, "failed") /\ images' = images
    BY <1>3 DEF TagBase
  <2> QED
    BY <1>1, <1>2, <2>1, TypeFacts, EndedDoes DEF TagsKept
<1>4. CASE ~(Still(j) # {} /\ job[j].refs = <<>>)
  <2>1. Goto(j, "compose") /\ "compose" \in Places
    BY <1>4 DEF TagBase, Places
  <2>2. images' = [t \in Tags |-> IF t \in Still(j) THEN images[Head(job[j].refs)] ELSE images[t]]
    BY <1>4 DEF TagBase
  <2>3. /\ OnlyJob(j) /\ SameRequest(j) /\ job'[j].pc = "compose" /\ job'[j].ups = job[j].ups
        /\ job'[j].refs = job[j].refs
    BY <2>1, TypeFacts, GotoDoes
  <2>4. Still(j) # {} => 1 \in DOMAIN job[j].refs /\ Head(job[j].refs) = job[j].refs[1]
    <3> DEFINE s == job[j].refs
    <3>1. s \in Seq(Tags) /\ (Still(j) # {} => s # <<>>)
      BY <1>4, TypeFacts
    <3> HIDE DEF s
    <3>2. s # <<>> => Len(s) \in Nat \ {0} /\ DOMAIN s = 1 .. Len(s)
      BY <3>1, EmptySeq
    <3>3. s # <<>> => 1 \in DOMAIN s
      BY <3>2
    <3> QED
      BY <3>1, <3>3 DEF s
  <2>5. Still(j) # {} => images[job[j].refs[1]] # "none" /\ images[job[j].refs[1]] \in Tags
    BY <1>2, <2>4, TypeFacts DEF TagsStay
  <2>6. \A t \in Tags : images'[t] = IF t \in Still(j) THEN images[job[j].refs[1]] ELSE images[t]
    BY <2>2, <2>4
  <2>7. images' \in [Tags -> Tags \cup {"none"}]
    BY <1>2, <2>2, <2>4, <2>5
  <2>8. TagsKept
    BY <2>5, <2>6 DEF TagsKept
  <2>9. Still(j)' = {}
    <3>1. This(j)' = This(j)
      BY <2>3 DEF This
    <3>2. This(j) \in Project
      BY <1>1, ThisProject, TypeFacts DEF Lists
    <3>3. Needs[This(j)] \subseteq Tags
      BY <3>2, ModuleDeployAssumption
    <3>4. \A t \in Needs[This(j)] : images'[t] # "none"
      BY <2>5, <2>6, <3>3 DEF Still, Local
    <3> QED
      BY <3>1, <3>3, <3>4 DEF Still, Local
  <2> QED
    BY <1>1, <2>3, <2>4, <2>6, <2>7, <2>8, <2>9
<1> QED
  BY <1>3, <1>4

LEMMA TagBaseTypes == ASSUME Types, NEW j \in Jobs, TagBase(j) PROVE Types'
<1>1. exp'[j].at = "off"
  BY TagBaseDoes, NotWaiting, ExpUnchangedTypes
<1>2. TagsKept /\ HostTypes'
  BY TagBaseDoes, TypeParts DEF Types, HostTypes
<1>3. Asked(job'[j]) /\ Lists(job'[j]) /\ TagsStay(j)'
  <2>1. CASE job'[j].pc = "idle"
    BY <2>1, TagBaseDoes, EndedTypes
  <2>2. CASE job'[j].pc # "idle"
    <3>1. /\ SameRequest(j) /\ job'[j].pc = "compose" /\ job'[j].ups = job[j].ups
          /\ job'[j].refs = job[j].refs /\ job[j].pc = "basetag" /\ Still(j)' = {}
      BY <2>2, TagBaseDoes
    <3>2. Asked(job'[j]) /\ Lists(job'[j])
      BY <3>1, TypeFacts DEF Asked, Lists, SameRequest
    <3> QED
      BY <1>2, <3>1, <3>2, SameRefsStay
  <2> QED
    BY <2>1, <2>2
<1> QED
  BY <1>1, <1>2, <1>3, TagBaseDoes, ExpUnchangedTypes, BoundsUnchanged, StepTypes DEF Waiting

\* The image that a project is started from is there.
LEMMA MadeOfTags ==
  ASSUME Types, NEW j \in Jobs, job[j].pc = "compose",
         Read(This(j)) # "cut", job[j].kind = "build" \/ Read(This(j)) \in Local
  PROVE  MadeOf(j, This(j)) \subseteq Tags
<1>1. This(j) \in Project /\ TagsStay(j)
  BY ThisProject, TypeFacts DEF Lists
<1>2. images \in [Tags -> Tags \cup {"none"}]
  BY TypeParts DEF Types, HostTypes
<1>3. CASE job[j].kind = "build"
  <2>1. Still(j) = {}
    BY <1>1, <1>3 DEF TagsStay
  <2>2. Needs[This(j)] \subseteq Local
    BY <2>1 DEF Still
  <2> QED
    BY <1>2, <1>3, <2>2 DEF MadeOf, Local
<1>4. CASE job[j].kind # "build"
  <2>1. compose[This(j)] \in Local
    BY <1>4 DEF Read
  <2> QED
    BY <1>2, <1>4, <2>1 DEF MadeOf, Local
<1> QED
  BY <1>3, <1>4

LEMMA ComposeUpDoes ==
  ASSUME Types, NEW j \in Jobs, ComposeUp(j)
  PROVE  /\ job[j].pc = "compose" /\ UNCHANGED treeVars /\ UNCHANGED bounds
         /\ UNCHANGED <<images, compose, env>>
         /\ This(j) \in Project /\ This(j) \in job[j].ups
         /\ OnlyJob(j)
         /\ \/ /\ running' = running
               /\ job'[j].pc = "idle" /\ job'[j].kind = "none" /\ job'[j].refs = <<>> /\ job'[j].end = "failed"
            \/ /\ Read(This(j)) # "cut" /\ (job[j].kind = "build" \/ Read(This(j)) \in Local)
               /\ MadeOf(j, This(j)) \subseteq Tags
               /\ running' = [running EXCEPT ![This(j)] = MadeOf(j, This(j))]
               /\ IF job[j].ups \ {This(j)} = {}
                  THEN job'[j].pc = "idle" /\ job'[j].kind = "none" /\ job'[j].refs = <<>>
                  ELSE /\ SameRequest(j) /\ job'[j].pc = "one" /\ job'[j].refs = job[j].refs
                       /\ job'[j].ups = job[j].ups \ {This(j)}
<1>1. /\ job[j].pc = "compose" /\ UNCHANGED treeVars /\ UNCHANGED bounds
      /\ UNCHANGED <<images, compose, env>>
  BY DEF ComposeUp, At, NoTree
<1>2. This(j) \in Project /\ This(j) \in job[j].ups
  BY <1>1, ThisProject, TypeFacts DEF Lists
<1> DEFINE refused == Read(This(j)) = "cut" \/ (job[j].kind # "build" /\ Read(This(j)) \notin Local)
           rest == job[j].ups \ {This(j)}
<1>3. CASE refused
  <2>1. Ended(j, "failed") /\ running' = running
    BY <1>3 DEF ComposeUp
  <2> QED
    BY <1>1, <1>2, <2>1, TypeFacts, EndedDoes
<1>4. CASE ~refused
  <2>1. /\ running' = [running EXCEPT ![This(j)] = MadeOf(j, This(j))]
        /\ IF rest = {} THEN Ended(j, "ok")
           ELSE job' = [job EXCEPT ![j].pc = "one", ![j].ups = rest]
    BY <1>4 DEF ComposeUp
  <2>2. MadeOf(j, This(j)) \subseteq Tags
    BY <1>1, <1>4, MadeOfTags
  <2>3. CASE rest = {}
    <3>1. OnlyJob(j) /\ job'[j].pc = "idle" /\ job'[j].kind = "none" /\ job'[j].refs = <<>>
      BY <2>1, <2>3, TypeFacts, EndedDoes
    <3> QED
      BY <1>1, <1>2, <1>4, <2>1, <2>2, <2>3, <3>1
  <2>4. CASE rest # {}
    <3>1. rest \in SUBSET Project
      BY TypeFacts
    <3>2. job' = [job EXCEPT ![j].pc = "one", ![j].ups = rest]
      BY <2>1, <2>4
    <3> HIDE DEF rest
    <3>3. OnlyJob(j) /\ SameRequest(j) /\ job'[j].pc = "one" /\ job'[j].refs = job[j].refs /\ job'[j].ups = rest
      BY <3>1, <3>2, TypeFacts, UpsDoes
    <3> QED
      BY <1>1, <1>2, <1>4, <2>1, <2>2, <2>4, <3>3 DEF rest
  <2> QED
    BY <2>3, <2>4
<1> QED
  BY <1>3, <1>4

LEMMA ComposeUpTypes == ASSUME Types, NEW j \in Jobs, ComposeUp(j) PROVE Types'
<1>1. exp'[j].at = "off"
  BY ComposeUpDoes, NotWaiting, ExpUnchangedTypes
<1>2. running' \in [Project -> SUBSET Tags]
  BY ComposeUpDoes, TypeParts DEF Types, HostTypes
<1>3. TagsKept /\ HostTypes'
  BY <1>2, ComposeUpDoes, TypeParts DEF Types, HostTypes, TagsKept
<1>4. Asked(job'[j]) /\ Lists(job'[j]) /\ TagsStay(j)'
  <2>1. CASE job'[j].pc = "idle"
    BY <2>1, ComposeUpDoes, EndedTypes
  <2>2. CASE job'[j].pc # "idle"
    <3>1. /\ SameRequest(j) /\ job'[j].pc = "one" /\ job'[j].refs = job[j].refs
          /\ job'[j].ups # {}
      BY <2>2, ComposeUpDoes
    <3>2. Asked(job'[j]) /\ Lists(job'[j])
      BY <3>1 DEF Asked, Lists
    <3> QED
      BY <1>3, <3>1, <3>2, SameRefsStay
  <2> QED
    BY <2>1, <2>2
<1> QED
  BY <1>1, <1>3, <1>4, ComposeUpDoes, ExpUnchangedTypes, BoundsUnchanged, StepTypes DEF Waiting

LEMMA ExpandingTypes == ASSUME Types, NEW j \in Jobs, Expanding(j) PROVE Types'
<1>1. /\ ExpandStep(j) /\ images' = images /\ running' = running /\ job' = job /\ UNCHANGED bounds
      /\ compose' = [p \in Project |-> IF p \in PutsNow(j) THEN Names[p] ELSE compose[p]]
      /\ env' = env \ PutsNow(j)
  BY DEF Expanding
<1>2. TreeTypeOK /\ \A k \in Jobs : Standing(exp[k])
  BY TypeParts DEF Types
<1>3. /\ TreeTypeOK' /\ \A k \in Jobs : Standing(exp'[k])
      /\ \A k \in Jobs : k # j => exp'[k].at = exp[k].at
      /\ exp[j].at # "off"
  BY <1>1, <1>2, ExpandStepTypes
<1>4. Waiting(j)'
  BY <1>1, <1>3, TypeParts DEF Types, Waiting
<1>5. Names \in [Project -> Tags]
  BY ModuleDeployAssumption
<1> DEFINE puts == PutsNow(j)
<1> HIDE DEF puts
<1>6. compose' = [p \in Project |-> IF p \in puts THEN Names[p] ELSE compose[p]] /\ env' = env \ puts
  BY <1>1 DEF puts
<1>7. HostTypes
  BY TypeParts DEF Types
<1>8. HostTypes' /\ TagsKept
  BY <1>1, <1>5, <1>6, <1>7 DEF HostTypes, TagsKept
<1>9. OnlyJob(j) /\ Asked(job'[j]) /\ Lists(job'[j])
  BY <1>1, TypeFacts DEF OnlyJob
<1>10. Still(j)' = Still(j)
  BY <1>1, SameStill
<1>11. TagsStay(j)'
  BY <1>1, <1>8, <1>10, TypeFacts, SameRefsStay DEF TagsStay
<1> QED
  BY <1>1, <1>3, <1>4, <1>8, <1>9, <1>11, BoundsUnchanged, StepTypes

LEMMA RequestDoes ==
  ASSUME Types, NEW j \in Jobs, Request(j)
  PROVE  /\ job[j].pc = "idle" /\ UNCHANGED treeVars /\ UNCHANGED hostVars
         /\ crew' = crew /\ harm' = harm /\ asked' = asked + 1 /\ asked < MaxAsked
         /\ Cardinality({k \in Jobs : ~At(k, "idle")}) < crew
         /\ job' \in [Jobs -> Job]
         /\ \A k \in Jobs : k # j => job'[k] = job[k] \/ (job[k].pc = "idle" /\ job'[k] = Idle)
         /\ job'[j].kind \in Requests /\ job'[j].pc = FirstOf(job'[j].kind)
         /\ job'[j].fresh <=> crew = 1 /\ \A t \in TarZips : ~IsTar(t)
         /\ job'[j].refs = <<>> /\ job'[j].end = "none"
<1>1. /\ job[j].pc = "idle" /\ UNCHANGED treeVars /\ UNCHANGED hostVars
      /\ crew' = crew /\ harm' = harm /\ asked' = asked + 1 /\ asked < MaxAsked
      /\ Cardinality({k \in Jobs : ~At(k, "idle")}) < crew
  BY DEF Request, At, NoTree
<1> DEFINE fresh == crew = 1 /\ \A t \in TarZips : ~IsTar(t)
           r(kind) == [Idle EXCEPT !.pc = FirstOf(kind), !.kind = kind, !.fresh = fresh]
<1>2. PICK kind \in Requests :
        job' = [k \in Jobs |-> CASE k = j -> r(kind)
                                 [] k # j /\ At(k, "idle") -> Idle
                                 [] OTHER -> job[k]]
  BY DEF Request
<1>3. kind \in {"full", "up", "build", "nginx"}
  BY ModuleDeployAssumption
<1>4. FirstOf(kind) \in {"find", "env", "prepare"}
  BY DEF FirstOf
<1>5. fresh \in BOOLEAN
  OBVIOUS
<1> DEFINE first == FirstOf(kind)
<1> HIDE DEF fresh, first
<1> DEFINE s == [Idle EXCEPT !.pc = first, !.kind = kind, !.fresh = fresh]
<1>6. s \in Job
  BY <1>3, <1>4, <1>5, IdleFacts DEF Job, first
<1>7. s.pc = first /\ s.kind = kind /\ s.fresh = fresh /\ s.refs = <<>> /\ s.end = "none"
  BY DEF Idle
<1>8. job' = [k \in Jobs |-> CASE k = j -> s
                               [] k # j /\ At(k, "idle") -> Idle
                               [] OTHER -> job[k]]
  BY <1>2 DEF first, fresh
<1> HIDE DEF s
<1>9. job'[j] = s
  BY <1>8
<1>10. \A k \in Jobs : k # j => job'[k] = job[k] \/ (job[k].pc = "idle" /\ job'[k] = Idle)
  BY <1>8 DEF At
<1>11. job' = [k \in Jobs |-> job'[k]] /\ \A k \in Jobs : job[k] \in Job
  BY <1>8, TypeFacts
<1>12. job' \in [Jobs -> Job]
  BY <1>6, <1>9, <1>10, <1>11, IdleFacts
<1> QED
  BY <1>1, <1>7, <1>9, <1>10, <1>12 DEF first, fresh

LEMMA RequestTypes == ASSUME Types, NEW j \in Jobs, Request(j) PROVE Types'
<1>1. TagsKept /\ HostTypes'
  BY RequestDoes, HostUnchanged
<1>2. TreeTypeOK' /\ \A k \in Jobs : Standing(exp'[k]) /\ exp'[k].at = exp[k].at
  BY RequestDoes, ExpUnchangedTypes
<1>3. ASSUME NEW k \in Jobs
      PROVE  Waiting(k)' /\ Asked(job'[k]) /\ Lists(job'[k]) /\ TagsStay(k)'
  <2>1. CASE job'[k] = Idle /\ job[k].pc = "idle"
    <3>1. exp'[k].at = "off"
      BY <1>2, <2>1, NotWaiting
    <3> QED
      BY <2>1, <3>1, IdleFacts, EndedTypes DEF Waiting
  <2>2. CASE k # j /\ job'[k] = job[k]
    BY <1>1, <1>2, <2>2, TypeFacts, TypeParts, OtherTagsStay DEF Types, Waiting
  <2>3. CASE k = j
    <3>1. exp'[k].at = "off"
      <4>1. job[j].pc = "idle"
        BY RequestDoes
      <4>2. exp[j].at = "off"
        BY <4>1, NotWaiting
      <4> QED
        BY <1>2, <2>3, <4>2
    <3>2. /\ job'[k].kind \in {"full", "up", "build", "nginx"} /\ job'[k].pc = FirstOf(job'[k].kind)
          /\ job'[k].refs = <<>>
      BY <2>3, RequestDoes, ModuleDeployAssumption
    <3>3. /\ job'[k].pc \in {"prepare", "env", "find"}
          /\ job'[k].pc = "prepare" => job'[k].kind \in {"full", "nginx"}
          /\ job'[k].pc = "env" => job'[k].kind = "build"
      BY <3>2 DEF FirstOf
    <3>4. DOMAIN job'[k].refs = {}
      BY <3>2
    <3> QED
      BY <3>1, <3>3, <3>4 DEF Waiting, Asked, Lists, TagsStay
  <2> QED
    BY <2>1, <2>2, <2>3, RequestDoes
<1>4. Bounds'
  <2>1. crew' = crew /\ harm' = harm /\ asked' = asked + 1 /\ asked < MaxAsked
    BY RequestDoes
  <2>2. Bounds /\ MaxAsked \in Nat
    BY TypeParts, ModuleDeployAssumption DEF Types
  <2> QED
    BY <2>1, <2>2 DEF Bounds
<1>5. job' \in [Jobs -> Job]
  BY RequestDoes
<1> QED
  BY <1>1, <1>2, <1>3, <1>4, <1>5 DEF Types, TypeOK, HostTypes, Bounds, Waiting

\* What a failure, and the death of a process, do.
LEMMA HarmDoes ==
  ASSUME Types, NEW j \in Jobs, Harm(j)
  PROVE  /\ crew' = crew /\ asked' = asked /\ harm' = harm + 1 /\ harm < MaxHarm[crew]
         /\ UNCHANGED hostVars
         /\ \/ EntryFails(j) /\ job' = job
            \/ /\ job[j].pc \in {"loading", "baseloading", "env", "compose"} /\ UNCHANGED treeVars
               /\ OnlyJob(j) /\ job'[j].pc = "idle" /\ job'[j].kind = "none" /\ job'[j].refs = <<>>
               /\ job'[j].end = "failed"
            \/ /\ Close(j)
               /\ OnlyJob(j) /\ job'[j].pc = "idle" /\ job'[j].kind = "none" /\ job'[j].refs = <<>>
               /\ job'[j].end = "died"
<1>1. harm' = harm + 1 /\ harm < MaxHarm[crew]
  BY DEF Harm
<1>2. CASE EntryFault(j)
  BY <1>1, <1>2 DEF EntryFault
<1>3. CASE CommandFails(j)
  <2>1. /\ job[j].pc \in {"loading", "baseloading", "env", "compose"} /\ UNCHANGED treeVars
        /\ Ended(j, "failed") /\ UNCHANGED hostVars /\ crew' = crew /\ asked' = asked
    BY <1>3 DEF CommandFails, NoTree
  <2> QED
    BY <1>1, <2>1, TypeFacts, EndedDoes
<1>4. CASE Dies(j)
  <2>1. Close(j) /\ Ended(j, "died") /\ UNCHANGED hostVars /\ crew' = crew /\ asked' = asked
    BY <1>4 DEF Dies
  <2> QED
    BY <1>1, <2>1, TypeFacts, EndedDoes
<1> QED
  BY <1>2, <1>3, <1>4 DEF Harm

LEMMA HarmTypes == ASSUME Types, NEW j \in Jobs, Harm(j) PROVE Types'
<1>1. TagsKept /\ HostTypes' /\ images' = images
  BY HarmDoes, HostUnchanged DEF hostVars
<1>2. Bounds'
  <2>1. crew' = crew /\ asked' = asked /\ harm' = harm + 1 /\ harm < MaxHarm[crew]
    BY HarmDoes
  <2>2. Bounds /\ MaxHarm[crew] \in Nat
    BY TypeParts, ModuleDeployAssumption DEF Types, Bounds
  <2> QED
    BY <2>1, <2>2 DEF Bounds
<1>3. CASE EntryFails(j) /\ job' = job
  <2>1. TreeTypeOK /\ \A k \in Jobs : Standing(exp[k])
    BY TypeParts DEF Types
  <2>2. /\ TreeTypeOK' /\ \A k \in Jobs : Standing(exp'[k])
        /\ \A k \in Jobs : k # j => exp'[k].at = exp[k].at
        /\ exp[j].at # "off"
    BY <1>3, <2>1, EntryFailsTypes
  <2>3. Waiting(j)'
    BY <1>3, <2>2, TypeParts DEF Types, Waiting
  <2>4. OnlyJob(j) /\ Asked(job'[j]) /\ Lists(job'[j])
    BY <1>3, TypeFacts DEF OnlyJob
  <2>5. TagsStay(j)'
    BY <1>1, <1>3, OtherTagsStay
  <2> QED
    BY <1>1, <1>2, <2>2, <2>3, <2>4, <2>5, StepTypes
<1>4. CASE /\ job[j].pc \in {"loading", "baseloading", "env", "compose"} /\ UNCHANGED treeVars
           /\ OnlyJob(j) /\ job'[j].pc = "idle" /\ job'[j].refs = <<>>
  <2>1. exp'[j].at = "off"
    BY <1>4, NotWaiting, ExpUnchangedTypes
  <2> QED
    BY <1>1, <1>2, <1>4, <2>1, EndedTypes, ExpUnchangedTypes, StepTypes DEF Waiting
<1>5. CASE Close(j) /\ OnlyJob(j) /\ job'[j].pc = "idle" /\ job'[j].refs = <<>>
  <2>1. /\ TreeTypeOK' /\ \A k \in Jobs : Standing(exp'[k])
        /\ \A k \in Jobs : k # j => exp'[k] = exp[k]
        /\ exp'[j].at = "off"
    BY <1>5, ExpClosedTypes
  <2> QED
    BY <1>1, <1>2, <1>5, <2>1, EndedTypes, StepTypes DEF Waiting
<1> QED
  BY <1>3, <1>4, <1>5, HarmDoes

LEMMA InitTypes == Init => Types
<1> SUFFICES ASSUME Init PROVE Types
  OBVIOUS
<1>1. PICK damaged \in Damages : TreeInit(Shipped, damaged)
  BY DEF Init
<1>2. TreeTypeOK /\ \A k \in Jobs : exp[k] = Off
  BY <1>1, OffFacts DEF TreeInit, TreeTypeOK, Content
<1>3. HostTypes
  BY ModuleDeployAssumption DEF Init, HostTypes
<1>4. Bounds
  <2>1. crew \in Crews /\ asked = 0 /\ harm = 0
    BY DEF Init
  <2>2. MaxAsked \in Nat /\ MaxHarm[crew] \in Nat
    BY <2>1, ModuleDeployAssumption
  <2> QED
    BY <2>1, <2>2 DEF Bounds
<1>5. job \in [Jobs -> Job] /\ \A k \in Jobs : job[k] = Idle
  BY IdleFacts DEF Init
<1>6. ASSUME NEW k \in Jobs PROVE Waiting(k) /\ Standing(exp[k]) /\ Asked(job[k]) /\ Lists(job[k]) /\ TagsStay(k)
  <2>1. DOMAIN job[k].refs = {}
    BY <1>5, IdleFacts
  <2>2. exp[k].at = "off" /\ exp[k].on = "closed" /\ job[k].pc = "idle"
    BY <1>2, <1>5, OffFacts, IdleFacts
  <2> QED
    BY <2>1, <2>2 DEF Waiting, Standing, Busy, Asked, Lists, TagsStay
<1> QED
  BY <1>2, <1>3, <1>4, <1>5, <1>6, TypeParts DEF Types

LEMMA UnchangedTypes == ASSUME Types, UNCHANGED vars PROVE Types'
<1>1. UNCHANGED <<file, part, dirs, exp, images, compose, env, running, job, crew, asked, harm>>
  BY DEF vars, treeVars, hostVars, bounds
<1>2. TypeOK'
  BY <1>1 DEF Types, TypeOK, TreeTypeOK
<1>3. \A k \in Jobs : TagsStay(k)'
  BY <1>1 DEF Types, TagsStay, Still, This, Local
<1> QED
  BY <1>1, <1>2, <1>3 DEF Types

LEMMA NextTypes == Types /\ [Next]_vars => Types'
<1> SUFFICES ASSUME Types, [Next]_vars PROVE Types'
  OBVIOUS
<1>1. ASSUME NEW j \in Jobs, Request(j) PROVE Types'
  BY <1>1, RequestTypes
<1>2. ASSUME NEW j \in Jobs, Harm(j) PROVE Types'
  BY <1>2, HarmTypes
<1>3. ASSUME NEW j \in Jobs, Step(j) PROVE Types'
  BY <1>3, SkipTypes, AlreadyThereTypes, StartExpandTypes, AnotherRoundTypes, EndPrepareTypes,
     ExpandHtmlTypes, EndHtmlTypes, ListTarsTypes, LoadTypes, PatchEnvTypes, FindProjectsTypes,
     FindAgainTypes, SyncTypes, WriteComposeTypes, CheckTypes, NeedBaseTypes, ListBaseTypes,
     TagBaseTypes, ComposeUpTypes, ExpandingTypes DEF Step
<1>4. CASE UNCHANGED vars
  BY <1>4, UnchangedTypes
<1> QED
  BY <1>1, <1>2, <1>3, <1>4 DEF Next

LEMMA AlwaysTypes == Spec => []Types
BY InitTypes, NextTypes, PTL DEF Spec

-----------------------------------------------------------------------------
(* Jobs that overlap.                                                      *)

\* A step is one of a job that is under way, and of no other.
LEMMA StepDoes ==
  ASSUME Types, NEW j \in Jobs, Step(j)
  PROVE  /\ OnlyJob(j) /\ crew' = crew /\ harm' = harm /\ job[j].pc # "idle"
         /\ job'[j].pc = "idle" \/ SameRequest(j)
<1>1. CASE \/ Skip(j) \/ AlreadyThere(j) \/ StartExpand(j) \/ EndPrepare(j) \/ ExpandHtml(j)
           \/ EndHtml(j) \/ Expanding(j)
  <2>1. crew' = crew /\ harm' = harm
    BY <1>1 DEF Skip, AlreadyThere, StartExpand, EndPrepare, ExpandHtml, EndHtml, Expanding, bounds
  <2>2. CASE Skip(j)
    BY <2>1, <2>2, TypeFacts, EndedDoes DEF Skip, At
  <2>3. CASE AlreadyThere(j)
    BY <2>1, <2>3, TypeFacts, GotoDoes DEF AlreadyThere, At, Prepared, Places
  <2>4. CASE StartExpand(j)
    <3>1. 1 \in 0 .. Rounds
      BY ModuleDeployAssumption
    <3> QED
      BY <2>1, <2>4, <3>1, TypeFacts, RoundDoes DEF StartExpand, At
  <2>5. CASE EndPrepare(j)
    BY <2>1, <2>5, TypeFacts, GotoDoes, EndedDoes DEF EndPrepare, At, Prepared, Places
  <2>6. CASE ExpandHtml(j)
    BY <2>1, <2>6, TypeFacts DEF ExpandHtml, At, OnlyJob, SameRequest
  <2>7. CASE EndHtml(j)
    BY <2>1, <2>7, TypeFacts, GotoDoes DEF EndHtml, At, Places
  <2>8. CASE Expanding(j)
    <3>1. ExpandStep(j) /\ job' = job
      BY <2>8 DEF Expanding
    <3>2. exp[j].at # "off"
      BY <3>1, TypeParts, ExpandStepTypes DEF Types
    <3>3. job[j].pc # "idle"
      BY <3>2, NotWaiting
    <3> QED
      BY <2>1, <3>1, <3>3, TypeFacts DEF OnlyJob, SameRequest
  <2> QED
    BY <1>1, <2>2, <2>3, <2>4, <2>5, <2>6, <2>7, <2>8
<1>2. CASE AnotherRound(j)
  BY <1>2, RepeatDoes, TypeFacts DEF AnotherRound, At, bounds
<1>3. CASE ListTars(j)
  BY <1>3, ListTarsDoes DEF bounds
<1>4. CASE Load(j)
  <2>1. crew' = crew /\ harm' = harm /\ job[j].pc \in {"loading", "baseloading"}
    BY <1>4 DEF Load, bounds
  <2> QED
    BY <1>4, <2>1, TypeFacts, LoadDoes DEF Types
<1>5. CASE PatchEnv(j)
  BY <1>5, PatchEnvDoes DEF bounds
<1>6. CASE FindProjects(j)
  BY <1>6, FindProjectsDoes DEF bounds
<1>7. CASE FindAgain(j)
  BY <1>7, FindAgainDoes DEF bounds
<1>8. CASE Sync(j)
  BY <1>8, SyncDoes DEF bounds
<1>9. CASE WriteCompose(j)
  BY <1>9, WriteComposeDoes DEF bounds
<1>10. CASE Check(j)
  BY <1>10, CheckDoes DEF bounds
<1>11. CASE NeedBase(j)
  BY <1>11, NeedBaseDoes DEF bounds
<1>12. CASE ListBase(j)
  BY <1>12, ListBaseDoes DEF bounds
<1>13. CASE TagBase(j)
  BY <1>13, TagBaseDoes DEF bounds
<1>14. CASE ComposeUp(j)
  BY <1>14, ComposeUpDoes DEF bounds
<1> QED
  BY <1>1, <1>2, <1>3, <1>4, <1>5, <1>6, <1>7, <1>8, <1>9, <1>10, <1>11, <1>12, <1>13, <1>14 DEF Step

LEMMA HarmFacts ==
  ASSUME Types, NEW j \in Jobs, Harm(j)
  PROVE  /\ OnlyJob(j) /\ crew' = crew /\ harm' > 0 /\ harm \in Nat /\ harm' \in Nat /\ job[j].pc # "idle"
         /\ job'[j].pc = "idle" \/ SameRequest(j)
<1>1. crew' = crew /\ harm' = harm + 1
  BY HarmDoes
<1>2. harm \in Nat
  BY TypeParts, ModuleDeployAssumption DEF Types, Bounds
<1>3. CASE EntryFails(j) /\ job' = job
  <2>1. exp[j].at # "off"
    BY <1>3, TypeParts, EntryFailsTypes DEF Types
  <2> QED
    BY <1>1, <1>2, <1>3, <2>1, NotWaiting, TypeFacts DEF OnlyJob, SameRequest
<1>4. CASE ~(EntryFails(j) /\ job' = job)
  <2>1. OnlyJob(j) /\ job'[j].pc = "idle"
    BY <1>4, HarmDoes
  <2>2. job[j].pc # "idle"
    BY <1>4 DEF Harm, EntryFault, CommandFails, Dies, At
  <2> QED
    BY <1>1, <1>2, <2>1, <2>2
<1> QED
  BY <1>3, <1>4

\* With one job at a time, whoever is under way is alone.
Alone == crew = 1 => \A j, k \in Jobs : job[j].pc # "idle" /\ job[k].pc # "idle" => j = k

LEMMA InitAlone == Init => Alone
BY IdleFacts DEF Init, Alone

LEMMA RequestAmongIdle ==
  ASSUME Types, NEW j \in Jobs, Request(j), crew = 1
  PROVE  \A k \in Jobs : job[k].pc = "idle"
<1> DEFINE under == {k \in Jobs : ~At(k, "idle")}
<1>1. IsFiniteSet(under)
  BY FS_Subset, ModuleDeployAssumption
<1>2. Cardinality(under) < 1
  BY RequestDoes
<1>3. under = {}
  <2>1. Cardinality(under) \in Nat
    BY <1>1, FS_CardinalityType
  <2>2. Cardinality(under) = 0
    BY <1>2, <2>1
  <2> QED
    BY <1>1, <2>2, FS_EmptySet
<1> QED
  BY <1>3 DEF At

LEMMA RequestAlone == ASSUME Types, Alone, NEW j \in Jobs, Request(j) PROVE Alone'
<1> SUFFICES ASSUME crew' = 1 PROVE \A i, k \in Jobs : job'[i].pc # "idle" /\ job'[k].pc # "idle" => i = k
  BY DEF Alone
<1>1. \A k \in Jobs : job[k].pc = "idle"
  BY RequestDoes, RequestAmongIdle
<1>2. \A k \in Jobs : k # j => job'[k].pc = "idle"
  BY <1>1, RequestDoes, IdleFacts
<1> QED
  BY <1>2

LEMMA NextAlone == Types /\ Alone /\ [Next]_vars => Alone'
<1> SUFFICES ASSUME Types, Alone, [Next]_vars PROVE Alone'
  OBVIOUS
<1>1. ASSUME NEW j \in Jobs, Request(j) PROVE Alone'
  BY <1>1, RequestAlone
<1>2. ASSUME NEW j \in Jobs, Step(j) \/ Harm(j) PROVE Alone'
  <2>1. OnlyJob(j) /\ crew' = crew /\ job[j].pc # "idle"
    BY <1>2, StepDoes, HarmFacts
  <2> QED
    BY <2>1 DEF Alone, OnlyJob
<1>3. CASE UNCHANGED vars
  BY <1>3 DEF vars, bounds, Alone
<1> QED
  BY <1>1, <1>2, <1>3 DEF Next

LEMMA AlwaysAlone == Spec => []Alone
BY InitAlone, NextAlone, AlwaysTypes, PTL DEF Spec

\* Nothing of another job is under way, so none of them expands anything.
LEMMA OthersAreOff ==
  ASSUME Types, Alone, crew = 1, NEW j \in Jobs, job[j].pc # "idle"
  PROVE  \A k \in Jobs : k # j => job[k].pc = "idle" /\ exp[k].at = "off"
<1>1. \A k \in Jobs : k # j => job[k].pc = "idle"
  BY DEF Alone
<1> QED
  BY <1>1, NotWaiting

-----------------------------------------------------------------------------
(* The .tar files.                                                         *)

\* What the steps of a job do to the files and to the expansions.
Quiet(j) ==
  /\ UNCHANGED <<file, part, dirs>>
  /\ \A k \in Jobs : k # j => exp'[k] = exp[k]
  /\ exp[j].at \in {"off", "done"} /\ exp'[j].at \in {"off", "walk"}

LEMMA QuietBegun ==
  ASSUME Types, NEW j \in Jobs, NEW scope \in SUBSET Archive, UNCHANGED <<file, part, dirs>>,
         ExpandTree(j, scope) \/ ExpandOnce(j, scope), exp[j].at \in {"off", "done"}
  PROVE  Quiet(j)
BY ExpBegunTypes DEF Quiet

LEMMA QuietClosed ==
  ASSUME Types, NEW j \in Jobs, Close(j), exp[j].at = "done"
  PROVE  Quiet(j)
BY ExpClosedTypes DEF Quiet, Close

LEMMA TreeSteps ==
  ASSUME Types, NEW j \in Jobs, Step(j)
  PROVE  UNCHANGED treeVars \/ Quiet(j) \/ Expanding(j)
<1>1. CASE \/ Skip(j) \/ AlreadyThere(j) \/ ListTars(j) \/ Load(j) \/ PatchEnv(j) \/ Sync(j)
           \/ WriteCompose(j) \/ Check(j) \/ TagBase(j) \/ ComposeUp(j)
  BY <1>1 DEF Skip, AlreadyThere, ListTars, Load, PatchEnv, Sync, WriteCompose, Check, TagBase,
     ComposeUp, NoTree
<1>2. CASE StartExpand(j) \/ AnotherRound(j)
  <2>1. ExpandTree(j, Archive) /\ UNCHANGED <<file, part, dirs>>
    BY <1>2 DEF StartExpand, AnotherRound
  <2>2. exp[j].at \in {"off", "done"}
    BY <1>2, NotWaiting DEF StartExpand, AnotherRound, At, Wait
  <2> QED
    BY <2>1, <2>2, QuietBegun
<1>3. CASE EndPrepare(j) \/ EndHtml(j) \/ FindAgain(j) \/ ListBase(j)
  BY <1>3, QuietClosed DEF EndPrepare, EndHtml, FindAgain, ListBase, Wait
<1>4. CASE ExpandHtml(j)
  <2>1. ExpandTree(j, Html) /\ UNCHANGED <<file, part, dirs>> /\ exp[j].at = "off"
    BY <1>4 DEF ExpandHtml
  <2>2. Html \in SUBSET Archive
    BY ModuleDeployAssumption DEF Archive
  <2> QED
    BY <2>1, <2>2, QuietBegun
<1>5. CASE FindProjects(j)
  <2>1. job[j].pc = "find" /\ UNCHANGED <<file, part, dirs>> /\ (exp' = exp \/ ExpandTree(j, Archive))
    BY <1>5, FindProjectsDoes
  <2>2. exp[j].at = "off"
    BY <2>1, NotWaiting
  <2> QED
    BY <2>1, <2>2, QuietBegun DEF treeVars
<1>6. CASE NeedBase(j)
  <2>1. job[j].pc = "one" /\ UNCHANGED <<file, part, dirs>> /\ (exp' = exp \/ ExpandOnce(j, BaseTars))
    BY <1>6, NeedBaseDoes
  <2>2. exp[j].at = "off" /\ BaseTars \in SUBSET Archive
    BY <2>1, NotWaiting, ModuleDeployAssumption DEF Archive
  <2> QED
    BY <2>1, <2>2, QuietBegun DEF treeVars
<1> QED
  BY <1>1, <1>2, <1>3, <1>4, <1>5, <1>6 DEF Step

\* Job j has file f open, under its own name or as .part.
Holds(j, f, on) == exp[j].at = "write" /\ exp[j].on = on /\ Target(j) = f

\* With one job at a time a descriptor leads to the .part it was opened for.
AloneWrites ==
  crew = 1 =>
    /\ \A j \in Jobs : exp[j].at = "write" => exp[j].on = "part"
    /\ \A j \in Jobs : exp[j].at = "rename" => exp[j].on = "part" /\ part[Target(j)] = "whole"
    /\ \A f \in Name \ Shipped : file[f] # "torn"

\* With several, and no failure, whatever is torn is still held open.
OthersWrite ==
  crew # 1 /\ harm = 0 =>
    /\ \A f \in Name : part[f] = "torn" => \E j \in Jobs : Holds(j, f, "part")
    /\ \A f \in Name \ Shipped : file[f] = "torn" => \E j \in Jobs : Holds(j, f, "target")

HeldOpen == AloneWrites /\ OthersWrite

LEMMA InitHeld == Init => HeldOpen
<1> SUFFICES ASSUME Init PROVE HeldOpen
  OBVIOUS
<1>1. PICK damaged \in Damages : TreeInit(Shipped, damaged)
  BY DEF Init
<1>2. \A k \in Jobs : exp[k].at = "off"
  BY <1>1, OffFacts DEF TreeInit
<1>3. \A f \in Name : part[f] = "none" /\ (f \notin Shipped => file[f] = "none")
  BY <1>1 DEF TreeInit
<1> QED
  BY <1>2, <1>3 DEF HeldOpen, AloneWrites, OthersWrite

\* What job k holds open, when its expansion does not change.
LEMMA SameTarget ==
  ASSUME NEW k, exp'[k].i = exp[k].i, exp'[k].e = exp[k].e
  PROVE  Target(k)' = Target(k)
BY DEF Target, Current

LEMMA QuietHeld == ASSUME Types, HeldOpen, NEW j \in Jobs, Quiet(j), crew' = crew, harm' = harm PROVE HeldOpen'
<1>1. \A k \in Jobs : k # j => exp'[k] = exp[k] /\ Target(k)' = Target(k)
  BY DEF Quiet, Target, Current
<1>2. file' = file /\ part' = part /\ exp[j].at \in {"off", "done"} /\ exp'[j].at \in {"off", "walk"}
  BY DEF Quiet
<1>3. \A f, on : \A k \in Jobs : Holds(k, f, on) => Holds(k, f, on)'
  BY <1>1, <1>2 DEF Holds
<1>4. AloneWrites'
  BY <1>1, <1>2 DEF HeldOpen, AloneWrites
<1>5. OthersWrite'
  BY <1>2, <1>3 DEF HeldOpen, OthersWrite
<1> QED
  BY <1>4, <1>5 DEF HeldOpen

LEMMA SameHeld ==
  ASSUME HeldOpen, UNCHANGED treeVars, crew' = crew, harm' = 0 => harm = 0
  PROVE  HeldOpen'
<1>1. file' = file /\ part' = part /\ exp' = exp
  BY DEF treeVars
<1>2. \A k \in Jobs : Target(k)' = Target(k)
  BY <1>1 DEF Target, Current
<1>3. \A f, on : \A k \in Jobs : Holds(k, f, on)' <=> Holds(k, f, on)
  BY <1>1, <1>2 DEF Holds
<1> QED
  BY <1>1, <1>2, <1>3 DEF HeldOpen, AloneWrites, OthersWrite

LEMMA AloneExpanding ==
  ASSUME Types, Alone, AloneWrites, NEW j \in Jobs, ExpandStep(j), crew' = crew
  PROVE  AloneWrites'
<1> SUFFICES ASSUME crew = 1 PROVE AloneWrites'
  BY DEF AloneWrites
<1>1. exp \in [Jobs -> Expansion] /\ Standing(exp[j]) /\ \A k \in Jobs : Standing(exp[k])
  BY TypeFacts DEF Types
<1>2. /\ \A k \in Jobs : k # j => exp'[k].at = exp[k].at
      /\ exp[j].at # "off"
  BY TypeParts, ExpandStepTypes DEF Types
<1>3. \A k \in Jobs : k # j => exp'[k].at = "off"
  <2>1. job[j].pc # "idle"
    BY <1>2, NotWaiting
  <2> QED
    BY <1>2, <2>1, OthersAreOff
<1>4. SUFFICES /\ exp'[j].at = "write" => exp'[j].on = "part"
               /\ exp'[j].at = "rename" => exp'[j].on = "part" /\ part'[Target(j)'] = "whole"
               /\ \A f \in Name \ Shipped : file'[f] # "torn"
  BY <1>3 DEF AloneWrites
<1>5. /\ exp[j].at = "write" => exp[j].on = "part"
      /\ exp[j].at = "rename" => exp[j].on = "part" /\ part[Target(j)] = "whole"
      /\ \A f \in Name \ Shipped : file[f] # "torn"
  BY DEF AloneWrites
<1>6. file \in [Name -> Content] /\ part \in [Name -> Content]
  BY TypeParts DEF Types, TreeTypeOK
<1>7. CASE Meet(j)
  <2>1. exp'[j].at \in {"open", "walk"} /\ file' = file
    BY <1>1, <1>7, MeetDoes DEF Meet
  <2> QED
    BY <1>5, <2>1
<1>8. CASE EndPass(j)
  <2>1. exp'[j].at \in {"done", "walk"} /\ file' = file
    BY <1>1, <1>8, EndPassDoes DEF EndPass
  <2> QED
    BY <1>5, <2>1
<1>9. CASE Open(j)
  <2>1. exp'[j].at = "write" /\ exp'[j].on = "part" /\ file' = file
    BY <1>1, <1>9, OpenDoes DEF Open
  <2> QED
    BY <1>5, <2>1
<1>10. CASE Write(j)
  <2>1. /\ exp[j].at = "write" /\ exp'[j].at = "rename" /\ exp'[j].on = exp[j].on
        /\ Target(j)' = Target(j)
    BY <1>1, <1>10, WriteDoes, SameTarget DEF Write
  <2>2. part' = [part EXCEPT ![Target(j)] = "whole"] /\ file' = file
    BY <1>5, <1>10, <2>1 DEF Write
  <2>3. Target(j) \in Name
    BY <1>1, <2>1, TargetNamed DEF Standing, Busy
  <2> QED
    BY <1>5, <1>6, <2>1, <2>2, <2>3
<1>11. CASE Rename(j)
  <2>1. exp[j].at = "rename" /\ exp'[j] = AfterEntry(j) /\ file' = [file EXCEPT ![Target(j)] = part[Target(j)]]
    BY <1>1, <1>11, RenameDoes DEF Rename
  <2>2. exp'[j].at \in {"open", "walk"}
    BY <1>1, <2>1, AfterEntryDoes DEF Busy
  <2>3. part[Target(j)] = "whole"
    BY <1>5, <2>1
  <2> QED
    BY <1>5, <1>6, <2>1, <2>2, <2>3
<1>12. CASE NothingToRename(j)
  <2>1. exp'[j].at = "walk" /\ file' = file
    BY <1>1, <1>12, NothingToRenameDoes, GoOnDoes DEF NothingToRename
  <2> QED
    BY <1>5, <2>1
<1> QED
  BY <1>7, <1>8, <1>9, <1>10, <1>11, <1>12 DEF ExpandStep

LEMMA OthersExpanding ==
  ASSUME Types, OthersWrite, NEW j \in Jobs, ExpandStep(j), crew' = crew, harm' = harm
  PROVE  OthersWrite'
<1> SUFFICES ASSUME crew # 1, harm = 0 PROVE OthersWrite'
  BY DEF OthersWrite
<1>1. exp \in [Jobs -> Expansion] /\ Standing(exp[j]) /\ \A k \in Jobs : Standing(exp[k])
  BY TypeFacts DEF Types
<1>2. /\ \A f \in Name : part[f] = "torn" => \E k \in Jobs : Holds(k, f, "part")
      /\ \A f \in Name \ Shipped : file[f] = "torn" => \E k \in Jobs : Holds(k, f, "target")
  BY DEF OthersWrite
<1>3. file \in [Name -> Content] /\ part \in [Name -> Content]
  BY TypeParts DEF Types, TreeTypeOK
<1>4. SUFFICES /\ \A f \in Name : part'[f] = "torn" => \E k \in Jobs : Holds(k, f, "part")'
               /\ \A f \in Name \ Shipped : file'[f] = "torn" => \E k \in Jobs : Holds(k, f, "target")'
  BY DEF OthersWrite
<1>5. (\A k \in Jobs : k # j => exp'[k] = exp[k]) => \A f, on : \A k \in Jobs : k # j /\ Holds(k, f, on) => Holds(k, f, on)'
  BY DEF Holds, Target, Current
<1>6. CASE Meet(j) \/ EndPass(j) \/ NothingToRename(j)
  <2>1. /\ exp[j].at # "write" /\ file' = file /\ part' = part
        /\ \A k \in Jobs : k # j => exp'[k] = exp[k]
    BY <1>1, <1>6, MeetDoes, EndPassDoes, NothingToRenameDoes DEF Meet, EndPass, NothingToRename
  <2>2. \A f, on : \A k \in Jobs : Holds(k, f, on) => k # j
    BY <2>1 DEF Holds
  <2> QED
    BY <1>2, <1>5, <2>1, <2>2
<1>7. CASE Open(j)
  <2>1. /\ exp[j].at = "open" /\ file' = file /\ part' = [part EXCEPT ![Target(j)] = "torn"]
        /\ \A k \in Jobs : k # j => exp'[k] = exp[k]
        /\ exp'[j].at = "write" /\ exp'[j].on = "part" /\ Target(j)' = Target(j)
    <3>1. /\ \A k \in Jobs : k # j => exp'[k] = exp[k]
          /\ exp'[j].at = "write" /\ exp'[j].on = "part"
          /\ exp'[j].i = exp[j].i /\ exp'[j].e = exp[j].e
      BY <1>1, <1>7, OpenDoes
    <3>2. Target(j)' = Target(j)
      BY <3>1, SameTarget
    <3> QED
      BY <1>7, <3>1, <3>2 DEF Open
  <2>3. \A f, on : \A k \in Jobs : Holds(k, f, on) => k # j
    BY <2>1 DEF Holds
  <2>4. \A f \in Name : f # Target(j) => part'[f] = part[f]
    BY <1>3, <2>1
  <2>5. ASSUME NEW f \in Name, part'[f] = "torn" PROVE \E k \in Jobs : Holds(k, f, "part")'
    <3>1. CASE f = Target(j)
      <4>1. exp'[j].at = "write" /\ exp'[j].on = "part" /\ Target(j)' = f
        BY <2>1, <3>1
      <4>2. Holds(j, f, "part")'
        BY <4>1 DEF Holds
      <4> QED
        BY <4>2
    <3>2. CASE f # Target(j)
      BY <1>2, <1>5, <2>1, <2>3, <2>4, <2>5, <3>2
    <3> QED
      BY <3>1, <3>2
  <2>6. ASSUME NEW f \in Name \ Shipped, file'[f] = "torn" PROVE \E k \in Jobs : Holds(k, f, "target")'
    BY <1>2, <1>5, <2>1, <2>3, <2>6
  <2> QED
    BY <2>5, <2>6
<1>8. CASE Write(j)
  <2>1. /\ exp[j].at = "write" /\ \A k \in Jobs : k # j => exp'[k] = exp[k]
        /\ part' = IF exp[j].on = "part" THEN [part EXCEPT ![Target(j)] = "whole"] ELSE part
        /\ file' = IF exp[j].on = "target" THEN [file EXCEPT ![Target(j)] = "whole"] ELSE file
    BY <1>1, <1>8, WriteDoes DEF Write
  <2>2. ASSUME NEW f \in Name, part'[f] = "torn" PROVE \E k \in Jobs : Holds(k, f, "part")'
    <3>1. part[f] = "torn" /\ (exp[j].on = "part" => f # Target(j))
      BY <1>3, <2>1, <2>2
    <3>2. PICK k \in Jobs : Holds(k, f, "part")
      BY <1>2, <3>1
    <3>3. k # j
      BY <3>1, <3>2 DEF Holds
    <3> QED
      BY <1>5, <2>1, <3>2, <3>3
  <2>3. ASSUME NEW f \in Name \ Shipped, file'[f] = "torn" PROVE \E k \in Jobs : Holds(k, f, "target")'
    <3>1. file[f] = "torn" /\ (exp[j].on = "target" => f # Target(j))
      BY <1>3, <2>1, <2>3
    <3>2. PICK k \in Jobs : Holds(k, f, "target")
      BY <1>2, <3>1
    <3>3. k # j
      BY <3>1, <3>2 DEF Holds
    <3> QED
      BY <1>5, <2>1, <3>2, <3>3
  <2> QED
    BY <2>2, <2>3
<1>9. CASE Rename(j)
  <2>1. /\ exp[j].at = "rename" /\ part[Target(j)] # "none"
        /\ file' = [file EXCEPT ![Target(j)] = part[Target(j)]]
        /\ part' = [part EXCEPT ![Target(j)] = "none"]
    BY <1>9 DEF Rename
  <2>2. \A k \in Jobs : k # j =>
              /\ SameWork(exp'[k], exp[k])
              /\ exp'[k].on = IF Writes(k, Target(j)) THEN Renamed[exp[k].on] ELSE exp[k].on
    BY <1>1, <1>9, RenameDoes
  <2>3. \A k \in Jobs : k # j => Target(k)' = Target(k) /\ exp'[k].at = exp[k].at
    BY <2>2 DEF SameWork, Target, Current
  <2>4. Target(j) \in Name
    BY <1>1, <2>1, TargetNamed DEF Standing, Busy
  <2>5. \A f, on : \A k \in Jobs : Holds(k, f, on) => k # j
    BY <2>1 DEF Holds
  <2>6. ASSUME NEW k \in Jobs, NEW f \in Name, NEW on, Holds(k, f, on), f # Target(j) PROVE Holds(k, f, on)'
    <3>1. k # j /\ ~Writes(k, Target(j))
      BY <2>5, <2>6 DEF Holds, Writes
    <3> QED
      BY <2>2, <2>3, <2>6, <3>1 DEF Holds
  <2>7. ASSUME NEW k \in Jobs, NEW f \in Name, f = Target(j), Holds(k, f, "part") PROVE Holds(k, f, "target")'
    <3>1. k # j /\ Writes(k, Target(j)) /\ exp[k].on = "part" /\ exp[k].at = "write" /\ Target(k) = f
      BY <2>5, <2>7 DEF Holds, Writes
    <3>2. Renamed["part"] = "target"
      BY DEF Renamed, Descriptor
    <3>3. exp'[k].on = "target" /\ exp'[k].at = "write" /\ Target(k)' = f
      BY <2>2, <2>3, <3>1, <3>2
    <3> QED
      BY <3>3 DEF Holds
  <2>8. ASSUME NEW f \in Name, part'[f] = "torn" PROVE \E k \in Jobs : Holds(k, f, "part")'
    <3>1. f # Target(j) /\ part[f] = "torn"
      BY <1>3, <2>1, <2>4, <2>8
    <3> QED
      BY <1>2, <2>6, <3>1
  <2>9. ASSUME NEW f \in Name \ Shipped, file'[f] = "torn" PROVE \E k \in Jobs : Holds(k, f, "target")'
    <3>1. CASE f # Target(j)
      <4>1. file[f] = "torn"
        BY <1>3, <2>1, <2>9, <3>1
      <4> QED
        BY <1>2, <2>6, <3>1, <4>1
    <3>2. CASE f = Target(j)
      <4>1. part[f] = "torn"
        BY <1>3, <2>1, <2>4, <2>9, <3>2
      <4>2. PICK k \in Jobs : Holds(k, f, "part")
        BY <1>2, <4>1
      <4> QED
        BY <2>7, <3>2, <4>2
    <3> QED
      BY <3>1, <3>2
  <2> QED
    BY <2>8, <2>9
<1> QED
  BY <1>6, <1>7, <1>8, <1>9 DEF ExpandStep

LEMMA HarmHeld == ASSUME Types, Alone, HeldOpen, NEW j \in Jobs, Harm(j) PROVE HeldOpen'
<1>1. crew' = crew /\ harm' > 0 /\ harm' \in Nat /\ job[j].pc # "idle"
  BY HarmFacts
<1>2. OthersWrite'
  BY <1>1 DEF OthersWrite
<1>3. ASSUME crew = 1 PROVE AloneWrites'
  <2>1. \A k \in Jobs : k # j => exp[k].at = "off"
    BY <1>1, <1>3, OthersAreOff
  <2>2. CASE UNCHANGED treeVars
    BY <1>1, <2>2 DEF HeldOpen, AloneWrites, treeVars, Target, Current
  <2>3. CASE EntryFails(j)
    <3>1. exp \in [Jobs -> Expansion] /\ \A k \in Jobs : Standing(exp[k])
      BY TypeFacts DEF Types
    <3>2. file' = file /\ exp'[j] = GoOn(exp[j]) /\ \A k \in Jobs : k # j => exp'[k].at = exp[k].at
      BY <2>3, <3>1, EntryFailsDoes DEF EntryFails, SameWork
    <3>3. exp'[j].at = "walk"
      BY <3>1, <3>2, GoOnDoes
    <3>4. \A k \in Jobs : exp'[k].at \notin {"write", "rename"}
      BY <2>1, <3>2, <3>3
    <3> QED
      BY <1>3, <3>2, <3>4 DEF HeldOpen, AloneWrites
  <2>4. CASE Close(j)
    <3>1. file' = file /\ \A k \in Jobs : k # j => exp'[k].at = exp[k].at
      BY <2>4, ExpClosedTypes DEF Close
    <3>2. exp'[j].at = "off"
      BY <2>4, ExpClosedTypes
    <3>3. \A k \in Jobs : exp'[k].at \notin {"write", "rename"}
      BY <2>1, <3>1, <3>2
    <3> QED
      BY <1>3, <3>1, <3>3 DEF HeldOpen, AloneWrites
  <2> QED
    BY <2>2, <2>3, <2>4, HarmDoes
<1>4. AloneWrites'
  BY <1>1, <1>3 DEF AloneWrites
<1> QED
  BY <1>2, <1>4 DEF HeldOpen

LEMMA NextHeld == Types /\ Alone /\ HeldOpen /\ [Next]_vars => HeldOpen'
<1> SUFFICES ASSUME Types, Alone, HeldOpen, [Next]_vars PROVE HeldOpen'
  OBVIOUS
<1>1. ASSUME NEW j \in Jobs, Request(j) PROVE HeldOpen'
  BY <1>1, RequestDoes, SameHeld
<1>2. ASSUME NEW j \in Jobs, Harm(j) PROVE HeldOpen'
  BY <1>2, HarmHeld
<1>3. ASSUME NEW j \in Jobs, Step(j) PROVE HeldOpen'
  <2>1. crew' = crew /\ harm' = harm
    BY <1>3, StepDoes
  <2>2. CASE UNCHANGED treeVars
    BY <2>1, <2>2, SameHeld
  <2>3. CASE Quiet(j)
    BY <2>1, <2>3, QuietHeld
  <2>4. CASE Expanding(j)
    BY <2>1, <2>4, AloneExpanding, OthersExpanding DEF Expanding, HeldOpen
  <2> QED
    BY <1>3, <2>2, <2>3, <2>4, TreeSteps
<1>4. CASE UNCHANGED vars
  <2>1. UNCHANGED treeVars /\ crew' = crew /\ harm' = harm
    BY <1>4 DEF vars, bounds
  <2> QED
    BY <2>1, SameHeld
<1> QED
  BY <1>1, <1>2, <1>3, <1>4 DEF Next

LEMMA AlwaysHeld == Spec => []HeldOpen
BY InitHeld, NextHeld, AlwaysTypes, AlwaysAlone, PTL DEF Spec

LEMMA HeldIsWhole == Types /\ HeldOpen => TarIsWhole
<1> SUFFICES ASSUME Types, HeldOpen, NEW t \in TarZips, file[TarOf[t]] = "torn"
             PROVE  /\ crew > 1
                    /\ harm > 0 \/ \E j \in Jobs : Writes(j, TarOf[t]) /\ exp[j].on = "target"
  BY DEF TarIsWhole
<1>1. TarOf[t] \in Name \ Shipped
  BY ArchivesNamed, ArchivesAssumption, ModuleDeployAssumption
<1>2. crew \in Nat \ {0} /\ harm \in Nat
  <2>1. crew \in Crews /\ harm \in 0 .. MaxHarm[crew]
    BY TypeParts DEF Types, Bounds
  <2>2. Crews \subseteq Nat \ {0}
    BY ModuleDeployAssumption
  <2> QED
    BY <2>1, <2>2
<1>3. crew # 1
  BY <1>1 DEF HeldOpen, AloneWrites
<1>4. harm = 0 => \E j \in Jobs : Holds(j, TarOf[t], "target")
  BY <1>1, <1>3 DEF HeldOpen, OthersWrite
<1>5. harm = 0 => \E j \in Jobs : Writes(j, TarOf[t]) /\ exp[j].on = "target"
  BY <1>4 DEF Holds, Writes
<1> QED
  BY <1>2, <1>3, <1>5

\* The types of the module, and what may lie under the name of a .tar: with one
\* job at a time never a torn file, and with several only one that a job of those
\* still writes, or after a failure (writeZipEntry: everything through .part and
\* a rename, the .part shared by whoever expands the directory).
THEOREM TarsAreWhole == Spec => []ModuleOK
<1>1. Types /\ HeldOpen => ModuleOK
  BY HeldIsWhole DEF Types, ModuleOK
<1> QED
  BY <1>1, AlwaysTypes, AlwaysHeld, PTL

-----------------------------------------------------------------------------
(* The base image.                                                         *)

\* With one job at a time, the lists that a load is compared with are those of
\* the moment, and what the loads of base images brought is what they hold.
BaseTags == {ImageIn[t] : t \in BaseTars}
Loading == {"loading", "baseloading", "basetag"}
BaseJob(j) ==
  /\ job[j].pc \in {"loading", "baseloading"} => job[j].before = Local
  /\ job[j].pc = "baseloading" => job[j].todo \subseteq BaseTars
  /\ job[j].pc \in {"baseloading", "basetag"} =>
       \A i \in DOMAIN job[j].refs :
          job[j].refs[i] \in BaseTags /\ images[job[j].refs[i]] = job[j].refs[i]
BaseInv == BaseIsBase /\ (crew = 1 => \A j \in Jobs : BaseJob(j))

LEMMA InitBase == Init => BaseInv
<1> SUFFICES ASSUME Init PROVE BaseInv
  OBVIOUS
<1>1. images[Base] = IF Base \in Older THEN Base ELSE "none"
  BY ModuleDeployAssumption DEF Init
<1>2. \A k \in Jobs : job[k].pc = "idle"
  BY IdleFacts DEF Init
<1> QED
  BY <1>1, <1>2 DEF BaseInv, BaseIsBase, BaseJob

\* The steps that load nothing and make no list of what to load.
LEMMA LoadsNothing ==
  ASSUME Types, NEW j \in Jobs, Step(j), ~Load(j), ~TagBase(j), ~ListTars(j), ~ListBase(j)
  PROVE  images' = images /\ (job' = job \/ job'[j].pc \notin Loading)
<1>1. CASE Skip(j)
  BY <1>1, TypeFacts, EndedDoes DEF Skip, Loading, hostVars
<1>2. CASE AlreadyThere(j)
  BY <1>2, TypeFacts, GotoDoes DEF AlreadyThere, Prepared, Places, Loading, hostVars
<1>3. CASE StartExpand(j)
  <2>1. 1 \in 0 .. Rounds
    BY ModuleDeployAssumption
  <2> QED
    BY <1>3, <2>1, TypeFacts, RoundDoes DEF StartExpand, Loading, hostVars
<1>4. CASE EndPrepare(j)
  BY <1>4, TypeFacts, GotoDoes, EndedDoes DEF EndPrepare, Prepared, Places, Loading, hostVars
<1>5. CASE ExpandHtml(j)
  BY <1>5 DEF ExpandHtml, hostVars
<1>6. CASE EndHtml(j)
  BY <1>6, TypeFacts, GotoDoes DEF EndHtml, Places, Loading, hostVars
<1>7. CASE Expanding(j)
  BY <1>7 DEF Expanding
<1>8. CASE AnotherRound(j)
  <2>1. images' = images
    BY <1>8 DEF AnotherRound, hostVars
  <2> QED
    BY <1>8, <2>1, RepeatDoes, TypeFacts DEF Loading
<1>9. CASE PatchEnv(j)
  BY <1>9, PatchEnvDoes DEF Loading
<1>10. CASE FindProjects(j)
  BY <1>10, FindProjectsDoes DEF Loading, hostVars
<1>11. CASE FindAgain(j)
  BY <1>11, FindAgainDoes DEF Loading, hostVars
<1>12. CASE Sync(j)
  BY <1>12, SyncDoes DEF Loading
<1>13. CASE WriteCompose(j)
  BY <1>13, WriteComposeDoes DEF Loading
<1>14. CASE Check(j)
  BY <1>14, CheckDoes DEF Loading, hostVars
<1>15. CASE NeedBase(j)
  BY <1>15, NeedBaseDoes DEF Loading, hostVars
<1>16. CASE ComposeUp(j)
  BY <1>16, ComposeUpDoes DEF Loading
<1> QED
  BY <1>1, <1>2, <1>3, <1>4, <1>5, <1>6, <1>7, <1>8, <1>9, <1>10, <1>11, <1>12, <1>13, <1>14, <1>15, <1>16
  DEF Step

LEMMA SameBase ==
  ASSUME BaseInv, crew' = crew, images' = images,
         \A k \in Jobs : job'[k] = job[k] \/ job'[k].pc \notin Loading
  PROVE  BaseInv'
<1>1. BaseIsBase'
  BY DEF BaseInv, BaseIsBase
<1>2. Local' = Local
  BY DEF Local
<1>3. ASSUME crew = 1, NEW k \in Jobs PROVE BaseJob(k)'
  <2>1. CASE job'[k] = job[k]
    BY <1>2, <1>3, <2>1 DEF BaseInv, BaseJob
  <2>2. CASE job'[k].pc \notin Loading
    BY <2>2 DEF BaseJob, Loading
  <2> QED
    BY <2>1, <2>2
<1> QED
  BY <1>1, <1>3 DEF BaseInv

\* A single load: its new tag is the only one, and images and lists go together.
LEMMA LoadBase ==
  ASSUME Types, Alone, BaseInv, NEW j \in Jobs, Load(j)
  PROVE  BaseInv'
<1>1. /\ crew' = crew /\ OnlyJob(j) /\ job[j].pc \in {"loading", "baseloading"} /\ job[j].pc # "idle"
  BY StepDoes DEF Step, Load
<1> SUFFICES ASSUME crew = 1 PROVE BaseInv'
  BY <1>1 DEF BaseInv, BaseIsBase
<1>2. \A k \in Jobs : k # j => job'[k].pc = "idle"
  BY <1>1, OthersAreOff DEF OnlyJob
<1>3. \A k \in Jobs : k # j => BaseJob(k)'
  BY <1>2 DEF BaseJob
<1>4. BaseIsBase /\ BaseJob(j)
  BY DEF BaseInv
<1>5. NextTar(j) \in job[j].todo /\ NextTar(j) \in TarZips /\ ImageIn[NextTar(j)] \in Tags
  BY TypeFacts, LoadDoes DEF Types
<1>6. SUFFICES BaseIsBase' /\ BaseJob(j)'
  BY <1>1, <1>3, <1>6 DEF BaseInv
<1>7. CASE images' = images /\ job'[j].pc = "idle"
  BY <1>1, <1>4, <1>7 DEF BaseIsBase, BaseJob
<1>8. ASSUME NEW refs \in SetToSeqs(NewRefs(j, ImageIn[NextTar(j)])),
             images' = BaseTag(j, refs, Loaded(j, ImageIn[NextTar(j)])),
             SameRequest(j), job'[j].refs = job[j].refs \o refs,
             IF job[j].todo \ {NextTar(j)} = {}
             THEN job'[j].pc = IF job[j].pc = "loading" THEN AfterLoad(j) ELSE "basetag"
             ELSE /\ job'[j].pc = job[j].pc /\ job'[j].todo = job[j].todo \ {NextTar(j)}
                  /\ job'[j].before = Local'
      PROVE  BaseIsBase' /\ BaseJob(j)'
  <2> DEFINE tag == ImageIn[NextTar(j)]
  <2>1. tag \in Tags /\ NewRefs(j, tag) = {tag}
    BY <1>1, <1>4, <1>5, NewRefsSome DEF Types, BaseJob
  <2>2. /\ refs \in Seq(Tags) /\ Head(refs) = tag /\ \A i \in DOMAIN refs : refs[i] = tag
    <3>1. refs \in SetToSeqs({tag})
      BY <1>8, <2>1
    <3> HIDE DEF tag
    <3>2. {tag} \in SUBSET Tags /\ {tag} # {}
      BY <2>1
    <3>3. /\ refs \in Seq(Tags) /\ Head(refs) \in {tag} /\ \A i \in DOMAIN refs : refs[i] \in {tag}
      BY <3>1, <3>2, SomeOrder
    <3> QED
      BY <3>3
  <2>3. /\ images'[tag] = tag
        /\ \A x \in Tags : x # tag /\ images[x] # "none" => images'[x] = images[x]
        /\ \/ images'[Base] = images[Base]
           \/ images'[Base] = Base /\ tag = Base
           \/ job[j].kind = "build" /\ images'[Base] = images'[Head(refs)] /\ Head(refs) # Base
    BY <1>5, <1>8, LoadedTags DEF Types
  <2>4. job[j].pc = "baseloading" => tag \in BaseTags
    BY <1>4, <1>5 DEF BaseJob, BaseTags
  <2>5. job[j].kind = "build" => job[j].pc = "baseloading"
    BY <1>1, TypeFacts DEF Asked
  <2> HIDE DEF tag
  <2>6. BaseIsBase'
    <3>1. CASE images'[Base] = images[Base]
      BY <1>1, <1>4, <3>1 DEF BaseIsBase
    <3>2. CASE images'[Base] = Base /\ tag = Base
      <4>1. Base \in {ImageIn[t] : t \in TarZips}
        BY <1>5, <3>2 DEF tag
      <4> QED
        BY <3>2, <4>1 DEF BaseIsBase
    <3>3. CASE job[j].kind = "build" /\ images'[Base] = images'[Head(refs)]
      <4>1. images'[Base] \in BaseTags
        BY <2>2, <2>3, <2>4, <2>5, <3>3
      <4> QED
        BY <4>1 DEF BaseIsBase, BaseTags
    <3> QED
      BY <2>3, <3>1, <3>2, <3>3
  <2>7. job'[j].pc \in {"loading", "baseloading"} =>
          /\ job'[j].pc = job[j].pc /\ job'[j].todo \subseteq job[j].todo /\ job'[j].before = Local'
    BY <1>1, <1>8 DEF AfterLoad
  <2>8. job'[j].pc \in {"baseloading", "basetag"} => job[j].pc = "baseloading"
    BY <1>1, <1>8 DEF AfterLoad
  <2>9. ASSUME job[j].pc = "baseloading", NEW i \in DOMAIN job'[j].refs
        PROVE  job'[j].refs[i] \in BaseTags /\ images'[job'[j].refs[i]] = job'[j].refs[i]
    <3>1. \/ i \in DOMAIN job[j].refs /\ job'[j].refs[i] = job[j].refs[i]
          \/ \E k \in DOMAIN refs : job'[j].refs[i] = refs[k]
      BY <1>8, <2>2, TypeFacts, ConcatRefs
    <3>2. CASE i \in DOMAIN job[j].refs /\ job'[j].refs[i] = job[j].refs[i]
      <4>1. /\ job[j].refs[i] \in BaseTags /\ images[job[j].refs[i]] = job[j].refs[i]
            /\ job[j].refs[i] \in Tags /\ images[job[j].refs[i]] # "none"
        BY <1>4, <2>9, <3>2, TypeFacts DEF BaseJob, TagsStay
      <4> QED
        BY <2>3, <3>2, <4>1
    <3>3. CASE \E k \in DOMAIN refs : job'[j].refs[i] = refs[k]
      BY <2>2, <2>3, <2>4, <2>9, <3>3
    <3> QED
      BY <3>1, <3>2, <3>3
  <2>10. BaseJob(j)'
    BY <1>4, <2>7, <2>8, <2>9 DEF BaseJob
  <2> QED
    BY <2>6, <2>10
<1> QED
  BY <1>7, <1>8, TypeFacts, LoadDoes DEF Types

LEMMA TagBaseBase ==
  ASSUME Types, Alone, BaseInv, NEW j \in Jobs, TagBase(j)
  PROVE  BaseInv'
<1>1. crew' = crew /\ OnlyJob(j) /\ job[j].pc = "basetag"
  BY TagBaseDoes DEF bounds
<1> SUFFICES ASSUME crew = 1 PROVE BaseInv'
  BY <1>1 DEF BaseInv, BaseIsBase
<1>2. \A k \in Jobs : k # j => job'[k].pc = "idle"
  BY <1>1, OthersAreOff DEF OnlyJob
<1>3. job'[j].pc \in {"idle", "compose"}
  BY TagBaseDoes
<1>4. \A k \in Jobs : BaseJob(k)'
  BY <1>2, <1>3 DEF BaseJob
<1>5. BaseIsBase /\ BaseJob(j)
  BY DEF BaseInv
<1>6. images'[Base] = images[Base] \/ images'[Base] \in BaseTags
  <2>1. CASE images' = images
    BY <2>1
  <2>2. CASE images' # images
    <3>1. /\ Still(j) # {} => 1 \in DOMAIN job[j].refs
          /\ images'[Base] = IF Base \in Still(j) THEN images[job[j].refs[1]] ELSE images[Base]
      BY <2>2, TagBaseDoes, ModuleDeployAssumption
    <3>2. Base \in Still(j) => images[job[j].refs[1]] \in BaseTags
      BY <1>1, <1>5, <3>1 DEF BaseJob
    <3> QED
      BY <3>1, <3>2
  <2> QED
    BY <2>1, <2>2
<1>7. BaseIsBase'
  BY <1>1, <1>5, <1>6 DEF BaseIsBase, BaseTags
<1> QED
  BY <1>4, <1>7 DEF BaseInv

LEMMA ListsBase ==
  ASSUME Types, Alone, BaseInv, NEW j \in Jobs, ListTars(j) \/ ListBase(j)
  PROVE  BaseInv'
<1>1. crew' = crew /\ OnlyJob(j) /\ job[j].pc # "idle" /\ images' = images
  BY ListTarsDoes, ListBaseDoes DEF bounds, hostVars
<1>2. BaseIsBase'
  BY <1>1 DEF BaseInv, BaseIsBase
<1> SUFFICES ASSUME crew = 1, NEW k \in Jobs PROVE BaseJob(k)'
  BY <1>1, <1>2 DEF BaseInv
<1>3. Local' = Local
  BY <1>1 DEF Local
<1>4. CASE k # j
  <2>1. job'[k].pc = "idle"
    BY <1>1, <1>4, OthersAreOff DEF OnlyJob
  <2> QED
    BY <2>1 DEF BaseJob
<1>5. CASE k = j /\ ListTars(j)
  BY <1>3, <1>5, ListTarsDoes DEF BaseJob
<1>6. CASE k = j /\ ListBase(j)
  <2>1. DOMAIN job'[j].refs = {}
    BY <1>6, ListBaseDoes
  <2>2. TarsOf(BaseTars) \subseteq BaseTars
    BY DEF TarsOf
  <2> QED
    BY <1>3, <1>6, <2>1, <2>2, ListBaseDoes DEF BaseJob
<1> QED
  BY <1>4, <1>5, <1>6

LEMMA NextBase == Types /\ Alone /\ BaseInv /\ [Next]_vars => BaseInv'
<1> SUFFICES ASSUME Types, Alone, BaseInv, [Next]_vars PROVE BaseInv'
  OBVIOUS
<1>1. ASSUME NEW j \in Jobs, Request(j) PROVE BaseInv'
  <2>1. crew' = crew /\ images' = images
    BY <1>1, RequestDoes DEF hostVars
  <2>2. job'[j].pc \notin Loading
    BY <1>1, RequestDoes DEF FirstOf, Loading
  <2>3. \A k \in Jobs : job'[k] = job[k] \/ job'[k].pc \notin Loading
    BY <1>1, <2>2, RequestDoes, IdleFacts DEF Loading
  <2> QED
    BY <2>1, <2>3, SameBase
<1>2. ASSUME NEW j \in Jobs, Harm(j) PROVE BaseInv'
  <2>1. crew' = crew /\ images' = images
    BY <1>2, HarmDoes DEF hostVars
  <2>2. \A k \in Jobs : job'[k] = job[k] \/ job'[k].pc \notin Loading
    BY <1>2, HarmDoes DEF OnlyJob, Loading
  <2> QED
    BY <2>1, <2>2, SameBase
<1>3. ASSUME NEW j \in Jobs, Step(j) PROVE BaseInv'
  <2>1. CASE Load(j)
    BY <2>1, LoadBase
  <2>2. CASE TagBase(j)
    BY <2>2, TagBaseBase
  <2>3. CASE ListTars(j) \/ ListBase(j)
    BY <2>3, ListsBase
  <2>4. CASE ~Load(j) /\ ~TagBase(j) /\ ~ListTars(j) /\ ~ListBase(j)
    <3>1. crew' = crew /\ OnlyJob(j)
      BY <1>3, StepDoes
    <3>2. images' = images /\ (job' = job \/ job'[j].pc \notin Loading)
      BY <1>3, <2>4, LoadsNothing
    <3>3. \A k \in Jobs : job'[k] = job[k] \/ job'[k].pc \notin Loading
      BY <3>1, <3>2 DEF OnlyJob
    <3> QED
      BY <3>1, <3>2, <3>3, SameBase
  <2> QED
    BY <2>1, <2>2, <2>3, <2>4
<1>4. CASE UNCHANGED vars
  <2>1. crew' = crew /\ images' = images /\ job' = job
    BY <1>4 DEF vars, bounds, hostVars
  <2> QED
    BY <2>1, SameBase
<1> QED
  BY <1>1, <1>2, <1>3, <1>4 DEF Next

\* With one job at a time java:8 never names an image of the module: it is what
\* the host had, an image delivered under that very tag, or one that the archive of
\* a base image brought (loadBaseImagesForBuild, tagLoadedAsBase).
THEOREM JavaIsTheBaseImage == Spec => []BaseIsBase
<1>1. Spec => []BaseInv
  BY InitBase, NextBase, AlwaysTypes, AlwaysAlone, PTL DEF Spec
<1>2. BaseInv => BaseIsBase
  BY DEF BaseInv
<1> QED
  BY <1>1, <1>2, PTL

-----------------------------------------------------------------------------
(* Everything is expanded.                                                 *)

\* How deep an archive lies: a zip less deep than what it holds.
Depth == CHOOSE depth \in [Archive -> 0 .. MaxPass - 1] : Nested(depth)

LEMMA DepthFacts ==
  /\ \A a \in Archive : Depth[a] \in Nat /\ Depth[a] + 1 <= MaxPass
  /\ \A z \in Zips : \A a \in Held(z) \cap Archive : Depth[z] < Depth[a]
<1>1. Depth \in [Archive -> 0 .. MaxPass - 1] /\ Nested(Depth)
  BY NestingAssumption DEF Depth
<1>2. MaxPass \in Nat \ {0}
  BY ArchivesAssumption
<1>3. \A a \in Archive : Depth[a] \in 0 .. MaxPass - 1
  BY <1>1
<1> QED
  BY <1>1, <1>2, <1>3 DEF Nested

\* A pass over the whole directory.  Pass n has found everything less than n deep
\* and expanded what is less deep than that; what it has gone by is expanded, or
\* has come to light behind its back, deeper, when something changed and there
\* will be another pass.
Finished(n) == \A a \in Archive : file[a] = "whole" /\ Depth[a] + 1 < n => Expanded(a)
Seen(j) == \A a \in Archive : file[a] = "whole" /\ Depth[a] < exp[j].pass => a \in exp[j].seen
Behind(j, k) ==
  Order[k] \in exp[j].seen /\ file[Order[k]] = "whole" =>
    \/ Expanded(Order[k])
    \/ k = exp[j].i /\ exp[j].at \in Busy
    \/ Depth[Order[k]] >= exp[j].pass /\ (exp[j].changed \/ exp[j].at \in Busy)
AtWork(j) ==
  exp[j].at \in Busy =>
    /\ Depth[Current(j)] + 1 >= exp[j].pass
    /\ exp[j].at # "open" => Current(j) \in TarZips \cup dirs
AllSeen(j) ==
  exp[j].at = "walk" /\ ~exp[j].changed => \A a \in Archive : Visible(a) => a \in exp[j].seen
Walked(j) ==
  /\ exp[j].scope = Archive /\ exp[j].pass > 0
  /\ Finished(exp[j].pass)
  /\ Seen(j)
  /\ \A k \in 1 .. exp[j].i : Behind(j, k)
  /\ AtWork(j)
  /\ AllSeen(j)

LEMMA BegunDoes ==
  ASSUME Types, NEW j \in Jobs, NEW scope \in SUBSET Archive, ExpandTree(j, scope)
  PROVE  /\ exp'[j].at = "walk" /\ exp'[j].pass = 1 /\ exp'[j].scope = scope
         /\ exp'[j].seen = {a \in scope : Visible(a)}
         /\ exp'[j].i = 0
<1> DEFINE S == {a \in scope : Visible(a)}
           x == [Off EXCEPT !.at = "walk", !.pass = 1, !.scope = scope, !.seen = S]
<1>1. exp' = [exp EXCEPT ![j] = x]
  BY DEF ExpandTree
<1> HIDE DEF S
<1>2. x.at = "walk" /\ x.pass = 1 /\ x.scope = scope /\ x.seen = S /\ x.i = 0
  BY DEF Off
<1> HIDE DEF x
<1>3. exp'[j] = x
  BY <1>1, TypeFacts
<1> QED
  BY <1>2, <1>3 DEF S

LEMMA BegunWalked ==
  ASSUME Types, NEW j \in Jobs, ExpandTree(j, Archive), UNCHANGED <<file, part, dirs>>
  PROVE  Walked(j)' /\ exp'[j].at = "walk"
<1>1. Archive \in SUBSET Archive
  OBVIOUS
<1>2. /\ exp'[j].at = "walk" /\ exp'[j].pass = 1 /\ exp'[j].scope = Archive
      /\ exp'[j].seen = {a \in Archive : Visible(a)}
      /\ exp'[j].i = 0
  BY <1>1, BegunDoes
<1>3. \A a \in Archive : Visible(a)' = Visible(a) /\ (file'[a] = "whole" => Visible(a))
  BY DEF Visible
<1>4. Finished(exp[j].pass)'
  BY <1>2, DepthFacts DEF Finished
<1>5. Seen(j)' /\ AllSeen(j)'
  BY <1>2, <1>3 DEF Seen, AllSeen
<1>6. AtWork(j)'
  BY <1>2 DEF AtWork, Busy
<1> QED
  BY <1>2, <1>4, <1>5, <1>6 DEF Walked

\* What is expanded depends on the files and directories.
LEMMA SameExpanded ==
  ASSUME file' = file, dirs' = dirs
  PROVE  /\ \A a : Expanded(a)' <=> Expanded(a)
         /\ \A a : Visible(a)' <=> Visible(a)
BY DEF Expanded, Visible

LEMMA StillExpanded ==
  ASSUME \A f \in Name : Visible(f) => Visible(f)', dirs \subseteq dirs'
  PROVE  \A a \in Archive : Expanded(a) => Expanded(a)'
<1>1. ASSUME NEW a \in Archive, Expanded(a) PROVE Expanded(a)'
  <2>1. CASE a \in Zips
    BY <1>1, <2>1 DEF Expanded
  <2>2. CASE a \notin Zips
    <3>1. TarOf[a] \in Name
      BY <2>2, ArchivesNamed DEF Archive
    <3> QED
      BY <1>1, <2>2, <3>1 DEF Expanded
  <2> QED
    BY <2>1, <2>2
<1> QED
  BY <1>1

LEMMA MeetWalked ==
  ASSUME Types, NEW j \in Jobs, Walked(j), Meet(j)
  PROVE  Walked(j)' /\ exp'[j].at \in {"walk", "open"}
<1>1. /\ exp[j] \in Expansion /\ exp[j].at = "walk" /\ file' = file /\ dirs' = dirs
  BY TypeFacts DEF Meet
<1>2. /\ exp'[j].scope = exp[j].scope /\ exp'[j].seen = exp[j].seen
      /\ exp'[j].pass = exp[j].pass /\ exp'[j].changed = exp[j].changed
  BY TypeFacts, MeetDoes
<1>3. PICK i \in exp[j].i + 1 .. Len(Order) :
        /\ PassedOver(j, i) /\ ~Expanded(Order[i])
        /\ exp'[j].i = i
        /\ IF file[Order[i]] = "whole" THEN exp'[j].at = "open" ELSE exp'[j].at = "walk"
  BY TypeFacts, MeetDoes
<1>4. exp[j].i \in Nat /\ i \in Nat /\ exp[j].i < i /\ i \in DOMAIN Order /\ Order[i] \in Archive /\ exp[j].pass \in Nat
  BY <1>1, <1>3, ArchivesAssumption DEF Expansion
<1>5. \A a : (Expanded(a)' <=> Expanded(a)) /\ (Visible(a)' <=> Visible(a))
  BY <1>1, SameExpanded
<1>6. Finished(exp[j].pass)' /\ Seen(j)' /\ AllSeen(j)'
  BY <1>1, <1>2, <1>3, <1>5 DEF Walked, Finished, Seen, AllSeen
<1>7. ASSUME NEW k \in 1 .. i PROVE Behind(j, k)'
  <2>1. CASE k \in 1 .. exp[j].i
    <3>1. Behind(j, k)
      BY <2>1 DEF Walked
    <3> QED
      BY <1>1, <1>2, <1>5, <3>1 DEF Behind, Busy
  <2>2. CASE k \in exp[j].i + 1 .. i - 1
    <3>1. Order[k] \notin exp[j].seen \/ Expanded(Order[k])
      BY <1>3, <2>2 DEF PassedOver, MayPassOver
    <3> QED
      BY <1>2, <1>5, <3>1 DEF Behind
  <2>3. CASE k = i
    BY <1>1, <1>3, <2>3 DEF Behind, Busy
  <2> QED
    BY <1>4, <2>1, <2>2, <2>3
<1>8. AtWork(j)'
  <2>1. ASSUME exp'[j].at \in Busy
        PROVE  exp'[j].at = "open" /\ Depth[Order[i]] + 1 >= exp[j].pass
    <3>1. file[Order[i]] = "whole" /\ exp'[j].at = "open"
      BY <1>3, <2>1 DEF Busy
    <3>2. ~(Depth[Order[i]] + 1 < exp[j].pass)
      BY <1>3, <1>4, <3>1 DEF Walked, Finished
    <3> QED
      BY <1>4, <3>1, <3>2, DepthFacts
  <2> QED
    BY <1>2, <1>3, <2>1 DEF AtWork, Current
<1> QED
  BY <1>2, <1>3, <1>6, <1>7, <1>8 DEF Walked

LEMMA EndPassWalked ==
  ASSUME Types, NEW j \in Jobs, Walked(j), EndPass(j)
  PROVE  IF exp'[j].at = "done" THEN AllExpanded' ELSE exp'[j].at = "walk" /\ Walked(j)'
<1>1. /\ exp[j] \in Expansion /\ exp[j].at = "walk" /\ file' = file /\ dirs' = dirs
      /\ PassedOver(j, Len(Order) + 1)
  BY TypeFacts DEF EndPass
<1>2. exp[j].i \in Nat /\ exp[j].pass \in Nat /\ exp[j].pass <= MaxPass /\ Len(Order) \in Nat /\ MaxPass \in Nat
  BY <1>1, ArchivesAssumption DEF Expansion
<1>3. \A a : (Expanded(a)' <=> Expanded(a)) /\ (Visible(a)' <=> Visible(a))
  BY <1>1, SameExpanded
<1>4. ASSUME NEW a \in Archive, a \in exp[j].seen, file[a] = "whole"
      PROVE  Expanded(a) \/ (Depth[a] >= exp[j].pass /\ exp[j].changed)
  <2>1. PICK k \in DOMAIN Order : Order[k] = a
    BY ArchiveAt
  <2>2. k \in 1 .. Len(Order)
    BY <2>1, ArchivesAssumption
  <2>3. CASE k \in 1 .. exp[j].i
    <3>1. Behind(j, k)
      BY <2>3 DEF Walked
    <3> QED
      BY <1>1, <1>4, <2>1, <3>1 DEF Behind, Busy
  <2>4. CASE k \in exp[j].i + 1 .. (Len(Order) + 1) - 1
    BY <1>1, <1>4, <2>1, <2>4 DEF PassedOver, MayPassOver
  <2> QED
    BY <1>2, <2>2, <2>3, <2>4
<1>5. \A a \in Archive : file[a] = "whole" /\ Depth[a] < exp[j].pass => Expanded(a)
  <2> SUFFICES ASSUME NEW a \in Archive, file[a] = "whole", Depth[a] < exp[j].pass PROVE Expanded(a)
    OBVIOUS
  <2>1. a \in exp[j].seen
    BY DEF Walked, Seen
  <2> QED
    BY <1>2, <1>4, <2>1, DepthFacts
<1>6. CASE AnotherPass(exp[j])
  <2>1. /\ exp'[j].at = "walk" /\ exp'[j].pass = exp[j].pass + 1 /\ exp'[j].scope = Archive
        /\ exp'[j].i = 0
        /\ exp'[j].seen = {a \in Archive : Visible(a)}
    BY <1>6, TypeFacts, EndPassDoes DEF Walked
  <2>2. Finished(exp[j].pass)'
    <3> SUFFICES ASSUME NEW a \in Archive, file'[a] = "whole", Depth[a] + 1 < exp[j].pass + 1
                 PROVE  Expanded(a)
      BY <1>3, <2>1 DEF Finished
    <3> QED
      BY <1>1, <1>2, <1>5, DepthFacts
  <2>3. Seen(j)' /\ AllSeen(j)'
    BY <1>1, <1>3, <2>1 DEF Seen, AllSeen, Visible
  <2>4. AtWork(j)'
    BY <2>1 DEF AtWork, Busy
  <2>5. exp'[j].pass > 0
    BY <1>2, <2>1
  <2> QED
    BY <2>1, <2>2, <2>3, <2>4, <2>5 DEF Walked
<1>7. CASE ~AnotherPass(exp[j])
  <2>1. exp'[j].at = "done"
    BY <1>7, TypeFacts, EndPassDoes
  <2>2. ASSUME NEW a \in Archive, file[a] = "whole" PROVE Expanded(a)
    <3>1. CASE ~exp[j].changed
      <4>1. a \in exp[j].seen
        BY <1>1, <2>2, <3>1 DEF Walked, AllSeen, Visible
      <4> QED
        BY <1>4, <2>2, <3>1, <4>1
    <3>2. CASE ~(exp[j].pass < MaxPass)
      <4>1. Depth[a] < exp[j].pass
        BY <1>2, <3>2, DepthFacts
      <4> QED
        BY <1>5, <2>2, <4>1
    <3> QED
      BY <1>7, <3>1, <3>2 DEF AnotherPass
  <2>3. AllExpanded'
    BY <1>1, <1>3, <2>2 DEF AllExpanded
  <2> QED
    BY <2>1, <2>3
<1> QED
  BY <1>6, <1>7

LEMMA OpenWalked ==
  ASSUME Types, NEW j \in Jobs, Walked(j), Open(j)
  PROVE  Walked(j)' /\ exp'[j].at = "write"
<1>1. /\ exp[j].at = "open" /\ file' = file /\ dirs' = dirs \cup ({Current(j)} \cap Zips)
      /\ Standing(exp[j])
  BY TypeFacts DEF Open
<1>2. /\ exp'[j].scope = exp[j].scope /\ exp'[j].seen = exp[j].seen
      /\ exp'[j].pass = exp[j].pass /\ exp'[j].changed = exp[j].changed
      /\ exp'[j].i = exp[j].i /\ exp'[j].at = "write"
  BY TypeFacts, OpenDoes
<1>3. \A a \in Archive : Expanded(a) => Expanded(a)'
  BY <1>1, StillExpanded DEF Visible
<1>4. Finished(exp[j].pass)' /\ Seen(j)' /\ AllSeen(j)'
  BY <1>1, <1>2, <1>3 DEF Walked, Finished, Seen, AllSeen
<1>5. exp[j].i \in DOMAIN Order /\ DOMAIN Order = 1 .. Len(Order) /\ Len(Order) \in Nat
  BY <1>1, ArchivesAssumption DEF Standing, Busy
<1>6. ASSUME NEW k \in 1 .. exp[j].i PROVE Behind(j, k)'
  <2>1. Behind(j, k) /\ Order[k] \in Archive
    BY <1>5, ArchiveIn DEF Walked
  <2> QED
    BY <1>1, <1>2, <1>3, <2>1 DEF Behind, Busy
<1>7. Current(j) \in TarZips \cup dirs'
  BY <1>1, <1>5, ArchiveIn DEF Current, Archive
<1>8. AtWork(j)'
  BY <1>1, <1>2, <1>7 DEF Walked, AtWork, Busy, Current
<1> QED
  BY <1>2, <1>4, <1>6, <1>8 DEF Walked

LEMMA WriteWalked ==
  ASSUME Types, NEW j \in Jobs, Walked(j), Write(j), exp[j].on = "part"
  PROVE  Walked(j)' /\ exp'[j].at = "rename"
<1>1. exp[j].at = "write" /\ file' = file /\ dirs' = dirs
  BY DEF Write
<1>2. /\ exp'[j].scope = exp[j].scope /\ exp'[j].seen = exp[j].seen
      /\ exp'[j].pass = exp[j].pass /\ exp'[j].changed = exp[j].changed
      /\ exp'[j].i = exp[j].i /\ exp'[j].at = "rename"
  BY TypeFacts, WriteDoes
<1>3. \A a : Expanded(a)' <=> Expanded(a)
  BY <1>1, SameExpanded
<1>4. Finished(exp[j].pass)' /\ Seen(j)' /\ AllSeen(j)'
  BY <1>1, <1>2, <1>3 DEF Walked, Finished, Seen, AllSeen
<1>5. ASSUME NEW k \in 1 .. exp[j].i PROVE Behind(j, k)'
  <2>1. Behind(j, k)
    BY DEF Walked
  <2> QED
    BY <1>1, <1>2, <1>3, <2>1 DEF Behind, Busy
<1>6. AtWork(j)'
  BY <1>1, <1>2 DEF Walked, AtWork, Busy, Current
<1> QED
  BY <1>2, <1>4, <1>5, <1>6 DEF Walked

\* Where the entries of the archive at hand come to light.
LEMMA TargetFacts ==
  ASSUME Types, NEW j \in Jobs, exp[j].at \in Busy
  PROVE  /\ Current(j) \in Archive /\ Target(j) \in Name
         /\ Current(j) \in Zips => Target(j) \in Held(Current(j))
         /\ Current(j) \notin Zips => Target(j) = TarOf[Current(j)]
<1>1. exp[j].i \in DOMAIN Order /\ exp[j].e \in DOMAIN Entries(Current(j))
  BY TypeFacts DEF Standing, Current
<1>2. Current(j) \in Archive /\ Target(j) \in Name
  BY <1>1, TargetNamed DEF Current
<1>3. CASE Current(j) \in Zips
  BY <1>1, <1>2, <1>3 DEF Target, Entries, Held
<1>4. CASE Current(j) \notin Zips
  <2>1. Entries(Current(j)) = <<TarOf[Current(j)]>>
    BY <1>4 DEF Entries
  <2>2. exp[j].e = 1
    BY <1>1, <2>1
  <2> QED
    BY <1>2, <1>4, <2>1, <2>2 DEF Target
<1> QED
  BY <1>2, <1>3, <1>4

LEMMA DeeperTarget ==
  ASSUME Types, NEW j \in Jobs, exp[j].at \in Busy, AtWork(j), Target(j) \in Archive
  PROVE  Depth[Target(j)] >= exp[j].pass
<1>1. /\ Current(j) \in Archive /\ Current(j) \in Zips /\ Target(j) \in Held(Current(j))
  BY TargetFacts, ArchivesAssumption DEF Archive
<1>2. Depth[Current(j)] < Depth[Target(j)]
  BY <1>1, DepthFacts
<1>3. Depth[Current(j)] \in Nat /\ Depth[Target(j)] \in Nat
  BY <1>1, DepthFacts
<1>4. Depth[Current(j)] + 1 >= exp[j].pass /\ exp[j].pass \in Nat
  BY TypeFacts DEF AtWork, Expansion
<1> QED
  BY <1>2, <1>3, <1>4

LEMMA RenameWalked ==
  ASSUME Types, NEW j \in Jobs, Walked(j), Rename(j), part[Target(j)] = "whole"
  PROVE  Walked(j)' /\ exp'[j].at \in {"open", "walk"}
<1>1. /\ exp[j].at = "rename" /\ file' = [file EXCEPT ![Target(j)] = "whole"] /\ dirs' = dirs
      /\ exp[j].at \in Busy /\ Standing(exp[j])
  BY TypeFacts DEF Rename, Busy
<1>2. exp \in [Jobs -> Expansion] /\ \A k \in Jobs : Standing(exp[k])
  BY TypeFacts DEF Types
<1>3. exp'[j] = AfterEntry(j)
  BY <1>2, RenameDoes
<1>4. /\ exp'[j].scope = exp[j].scope /\ exp'[j].seen = exp[j].seen
      /\ exp'[j].pass = exp[j].pass /\ exp'[j].i = exp[j].i
      /\ \/ exp'[j].at = "open" /\ exp'[j].changed = exp[j].changed
         \/ exp'[j].at = "walk" /\ exp'[j].changed
  BY <1>1, <1>2, <1>3, AfterEntryDoes
<1>5. file \in [Name -> Content] /\ Target(j) \in Name
  BY <1>1, TypeParts, TargetFacts DEF Types, TreeTypeOK
<1>6. \A f \in Name : file'[f] = IF f = Target(j) THEN "whole" ELSE file[f]
  BY <1>1, <1>5
<1>7. \A a \in Archive : Expanded(a) => Expanded(a)'
  BY <1>1, <1>6, StillExpanded DEF Visible
<1>8. AtWork(j)
  BY DEF Walked
<1>9. \A a \in Archive : file'[a] = "whole" => file[a] = "whole" \/ Depth[a] >= exp[j].pass
  BY <1>1, <1>6, <1>8, DeeperTarget, ArchivesNamed
<1>10. exp[j].pass \in Nat /\ \A a \in Archive : Depth[a] \in Nat
  BY TypeFacts, DepthFacts DEF Expansion
<1>11. Finished(exp[j].pass)'
  <2> SUFFICES ASSUME NEW a \in Archive, file'[a] = "whole", Depth[a] + 1 < exp[j].pass PROVE Expanded(a)'
    BY <1>4 DEF Finished
  <2>1. file[a] = "whole"
    BY <1>9, <1>10
  <2> QED
    BY <1>7, <2>1 DEF Walked, Finished
<1>12. Seen(j)'
  BY <1>4, <1>9, <1>10 DEF Walked, Seen
<1>13. AllSeen(j)'
  BY <1>4 DEF AllSeen
<1>14. Expanded(Current(j))'
  <2>1. Current(j) \in TarZips \cup dirs
    BY <1>1, <1>8 DEF AtWork
  <2>2. CASE Current(j) \in Zips
    <3>1. Current(j) \in dirs'
      BY <1>1, <2>1, <2>2, ArchivesAssumption
    <3>2. Current(j)' = Current(j)
      BY <1>4 DEF Current
    <3> QED
      BY <2>2, <3>1, <3>2 DEF Expanded
  <2>3. CASE Current(j) \notin Zips
    <3>1. Target(j) = TarOf[Current(j)]
      BY <1>1, <2>3, TargetFacts
    <3>2. file'[TarOf[Current(j)]] = "whole"
      BY <1>5, <1>6, <3>1
    <3>3. Current(j)' = Current(j)
      BY <1>4 DEF Current
    <3> QED
      BY <2>3, <3>2, <3>3 DEF Expanded, Visible
  <2> QED
    BY <2>2, <2>3
<1>15. exp[j].i \in DOMAIN Order /\ DOMAIN Order = 1 .. Len(Order) /\ Len(Order) \in Nat
  BY <1>1, ArchivesAssumption DEF Standing, Busy
<1>16. ASSUME NEW k \in 1 .. exp[j].i PROVE Behind(j, k)'
  <2>1. Behind(j, k) /\ Order[k] \in Archive
    BY <1>15, ArchiveIn DEF Walked
  <2>2. CASE file[Order[k]] # "whole"
    BY <1>4, <1>9, <2>1, <2>2 DEF Behind, Busy
  <2>3. CASE k = exp[j].i
    <3>1. Order[k] = Current(j)' /\ Expanded(Order[k])'
      BY <1>4, <1>14, <2>3 DEF Current
    <3> QED
      BY <3>1 DEF Behind
  <2>4. CASE file[Order[k]] = "whole" /\ k # exp[j].i
    BY <1>4, <1>7, <2>1, <2>4 DEF Behind, Busy
  <2> QED
    BY <2>2, <2>3, <2>4
<1>17. AtWork(j)'
  BY <1>1, <1>4, <1>8 DEF AtWork, Busy, Current
<1> QED
  BY <1>4, <1>11, <1>12, <1>13, <1>16, <1>17 DEF Walked

\* A job that began in a directory without a .tar, while nothing fails.
Fresh(j) == crew = 1 /\ harm = 0 /\ job[j].fresh /\ job[j].kind # "build"
Preparing == {"prepare", "expand", "html", "load", "loading", "env"}
PrepJob(j) ==
  Fresh(j) =>
    /\ job[j].pc = "prepare" => \A t \in TarZips : ~IsTar(t)
    /\ job[j].pc = "expand" =>
         IF exp[j].at = "done" THEN AllExpanded ELSE exp[j].at # "off" /\ Walked(j)
    /\ job[j].pc = "html" => AllExpanded /\ exp[j].at \in {"off", "walk", "done"}
    /\ job[j].pc \in {"load", "loading", "env"} => AllExpanded
PrepInv == \A j \in Jobs : PrepJob(j)

LEMMA NotPreparing ==
  ASSUME NEW j, job'[j].pc \notin Preparing
  PROVE  PrepJob(j)'
BY DEF PrepJob, Preparing

LEMMA SameTree ==
  ASSUME file' = file, dirs' = dirs
  PROVE  AllExpanded' <=> AllExpanded
<1>1. \A a : Expanded(a)' <=> Expanded(a)
  BY SameExpanded
<1> QED
  BY <1>1 DEF AllExpanded

\* The steps of an expansion, for a job that prepares.
LEMMA ExpandingPrep ==
  ASSUME Types, HeldOpen, NEW j \in Jobs, PrepJob(j), Expanding(j), crew' = crew, harm' = harm
  PROVE  PrepJob(j)'
<1>1. ExpandStep(j) /\ job' = job
  BY DEF Expanding
<1> SUFFICES ASSUME Fresh(j) PROVE PrepJob(j)'
  BY <1>1 DEF PrepJob, Fresh
<1>2. /\ exp[j].at = "write" => exp[j].on = "part"
      /\ exp[j].at = "rename" => part[Target(j)] = "whole"
  BY DEF HeldOpen, AloneWrites, Fresh
<1>3. exp[j].at # "off" /\ exp[j].at # "done"
  BY <1>1 DEF ExpandStep, Meet, EndPass, Open, Write, Rename, NothingToRename
<1>4. job[j].pc \in {"expand", "html", "findagain", "base"}
  BY <1>3, NotWaiting
<1>5. CASE job[j].pc = "expand"
  <2>1. Walked(j)
    BY <1>3, <1>5 DEF PrepJob
  <2>2. CASE Meet(j)
    BY <1>1, <1>5, <2>1, <2>2, MeetWalked DEF PrepJob
  <2>3. CASE EndPass(j)
    BY <1>1, <1>5, <2>1, <2>3, EndPassWalked DEF PrepJob
  <2>4. CASE Open(j)
    BY <1>1, <1>5, <2>1, <2>4, OpenWalked DEF PrepJob
  <2>5. CASE Write(j)
    <3>1. exp[j].on = "part"
      BY <1>2, <2>5 DEF Write
    <3> QED
      BY <1>1, <1>5, <2>1, <2>5, <3>1, WriteWalked DEF PrepJob
  <2>6. CASE Rename(j)
    <3>1. part[Target(j)] = "whole"
      BY <1>2, <2>6 DEF Rename
    <3> QED
      BY <1>1, <1>5, <2>1, <2>6, <3>1, RenameWalked DEF PrepJob
  <2>7. CASE NothingToRename(j)
    BY <1>2, <2>7 DEF NothingToRename
  <2> QED
    BY <1>1, <2>2, <2>3, <2>4, <2>5, <2>6, <2>7 DEF ExpandStep
<1>6. CASE job[j].pc = "html"
  <2>1. AllExpanded /\ exp[j].at = "walk"
    BY <1>3, <1>6 DEF PrepJob
  <2>2. Meet(j) \/ EndPass(j)
    BY <1>1, <2>1 DEF ExpandStep, Open, Write, Rename, NothingToRename
  <2>3. file' = file /\ dirs' = dirs
    BY <2>2 DEF Meet, EndPass
  <2>4. AllExpanded'
    BY <2>1, <2>3, SameTree
  <2>5. exp'[j].at \in {"walk", "done"}
    <3>1. CASE EndPass(j)
      BY <3>1, TypeFacts, EndPassDoes
    <3>2. CASE Meet(j)
      <4>1. PICK i \in exp[j].i + 1 .. Len(Order) :
              /\ ~Expanded(Order[i])
              /\ IF file[Order[i]] = "whole" THEN exp'[j].at = "open" ELSE exp'[j].at = "walk"
        BY <3>2, TypeFacts, MeetDoes
      <4>2. i \in DOMAIN Order
        BY TypeFacts, ArchivesAssumption DEF Expansion
      <4>3. file[Order[i]] # "whole"
        BY <2>1, <4>1, <4>2, ArchiveIn DEF AllExpanded
      <4> QED
        BY <4>1, <4>3
    <3> QED
      BY <2>2, <3>1, <3>2
  <2> QED
    BY <1>1, <1>6, <2>4, <2>5 DEF PrepJob
<1>7. CASE job[j].pc \in {"findagain", "base"}
  BY <1>1, <1>7, NotPreparing DEF Preparing
<1> QED
  BY <1>4, <1>5, <1>6, <1>7

\* The steps of the job that prepares.
LEMMA StepPrep ==
  ASSUME Types, HeldOpen, NEW j \in Jobs, PrepJob(j), Step(j)
  PROVE  PrepJob(j)'
<1>1. crew' = crew /\ harm' = harm
  BY StepDoes
<1>2. SameRequest(j) => (Fresh(j)' <=> Fresh(j))
  BY <1>1 DEF Fresh, SameRequest
<1>3. CASE AlreadyThere(j)
  <2>1. job[j].pc = "prepare" /\ (\E t \in TarZips : IsTar(t)) /\ Goto(j, Prepared(j))
    BY <1>3 DEF AlreadyThere, At, NothingToExpand
  <2>2. SameRequest(j)
    BY <2>1, TypeFacts, GotoDoes DEF Prepared, Places
  <2>3. ~Fresh(j)
    BY <2>1 DEF PrepJob
  <2> QED
    BY <1>2, <2>2, <2>3 DEF PrepJob
<1>4. CASE StartExpand(j) \/ AnotherRound(j)
  <2>1. ExpandTree(j, Archive) /\ UNCHANGED <<file, part, dirs>>
    BY <1>4 DEF StartExpand, AnotherRound
  <2>2. Walked(j)' /\ exp'[j].at = "walk"
    BY <2>1, BegunWalked
  <2>3. job'[j].pc = "expand"
    <3>1. 1 \in 0 .. Rounds
      BY ModuleDeployAssumption
    <3> QED
      BY <1>4, <3>1, TypeFacts, RoundDoes, RepeatDoes DEF StartExpand
  <2> QED
    BY <2>2, <2>3 DEF PrepJob
<1>5. CASE EndPrepare(j)
  <2>1. /\ job[j].pc = "expand" /\ Close(j) /\ exp[j].at = "done"
        /\ Ended(j, "failed") \/ Goto(j, Prepared(j))
    BY <1>5 DEF EndPrepare, At, Wait
  <2>2. exp'[j].at = "off" /\ file' = file /\ dirs' = dirs
    BY <2>1, ExpClosedTypes DEF Close
  <2>3. CASE Ended(j, "failed")
    <3>1. job'[j].pc = "idle"
      BY <2>3, TypeFacts, EndedDoes
    <3> QED
      BY <3>1, NotPreparing DEF Preparing
  <2>4. CASE Goto(j, Prepared(j))
    <3>1. SameRequest(j) /\ job'[j].pc \in {"html", "load"}
      BY <2>4, TypeFacts, GotoDoes DEF Prepared, Places
    <3>2. Fresh(j)' => AllExpanded'
      BY <1>2, <2>1, <2>2, <3>1, SameTree DEF PrepJob
    <3> QED
      BY <2>2, <3>1, <3>2 DEF PrepJob
  <2> QED
    BY <2>1, <2>3, <2>4
<1>6. CASE ExpandHtml(j)
  <2>1. job[j].pc = "html" /\ job' = job /\ ExpandTree(j, Html) /\ UNCHANGED <<file, part, dirs>>
    BY <1>6 DEF ExpandHtml, At
  <2>2. Html \in SUBSET Archive
    BY ModuleDeployAssumption DEF Archive
  <2>3. exp'[j].at = "walk"
    BY <2>1, <2>2, BegunDoes
  <2>4. Fresh(j)' => AllExpanded'
    BY <1>1, <2>1, SameTree DEF PrepJob, Fresh
  <2> QED
    BY <2>1, <2>3, <2>4 DEF PrepJob
<1>7. CASE EndHtml(j)
  <2>1. job[j].pc = "html" /\ Goto(j, "load") /\ file' = file /\ dirs' = dirs
    BY <1>7 DEF EndHtml, At, Close
  <2>2. SameRequest(j) /\ job'[j].pc = "load"
    BY <2>1, TypeFacts, GotoDoes DEF Places
  <2>3. Fresh(j)' => AllExpanded'
    BY <1>2, <2>1, <2>2, SameTree DEF PrepJob
  <2> QED
    BY <2>2, <2>3 DEF PrepJob
<1>8. CASE ListTars(j)
  <2>1. job[j].pc = "load" /\ file' = file /\ dirs' = dirs
    BY <1>8, ListTarsDoes DEF treeVars
  <2>2. job'[j].pc \in {"find", "idle"} \/ (SameRequest(j) /\ job'[j].pc = "loading")
    BY <1>8, ListTarsDoes
  <2>3. SameRequest(j) /\ Fresh(j)' => AllExpanded'
    BY <1>2, <2>1, SameTree DEF PrepJob
  <2> QED
    BY <2>2, <2>3, NotPreparing DEF PrepJob, Preparing
<1>9. CASE Load(j)
  <2>1. job[j].pc \in {"loading", "baseloading"} /\ file' = file /\ dirs' = dirs
    BY <1>9 DEF Load, NoTree, treeVars
  <2>2. \/ job'[j].pc = "idle"
        \/ SameRequest(j) /\ job'[j].pc \in {job[j].pc, "env", "find", "basetag"}
           /\ (job'[j].pc = "env" => job[j].pc = "loading")
    BY <1>9, <2>1, TypeFacts, LoadDoes DEF Types, AfterLoad
  <2>3. SameRequest(j) /\ job[j].pc = "loading" /\ Fresh(j)' => AllExpanded'
    BY <1>2, <2>1, SameTree DEF PrepJob
  <2> QED
    BY <2>1, <2>2, <2>3, NotPreparing DEF PrepJob, Preparing
<1>10. CASE PatchEnv(j)
  <2>1. job[j].pc = "env" /\ file' = file /\ dirs' = dirs /\ SameRequest(j) /\ job'[j].pc \in {"env", "find"}
    BY <1>10, PatchEnvDoes DEF treeVars
  <2>2. Fresh(j)' => AllExpanded'
    BY <1>2, <2>1, SameTree DEF PrepJob
  <2> QED
    BY <2>1, <2>2 DEF PrepJob
<1>11. CASE Expanding(j)
  BY <1>1, <1>11, ExpandingPrep
<1>12. CASE \/ Skip(j) \/ FindProjects(j) \/ FindAgain(j) \/ Sync(j) \/ WriteCompose(j) \/ Check(j)
            \/ NeedBase(j) \/ ListBase(j) \/ TagBase(j) \/ ComposeUp(j)
  <2>1. Skip(j) => job'[j].pc = "idle"
    BY TypeFacts, EndedDoes DEF Skip
  <2>2. job'[j].pc \notin Preparing
    BY <1>12, <2>1, FindProjectsDoes, FindAgainDoes, SyncDoes, WriteComposeDoes, CheckDoes, NeedBaseDoes,
       ListBaseDoes, TagBaseDoes, ComposeUpDoes DEF Preparing
  <2> QED
    BY <2>2, NotPreparing
<1> QED
  BY <1>3, <1>4, <1>5, <1>6, <1>7, <1>8, <1>9, <1>10, <1>11, <1>12 DEF Step

LEMMA RequestPrep == ASSUME Types, PrepInv, NEW j \in Jobs, Request(j) PROVE PrepInv'
<1> SUFFICES ASSUME NEW k \in Jobs PROVE PrepJob(k)'
  BY DEF PrepInv
<1> SUFFICES ASSUME Fresh(k)' PROVE PrepJob(k)'
  BY DEF PrepJob
<1>1. /\ UNCHANGED treeVars /\ crew' = crew /\ harm' = harm
      /\ Cardinality({i \in Jobs : ~At(i, "idle")}) < crew
      /\ \A i \in Jobs : i # j => job'[i] = job[i] \/ (job[i].pc = "idle" /\ job'[i] = Idle)
      /\ job'[j].kind \in Requests /\ job'[j].pc = FirstOf(job'[j].kind)
      /\ job'[j].fresh <=> crew = 1 /\ \A t \in TarZips : ~IsTar(t)
  BY RequestDoes
<1>2. CASE k = j
  <2>1. job'[j].kind \in {"full", "up", "nginx"}
    BY <1>1, <1>2, ModuleDeployAssumption DEF Fresh
  <2>2. job'[j].pc \in {"prepare", "find"}
    BY <1>1, <2>1 DEF FirstOf
  <2>3. \A t \in TarZips : ~IsTar(t)'
    BY <1>1, <1>2 DEF Fresh, IsTar, Visible, treeVars
  <2> QED
    BY <1>2, <2>2, <2>3 DEF PrepJob
<1>3. CASE k # j /\ job'[k] = Idle
  BY <1>3, IdleFacts, NotPreparing DEF Preparing
<1>4. CASE k # j /\ job'[k] = job[k]
  <2>1. file' = file /\ dirs' = dirs /\ exp' = exp
    BY <1>1 DEF treeVars
  <2>2. \A a : Expanded(a)' <=> Expanded(a)
    BY <2>1, SameExpanded
  <2>3. (AllExpanded' <=> AllExpanded) /\ \A t : IsTar(t)' <=> IsTar(t)
    BY <2>1, SameTree DEF IsTar, Visible
  <2>4. Walked(k) => Walked(k)'
    BY <2>1, <2>2 DEF Walked, Finished, Seen, Behind, AtWork, AllSeen, Current, Visible
  <2>5. Fresh(k)
    BY <1>1, <1>4 DEF Fresh
  <2> QED
    BY <1>4, <2>1, <2>3, <2>4, <2>5 DEF PrepInv, PrepJob
<1> QED
  BY <1>1, <1>2, <1>3, <1>4

LEMMA NextPrep == Types /\ Alone /\ HeldOpen /\ PrepInv /\ [Next]_vars => PrepInv'
<1> SUFFICES ASSUME Types, Alone, HeldOpen, PrepInv, [Next]_vars PROVE PrepInv'
  OBVIOUS
<1>1. ASSUME NEW j \in Jobs, Request(j) PROVE PrepInv'
  BY <1>1, RequestPrep
<1>2. ASSUME NEW j \in Jobs, Harm(j) PROVE PrepInv'
  BY <1>2, HarmFacts DEF PrepInv, PrepJob, Fresh
<1>3. ASSUME NEW j \in Jobs, Step(j) PROVE PrepInv'
  <2>1. PrepJob(j)'
    BY <1>3, StepPrep DEF PrepInv
  <2>2. ASSUME NEW k \in Jobs, k # j PROVE PrepJob(k)'
    <3>1. OnlyJob(j) /\ crew' = crew /\ job[j].pc # "idle"
      BY <1>3, StepDoes
    <3>2. CASE crew = 1
      <4>1. job'[k].pc = "idle"
        BY <2>2, <3>1, <3>2, OthersAreOff DEF OnlyJob
      <4> QED
        BY <4>1, NotPreparing DEF Preparing
    <3>3. CASE crew # 1
      BY <3>1, <3>3 DEF PrepJob, Fresh
    <3> QED
      BY <3>2, <3>3
  <2> QED
    BY <2>1, <2>2 DEF PrepInv
<1>4. CASE UNCHANGED vars
  <2>1. file' = file /\ dirs' = dirs /\ exp' = exp /\ job' = job /\ crew' = crew /\ harm' = harm
    BY <1>4 DEF vars, treeVars, bounds
  <2>2. \A a : Expanded(a)' <=> Expanded(a)
    BY <2>1, SameExpanded
  <2>3. (AllExpanded' <=> AllExpanded) /\ \A t : IsTar(t)' <=> IsTar(t)
    BY <2>1, SameTree DEF IsTar, Visible
  <2>4. ASSUME NEW k \in Jobs PROVE PrepJob(k)'
    <3>1. Walked(k) => Walked(k)'
      BY <2>1, <2>2 DEF Walked, Finished, Seen, Behind, AtWork, AllSeen, Current, Visible
    <3> QED
      BY <2>1, <2>3, <3>1 DEF PrepInv, PrepJob, Fresh
  <2> QED
    BY <2>4 DEF PrepInv
<1> QED
  BY <1>1, <1>2, <1>3, <1>4 DEF Next

LEMMA InitPrep == Init => PrepInv
BY IdleFacts DEF Init, PrepInv, PrepJob, Fresh

LEMMA AlwaysPrep == Spec => []PrepInv
BY InitPrep, NextPrep, AlwaysTypes, AlwaysAlone, AlwaysHeld, PTL DEF Spec

\* Only a job that has the directory for itself counts as one that finds no .tar.
FreshAlone == \A j \in Jobs : job[j].pc # "idle" /\ job[j].fresh => crew = 1

LEMMA AlwaysFreshAlone == Spec => []FreshAlone
<1>1. Init => FreshAlone
  BY IdleFacts DEF Init, FreshAlone
<1>2. Types /\ FreshAlone /\ [Next]_vars => FreshAlone'
  <2> SUFFICES ASSUME Types, FreshAlone, [Next]_vars PROVE FreshAlone'
    OBVIOUS
  <2>1. ASSUME NEW j \in Jobs, Request(j) PROVE FreshAlone'
    BY <2>1, RequestDoes, IdleFacts DEF FreshAlone
  <2>2. ASSUME NEW j \in Jobs, Step(j) \/ Harm(j) PROVE FreshAlone'
    BY <2>2, StepDoes, HarmFacts DEF FreshAlone, OnlyJob, SameRequest
  <2>3. CASE UNCHANGED vars
    BY <2>3 DEF vars, bounds, FreshAlone
  <2> QED
    BY <2>1, <2>2, <2>3 DEF Next
<1> QED
  BY <1>1, <1>2, AlwaysTypes, PTL DEF Spec

\* However the archives of a package are nested, less than MaxPass deep, a job that
\* finds no .tar goes on only when everything is expanded, unless something failed
\* or another job was at work (expandTree: passes until one changes nothing).
THEOREM NothingLeftPacked == Spec => []PrepareExpandsAll
<1>1. PrepInv /\ FreshAlone => PrepareExpandsAll
  <2> SUFFICES ASSUME PrepInv, FreshAlone, NEW j \in Jobs, job[j].fresh, job[j].kind # "build", harm = 0,
                      job[j].pc \in {"load", "loading", "env"}
               PROVE  AllExpanded
    BY DEF PrepareExpandsAll
  <2> QED
    BY DEF PrepInv, PrepJob, Fresh, FreshAlone
<1> QED
  BY <1>1, AlwaysPrep, AlwaysFreshAlone, PTL

-----------------------------------------------------------------------------
(* A full job that ends well.                                              *)

\* A directory in which everything is expanded and nothing torn or half there.
Complete ==
  /\ AllExpanded
  /\ \A f \in Name : file[f] # "torn"
  /\ \A z \in Zips : ~Half(z)

\* A compose file names an image of its repository, also while it is rewritten.
NamesItsRepo ==
  /\ \A f \in Shipped : Visible(f)
  /\ \A p \in Project : compose[p] = "cut" \/ SameRepo(compose[p], p)
  /\ \A j \in Jobs : job[j].pc = "write" => SameRepo(job[j].want, This(j))

\* What a full job, alone, has loaded, changed and started by the time it is where
\* it is.
LoadedTag(j, tag) == \E i \in DOMAIN job[j].refs : job[j].refs[i] = tag
Up == {"find", "one", "write", "check", "compose"}
FullLoaded(j) ==
  /\ job[j].pc \in {"prepare", "expand", "load"} => job[j].refs = <<>>
  /\ \A i \in DOMAIN job[j].refs :
       images[job[j].refs[i]] = job[j].refs[i] /\ \E t \in TarZips : job[j].refs[i] = ImageIn[t]
  /\ job[j].pc \in Up => Found \subseteq env
FullTags(j) ==
  job[j].pc \in {"loading", "env"} \cup Up =>
    \A t \in TarZips : (job[j].pc = "loading" /\ t \in job[j].todo) \/ LoadedTag(j, ImageIn[t])
FullStarted(j) ==
  /\ job[j].pc \in {"one", "write", "check", "compose"} =>
       \A p \in Project \ job[j].ups : running[p] = {Names[p]}
  /\ job[j].pc = "write" => job[j].want = Names[This(j)]
  /\ job[j].pc \in {"check", "compose"} => compose[This(j)] \in {Names[This(j)], "cut"}
Full(j) == crew = 1 /\ job[j].kind = "full" /\ job[j].pc # "idle"
FullJob(j) == Full(j) => FullLoaded(j) /\ (Complete => FullTags(j) /\ FullStarted(j))
NotEnded(j) == job[j].pc # "idle" => job[j].end = "none"
FullInv == \A j \in Jobs : FullJob(j) /\ NotEnded(j)

\* In such a directory nothing is left within an archive: what is packed within
\* the outermost archive that is missing would have been expanded with it.
LEMMA AllThere ==
  ASSUME Types, NamesItsRepo, Complete
  PROVE  /\ \A a \in Archive : Visible(a)
         /\ \A t \in TarZips : IsTar(t)
         /\ Found = Project
         /\ \A p \in Project : file[p] = "whole"
<1>1. \A f \in Name : Visible(f) => file[f] = "whole"
  BY DEF Types, TypeOK, TreeTypeOK, Content, Visible, Complete
<1>2. \A z \in Zips : Visible(z) => \A f \in Held(z) : Visible(f)
  BY <1>1, ArchivesNamed DEF Archive, Complete, AllExpanded, Expanded, Half
<1>3. ASSUME NEW a \in Archive, ~Visible(a) PROVE FALSE
  <2> DEFINE missing == {Depth[b] : b \in {b \in Archive : ~Visible(b)}}
  <2>1. missing \in SUBSET Nat /\ missing # {}
    BY <1>3, DepthFacts
  <2>2. Least(missing) \in missing /\ \A d \in missing : Least(missing) <= d
    BY <2>1, LeastIsIn
  <2>3. PICK b \in Archive : ~Visible(b) /\ Depth[b] = Least(missing)
    BY <2>2
  <2>4. PICK z \in Zips : b \in Held(z)
    BY <2>3, PackageAssumption DEF NamesItsRepo
  <2>5. ~Visible(z)
    BY <1>2, <2>3, <2>4
  <2>6. Depth[z] < Depth[b] /\ Depth[z] \in Nat /\ Depth[b] \in Nat
    BY <2>4, DepthFacts DEF Archive
  <2>7. Depth[z] \in missing
    BY <2>5 DEF Archive
  <2> QED
    BY <2>2, <2>3, <2>6, <2>7
<1>4. \A t \in TarZips : IsTar(t)
  <2> TAKE t \in TarZips
  <2>1. t \in Archive /\ t \notin Zips
    BY ArchivesAssumption DEF Archive
  <2>2. file[t] = "whole"
    BY <1>1, <1>3, <2>1, ArchivesNamed
  <2> QED
    BY <2>1, <2>2 DEF Complete, AllExpanded, Expanded, IsTar
<1>5. \A p \in Project : Visible(p)
  <2> TAKE p \in Project
  <2>1. PICK z \in Zips : p \in Held(z)
    BY ModuleDeployAssumption
  <2> QED
    BY <1>2, <1>3, <2>1 DEF Archive
<1> QED
  BY <1>1, <1>3, <1>4, <1>5, ArchivesNamed DEF Found

\* What appears under a name stays.
LEMMA StaysVisible ==
  ASSUME Types, NEW j \in Jobs, Expanding(j), NEW f \in Name, Visible(f)
  PROVE  Visible(f)'
<1>1. file \in [Name -> Content]
  BY DEF Types, TypeOK, TreeTypeOK
<1>2. CASE Write(j) \/ Rename(j)
  <2> DEFINE g == Target(j)
  <2>1. CASE Write(j)
    <3>1. file' = IF exp[j].on = "target" THEN [file EXCEPT ![g] = "whole"] ELSE file
      BY <2>1 DEF Write
    <3> QED
      BY <1>1, <3>1 DEF Visible
  <2>2. CASE Rename(j)
    <3>1. file' = [file EXCEPT ![g] = part[g]] /\ part[g] # "none"
      BY <2>2 DEF Rename
    <3> QED
      BY <1>1, <3>1 DEF Visible
  <2> QED
    BY <1>2, <2>1, <2>2
<1>3. CASE Meet(j) \/ EndPass(j) \/ Open(j) \/ NothingToRename(j)
  BY <1>3 DEF Meet, EndPass, Open, NothingToRename, Visible
<1> QED
  BY <1>2, <1>3 DEF Expanding, ExpandStep

LEMMA StepStaysVisible ==
  ASSUME Types, NEW j \in Jobs, Step(j), NEW f \in Name, Visible(f)
  PROVE  Visible(f)'
BY TreeSteps, StaysVisible DEF Quiet, treeVars, Visible

LEMMA InitNames == Init => NamesItsRepo
<1> SUFFICES ASSUME Init PROVE NamesItsRepo
  OBVIOUS
<1>1. PICK damaged \in Damages : TreeInit(Shipped, damaged)
  BY DEF Init
<1>2. \A f \in Shipped : file[f] # "none"
  BY <1>1, ModuleDeployAssumption, ArchivesNamed DEF TreeInit
<1>3. \A p \in Project : compose[p] = Names[p]
  BY DEF Init
<1>4. \A k \in Jobs : job[k].pc = "idle"
  BY IdleFacts DEF Init
<1> QED
  BY <1>2, <1>3, <1>4 DEF NamesItsRepo, SameRepo, Visible

\* The steps that leave the compose files alone.
LEMMA ComposesNothing ==
  ASSUME Types, NEW j \in Jobs, Step(j), ~Sync(j), ~WriteCompose(j), ~Expanding(j)
  PROVE  compose' = compose /\ (job' = job \/ job'[j].pc # "write")
<1>1. CASE Load(j)
  <2>1. compose' = compose
    BY <1>1 DEF Load
  <2>2. job[j].pc \in {"loading", "baseloading"}
    BY <1>1 DEF Load
  <2> QED
    BY <1>1, <2>1, <2>2, TypeFacts, LoadDoes DEF Types, AfterLoad
<1>2. CASE ListTars(j)
  BY <1>2, ListTarsDoes DEF hostVars
<1>3. CASE ListBase(j)
  BY <1>3, ListBaseDoes DEF hostVars
<1>4. CASE TagBase(j)
  BY <1>4, TagBaseDoes
<1>5. CASE PatchEnv(j)
  BY <1>5, PatchEnvDoes
<1>6. CASE FindProjects(j)
  BY <1>6, FindProjectsDoes DEF hostVars
<1>7. CASE FindAgain(j)
  BY <1>7, FindAgainDoes DEF hostVars
<1>8. CASE Check(j)
  BY <1>8, CheckDoes DEF hostVars
<1>9. CASE NeedBase(j)
  BY <1>9, NeedBaseDoes DEF hostVars
<1>10. CASE ComposeUp(j)
  BY <1>10, ComposeUpDoes
<1>11. CASE Skip(j)
  BY <1>11, TypeFacts, EndedDoes DEF Skip, hostVars
<1>12. CASE AlreadyThere(j)
  BY <1>12, TypeFacts, GotoDoes DEF AlreadyThere, Prepared, Places, hostVars
<1>13. CASE StartExpand(j)
  <2>1. 1 \in 0 .. Rounds
    BY ModuleDeployAssumption
  <2> QED
    BY <1>13, <2>1, TypeFacts, RoundDoes DEF StartExpand, hostVars
<1>14. CASE EndPrepare(j)
  BY <1>14, TypeFacts, GotoDoes, EndedDoes DEF EndPrepare, Prepared, Places, hostVars
<1>15. CASE ExpandHtml(j)
  BY <1>15 DEF ExpandHtml, hostVars
<1>16. CASE EndHtml(j)
  BY <1>16, TypeFacts, GotoDoes DEF EndHtml, Places, hostVars
<1>17. CASE AnotherRound(j)
  <2>1. compose' = compose
    BY <1>17 DEF AnotherRound, hostVars
  <2> QED
    BY <1>17, <2>1, RepeatDoes, TypeFacts
<1> QED
  BY <1>1, <1>2, <1>3, <1>4, <1>5, <1>6, <1>7, <1>8, <1>9, <1>10, <1>11, <1>12, <1>13, <1>14,
     <1>15, <1>16, <1>17 DEF Step

\* What a job picks is of the repository of what the file named.
LEMMA PicksOfRepo ==
  ASSUME Types, NEW j \in Jobs, NEW cur, NEW new \in Picks(j, cur)
  PROVE  RepoOf[new] = RepoOf[cur]
<1>1. CASE Preferred(j, cur) # {}
  <2>1. Preferred(j, cur) \in SUBSET Nat
    BY TypeFacts DEF Preferred
  <2>2. Least(Preferred(j, cur)) \in Preferred(j, cur)
    BY <1>1, <2>1, LeastIsIn
  <2>3. new = job[j].refs[Least(Preferred(j, cur))]
    BY <1>1 DEF Picks
  <2> QED
    BY <2>2, <2>3 DEF Preferred
<1>2. CASE Preferred(j, cur) = {}
  BY <1>2 DEF Picks
<1> QED
  BY <1>1, <1>2

LEMMA SameThis ==
  ASSUME NEW k, job'[k].ups = job[k].ups
  PROVE  This(k)' = This(k)
BY DEF This

LEMMA SyncNames ==
  ASSUME Types, NamesItsRepo, NEW j \in Jobs, Sync(j)
  PROVE  /\ \A p \in Project : compose'[p] = "cut" \/ SameRepo(compose'[p], p)
         /\ job'[j].pc = "write" => SameRepo(job'[j].want, This(j)')
<1> DEFINE p == This(j)
<1>1. This(j)' = p
  BY SyncDoes, SameThis
<1>2. p \in Project /\ \A q \in Project : q # p => compose'[q] = compose[q]
  BY SyncDoes
<1>3. PICK new \in (IF Read(p) = "cut" THEN {"cut"} ELSE Picks(j, compose[p])) :
        \/ new = Read(p) /\ job'[j].pc = "check" /\ compose' = compose
        \/ /\ new # Read(p) /\ job'[j].pc = "write" /\ job'[j].want = new /\ new \in Tags
           /\ compose[p] \in Tags /\ compose'[p] = "cut"
  BY SyncDoes
<1>4. \A q \in Project : compose[q] = "cut" \/ SameRepo(compose[q], q)
  BY DEF NamesItsRepo
<1> HIDE DEF p
<1>5. CASE job'[j].pc = "check"
  BY <1>3, <1>4, <1>5
<1>6. CASE job'[j].pc = "write"
  <2>1. /\ job'[j].want = new /\ compose'[p] = "cut" /\ compose[p] \in Tags
        /\ new # Read(p) /\ new \in Tags
    BY <1>3, <1>6
  <2>2. Read(p) # "cut"
    BY <1>3, <2>1
  <2>3. compose[p] # "cut"
    BY <2>2 DEF Read
  <2>4. new \in Picks(j, compose[p])
    BY <1>3, <2>2
  <2>5. RepoOf[new] = RepoOf[compose[p]]
    BY <2>4, PicksOfRepo
  <2>6. SameRepo(new, p)
    BY <1>2, <1>4, <2>3, <2>5 DEF SameRepo
  <2> QED
    BY <1>1, <1>2, <1>4, <2>1, <2>6
<1> QED
  BY <1>3, <1>5, <1>6

LEMMA NextNames == Types /\ NamesItsRepo /\ [Next]_vars => NamesItsRepo'
<1> SUFFICES ASSUME Types, NamesItsRepo, [Next]_vars PROVE NamesItsRepo'
  OBVIOUS
<1>1. Shipped \subseteq Name
  BY ModuleDeployAssumption, ArchivesNamed
<1> DEFINE Kept == \A p \in Project : compose'[p] = "cut" \/ SameRepo(compose'[p], p)
           Wants(k) == job'[k].pc = "write" => SameRepo(job'[k].want, This(k)')
<1>2. \A k : job'[k] = job[k] => This(k)' = This(k)
  BY SameThis
<1>3. \A k \in Jobs : job'[k] = job[k] => Wants(k)
  BY <1>2 DEF NamesItsRepo
<1>4. compose' = compose => Kept
  BY DEF NamesItsRepo
<1>5. (\A f \in Shipped : Visible(f)') /\ Kept /\ (\A k \in Jobs : Wants(k)) => NamesItsRepo'
  BY DEF NamesItsRepo, SameRepo
<1> HIDE DEF Kept, Wants
<1>6. ASSUME NEW j \in Jobs, Request(j) PROVE NamesItsRepo'
  <2>1. file' = file /\ compose' = compose
    BY <1>6, RequestDoes DEF treeVars, hostVars
  <2>2. \A f \in Shipped : Visible(f)'
    BY <2>1 DEF NamesItsRepo, Visible
  <2>3. ASSUME NEW k \in Jobs PROVE Wants(k)
    <3>1. CASE job'[k].pc # "write"
      BY <3>1 DEF Wants
    <3>2. job'[j].pc # "write"
      BY <1>6, RequestDoes DEF FirstOf
    <3> QED
      BY <1>3, <1>6, <3>1, <3>2, RequestDoes, IdleFacts
  <2> QED
    BY <1>4, <1>5, <2>1, <2>2, <2>3
<1>7. ASSUME NEW j \in Jobs, Step(j) PROVE NamesItsRepo'
  <2>1. \A f \in Shipped : Visible(f)'
    BY <1>1, <1>7, StepStaysVisible DEF NamesItsRepo
  <2>2. \A k \in Jobs : k # j => Wants(k)
    BY <1>3, <1>7, StepDoes DEF OnlyJob
  <2>3. CASE Sync(j)
    <3>1. Kept /\ Wants(j)
      BY <2>3, SyncNames DEF Kept, Wants
    <3> QED
      BY <1>5, <2>1, <2>2, <3>1
  <2>4. CASE WriteCompose(j)
    <3> DEFINE p == This(j)
    <3>1. p \in Project /\ job[j].pc = "write" /\ job'[j].pc = "check"
      BY <2>4, WriteComposeDoes
    <3>2. SameRepo(job[j].want, p)
      BY <3>1 DEF NamesItsRepo
    <3>3. compose' = [compose EXCEPT ![p] = job[j].want] /\ compose \in [Project -> Tags \cup {"cut"}]
      BY <2>4, WriteComposeDoes DEF Types, TypeOK
    <3> HIDE DEF p
    <3>4. Kept
      BY <3>1, <3>2, <3>3 DEF Kept, NamesItsRepo
    <3>5. Wants(j)
      BY <3>1 DEF Wants
    <3> QED
      BY <1>5, <2>1, <2>2, <3>4, <3>5
  <2>5. CASE Expanding(j)
    <3>1. /\ job' = job
          /\ \A p \in Project : compose'[p] = IF p \in PutsNow(j) THEN Names[p] ELSE compose[p]
      BY <2>5 DEF Expanding
    <3>2. Kept
      BY <3>1 DEF Kept, NamesItsRepo, SameRepo
    <3> QED
      BY <1>3, <1>5, <2>1, <3>1, <3>2
  <2>6. CASE ~Sync(j) /\ ~WriteCompose(j) /\ ~Expanding(j)
    <3>1. compose' = compose /\ (job' = job \/ job'[j].pc # "write")
      BY <1>7, <2>6, ComposesNothing
    <3>2. Wants(j)
      BY <1>3, <3>1 DEF Wants
    <3> QED
      BY <1>4, <1>5, <2>1, <2>2, <3>1, <3>2
  <2> QED
    BY <2>3, <2>4, <2>5, <2>6
<1>8. ASSUME NEW j \in Jobs, Harm(j) PROVE NamesItsRepo'
  <2>1. compose' = compose /\ file' = file
    BY <1>8, HarmDoes DEF hostVars, EntryFails, treeVars, Close
  <2>2. \A f \in Shipped : Visible(f)'
    BY <2>1 DEF NamesItsRepo, Visible
  <2>3. \A k \in Jobs : job'[k] = job[k] \/ job'[k].pc = "idle"
    BY <1>8, HarmDoes DEF OnlyJob
  <2>4. \A k \in Jobs : Wants(k)
    BY <1>3, <2>3 DEF Wants
  <2> QED
    BY <1>4, <1>5, <2>1, <2>2, <2>4
<1>9. CASE UNCHANGED vars
  <2>1. file' = file /\ compose' = compose /\ job' = job
    BY <1>9 DEF vars, treeVars, hostVars
  <2>2. \A f \in Shipped : Visible(f)'
    BY <2>1 DEF NamesItsRepo, Visible
  <2> QED
    BY <1>3, <1>4, <1>5, <2>1, <2>2
<1> QED
  BY <1>6, <1>7, <1>8, <1>9 DEF Next

LEMMA AlwaysNames == Spec => []NamesItsRepo
BY InitNames, NextNames, AlwaysTypes, PTL DEF Spec

\* A job is not over before it is idle.
LEMMA NextNotEnded ==
  ASSUME Types, \A j \in Jobs : NotEnded(j), [Next]_vars
  PROVE  \A j \in Jobs : NotEnded(j)'
<1>1. ASSUME NEW j \in Jobs, Request(j) PROVE \A k \in Jobs : NotEnded(k)'
  BY <1>1, RequestDoes, IdleFacts DEF NotEnded
<1>2. ASSUME NEW j \in Jobs, Step(j) \/ Harm(j) PROVE \A k \in Jobs : NotEnded(k)'
  <2>1. OnlyJob(j) /\ job[j].pc # "idle" /\ (job'[j].pc = "idle" \/ SameRequest(j))
    BY <1>2, StepDoes, HarmFacts
  <2> QED
    BY <2>1 DEF NotEnded, OnlyJob, SameRequest
<1>3. CASE UNCHANGED vars
  BY <1>3 DEF vars, NotEnded
<1> QED
  BY <1>1, <1>2, <1>3 DEF Next

LEMMA SameComplete ==
  ASSUME file' = file, dirs' = dirs
  PROVE  (Complete' <=> Complete) /\ Found' = Found
<1>1. \A f : Visible(f)' <=> Visible(f)
  BY DEF Visible
<1>2. \A z : Half(z)' <=> Half(z)
  BY <1>1 DEF Half
<1> QED
  BY <1>1, <1>2, SameTree DEF Complete, Found

\* A job that has loaded what it had to, and goes on loading nothing.
LEMMA FullGoesOn ==
  ASSUME NEW j \in Jobs, Full(j), FullJob(j), images' = images, file' = file, dirs' = dirs,
         job'[j].refs = job[j].refs, job[j].pc \in {"env"} \cup Up, job'[j].pc \in {"env"} \cup Up,
         job'[j].pc \in Up => Found \subseteq env',
         Complete => FullStarted(j)'
  PROVE  FullJob(j)'
<1>1. (Complete' <=> Complete) /\ Found' = Found
  BY SameComplete
<1>2. FullLoaded(j)'
  BY <1>1 DEF FullJob, FullLoaded, Up
<1>3. FullTags(j) => FullTags(j)'
  BY DEF FullTags, LoadedTag, Up
<1> QED
  BY <1>1, <1>2, <1>3 DEF FullJob

\* While a full job prepares, nothing is loaded yet.
LEMMA FullPrepares ==
  ASSUME NEW j, job'[j].pc \in {"prepare", "expand", "load"}, job'[j].refs = <<>>
  PROVE  FullJob(j)'
<1>1. DOMAIN job'[j].refs = {}
  OBVIOUS
<1> QED
  BY <1>1 DEF FullJob, FullLoaded, FullTags, FullStarted, Up

LEMMA FullListTars ==
  ASSUME Types, NamesItsRepo, NEW j \in Jobs, Full(j), FullJob(j), ListTars(j)
  PROVE  FullJob(j)'
<1>1. job[j].pc = "load" /\ UNCHANGED treeVars
  BY ListTarsDoes
<1>2. job[j].refs = <<>>
  BY <1>1 DEF FullJob, FullLoaded
<1>3. CASE job'[j].pc = "idle"
  BY <1>3 DEF FullJob, Full
<1>4. CASE job'[j].pc = "loading" /\ job'[j].todo = TarsOf(TarZips) /\ job'[j].refs = <<>>
  <2>1. DOMAIN job'[j].refs = {}
    BY <1>4
  <2>2. FullLoaded(j)'
    BY <1>4, <2>1 DEF FullLoaded, Up
  <2>3. Complete' => Complete
    BY <1>1, SameComplete DEF treeVars
  <2>4. Complete => job'[j].todo = TarZips
    BY <1>4, AllThere DEF TarsOf
  <2>5. Complete => FullTags(j)'
    BY <1>4, <2>4 DEF FullTags
  <2>6. FullStarted(j)'
    BY <1>4 DEF FullStarted
  <2> QED
    BY <2>2, <2>3, <2>5, <2>6 DEF FullJob
<1> QED
  BY <1>2, <1>3, <1>4, ListTarsDoes DEF Full

\* One more .tar of a full job: the list before is that of the moment.
LEMMA FullLoads ==
  ASSUME Types, BaseInv, NEW j \in Jobs, Full(j), FullJob(j), Load(j)
  PROVE  FullJob(j)'
<1> DEFINE t == NextTar(j)
           tag == ImageIn[t]
<1>1. job[j].pc = "loading" /\ job[j].kind = "full" /\ crew = 1
  BY TypeFacts DEF Full, Load, Asked
<1>2. t \in TarZips /\ tag \in Tags /\ TypeOK /\ Lists(job[j])
  BY TypeFacts, LoadDoes DEF Types
<1>3. UNCHANGED treeVars
  BY DEF Load, NoTree
<1>4. CASE job'[j].pc = "idle"
  BY <1>4 DEF FullJob, Full
<1>5. CASE \E refs \in SetToSeqs(NewRefs(j, tag)) :
             /\ images' = BaseTag(j, refs, Loaded(j, tag))
             /\ SameRequest(j) /\ job'[j].refs = job[j].refs \o refs
             /\ IF job[j].todo \ {t} = {} THEN job'[j].pc = AfterLoad(j)
                ELSE job'[j].pc = job[j].pc /\ job'[j].todo = job[j].todo \ {t}
  <2>1. PICK refs \in SetToSeqs(NewRefs(j, tag)) :
             /\ images' = BaseTag(j, refs, Loaded(j, tag))
             /\ job'[j].refs = job[j].refs \o refs
             /\ IF job[j].todo \ {t} = {} THEN job'[j].pc = AfterLoad(j)
                ELSE job'[j].pc = job[j].pc /\ job'[j].todo = job[j].todo \ {t}
    BY <1>5
  <2> HIDE DEF t, tag
  <2>2. job[j].before = Local
    BY <1>1 DEF BaseInv, BaseJob
  <2>3. NewRefs(j, tag) = {tag}
    BY <1>2, <2>2, NewRefsSome
  <2>4. NewRefs(j, tag) \in SUBSET Tags
    BY <1>2, NewRefsSome
  <2>5. /\ images' \in [Tags -> Tags \cup {"none"}] /\ images'[tag] = tag
        /\ \A x \in Tags : x # tag /\ images[x] # "none" => images'[x] = images[x]
    BY <1>2, <2>1, LoadedTags
  <2>6. refs \in Seq(Tags) /\ (\A i \in DOMAIN refs : refs[i] = tag) /\ \E i \in DOMAIN refs : refs[i] = tag
    <3> DEFINE S == NewRefs(j, tag)
    <3>1. S \in SUBSET Tags /\ S # {} /\ refs \in SetToSeqs(S) /\ S = {tag}
      BY <2>3, <2>4
    <3> HIDE DEF S
    <3>2. /\ refs \in Seq(Tags) /\ Len(refs) \in Nat \ {0} /\ DOMAIN refs = 1 .. Len(refs)
          /\ \A i \in DOMAIN refs : refs[i] \in S
      BY <3>1, SomeOrder
    <3>3. 1 \in DOMAIN refs
      BY <3>2
    <3> QED
      BY <3>1, <3>2, <3>3
  <2>7. job[j].refs \in Seq(Tags)
    BY TypeFacts
  <2>8. /\ \A i \in DOMAIN job[j].refs : i \in DOMAIN job'[j].refs /\ job'[j].refs[i] = job[j].refs[i]
        /\ \E i \in DOMAIN job'[j].refs : job'[j].refs[i] = tag
        /\ \A i \in DOMAIN job'[j].refs :
             job'[j].refs[i] = tag \/ (i \in DOMAIN job[j].refs /\ job'[j].refs[i] = job[j].refs[i])
    <3> DEFINE old == job[j].refs
               all == job'[j].refs
    <3>1. all = old \o refs /\ old \in Seq(Tags)
      BY <2>1, <2>7
    <3> HIDE DEF old, all
    <3>2. /\ \A i \in DOMAIN old : i \in DOMAIN all /\ all[i] = old[i]
          /\ \A i \in DOMAIN refs : Len(old) + i \in DOMAIN all /\ all[Len(old) + i] = refs[i]
          /\ \A i \in DOMAIN all : \/ i \in DOMAIN old /\ all[i] = old[i]
                                   \/ \E k \in DOMAIN refs : all[i] = refs[k]
      BY <2>6, <3>1, ConcatRefs
    <3>3. \E i \in DOMAIN all : all[i] = tag
      BY <2>6, <3>2
    <3>4. \A i \in DOMAIN all : all[i] = tag \/ (i \in DOMAIN old /\ all[i] = old[i])
      BY <2>6, <3>2
    <3> QED
      BY <3>2, <3>3, <3>4 DEF old, all
  <2>9. job'[j].pc \in {"loading", "env"}
    BY <1>1, <2>1 DEF AfterLoad
  <2>10. \A i \in DOMAIN job[j].refs : images[job[j].refs[i]] = job[j].refs[i] /\ \E s \in TarZips : job[j].refs[i] = ImageIn[s]
    BY DEF FullJob, FullLoaded
  <2>11. \A i \in DOMAIN job[j].refs : job[j].refs[i] \in Tags /\ job[j].refs[i] # "none"
    BY <2>7, ModuleDeployAssumption
  <2>12. \E s \in TarZips : tag = ImageIn[s]
    BY <1>2 DEF tag
  <2>13. FullLoaded(j)'
    BY <2>5, <2>8, <2>9, <2>10, <2>11, <2>12 DEF FullLoaded, Up
  <2>14. ASSUME Complete' PROVE FullTags(j)' /\ FullStarted(j)'
    <3>1. Complete
      BY <1>3, <2>14, SameComplete DEF treeVars
    <3>2. \A s \in TarZips : s \in job[j].todo \/ LoadedTag(j, ImageIn[s])
      BY <1>1, <3>1 DEF FullJob, FullTags
    <3>3. \A x : LoadedTag(j, x) \/ x = tag => LoadedTag(j, x)'
      BY <2>8 DEF LoadedTag
    <3>4. \A s \in TarZips : s = t => ImageIn[s] = tag
      BY DEF tag
    <3>5. \A s \in TarZips : s \in job[j].todo \ {t} \/ LoadedTag(j, ImageIn[s])'
      BY <3>2, <3>3, <3>4
    <3>6. job'[j].pc = "loading" => job'[j].todo = job[j].todo \ {t}
      BY <1>1, <2>1 DEF AfterLoad
    <3>7. job'[j].pc # "loading" => job[j].todo \ {t} = {}
      BY <1>1, <2>1
    <3> QED
      BY <2>9, <3>5, <3>6, <3>7 DEF FullTags, FullStarted
  <2> QED
    BY <2>13, <2>14 DEF FullJob
<1> QED
  BY <1>1, <1>2, <1>4, <1>5, LoadDoes

LEMMA FullPatchesEnv ==
  ASSUME Types, NEW j \in Jobs, Full(j), FullJob(j), PatchEnv(j)
  PROVE  FullJob(j)'
<1>1. /\ job[j].pc = "env" /\ UNCHANGED treeVars /\ images' = images /\ job'[j].refs = job[j].refs
      /\ \/ Found \subseteq env /\ env' = env /\ job'[j].pc = "find"
         \/ job'[j].pc = "env"
  BY PatchEnvDoes
<1>2. FullStarted(j)'
  BY <1>1 DEF FullStarted
<1>3. job'[j].pc \in Up => Found \subseteq env'
  BY <1>1 DEF Up
<1>4. file' = file /\ dirs' = dirs /\ job'[j].pc \in {"env"} \cup Up
  BY <1>1 DEF treeVars, Up
<1> QED
  BY <1>1, <1>2, <1>3, <1>4, FullGoesOn

LEMMA FullFinds ==
  ASSUME Types, NamesItsRepo, NEW j \in Jobs, Full(j), FullJob(j), FindProjects(j)
  PROVE  FullJob(j)'
<1>1. /\ job[j].pc = "find" /\ file' = file /\ dirs' = dirs /\ images' = images /\ env' = env
  BY FindProjectsDoes DEF hostVars
<1>2. CASE job'[j].pc = "idle"
  BY <1>2 DEF FullJob, Full
<1>3. CASE job'[j].pc = "one" /\ job'[j].ups = Found /\ job'[j].refs = job[j].refs
  <2>1. Complete => Project \ job'[j].ups = {}
    BY <1>3, AllThere
  <2>2. Complete => FullStarted(j)'
    BY <1>3, <2>1 DEF FullStarted
  <2>3. Found \subseteq env'
    BY <1>1 DEF FullJob, FullLoaded, Up
  <2>4. job[j].pc \in {"env"} \cup Up /\ job'[j].pc \in {"env"} \cup Up
    BY <1>1, <1>3 DEF Up
  <2> QED
    BY <1>1, <1>3, <2>2, <2>3, <2>4, FullGoesOn
<1> QED
  BY <1>2, <1>3, FindProjectsDoes DEF Full

\* The image of each project is one of those that were loaded.
LEMMA FullHasImage ==
  ASSUME NEW j \in Jobs, Full(j), FullJob(j), Complete, job[j].pc \in {"env"} \cup Up, NEW p \in Project
  PROVE  LoadedTag(j, Names[p]) /\ images[Names[p]] = Names[p]
<1>1. PICK t \in TarZips : ImageIn[t] = Names[p]
  BY PackageAssumption
<1>2. LoadedTag(j, Names[p])
  BY <1>1 DEF FullJob, FullTags, Up
<1> QED
  BY <1>2 DEF LoadedTag, FullJob, FullLoaded

\* What a full job picks for a file is the image that the file came with.
LEMMA FullPicks ==
  ASSUME Types, NamesItsRepo, NEW j \in Jobs, Full(j), FullJob(j), Complete, job[j].pc = "one",
         NEW p \in Project, compose[p] # "cut", NEW new \in Picks(j, compose[p])
  PROVE  new = Names[p]
<1> DEFINE pref == Preferred(j, compose[p])
<1>1. LoadedTag(j, Names[p])
  BY FullHasImage DEF Up
<1>2. SameRepo(compose[p], p)
  BY DEF NamesItsRepo
<1>3. pref \in SUBSET Nat /\ pref # {}
  BY <1>1, <1>2, TypeFacts DEF Preferred, LoadedTag, SameRepo
<1> HIDE DEF pref
<1>4. Least(pref) \in pref
  BY <1>3, LeastIsIn
<1>5. new = job[j].refs[Least(pref)]
  BY <1>3 DEF pref, Picks
<1>6. Least(pref) \in DOMAIN job[j].refs /\ RepoOf[new] = RepoOf[compose[p]]
  BY <1>4, <1>5 DEF pref, Preferred
<1>7. PICK t \in TarZips : new = ImageIn[t]
  BY <1>5, <1>6 DEF FullJob, FullLoaded
<1>8. SameRepo(ImageIn[t], p)
  BY <1>2, <1>6, <1>7 DEF SameRepo
<1> QED
  BY <1>7, <1>8, PackageAssumption

LEMMA FullSyncs ==
  ASSUME Types, NamesItsRepo, NEW j \in Jobs, Full(j), FullJob(j), Sync(j)
  PROVE  FullJob(j)'
<1> DEFINE p == This(j)
<1>1. /\ job[j].pc = "one" /\ file' = file /\ dirs' = dirs /\ images' = images /\ env' = env
      /\ running' = running /\ job'[j].refs = job[j].refs /\ job'[j].ups = job[j].ups /\ p \in Project
  BY SyncDoes DEF treeVars
<1>2. This(j)' = p
  BY <1>1, SameThis
<1>3. PICK new \in (IF Read(p) = "cut" THEN {"cut"} ELSE Picks(j, compose[p])) :
        \/ new = Read(p) /\ job'[j].pc = "check" /\ compose' = compose
        \/ /\ new # Read(p) /\ job'[j].pc = "write" /\ job'[j].want = new /\ new \in Tags
           /\ compose[p] \in Tags /\ compose'[p] = "cut"
  BY SyncDoes
<1> HIDE DEF p
<1>4. ASSUME Complete PROVE FullStarted(j)'
  <2>1. Read(p) = compose[p]
    BY <1>1, <1>4, AllThere DEF Read
  <2>2. new \in {Names[p], "cut"}
    BY <1>1, <1>3, <1>4, <2>1, FullPicks
  <2>3. new = "cut" => Read(p) = "cut"
    <3>1. CASE Read(p) # "cut"
      <4>1. new = Names[p]
        BY <1>1, <1>3, <1>4, <2>1, <3>1, FullPicks
      <4> QED
        BY <1>1, <4>1, ModuleDeployAssumption
    <3> QED
      BY <3>1
  <2>4. job'[j].pc \in {"check", "write"}
    BY <1>3
  <2>5. job'[j].pc = "check" => compose'[p] \in {Names[p], "cut"}
    BY <1>3, <2>1, <2>2
  <2>6. job'[j].pc = "write" => job'[j].want = Names[p]
    BY <1>3, <2>2, <2>3
  <2>7. \A q \in Project \ job[j].ups : running[q] = {Names[q]}
    BY <1>1, <1>4 DEF FullJob, FullStarted
  <2> QED
    BY <1>1, <1>2, <2>4, <2>5, <2>6, <2>7 DEF FullStarted
<1>5. job[j].pc \in {"env"} \cup Up /\ job'[j].pc \in {"env"} \cup Up
  BY <1>1, <1>3 DEF Up
<1>6. Found \subseteq env'
  BY <1>1 DEF FullJob, FullLoaded, Up
<1> QED
  BY <1>1, <1>4, <1>5, <1>6, FullGoesOn

LEMMA FullWrites ==
  ASSUME Types, NEW j \in Jobs, Full(j), FullJob(j), WriteCompose(j)
  PROVE  FullJob(j)'
<1> DEFINE p == This(j)
<1>1. /\ job[j].pc = "write" /\ file' = file /\ dirs' = dirs /\ images' = images /\ env' = env
      /\ running' = running /\ job'[j].refs = job[j].refs /\ job'[j].ups = job[j].ups /\ p \in Project
      /\ compose' = [compose EXCEPT ![p] = job[j].want] /\ job'[j].pc = "check"
  BY WriteComposeDoes DEF treeVars
<1>2. This(j)' = p
  BY <1>1, SameThis
<1>3. compose \in [Project -> Tags \cup {"cut"}]
  BY DEF Types, TypeOK
<1>4. Complete => job[j].want = Names[p] /\ \A q \in Project \ job[j].ups : running[q] = {Names[q]}
  BY <1>1 DEF FullJob, FullStarted
<1> HIDE DEF p
<1>5. ASSUME Complete PROVE FullStarted(j)'
  <2>1. compose'[p] = Names[p]
    BY <1>1, <1>3, <1>4, <1>5
  <2> QED
    BY <1>1, <1>2, <1>4, <1>5, <2>1 DEF FullStarted
<1>6. job[j].pc \in {"env"} \cup Up /\ job'[j].pc \in {"env"} \cup Up
  BY <1>1 DEF Up
<1>7. Found \subseteq env'
  BY <1>1 DEF FullJob, FullLoaded, Up
<1> QED
  BY <1>1, <1>5, <1>6, <1>7, FullGoesOn

LEMMA FullChecks ==
  ASSUME Types, NEW j \in Jobs, Full(j), FullJob(j), Check(j)
  PROVE  FullJob(j)'
<1>1. /\ job[j].pc = "check" /\ file' = file /\ dirs' = dirs /\ images' = images /\ env' = env
      /\ running' = running /\ compose' = compose
  BY CheckDoes DEF treeVars, hostVars
<1>2. CASE job'[j].pc = "idle"
  BY <1>2 DEF FullJob, Full
<1>3. CASE job'[j].pc = "compose" /\ job'[j].refs = job[j].refs /\ job'[j].ups = job[j].ups
  <2>1. This(j)' = This(j)
    BY <1>3, SameThis
  <2>2. Complete => /\ compose[This(j)] \in {Names[This(j)], "cut"}
                    /\ \A q \in Project \ job[j].ups : running[q] = {Names[q]}
    BY <1>1 DEF FullJob, FullStarted
  <2>3. Complete => FullStarted(j)'
    BY <1>1, <1>3, <2>1, <2>2 DEF FullStarted
  <2>4. job[j].pc \in {"env"} \cup Up /\ job'[j].pc \in {"env"} \cup Up
    BY <1>1, <1>3 DEF Up
  <2>5. Found \subseteq env'
    BY <1>1 DEF FullJob, FullLoaded, Up
  <2> QED
    BY <1>1, <1>3, <2>3, <2>4, <2>5, FullGoesOn
<1> QED
  BY <1>2, <1>3, CheckDoes

\* The project that goes up runs the image of the package.
LEMMA FullStarts ==
  ASSUME Types, NamesItsRepo, NEW j \in Jobs, Full(j), FullJob(j), Complete, job[j].pc = "compose",
         NEW p, p = This(j), p \in Project, Read(p) # "cut",
         running' = [running EXCEPT ![p] = MadeOf(j, p)]
  PROVE  \A q \in Project : q \notin job[j].ups \ {p} => running'[q] = {Names[q]}
<1>1. Read(p) = compose[p]
  BY AllThere DEF Read
<1>2. compose[p] = Names[p]
  BY <1>1 DEF FullJob, FullStarted
<1>3. images[Names[p]] = Names[p]
  BY FullHasImage DEF Up
<1>4. MadeOf(j, p) = {Names[p]}
  BY <1>2, <1>3 DEF MadeOf, Full
<1>5. \A q \in Project \ job[j].ups : running[q] = {Names[q]}
  BY DEF FullJob, FullStarted
<1>6. running \in [Project -> SUBSET Tags]
  BY DEF Types, TypeOK
<1> QED
  BY <1>4, <1>5, <1>6

LEMMA FullComposesUp ==
  ASSUME Types, NamesItsRepo, NEW j \in Jobs, Full(j), FullJob(j), ComposeUp(j)
  PROVE  FullJob(j)'
<1> DEFINE p == This(j)
<1>1. /\ job[j].pc = "compose" /\ file' = file /\ dirs' = dirs /\ images' = images /\ env' = env
      /\ compose' = compose /\ p \in Project
  BY ComposeUpDoes DEF treeVars
<1>2. CASE job'[j].pc = "idle"
  BY <1>2 DEF FullJob, Full
<1>3. CASE /\ Read(p) # "cut" /\ running' = [running EXCEPT ![p] = MadeOf(j, p)]
           /\ job'[j].pc = "one" /\ job'[j].refs = job[j].refs /\ job'[j].ups = job[j].ups \ {p}
  <2> HIDE DEF p
  <2>1. Complete => \A q \in Project : q \notin job[j].ups \ {p} => running'[q] = {Names[q]}
    BY <1>1, <1>3, FullStarts DEF p
  <2>2. Complete => FullStarted(j)'
    BY <1>3, <2>1 DEF FullStarted
  <2>3. job[j].pc \in {"env"} \cup Up /\ job'[j].pc \in {"env"} \cup Up
    BY <1>1, <1>3 DEF Up
  <2>4. Found \subseteq env'
    BY <1>1 DEF FullJob, FullLoaded, Up
  <2> QED
    BY <1>1, <1>3, <2>2, <2>3, <2>4, FullGoesOn
<1> QED
  BY <1>2, <1>3, ComposeUpDoes

LEMMA StepFull ==
  ASSUME Types, BaseInv, NamesItsRepo, NEW j \in Jobs, Full(j), FullJob(j), Step(j)
  PROVE  FullJob(j)'
<1>1. job[j].kind = "full" /\ Asked(job[j])
  BY TypeFacts DEF Full
<1>2. CASE AlreadyThere(j) \/ EndPrepare(j)
  <2>1. job[j].pc \in {"prepare", "expand"} /\ Prepared(j) = "load"
    BY <1>1, <1>2 DEF AlreadyThere, EndPrepare, At, Prepared
  <2>2. job[j].refs = <<>>
    BY <2>1 DEF FullJob, FullLoaded
  <2>3. Goto(j, "load") \/ Ended(j, "failed")
    BY <1>2, <2>1 DEF AlreadyThere, EndPrepare
  <2>4. CASE Goto(j, "load")
    <3>1. job'[j].pc = "load" /\ job'[j].refs = <<>>
      BY <2>2, <2>4, TypeFacts, GotoDoes DEF Places
    <3> QED
      BY <3>1, FullPrepares
  <2>5. CASE Ended(j, "failed")
    <3>1. job'[j].pc = "idle"
      BY <2>5, TypeFacts, EndedDoes
    <3> QED
      BY <3>1 DEF FullJob, Full
  <2> QED
    BY <2>3, <2>4, <2>5
<1>3. CASE StartExpand(j)
  <2>1. 1 \in 0 .. Rounds /\ job[j].pc = "prepare"
    BY <1>3, ModuleDeployAssumption DEF StartExpand, At
  <2>2. job'[j].pc = "expand" /\ job'[j].refs = job[j].refs
    BY <1>3, <2>1, TypeFacts, RoundDoes DEF StartExpand
  <2>3. job[j].refs = <<>>
    BY <2>1 DEF FullJob, FullLoaded
  <2> QED
    BY <2>2, <2>3, FullPrepares
<1>4. CASE AnotherRound(j)
  <2>1. job'[j].pc = "expand" /\ job'[j].refs = job[j].refs /\ job[j].pc = "expand"
    BY <1>4, TypeFacts, RepeatDoes DEF AnotherRound, At
  <2>2. job[j].refs = <<>>
    BY <2>1 DEF FullJob, FullLoaded
  <2> QED
    BY <2>1, <2>2, FullPrepares
<1>5. CASE Expanding(j)
  <2>1. exp[j].at # "off" /\ job' = job
    BY <1>5 DEF Expanding, ExpandStep, Meet, EndPass, Open, Write, Rename, NothingToRename
  <2>2. job[j].pc = "expand"
    BY <1>1, <2>1, NotWaiting DEF Asked
  <2>3. job[j].refs = <<>>
    BY <2>2 DEF FullJob, FullLoaded
  <2> QED
    BY <2>1, <2>2, <2>3, FullPrepares
<1>6. CASE \/ Skip(j) \/ ExpandHtml(j) \/ EndHtml(j) \/ FindAgain(j) \/ NeedBase(j) \/ ListBase(j)
           \/ TagBase(j)
  BY <1>1, <1>6 DEF Asked, Skip, ExpandHtml, EndHtml, FindAgain, NeedBase, ListBase, TagBase, At
<1> QED
  BY <1>2, <1>3, <1>4, <1>5, <1>6, FullListTars, FullLoads, FullPatchesEnv, FullFinds, FullSyncs,
     FullWrites, FullChecks, FullComposesUp DEF Step

LEMMA InitFull == Init => FullInv
<1> SUFFICES ASSUME Init PROVE FullInv
  OBVIOUS
<1>1. \A k \in Jobs : job[k].pc = "idle"
  BY IdleFacts DEF Init
<1> QED
  BY <1>1 DEF FullInv, FullJob, Full, NotEnded

LEMMA NextFull == Types /\ Alone /\ BaseInv /\ NamesItsRepo /\ FullInv /\ [Next]_vars => FullInv'
<1> SUFFICES ASSUME Types, Alone, BaseInv, NamesItsRepo, FullInv, [Next]_vars PROVE FullInv'
  OBVIOUS
<1>1. \A j \in Jobs : NotEnded(j)'
  BY NextNotEnded DEF FullInv
<1>2. \A k \in Jobs : FullJob(k)
  BY DEF FullInv
<1>3. ASSUME NEW j \in Jobs, Request(j) PROVE \A k \in Jobs : FullJob(k)'
  <2> SUFFICES ASSUME crew = 1, NEW k \in Jobs PROVE FullJob(k)'
    BY <1>3, RequestDoes DEF FullJob, Full
  <2>1. CASE k # j
    <3>1. job'[k].pc = "idle"
      BY <1>3, <2>1, RequestDoes, RequestAmongIdle, IdleFacts
    <3> QED
      BY <3>1 DEF FullJob, Full
  <2>2. CASE k = j /\ job'[j].kind = "full"
    <3>1. job'[j].pc = "prepare" /\ job'[j].refs = <<>>
      BY <1>3, <2>2, RequestDoes DEF FirstOf
    <3> QED
      BY <2>2, <3>1, FullPrepares
  <2>3. CASE k = j /\ job'[j].kind # "full"
    BY <2>3 DEF FullJob, Full
  <2> QED
    BY <2>1, <2>2, <2>3
<1>4. ASSUME NEW j \in Jobs, Step(j) \/ Harm(j), NEW k \in Jobs, k # j PROVE FullJob(k)'
  <2>1. OnlyJob(j) /\ crew' = crew /\ job[j].pc # "idle"
    BY <1>4, StepDoes, HarmFacts
  <2>2. crew = 1 => job'[k].pc = "idle"
    BY <1>4, <2>1 DEF Alone, OnlyJob
  <2> QED
    BY <2>1, <2>2 DEF FullJob, Full
<1>5. ASSUME NEW j \in Jobs, Step(j) PROVE FullJob(j)'
  <2>1. CASE Full(j)
    BY <1>2, <1>5, <2>1, StepFull
  <2>2. CASE ~Full(j)
    BY <1>5, <2>2, StepDoes DEF FullJob, Full, SameRequest
  <2> QED
    BY <2>1, <2>2
<1>6. ASSUME NEW j \in Jobs, Harm(j) PROVE FullJob(j)'
  <2>1. CASE job'[j].pc = "idle"
    BY <2>1 DEF FullJob, Full
  <2>2. CASE EntryFails(j) /\ job' = job
    <3>1. exp[j].at # "off" /\ crew' = crew
      BY <1>6, <2>2, HarmDoes DEF EntryFails
    <3>2. CASE Full(j)
      <4>1. job[j].pc = "expand"
        BY <3>1, <3>2, NotWaiting, TypeFacts DEF Full, Asked
      <4>2. job[j].refs = <<>>
        BY <1>2, <3>2, <4>1 DEF FullJob, FullLoaded
      <4> QED
        BY <2>2, <4>1, <4>2, FullPrepares
    <3>3. CASE ~Full(j)
      BY <2>2, <3>1, <3>3 DEF FullJob, Full
    <3> QED
      BY <3>2, <3>3
  <2> QED
    BY <1>6, <2>1, <2>2, HarmDoes
<1>7. CASE UNCHANGED vars
  <2>1. /\ images' = images /\ env' = env /\ compose' = compose /\ running' = running /\ job' = job
        /\ file' = file /\ dirs' = dirs /\ crew' = crew
    BY <1>7 DEF vars, treeVars, hostVars, bounds
  <2>2. (Complete' <=> Complete) /\ Found' = Found
    BY <2>1, SameComplete
  <2> SUFFICES ASSUME NEW k \in Jobs PROVE FullJob(k)'
    BY <1>1 DEF FullInv
  <2>3. This(k)' = This(k)
    BY <2>1, SameThis
  <2>4. FullLoaded(k) => FullLoaded(k)'
    BY <2>1, <2>2 DEF FullLoaded
  <2>5. FullTags(k) => FullTags(k)'
    BY <2>1 DEF FullTags, LoadedTag
  <2>6. FullStarted(k) => FullStarted(k)'
    BY <2>1, <2>3 DEF FullStarted
  <2> QED
    BY <1>2, <2>1, <2>2, <2>4, <2>5, <2>6 DEF FullJob, Full
<1> QED
  BY <1>1, <1>3, <1>4, <1>5, <1>6, <1>7 DEF Next, FullInv

LEMMA AlwaysFull == Spec => []FullInv
<1>1. Spec => []BaseInv
  BY InitBase, NextBase, AlwaysTypes, AlwaysAlone, PTL DEF Spec
<1> QED
  BY <1>1, InitFull, NextFull, AlwaysTypes, AlwaysAlone, AlwaysNames, PTL DEF Spec

\* The only step by which a job ends well is its last compose up.
LEMMA EndsOk ==
  ASSUME Types, NEW j \in Jobs, Step(j), NotEnded(j), job'[j].end = "ok"
  PROVE  ComposeUp(j) /\ job[j].ups \ {This(j)} = {} /\ Read(This(j)) # "cut"
         /\ running' = [running EXCEPT ![This(j)] = MadeOf(j, This(j))]
<1>1. job[j].end = "none" /\ ~SameRequest(j)
  BY StepDoes DEF NotEnded, SameRequest
<1>2. CASE Skip(j)
  BY <1>2, TypeFacts, EndedDoes DEF Skip
<1>3. CASE AlreadyThere(j)
  BY <1>1, <1>3, TypeFacts, GotoDoes DEF AlreadyThere, Prepared, Places
<1>4. CASE StartExpand(j)
  <2>1. 1 \in 0 .. Rounds
    BY ModuleDeployAssumption
  <2> QED
    BY <1>1, <1>4, <2>1, TypeFacts, RoundDoes DEF StartExpand
<1>5. CASE AnotherRound(j)
  BY <1>1, <1>5, TypeFacts, RepeatDoes
<1>6. CASE EndPrepare(j)
  BY <1>1, <1>6, TypeFacts, GotoDoes, EndedDoes DEF EndPrepare, Prepared, Places
<1>7. CASE ExpandHtml(j) \/ Expanding(j)
  BY <1>1, <1>7 DEF ExpandHtml, Expanding
<1>8. CASE EndHtml(j)
  BY <1>1, <1>8, TypeFacts, GotoDoes DEF EndHtml, Places
<1>9. CASE ListTars(j)
  BY <1>1, <1>9, ListTarsDoes
<1>10. CASE Load(j)
  BY <1>1, <1>10, TypeFacts, LoadDoes DEF Types
<1>11. CASE PatchEnv(j)
  BY <1>1, <1>11, PatchEnvDoes
<1>12. CASE FindProjects(j)
  BY <1>1, <1>12, FindProjectsDoes
<1>13. CASE FindAgain(j)
  BY <1>1, <1>13, FindAgainDoes
<1>14. CASE Sync(j)
  BY <1>1, <1>14, SyncDoes
<1>15. CASE WriteCompose(j)
  BY <1>1, <1>15, WriteComposeDoes
<1>16. CASE Check(j)
  BY <1>1, <1>16, CheckDoes
<1>17. CASE NeedBase(j)
  BY <1>1, <1>17, NeedBaseDoes
<1>18. CASE ListBase(j)
  BY <1>1, <1>18, ListBaseDoes
<1>19. CASE TagBase(j)
  BY <1>1, <1>19, TagBaseDoes
<1>20. CASE ComposeUp(j)
  BY <1>1, <1>20, ComposeUpDoes
<1> QED
  BY <1>2, <1>3, <1>4, <1>5, <1>6, <1>7, <1>8, <1>9, <1>10, <1>11, <1>12, <1>13, <1>14, <1>15,
     <1>16, <1>17, <1>18, <1>19, <1>20 DEF Step

LEMMA FullEndsWell ==
  ASSUME Types, NamesItsRepo, FullInv, Next, NEW j \in Jobs, EndsWell(j, "full"), crew = 1, Pristine
  PROVE  env = Project /\ \A p \in Project : running'[p] = {Names[p]}
<1>1. job[j].kind = "full" /\ job'[j].end = "ok" /\ job[j].pc # "idle" /\ job[j].end = "none"
  BY DEF EndsWell, FullInv, NotEnded
<1>2. Full(j) /\ FullJob(j) /\ NotEnded(j) /\ Complete
  BY <1>1 DEF Full, FullInv, Pristine, Complete
<1>3. PICK k \in Jobs : Request(k) \/ Step(k) \/ Harm(k)
  BY DEF Next
<1>4. ~Request(k)
  BY <1>1, RequestDoes, IdleFacts
<1>5. k = j
  BY <1>1, <1>3, <1>4, StepDoes, HarmFacts DEF OnlyJob
<1>6. ~Harm(k)
  BY <1>1, <1>5, HarmDoes
<1> DEFINE p == This(j)
<1>7. /\ ComposeUp(j) /\ job[j].ups \ {p} = {} /\ Read(p) # "cut"
      /\ running' = [running EXCEPT ![p] = MadeOf(j, p)]
  BY <1>1, <1>2, <1>3, <1>4, <1>5, <1>6, EndsOk
<1>8. job[j].pc = "compose" /\ p \in Project
  BY <1>7, ComposeUpDoes
<1> HIDE DEF p
<1>9. \A q \in Project : q \notin job[j].ups \ {p} => running'[q] = {Names[q]}
  BY <1>2, <1>7, <1>8, FullStarts DEF p
<1>10. Found \subseteq env /\ Found = Project /\ env \subseteq Project
  BY <1>2, <1>8, AllThere DEF FullJob, FullLoaded, Up, Types, TypeOK
<1> QED
  BY <1>7, <1>9, <1>10

\* A full job that had the directory for itself, and found it complete, ends well only
\* with every project of the package running the image of the package, its .env changed
\* to the site's values (moduledeploy.Run: expand, docker load, .env, compose up).
THEOREM FullMeansAll == Spec => OkMeansAll
<1> DEFINE A == \A j \in Jobs : EndsWell(j, "full") /\ crew = 1 /\ Pristine =>
                  /\ env = Project
                  /\ \A p \in Project : running'[p] = {Names[p]}
<1>1. Types /\ NamesItsRepo /\ FullInv /\ [Next]_vars => [A]_vars
  BY FullEndsWell
<1>2. OkMeansAll <=> [][A]_vars
  BY DEF OkMeansAll
<1> HIDE DEF A
<1> QED
  BY <1>1, <1>2, AlwaysTypes, AlwaysNames, AlwaysFull, PTL DEF Spec

=============================================================================
