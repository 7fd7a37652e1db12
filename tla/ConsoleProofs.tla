---------------------------- MODULE ConsoleProofs ----------------------------
(***************************************************************************)
(* Proofs about Console, for any number of pages, jobs, restarts and       *)
(* broken connections: what a page has seen as the end of its job is its   *)
(* end (ConclusionIsFinal), and the mark of a step is that of a chain      *)
(* which has ended well as a whole (StepDoneIsDone of ConsoleOK).          *)
(***************************************************************************)
EXTENDS Console, SequenceTheorems, FiniteSetTheorems, TLAPS

Waits(p) == page[p] \in {"watch", "poll"}

\* A chain that has ended well as a whole.
Whole(chain) == Cardinality(chain.by) = chain.of /\ \A j \in chain.by : jobs[j] = "ok"

LEMMA NotDoneIsWhole == Whole(NotDone)
<1>1. NotDone.by = {} /\ NotDone.of = 0
  BY DEF NotDone
<1> QED
  BY <1>1, FS_EmptySet DEF Whole

\* The jobs of a chain, those that are not started yet included.
Counted(p) == IsFiniteSet(mine[p]) /\ Cardinality(mine[p]) + left[p] = asked[p]

\* A page, its socket, and the jobs it knows of.
PageGood(p) ==
    /\ Waits(p) => job[p] \in mine[p]
    /\ page[p] # "idle" => \A j \in mine[p] : jobs[j] = "ok" \/ (Waits(p) /\ j = job[p])
    /\ page[p] = "post" => left[p] > 0
    /\ Counted(p) /\ Whole(stepDone[p])
    /\ handler[p] = "none" => wire[p] = <<>>
    /\ \A i \in DOMAIN wire[p] : Ended(wire[p][i]) => jobs[job[p]] = wire[p][i]
    /\ told[p] \in {"ok", "fail"} => job[p] \in Job /\ jobs[job[p]] = told[p]

ConsoleInv ==
    /\ TypeOK
    /\ \A j \in working : jobs[j] = "running"
    /\ \A p \in Pages : PageGood(p)

-----------------------------------------------------------------------------
(* A page that is not concerned.                                            *)

SamePage(p) ==
    /\ handler'[p] = handler[p] /\ page'[p] = page[p] /\ job'[p] = job[p] /\ mine'[p] = mine[p]
    /\ asked'[p] = asked[p] /\ left'[p] = left[p] /\ told'[p] = told[p] /\ wire'[p] = wire[p]
    /\ stepDone'[p] = stepDone[p]

\* Jobs come into being, and end once.
JobsGoOn == \A j \in Job : jobs[j] = "none" \/ jobs'[j] = jobs[j] \/ (jobs[j] = "running" /\ Ended(jobs'[j]))

\* A socket belongs to a page that waits for its job.
LEMMA SocketHasJob ==
    ASSUME TypeOK, NEW p \in Pages, PageGood(p)
    PROVE  /\ mine[p] \subseteq Job /\ \A j \in mine[p] : jobs[j] # "none"
           /\ Waits(p) => job[p] \in mine[p] /\ job[p] \in Job
           /\ wire[p] # <<>> => page[p] = "watch"
           /\ handler[p] # "none" => page[p] = "watch"
<1>1. mine[p] \in SUBSET Started /\ handler[p] \in {"none", "tick", "written", "gone"}
  BY DEF TypeOK
<1>2. mine[p] \subseteq Job /\ \A j \in mine[p] : jobs[j] # "none"
  BY <1>1 DEF Started
<1>3. handler[p] # "none" => page[p] = "watch"
  BY DEF TypeOK
<1> QED
  BY <1>1, <1>2, <1>3 DEF PageGood

LEMMA NotEmpty == ASSUME NEW s, NEW i \in DOMAIN s PROVE s # <<>>
<1>1. s = <<>> => DOMAIN s = {}
  BY SMT
<1> QED
  BY <1>1

LEMMA Aside ==
    ASSUME TypeOK, NEW p \in Pages, PageGood(p), SamePage(p), JobsGoOn
    PROVE  PageGood(p)'
<1>1. /\ mine[p] \subseteq Job /\ \A j \in mine[p] : jobs[j] # "none"
      /\ Waits(p) => job[p] \in Job /\ job[p] \in mine[p]
      /\ wire[p] # <<>> => page[p] = "watch"
  BY SocketHasJob
<1>2. \A j \in mine[p] : jobs[j] = "ok" => jobs'[j] = "ok"
  BY <1>1 DEF JobsGoOn, Ended
<1>3. Waits(p)' = Waits(p)
  BY DEF Waits, SamePage
<1>4. ASSUME NEW i \in DOMAIN wire'[p], Ended(wire'[p][i]) PROVE jobs'[job'[p]] = wire'[p][i]
  <2>1. i \in DOMAIN wire[p] /\ Ended(wire[p][i]) /\ wire[p] # <<>>
    <3>1. i \in DOMAIN wire[p] /\ Ended(wire[p][i])
      BY <1>4 DEF SamePage
    <3> QED
      BY <3>1, NotEmpty
  <2>2. job[p] \in Job /\ jobs[job[p]] = wire[p][i]
    BY <1>1, <2>1 DEF PageGood, Waits
  <2> QED
    BY <2>1, <2>2 DEF JobsGoOn, SamePage, Ended
<1>5. told'[p] \in {"ok", "fail"} => job'[p] \in Job /\ jobs'[job'[p]] = told'[p]
  BY DEF PageGood, SamePage, JobsGoOn, Ended
<1>6. Whole(stepDone[p])' /\ Counted(p)'
  <2>1. stepDone[p].by \subseteq Job
    BY DEF TypeOK
  <2>2. Whole(stepDone[p]) /\ stepDone'[p] = stepDone[p]
    BY DEF PageGood, SamePage
  <2>3. \A j \in stepDone[p].by : jobs[j] = "ok" => jobs'[j] = "ok"
    BY <2>1 DEF JobsGoOn, Ended
  <2>4. Counted(p)'
    BY DEF PageGood, SamePage, Counted
  <2> QED
    BY <2>2, <2>3, <2>4 DEF Whole
<1> QED
  BY <1>2, <1>3, <1>4, <1>5, <1>6 DEF PageGood, SamePage

-----------------------------------------------------------------------------
(* The server.                                                              *)

Message == {"running", "ok", "fail", "not found", "closed"}

\* What the pages keep for themselves.
PagesRest ==
    /\ page' = page /\ job' = job /\ mine' = mine /\ asked' = asked /\ left' = left
    /\ told' = told /\ stepDone' = stepDone

\* The status of jobs moves, and the sets of jobs with it.
LEMMA JobsMove ==
    ASSUME TypeOK, JobsGoOn, jobs' \in [Job -> {"none", "running", "ok", "fail"}]
    PROVE  Started \subseteq Started' /\ mine \in [Pages -> SUBSET Started']
<1>1. Started \subseteq Started'
  BY DEF JobsGoOn, Started, Ended
<1>2. mine \in [Pages -> SUBSET Started]
  BY DEF TypeOK
<1> QED
  BY <1>1, <1>2

\* A job ends, well or not.
LEMMA JobEnds ==
    ASSUME ConsoleInv, NEW j \in Job, OkJob(j) \/ FailJob(j)
    PROVE  ConsoleInv'
<1>1. PICK s \in {"ok", "fail"} : jobs' = [jobs EXCEPT ![j] = s]
  BY DEF OkJob, FailJob
<1>2. j \in working /\ working' = working \ {j} /\ known' = known /\ restarts' = restarts
      /\ handler' = handler /\ wire' = wire /\ PagesRest
  BY DEF OkJob, FailJob, PagesRest, chainVars
<1>3. jobs \in [Job -> {"none", "running", "ok", "fail"}] /\ jobs[j] = "running" /\ TypeOK
  BY <1>2 DEF ConsoleInv, TypeOK
<1>4. jobs' \in [Job -> {"none", "running", "ok", "fail"}]
  BY <1>1, <1>3
<1>5. JobsGoOn
  BY <1>1, <1>3 DEF JobsGoOn, Ended
<1>6. Started \subseteq Started' /\ mine \in [Pages -> SUBSET Started']
  BY <1>3, <1>4, <1>5, JobsMove
<1>7. TypeOK'
  BY <1>2, <1>3, <1>4, <1>6 DEF TypeOK, PagesRest
<1>8. \A i \in working' : jobs'[i] = "running"
  <2>1. working \subseteq Job
    BY <1>3 DEF TypeOK, Started
  <2> QED
    BY <1>1, <1>2, <1>3, <2>1 DEF ConsoleInv
<1>9. ASSUME NEW p \in Pages PROVE PageGood(p)'
  <2>1. SamePage(p)
    BY <1>2 DEF SamePage, PagesRest
  <2> QED
    BY <1>3, <1>5, <2>1, Aside DEF ConsoleInv
<1> QED
  BY <1>7, <1>8, <1>9 DEF ConsoleInv

\* Something more, or less, is on its way to a page that watches.
LEMMA WireChanges ==
    ASSUME TypeOK, NEW p \in Pages, PageGood(p), page[p] = "watch", PagesRest, jobs' = jobs,
           handler'[p] = "none" => wire'[p] = <<>>,
           \A i \in DOMAIN wire'[p] : Ended(wire'[p][i]) => jobs[job[p]] = wire'[p][i]
    PROVE  PageGood(p)'
<1>1. Whole(stepDone[p])' /\ Counted(p)'
  BY DEF PageGood, PagesRest, Whole, Counted
<1> QED
  BY <1>1 DEF PageGood, Waits, PagesRest

\* What is sent at a tick, by a handler that returns, or as a connection ends:
\* nothing, or the truth.
Sends(p) ==
    \/ wire'[p] = wire[p]
    \/ \E m \in Message : wire'[p] = Append(wire[p], m) /\ (Ended(m) => m = jobs[job[p]])
    \/ wire'[p] = wire[p] \o <<"not found", "closed">>

LEMMA SendsTruth ==
    ASSUME TypeOK, NEW p \in Pages, PageGood(p), Sends(p)
    PROVE  /\ wire'[p] \in Seq(Message)
           /\ \A i \in DOMAIN wire'[p] : Ended(wire'[p][i]) => jobs[job[p]] = wire'[p][i]
<1>1. wire[p] \in Seq(Message)
  BY DEF TypeOK, Message
<1>2. \A i \in DOMAIN wire[p] : Ended(wire[p][i]) => jobs[job[p]] = wire[p][i]
  BY DEF PageGood
<1>3. DOMAIN wire[p] = 1..Len(wire[p]) /\ Len(wire[p]) \in Nat
  BY <1>1, LenProperties
<1>4. CASE wire'[p] = wire[p]
  BY <1>1, <1>2, <1>4
<1>5. ASSUME NEW m \in Message, wire'[p] = Append(wire[p], m), Ended(m) => m = jobs[job[p]]
      PROVE  /\ wire'[p] \in Seq(Message)
             /\ \A i \in DOMAIN wire'[p] : Ended(wire'[p][i]) => jobs[job[p]] = wire'[p][i]
  <2>1. /\ wire'[p] \in Seq(Message) /\ Len(wire'[p]) = Len(wire[p]) + 1
        /\ \A i \in 1..Len(wire[p]) : wire'[p][i] = wire[p][i]
        /\ wire'[p][Len(wire[p]) + 1] = m
    BY <1>1, <1>5, AppendProperties
  <2>2. DOMAIN wire'[p] = 1..(Len(wire[p]) + 1)
    BY <2>1, LenProperties
  <2>3. ASSUME NEW i \in DOMAIN wire'[p], Ended(wire'[p][i]) PROVE jobs[job[p]] = wire'[p][i]
    <3>1. i \in 1..Len(wire[p]) \/ i = Len(wire[p]) + 1
      BY <1>3, <2>2
    <3>2. CASE i \in 1..Len(wire[p])
      BY <1>2, <1>3, <2>1, <2>3, <3>2
    <3>3. CASE i = Len(wire[p]) + 1
      BY <1>5, <2>1, <2>3, <3>3
    <3> QED
      BY <3>1, <3>2, <3>3
  <2> QED
    BY <2>1, <2>3
<1>6. CASE wire'[p] = wire[p] \o <<"not found", "closed">>
  <2> DEFINE t == <<"not found", "closed">>
  <2>1. t \in Seq(Message) /\ Len(t) = 2 /\ t[1] = "not found" /\ t[2] = "closed"
    BY DEF Message
  <2> HIDE DEF t
  <2>2. wire'[p] = wire[p] \o t
    BY <1>6 DEF t
  <2>3. /\ wire'[p] \in Seq(Message) /\ Len(wire'[p]) = Len(wire[p]) + 2
        /\ \A i \in 1..(Len(wire[p]) + 2) :
              wire'[p][i] = IF i <= Len(wire[p]) THEN wire[p][i] ELSE t[i - Len(wire[p])]
    <3>1. wire[p] \o t \in Seq(Message) /\ Len(wire[p] \o t) = Len(wire[p]) + Len(t)
      BY <1>1, <2>1, ConcatProperties
    <3>2. \A i \in 1..(Len(wire[p]) + Len(t)) :
             (wire[p] \o t)[i] = IF i <= Len(wire[p]) THEN wire[p][i] ELSE t[i - Len(wire[p])]
      BY <1>1, <2>1, ConcatProperties
    <3> QED
      BY <2>1, <2>2, <3>1, <3>2
  <2>4. DOMAIN wire'[p] = 1..(Len(wire[p]) + 2)
    BY <2>3, LenProperties
  <2>5. ASSUME NEW i \in DOMAIN wire'[p], Ended(wire'[p][i]) PROVE jobs[job[p]] = wire'[p][i]
    <3>1. wire'[p][i] = IF i <= Len(wire[p]) THEN wire[p][i] ELSE t[i - Len(wire[p])]
      BY <2>3, <2>4
    <3>2. CASE i <= Len(wire[p])
      BY <1>2, <1>3, <2>4, <2>5, <3>1, <3>2
    <3>3. CASE ~(i <= Len(wire[p]))
      <4>1. i - Len(wire[p]) = 1 \/ i - Len(wire[p]) = 2
        BY <1>3, <2>4, <3>3
      <4>2. wire'[p][i] = "not found" \/ wire'[p][i] = "closed"
        BY <2>1, <3>1, <3>3, <4>1
      <4> QED
        BY <2>5, <4>2 DEF Ended
    <3> QED
      BY <3>2, <3>3
  <2> QED
    BY <2>3, <2>5
<1> QED
  BY <1>4, <1>5, <1>6 DEF Sends
\* Whatever the server sends, and however the connections end.
LEMMA ServerSends ==
    ASSUME ConsoleInv, PagesRest, jobs' = jobs, known' \subseteq known, working' \subseteq known',
           working' \subseteq working, restarts' \in 0..MaxRestarts,
           handler' \in [Pages -> {"none", "tick", "written", "gone"}],
           wire' = [p \in Pages |-> wire'[p]],
           \A p \in Pages : /\ Sends(p)
                            /\ handler[p] # "none" <=> handler'[p] # "none"
                            /\ handler[p] = "none" => wire'[p] = wire[p]
    PROVE  ConsoleInv'
<1>1. TypeOK /\ \A p \in Pages : PageGood(p)
  BY DEF ConsoleInv
<1>2. ASSUME NEW p \in Pages PROVE wire'[p] \in Seq(Message) /\ PageGood(p)'
  <2>1. /\ wire'[p] \in Seq(Message)
        /\ \A i \in DOMAIN wire'[p] : Ended(wire'[p][i]) => jobs[job[p]] = wire'[p][i]
    BY <1>1, SendsTruth
  <2>2. CASE handler[p] = "none"
    <3>1. SamePage(p) /\ JobsGoOn
      BY <2>2 DEF SamePage, PagesRest, JobsGoOn
    <3> QED
      BY <1>1, <2>1, <3>1, Aside
  <2>3. CASE handler[p] # "none"
    <3>1. page[p] = "watch" /\ handler'[p] # "none"
      BY <1>1, <2>3 DEF TypeOK
    <3> QED
      BY <1>1, <2>1, <3>1, WireChanges
  <2> QED
    BY <2>2, <2>3
<1>3. wire' \in [Pages -> Seq(Message)]
  BY <1>2
<1>4. Started' = Started
  BY DEF Started
<1>5. \A p \in Pages : handler'[p] # "none" => page'[p] = "watch"
  BY <1>1 DEF TypeOK, PagesRest
<1>6. TypeOK'
  BY <1>1, <1>3, <1>4, <1>5 DEF TypeOK, PagesRest, Message
<1> QED
  BY <1>2, <1>6 DEF ConsoleInv

\* One socket alone.
LEMMA SocketSends ==
    ASSUME ConsoleInv, NEW p \in Pages, PagesRest, UNCHANGED serverVars, Sends(p), handler[p] # "none",
           NEW h \in {"tick", "written", "gone"}, handler' = [handler EXCEPT ![p] = h],
           NEW w, wire' = [wire EXCEPT ![p] = w]
    PROVE  ConsoleInv'
<1>1. TypeOK
  BY DEF ConsoleInv
<1>2. jobs' = jobs /\ known' = known /\ working' = working /\ restarts' = restarts
  BY DEF serverVars
<1>3. working \subseteq known /\ restarts \in 0..MaxRestarts
  BY <1>1 DEF TypeOK
<1>4. handler' \in [Pages -> {"none", "tick", "written", "gone"}] /\ DOMAIN wire = Pages
  BY <1>1 DEF TypeOK
<1>5. wire' = [q \in Pages |-> wire'[q]]
  BY <1>4
<1>6. ASSUME NEW q \in Pages
      PROVE  /\ Sends(q)
             /\ handler[q] # "none" <=> handler'[q] # "none"
             /\ handler[q] = "none" => wire'[q] = wire[q]
  <2>1. CASE q = p
    BY <1>1, <2>1 DEF TypeOK
  <2>2. CASE q # p
    <3>1. wire'[q] = wire[q] /\ handler'[q] = handler[q]
      BY <1>1, <1>4, <2>2 DEF TypeOK
    <3> QED
      BY <3>1 DEF Sends
  <2> QED
    BY <2>1, <2>2
<1> QED
  BY <1>2, <1>3, <1>4, <1>5, <1>6, ServerSends

LEMMA WriteSafe == ASSUME ConsoleInv, NEW p \in Pages, Write(p) PROVE ConsoleInv'
<1>1. TypeOK /\ handler[p] = "tick" /\ PagesRest /\ UNCHANGED serverVars /\ DOMAIN wire = Pages
  BY DEF Write, ConsoleInv, PagesRest, chainVars, TypeOK
<1>2. CASE job[p] \in known
  <2>1. wire' = [wire EXCEPT ![p] = Append(wire[p], jobs[job[p]])]
        /\ handler' = [handler EXCEPT ![p] = "written"]
    BY <1>2 DEF Write
  <2>2. jobs[job[p]] \in Message
    <3>1. job[p] \in Job /\ jobs \in [Job -> {"none", "running", "ok", "fail"}] /\ jobs[job[p]] # "none"
      BY <1>1, <1>2 DEF TypeOK, Started
    <3> QED
      BY <3>1 DEF Message
  <2>3. Sends(p)
    BY <1>1, <2>1, <2>2 DEF Sends
  <2> QED
    BY <1>1, <2>1, <2>3, SocketSends
<1>3. CASE job[p] \notin known
  <2>1. wire' = [wire EXCEPT ![p] = wire[p] \o <<"not found", "closed">>]
        /\ handler' = [handler EXCEPT ![p] = "gone"]
    BY <1>3 DEF Write
  <2>2. Sends(p)
    BY <1>1, <2>1 DEF Sends
  <2> QED
    BY <1>1, <2>1, <2>2, SocketSends
<1> QED
  BY <1>2, <1>3

LEMMA CheckStatusSafe == ASSUME ConsoleInv, NEW p \in Pages, CheckStatus(p) PROVE ConsoleInv'
<1>1. TypeOK /\ handler[p] = "written" /\ PagesRest /\ UNCHANGED serverVars /\ DOMAIN wire = Pages
  BY DEF CheckStatus, ConsoleInv, PagesRest, chainVars, TypeOK
<1>2. CASE Ended(jobs[job[p]])
  <2>1. wire' = [wire EXCEPT ![p] = Append(wire[p], "closed")] /\ handler' = [handler EXCEPT ![p] = "gone"]
    BY <1>2 DEF CheckStatus
  <2>2. Sends(p)
    BY <1>1, <2>1 DEF Sends, Message, Ended
  <2> QED
    BY <1>1, <2>1, <2>2, SocketSends
<1>3. CASE ~Ended(jobs[job[p]])
  <2>1. wire' = wire /\ handler' = [handler EXCEPT ![p] = "tick"]
    BY <1>3 DEF CheckStatus
  <2>2. Sends(p) /\ wire' = [wire EXCEPT ![p] = wire[p]]
    BY <1>1, <2>1 DEF Sends, TypeOK
  <2> QED
    BY <1>1, <2>1, <2>2, SocketSends
<1> QED
  BY <1>2, <1>3

LEMMA BreakSafe == ASSUME ConsoleInv, NEW p \in Pages, Break(p) PROVE ConsoleInv'
<1>1. /\ TypeOK /\ handler[p] # "none" /\ PagesRest /\ UNCHANGED serverVars /\ DOMAIN wire = Pages
      /\ handler' = [handler EXCEPT ![p] = "gone"] /\ wire' = [wire EXCEPT ![p] = Append(wire[p], "closed")]
  BY DEF Break, ConsoleInv, PagesRest, chainVars, TypeOK
<1>2. Sends(p)
  BY <1>1 DEF Sends, Message, Ended
<1> QED
  BY <1>1, <1>2, SocketSends

LEMMA RestartSafe == ASSUME ConsoleInv, Restart PROVE ConsoleInv'
<1>1. TypeOK /\ PagesRest /\ jobs' = jobs /\ known' = {} /\ working' = {}
  BY DEF Restart, ConsoleInv, PagesRest, chainVars
<1>2. restarts' \in 0..MaxRestarts
  <2>1. restarts \in 0..MaxRestarts /\ restarts < MaxRestarts /\ restarts' = restarts + 1 /\ MaxRestarts \in Nat
    BY <1>1, ConsoleAssumption DEF Restart, TypeOK
  <2> QED
    BY <2>1
<1>3. handler' \in [Pages -> {"none", "tick", "written", "gone"}]
  BY DEF Restart
<1>4. wire' = [p \in Pages |-> wire'[p]]
  BY DEF Restart
<1>5. ASSUME NEW p \in Pages
      PROVE  /\ Sends(p)
             /\ handler[p] # "none" <=> handler'[p] # "none"
             /\ handler[p] = "none" => wire'[p] = wire[p]
  <2>1. wire'[p] = wire[p] \/ wire'[p] = Append(wire[p], "closed")
    BY DEF Restart
  <2> QED
    BY <2>1 DEF Restart, Sends, Message, Ended
<1> QED
  BY <1>1, <1>2, <1>3, <1>4, <1>5, ServerSends
-----------------------------------------------------------------------------
(* The pages.                                                               *)

LEMMA OthersAside ==
    ASSUME ConsoleInv, NEW p \in Pages, JobsGoOn, \A q \in Pages \ {p} : SamePage(q), PageGood(p)'
    PROVE  \A q \in Pages : PageGood(q)'
<1>1. ASSUME NEW q \in Pages, q # p PROVE PageGood(q)'
  BY <1>1, Aside DEF ConsoleInv
<1> QED
  BY <1>1

\* A page learns, over no matter which way, how its job has ended.
LEMMA ConcludeSafe ==
    ASSUME ConsoleInv, NEW p \in Pages, Waits(p),
           NEW res \in {"ok", "fail", "error"}, res # "error" => jobs[job[p]] = res, Conclude(p, res),
           UNCHANGED <<serverVars, chainVars>>, CloseSocket(p)
    PROVE  ConsoleInv'
<1>1. TypeOK /\ PageGood(p)
  BY DEF ConsoleInv
<1>2. /\ jobs' = jobs /\ known' = known /\ working' = working /\ restarts' = restarts
      /\ job' = job /\ mine' = mine /\ asked' = asked /\ left' = left
  BY DEF serverVars, chainVars
<1>3. /\ told' = [told EXCEPT ![p] = res]
      /\ page' = [page EXCEPT ![p] = IF res = "ok" /\ left[p] > 0 THEN "post" ELSE "idle"]
      /\ IF res = "ok" /\ left[p] = 0 THEN Mark(p) ELSE UNCHANGED stepDone
      /\ handler' = [handler EXCEPT ![p] = "none"] /\ wire' = [wire EXCEPT ![p] = <<>>]
  BY DEF Conclude, CloseSocket
<1>4. /\ DOMAIN told = Pages /\ DOMAIN page = Pages /\ DOMAIN handler = Pages /\ DOMAIN wire = Pages
      /\ left[p] \in 0..MaxChain /\ asked[p] \in 0..MaxChain /\ mine[p] \subseteq Job
      /\ stepDone \in [Pages -> [by : SUBSET Job, of : 0..MaxChain]]
  BY <1>1, SocketHasJob DEF TypeOK
<1>5. Started' = Started
  BY <1>2 DEF Started
<1>6. wire' \in [Pages -> Seq(Message)]
  <2>1. wire \in [Pages -> Seq(Message)] /\ <<>> \in Seq(Message)
    BY <1>1, EmptySeq DEF TypeOK, Message
  <2> QED
    BY <1>3, <2>1
<1>7. TypeOK'
  <2>1. page' \in [Pages -> {"idle", "post", "watch", "poll"}] /\ told' \in [Pages -> {"none", "ok", "fail", "error"}]
    BY <1>1, <1>3 DEF TypeOK
  <2>2. handler' \in [Pages -> {"none", "tick", "written", "gone"}]
    BY <1>1, <1>3 DEF TypeOK
  <2>4. stepDone' \in [Pages -> [by : SUBSET Job, of : 0..MaxChain]]
    BY <1>3, <1>4 DEF Mark
  <2>3. \A q \in Pages : handler'[q] # "none" => page'[q] = "watch"
    BY <1>1, <1>3, <1>4 DEF TypeOK
  <2> QED
    BY <1>1, <1>2, <1>5, <1>6, <2>1, <2>2, <2>3, <2>4 DEF TypeOK, Message
<1>8. ASSUME NEW q \in Pages \ {p} PROVE SamePage(q)
  <2>1. stepDone'[q] = stepDone[q]
    BY <1>3, <1>4 DEF Mark
  <2> QED
    BY <1>2, <1>3, <1>4, <2>1 DEF SamePage
<1>9. PageGood(p)'
  <2>1. /\ mine[p] \subseteq Job /\ job[p] \in mine[p] /\ job[p] \in Job
        /\ \A j \in mine[p] : jobs[j] = "ok" \/ j = job[p]
    BY <1>1, SocketHasJob DEF PageGood, Waits
  <2>3. ~Waits(p)' /\ told'[p] = res /\ wire'[p] = <<>>
    BY <1>3, <1>4 DEF Waits
  <2>4. page'[p] # "idle" => page'[p] = "post" /\ res = "ok" /\ left[p] > 0
    BY <1>3, <1>4
  <2>6. res = "ok" => \A j \in mine[p] : jobs[j] = "ok"
    BY <2>1
  <2>2. Counted(p) /\ Whole(stepDone[p])
    BY <1>1 DEF PageGood
  <2>5. Counted(p)' /\ Whole(stepDone[p])'
    <3>1. CASE res = "ok" /\ left[p] = 0
      <4>1. stepDone'[p] = [by |-> mine[p], of |-> asked[p]]
        BY <1>3, <1>4, <3>1 DEF Mark
      <4>2. Cardinality(mine[p]) = asked[p]
        BY <2>2, <3>1, FS_CardinalityType DEF Counted
      <4> QED
        BY <1>2, <2>2, <2>6, <3>1, <4>1, <4>2 DEF Whole, Counted
    <3>2. CASE ~(res = "ok" /\ left[p] = 0)
      <4>1. stepDone' = stepDone
        BY <1>3, <3>2
      <4> QED
        BY <1>2, <2>2, <4>1 DEF Whole, Counted
    <3> QED
      BY <3>1, <3>2
  <2>7. DOMAIN wire'[p] = {}
    BY <2>3, SMT
  <2> QED
    BY <1>2, <2>1, <2>3, <2>4, <2>5, <2>6, <2>7 DEF PageGood
<1>10. JobsGoOn
  BY <1>2 DEF JobsGoOn
<1> QED
  BY <1>2, <1>7, <1>8, <1>9, <1>10, OthersAside DEF ConsoleInv

\* Without a socket there is none to be closed.
LEMMA NoSocket ==
    ASSUME ConsoleInv, NEW p \in Pages, handler[p] = "none", UNCHANGED <<handler, wire>>
    PROVE  CloseSocket(p)
<1>1. wire[p] = <<>>
  BY DEF ConsoleInv, PageGood
<1>2. DOMAIN handler = Pages /\ DOMAIN wire = Pages /\ handler = [q \in Pages |-> handler[q]]
      /\ wire = [q \in Pages |-> wire[q]]
  BY DEF ConsoleInv, TypeOK
<1> QED
  BY <1>1, <1>2 DEF CloseSocket

LEMMA PollSafe == ASSUME ConsoleInv, NEW p \in Pages, Poll(p) \/ PollBreaks(p) PROVE ConsoleInv'
<1>1. Waits(p) /\ handler[p] = "none" /\ UNCHANGED <<serverVars, chainVars>> /\ UNCHANGED <<handler, wire>>
  BY DEF Poll, PollBreaks, Waits, ConsoleInv, TypeOK
<1>2. CloseSocket(p)
  BY <1>1, NoSocket
<1>3. \/ jobs[job[p]] \in {"ok", "fail"} /\ Conclude(p, jobs[job[p]])
      \/ Conclude(p, "error")
  BY DEF Poll, PollBreaks, Stops
<1>4. CASE jobs[job[p]] \in {"ok", "fail"} /\ Conclude(p, jobs[job[p]])
  BY <1>1, <1>2, <1>4, ConcludeSafe
<1>5. CASE Conclude(p, "error")
  BY <1>1, <1>2, <1>5, ConcludeSafe
<1> QED
  BY <1>3, <1>4, <1>5

LEMMA OpenSafe == ASSUME ConsoleInv, NEW p \in Pages, Open(p) PROVE ConsoleInv'
<1>1. /\ page[p] = "watch" /\ handler[p] = "none" /\ wire' = wire
      /\ UNCHANGED <<serverVars, chainVars>>
  BY DEF Open
<1>2. ASSUME handler' = [handler EXCEPT ![p] = "tick"], UNCHANGED <<page, told, stepDone>> PROVE ConsoleInv'
  <2>1. TypeOK /\ PageGood(p) /\ wire[p] = <<>>
    BY <1>1 DEF ConsoleInv, PageGood
  <2>2. /\ PagesRest /\ jobs' = jobs /\ known' = known /\ working' = working /\ restarts' = restarts
        /\ DOMAIN handler = Pages
    BY <1>1, <1>2, <2>1 DEF PagesRest, chainVars, serverVars, TypeOK
  <2>3. Started' = Started
    BY <2>2 DEF Started
  <2>4. handler' \in [Pages -> {"none", "tick", "written", "gone"}]
        /\ \A q \in Pages : handler'[q] # "none" => page'[q] = "watch"
    BY <1>1, <1>2, <2>1, <2>2 DEF TypeOK, PagesRest
  <2>5. TypeOK'
    BY <1>1, <2>1, <2>2, <2>3, <2>4 DEF TypeOK, PagesRest
  <2>6. ASSUME NEW q \in Pages \ {p} PROVE SamePage(q)
    BY <1>1, <1>2, <2>2 DEF SamePage, PagesRest
  <2>7. DOMAIN wire'[p] = {}
    BY <1>1, <2>1, SMT
  <2>8. PageGood(p)'
    BY <1>1, <2>1, <2>2, <2>7, WireChanges
  <2>9. JobsGoOn
    BY <2>2 DEF JobsGoOn
  <2> QED
    BY <2>2, <2>5, <2>6, <2>8, <2>9, OthersAside DEF ConsoleInv
<1>3. ASSUME Conclude(p, "error"), UNCHANGED handler PROVE ConsoleInv'
  <2>1. CloseSocket(p) /\ Waits(p)
    BY <1>1, <1>3, NoSocket DEF Waits
  <2> QED
    BY <1>1, <1>3, <2>1, ConcludeSafe
<1> QED
  BY <1>2, <1>3 DEF Open

\* The message at the head of the wire is taken off it.
LEMMA TakeSafe ==
    ASSUME ConsoleInv, NEW p \in Pages, page[p] = "watch", wire[p] # <<>>,
           wire' = [wire EXCEPT ![p] = Tail(wire[p])], UNCHANGED <<handler, page, told, stepDone>>,
           UNCHANGED <<serverVars, chainVars>>
    PROVE  ConsoleInv'
<1>1. TypeOK /\ PageGood(p)
  BY DEF ConsoleInv
<1>2. /\ PagesRest /\ jobs' = jobs /\ known' = known /\ working' = working /\ restarts' = restarts
      /\ handler' = handler /\ wire \in [Pages -> Seq(Message)]
  BY <1>1 DEF PagesRest, chainVars, serverVars, TypeOK, Message
<1>3. handler[p] # "none"
  BY <1>1 DEF PageGood
<1>4. /\ Tail(wire[p]) \in Seq(Message) /\ Len(wire[p]) \in Nat /\ DOMAIN wire[p] = 1..Len(wire[p])
      /\ Len(Tail(wire[p])) = Len(wire[p]) - 1
      /\ \A i \in 1..Len(Tail(wire[p])) : Tail(wire[p])[i] = wire[p][i + 1]
  BY <1>2, HeadTailProperties, LenProperties
<1>5. wire' \in [Pages -> Seq(Message)] /\ wire'[p] = Tail(wire[p])
  BY <1>2, <1>4
<1>6. ASSUME NEW i \in DOMAIN wire'[p], Ended(wire'[p][i]) PROVE jobs[job[p]] = wire'[p][i]
  <2>1. i \in 1..(Len(wire[p]) - 1)
    BY <1>4, <1>5, <1>6, LenProperties
  <2>2. i + 1 \in DOMAIN wire[p] /\ wire'[p][i] = wire[p][i + 1]
    BY <1>4, <1>5, <2>1
  <2> QED
    BY <1>1, <1>6, <2>2 DEF PageGood
<1>7. Started' = Started
  BY <1>2 DEF Started
<1>8. TypeOK'
  BY <1>1, <1>2, <1>5, <1>7 DEF TypeOK, PagesRest, Message
<1>9. PageGood(p)'
  BY <1>1, <1>2, <1>3, <1>6, WireChanges
<1>10. ASSUME NEW q \in Pages \ {p} PROVE SamePage(q)
  BY <1>2 DEF SamePage, PagesRest
<1>11. JobsGoOn
  BY <1>2 DEF JobsGoOn
<1> QED
  BY <1>2, <1>8, <1>9, <1>10, <1>11, OthersAside DEF ConsoleInv
LEMMA ReceiveSafe == ASSUME ConsoleInv, NEW p \in Pages, Receive(p) PROVE ConsoleInv'
<1>1. page[p] = "watch" /\ wire[p] # <<>> /\ Waits(p) /\ UNCHANGED <<serverVars, chainVars>>
  BY DEF Receive, Waits
<1>2. CASE Ended(Head(wire[p]))
  <2>1. wire[p] \in Seq(Message) /\ PageGood(p)
    BY DEF ConsoleInv, TypeOK, Message
  <2>2. 1 \in DOMAIN wire[p] /\ Head(wire[p]) = wire[p][1]
    BY <1>1, <2>1
  <2>3. jobs[job[p]] = Head(wire[p])
    BY <1>2, <2>1, <2>2 DEF PageGood
  <2>4. CloseSocket(p) /\ Conclude(p, Head(wire[p])) /\ Head(wire[p]) \in {"ok", "fail"}
    BY <1>2 DEF Receive, Ended
  <2> QED
    BY <1>1, <2>3, <2>4, ConcludeSafe
<1>3. CASE ~Ended(Head(wire[p]))
  <2>1. wire' = [wire EXCEPT ![p] = Tail(wire[p])] /\ UNCHANGED <<handler, page, told, stepDone>>
    BY <1>3 DEF Receive
  <2> QED
    BY <1>1, <2>1, TakeSafe
<1> QED
  BY <1>2, <1>3

LEMMA ClosedSafe == ASSUME ConsoleInv, NEW p \in Pages, Closed(p) PROVE ConsoleInv'
<1>1. page[p] = "watch" /\ wire[p] # <<>> /\ Waits(p) /\ UNCHANGED <<serverVars, chainVars>>
  BY DEF Closed, Waits
<1>2. CASE wire' = [wire EXCEPT ![p] = Tail(wire[p])] /\ UNCHANGED <<handler, page, told, stepDone>>
  BY <1>1, <1>2, TakeSafe
<1>3. CASE CloseSocket(p) /\ Conclude(p, "error")
  BY <1>1, <1>3, ConcludeSafe
<1> QED
  BY <1>2, <1>3 DEF Closed

LEMMA BeginSafe == ASSUME ConsoleInv, NEW p \in Pages, Begin(p) PROVE ConsoleInv'
<1>1. TypeOK /\ PageGood(p)
  BY DEF ConsoleInv
<1>2. PICK n \in 1..MaxChain : asked' = [asked EXCEPT ![p] = n] /\ left' = [left EXCEPT ![p] = n]
  BY DEF Begin
<1>3. /\ page[p] = "idle" /\ page' = [page EXCEPT ![p] = "post"] /\ mine' = [mine EXCEPT ![p] = {}]
      /\ stepDone' \in {stepDone, [stepDone EXCEPT ![p] = NotDone]}
      /\ handler' = [handler EXCEPT ![p] = "none"] /\ wire' = [wire EXCEPT ![p] = <<>>]
      /\ jobs' = jobs /\ known' = known /\ working' = working /\ restarts' = restarts
      /\ job' = job /\ told' = told
  BY DEF Begin, CloseSocket, serverVars
<1>4. /\ DOMAIN page = Pages /\ DOMAIN handler = Pages /\ DOMAIN wire = Pages
      /\ DOMAIN mine = Pages /\ DOMAIN left = Pages /\ DOMAIN asked = Pages
      /\ stepDone \in [Pages -> [by : SUBSET Job, of : 0..MaxChain]]
  BY <1>1 DEF TypeOK
<1>5. Started' = Started
  BY <1>3 DEF Started
<1>6. wire' \in [Pages -> Seq(Message)]
  <2>1. wire \in [Pages -> Seq(Message)] /\ <<>> \in Seq(Message)
    BY <1>1, EmptySeq DEF TypeOK, Message
  <2> QED
    BY <1>3, <2>1
<1>7. TypeOK'
  <2>1. page' \in [Pages -> {"idle", "post", "watch", "poll"}]
        /\ handler' \in [Pages -> {"none", "tick", "written", "gone"}]
    BY <1>1, <1>3 DEF TypeOK
  <2>2. asked' \in [Pages -> 0..MaxChain] /\ left' \in [Pages -> 0..MaxChain]
    <3>1. asked \in [Pages -> 0..MaxChain] /\ left \in [Pages -> 0..MaxChain]
      BY <1>1 DEF TypeOK
    <3>2. n \in 0..MaxChain
      BY ConsoleAssumption
    <3> QED
      BY <1>2, <3>1, <3>2
  <2>3. mine' \in [Pages -> SUBSET Started']
    BY <1>1, <1>3, <1>5 DEF TypeOK
  <2>5. stepDone' \in [Pages -> [by : SUBSET Job, of : 0..MaxChain]]
    <3>1. NotDone \in [by : SUBSET Job, of : 0..MaxChain]
      BY ConsoleAssumption DEF NotDone
    <3> QED
      BY <1>3, <1>4, <3>1
  <2>4. \A q \in Pages : handler'[q] # "none" => page'[q] = "watch"
    BY <1>1, <1>3, <1>4 DEF TypeOK
  <2> QED
    BY <1>1, <1>3, <1>5, <1>6, <2>1, <2>2, <2>3, <2>4, <2>5 DEF TypeOK, Message
<1>8. ASSUME NEW q \in Pages \ {p} PROVE SamePage(q)
  BY <1>2, <1>3, <1>4 DEF SamePage
<1>9. PageGood(p)'
  <2>1. page'[p] = "post" /\ mine'[p] = {} /\ asked'[p] = n /\ left'[p] = n /\ wire'[p] = <<>>
    BY <1>2, <1>3, <1>4
  <2>2. DOMAIN wire'[p] = {} /\ n > 0
    BY <2>1, SMT
  <2>3. Counted(p)' /\ Whole(stepDone[p])'
    <3>1. IsFiniteSet({}) /\ Cardinality({}) = 0 /\ n \in Nat
      BY FS_EmptySet
    <3>2. stepDone'[p] = stepDone[p] \/ stepDone'[p] = NotDone
      BY <1>3, <1>4
    <3>3. Whole(stepDone[p]) /\ jobs' = jobs
      BY <1>1, <1>3 DEF PageGood
    <3>4. 0 + n = n
      BY <3>1
    <3>5. Counted(p)'
      BY <2>1, <3>1, <3>4, Zenon DEF Counted
    <3>6. Whole(NotDone)'
      BY <3>3, NotDoneIsWhole DEF Whole
    <3> QED
      BY <3>2, <3>3, <3>5, <3>6 DEF Whole
  <2>4. ~Waits(p) /\ ~Waits(p)'
    BY <1>3, <2>1 DEF Waits
  <2> QED
    BY <1>1, <1>3, <2>1, <2>2, <2>3, <2>4 DEF PageGood
<1>10. JobsGoOn
  BY <1>3 DEF JobsGoOn
<1> QED
  BY <1>3, <1>7, <1>8, <1>9, <1>10, OthersAside DEF ConsoleInv

LEMMA ReloadSafe == ASSUME ConsoleInv, NEW p \in Pages, Reload(p) PROVE ConsoleInv'
<1>1. TypeOK /\ PageGood(p)
  BY DEF ConsoleInv
<1>2. /\ page[p] # "idle" /\ page' = [page EXCEPT ![p] = "idle"] /\ told' = [told EXCEPT ![p] = "error"]
      /\ handler' = [handler EXCEPT ![p] = "none"] /\ wire' = [wire EXCEPT ![p] = <<>>]
      /\ jobs' = jobs /\ known' = known /\ working' = working /\ restarts' = restarts
      /\ job' = job /\ mine' = mine /\ asked' = asked /\ left' = left /\ stepDone' = stepDone
  BY DEF Reload, CloseSocket, serverVars, chainVars
<1>3. DOMAIN page = Pages /\ DOMAIN handler = Pages /\ DOMAIN wire = Pages /\ DOMAIN told = Pages
  BY <1>1 DEF TypeOK
<1>4. Started' = Started
  BY <1>2 DEF Started
<1>5. wire' \in [Pages -> Seq(Message)]
  <2>1. wire \in [Pages -> Seq(Message)] /\ <<>> \in Seq(Message)
    BY <1>1, EmptySeq DEF TypeOK, Message
  <2> QED
    BY <1>2, <2>1
<1>6. TypeOK'
  <2>1. page' \in [Pages -> {"idle", "post", "watch", "poll"}]
        /\ handler' \in [Pages -> {"none", "tick", "written", "gone"}]
        /\ told' \in [Pages -> {"none", "ok", "fail", "error"}]
    BY <1>1, <1>2 DEF TypeOK
  <2>2. \A q \in Pages : handler'[q] # "none" => page'[q] = "watch"
    BY <1>1, <1>2, <1>3 DEF TypeOK
  <2> QED
    BY <1>1, <1>2, <1>4, <1>5, <2>1, <2>2 DEF TypeOK, Message
<1>7. ASSUME NEW q \in Pages \ {p} PROVE SamePage(q)
  BY <1>2, <1>3 DEF SamePage
<1>8. PageGood(p)'
  <2>1. page'[p] = "idle" /\ told'[p] = "error" /\ wire'[p] = <<>>
    BY <1>2, <1>3
  <2>2. DOMAIN wire'[p] = {}
    BY <2>1, SMT
  <2>3. Counted(p)' /\ Whole(stepDone[p])' /\ ~Waits(p)'
    BY <1>1, <1>2, <2>1 DEF PageGood, Waits, Counted, Whole
  <2> QED
    BY <2>1, <2>2, <2>3 DEF PageGood
<1>9. JobsGoOn
  BY <1>2 DEF JobsGoOn
<1> QED
  BY <1>2, <1>6, <1>7, <1>8, <1>9, OthersAside DEF ConsoleInv

LEMMA PostFailsSafe == ASSUME ConsoleInv, NEW p \in Pages, PostFails(p) PROVE ConsoleInv'
<1>1. /\ page[p] = "post" /\ page' = [page EXCEPT ![p] = "idle"] /\ told' = [told EXCEPT ![p] = "error"]
      /\ UNCHANGED <<handler, wire>> /\ UNCHANGED <<serverVars, chainVars, stepDone>>
  BY DEF PostFails
<1>2. handler[p] = "none"
  BY <1>1 DEF ConsoleInv, TypeOK
<1>3. CloseSocket(p)
  BY <1>1, <1>2, NoSocket
<1>4. Reload(p)
  BY <1>1, <1>3 DEF Reload
<1> QED
  BY <1>4, ReloadSafe

LEMMA PostSafe ==
    ASSUME ConsoleInv, NEW p \in Pages, NEW how \in {"watch", "poll", "idle"}, Post(p, how)
    PROVE  ConsoleInv'
<1>1. TypeOK /\ PageGood(p)
  BY DEF ConsoleInv
<1>2. PICK j \in Job : /\ jobs[j] = "none" /\ jobs' = [jobs EXCEPT ![j] = "running"]
                       /\ known' = known \cup {j} /\ working' = working \cup {j}
                       /\ job' = [job EXCEPT ![p] = j] /\ mine' = [mine EXCEPT ![p] = mine[p] \cup {j}]
  BY DEF Post
<1>3. /\ page[p] = "post" /\ left' = [left EXCEPT ![p] = left[p] - 1] /\ page' = [page EXCEPT ![p] = how]
      /\ told' = [told EXCEPT ![p] = IF how = "idle" THEN "error" ELSE "none"]
      /\ restarts' = restarts /\ handler' = handler /\ stepDone' = stepDone /\ wire' = wire
      /\ asked' = asked
  BY DEF Post
<1>4. /\ DOMAIN page = Pages /\ DOMAIN job = Pages /\ DOMAIN mine = Pages /\ DOMAIN left = Pages
      /\ DOMAIN told = Pages /\ left[p] \in 0..MaxChain /\ left[p] > 0 /\ handler[p] = "none"
      /\ jobs \in [Job -> {"none", "running", "ok", "fail"}]
  BY <1>1, <1>3 DEF TypeOK, PageGood
<1>5. jobs' \in [Job -> {"none", "running", "ok", "fail"}]
  BY <1>2, <1>4
<1>6. JobsGoOn
  BY <1>2, <1>4 DEF JobsGoOn
<1>7. Started \subseteq Started' /\ mine \in [Pages -> SUBSET Started'] /\ j \in Started'
  <2>1. j \in Started'
    BY <1>2, <1>4 DEF Started
  <2> QED
    BY <1>1, <1>5, <1>6, <2>1, JobsMove
<1>8. TypeOK'
  <2>1. page' \in [Pages -> {"idle", "post", "watch", "poll"}] /\ told' \in [Pages -> {"none", "ok", "fail", "error"}]
    BY <1>1, <1>3 DEF TypeOK
  <2>2. left' \in [Pages -> 0..MaxChain]
    <3>1. left \in [Pages -> 0..MaxChain] /\ MaxChain \in Nat
      BY <1>1, ConsoleAssumption DEF TypeOK
    <3>2. left[p] - 1 \in 0..MaxChain
      BY <1>4, <3>1
    <3> QED
      BY <1>3, <3>1, <3>2
  <2>3. mine' \in [Pages -> SUBSET Started']
    BY <1>2, <1>7
  <2>4. job' \in [Pages -> 0..MaxJobs]
    <3>1. job \in [Pages -> 0..MaxJobs] /\ MaxJobs \in Nat
      BY <1>1, ConsoleAssumption DEF TypeOK
    <3>2. j \in 0..MaxJobs
      BY <3>1 DEF Job
    <3> QED
      BY <1>2, <3>1, <3>2
  <2>5. \A q \in Pages : handler'[q] # "none" => page'[q] = "watch"
    BY <1>1, <1>3, <1>4 DEF TypeOK
  <2>6. working' \subseteq known' /\ known' \subseteq Started'
    BY <1>1, <1>2, <1>7 DEF TypeOK
  <2> QED
    BY <1>1, <1>3, <1>5, <2>1, <2>2, <2>3, <2>4, <2>5, <2>6 DEF TypeOK
<1>9. \A i \in working' : jobs'[i] = "running"
  <2>1. working \subseteq Job
    BY <1>1 DEF TypeOK, Started
  <2> QED
    BY <1>2, <1>4, <2>1 DEF ConsoleInv
<1>10. ASSUME NEW q \in Pages \ {p} PROVE SamePage(q)
  BY <1>2, <1>3, <1>4 DEF SamePage
<1>11. PageGood(p)'
  <2>1. page'[p] = how /\ job'[p] = j /\ mine'[p] = mine[p] \cup {j} /\ jobs'[j] = "running"
        /\ told'[p] = IF how = "idle" THEN "error" ELSE "none"
    BY <1>2, <1>3, <1>4
  <2>2. wire'[p] = <<>>
    BY <1>1, <1>3, <1>4 DEF PageGood
  <2>3. DOMAIN wire'[p] = {}
    BY <2>2, SMT
  <2>5. \A i \in mine[p] : jobs[i] = "ok" /\ i \in Job
    BY <1>1, <1>3, SocketHasJob DEF PageGood, Waits
  <2>6. \A i \in mine[p] : jobs'[i] = "ok"
    BY <1>2, <1>4, <2>5
  <2>4. Counted(p)'
    <3>1. j \notin mine[p] /\ IsFiniteSet(mine[p]) /\ Cardinality(mine[p]) + left[p] = asked[p]
      BY <1>1, <1>2, <2>5 DEF PageGood, Counted
    <3>2. IsFiniteSet(mine'[p]) /\ Cardinality(mine'[p]) = Cardinality(mine[p]) + 1
      <4> DEFINE M == mine[p]
      <4>1. IsFiniteSet(M) /\ j \notin M /\ mine'[p] = M \cup {j}
        BY <2>1, <3>1
      <4> HIDE DEF M
      <4>2. IsFiniteSet(M \cup {j}) /\ Cardinality(M \cup {j}) = Cardinality(M) + 1
        BY <4>1, FS_AddElement
      <4> QED
        BY <4>1, <4>2 DEF M
    <3>3. Cardinality(mine[p]) \in Nat /\ left[p] \in Nat /\ left'[p] = left[p] - 1 /\ asked'[p] = asked[p]
      BY <1>3, <1>4, <3>1, FS_CardinalityType
    <3> QED
      BY <3>1, <3>2, <3>3 DEF Counted
  <2>8. Whole(stepDone[p])'
    <3>1. Whole(stepDone[p]) /\ stepDone[p].by \subseteq Job /\ stepDone'[p] = stepDone[p]
      BY <1>1, <1>3 DEF PageGood, TypeOK
    <3> QED
      BY <1>2, <1>4, <3>1 DEF Whole
  <2>7. how # "idle" <=> Waits(p)'
    BY <2>1 DEF Waits
  <2> QED
    BY <2>1, <2>2, <2>3, <2>4, <2>6, <2>7, <2>8 DEF PageGood
<1> QED
  BY <1>6, <1>8, <1>9, <1>10, <1>11, OthersAside DEF ConsoleInv

-----------------------------------------------------------------------------
(* The specification.                                                       *)

LEMMA InitSafe == Init => ConsoleInv
<1> SUFFICES ASSUME Init PROVE ConsoleInv
  OBVIOUS
<1>1. wire \in [Pages -> Seq(Message)] /\ \A p \in Pages : wire[p] = <<>>
  BY EmptySeq DEF Init
<1>2. TypeOK
  <2>1. NotDone \in [by : SUBSET Job, of : 0..MaxChain]
    BY ConsoleAssumption DEF NotDone
  <2> QED
    BY <1>1, <2>1, ConsoleAssumption DEF Init, TypeOK, Message, Started
<1>3. ASSUME NEW p \in Pages PROVE PageGood(p)
  <2>1. DOMAIN wire[p] = {}
    BY <1>1, SMT
  <2>2. page[p] = "idle" /\ told[p] = "none" /\ job[p] = 0 /\ mine[p] = {}
    BY DEF Init
  <2>3. Counted(p) /\ Whole(stepDone[p])
    <3>1. left[p] = 0 /\ asked[p] = 0 /\ stepDone[p] = NotDone
      BY DEF Init
    <3>2. IsFiniteSet({}) /\ Cardinality({}) = 0 /\ 0 + 0 = 0
      BY FS_EmptySet
    <3>3. Counted(p)
      BY <2>2, <3>1, <3>2, Zenon DEF Counted
    <3> QED
      BY <3>1, <3>3, NotDoneIsWhole
  <2> QED
    BY <1>1, <2>1, <2>2, <2>3 DEF PageGood, Waits
<1>4. \A j \in working : jobs[j] = "running"
  BY DEF Init
<1> QED
  BY <1>2, <1>3, <1>4 DEF ConsoleInv

LEMMA PageStepSafe == ASSUME ConsoleInv, NEW p \in Pages, PageStep(p) PROVE ConsoleInv'
<1>1. CASE Begin(p) \/ Reload(p) \/ PostFails(p) \/ Open(p)
  BY <1>1, BeginSafe, ReloadSafe, PostFailsSafe, OpenSafe
<1>2. CASE Receive(p) \/ Closed(p) \/ Poll(p) \/ PollBreaks(p)
  BY <1>2, ReceiveSafe, ClosedSafe, PollSafe
<1>3. ASSUME NEW how \in {"watch", "poll", "idle"}, Post(p, how) PROVE ConsoleInv'
  BY <1>3, PostSafe
<1> QED
  BY <1>1, <1>2, <1>3 DEF PageStep

LEMMA SameSafe == ASSUME ConsoleInv, UNCHANGED consoleVars PROVE ConsoleInv'
<1>1. PagesRest /\ UNCHANGED serverVars /\ handler' = handler /\ wire' = wire
  BY DEF consoleVars, PagesRest, chainVars
<1>2. TypeOK
  BY DEF ConsoleInv
<1>3. \A p \in Pages : Sends(p)
  BY <1>1 DEF Sends
<1>4. wire' = [p \in Pages |-> wire'[p]] /\ handler' \in [Pages -> {"none", "tick", "written", "gone"}]
  BY <1>1, <1>2 DEF TypeOK
<1>5. jobs' = jobs /\ known' = known /\ working' = working /\ restarts' = restarts
  BY <1>1 DEF serverVars
<1>6. working' \subseteq known' /\ restarts' \in 0..MaxRestarts
  BY <1>2, <1>5 DEF TypeOK
<1> QED
  BY <1>1, <1>3, <1>4, <1>5, <1>6, ServerSends

LEMMA NextSafe == ASSUME ConsoleInv, [Next]_consoleVars PROVE ConsoleInv'
<1>1. CASE UNCHANGED consoleVars
  BY <1>1, SameSafe
<1>2. ASSUME NEW j \in Job, OkJob(j) \/ FailJob(j) PROVE ConsoleInv'
  BY <1>2, JobEnds
<1>3. ASSUME NEW p \in Pages, Write(p) \/ CheckStatus(p) \/ Break(p) PROVE ConsoleInv'
  BY <1>3, WriteSafe, CheckStatusSafe, BreakSafe
<1>4. ASSUME NEW p \in Pages, PageStep(p) PROVE ConsoleInv'
  BY <1>4, PageStepSafe
<1>5. CASE Restart
  BY <1>5, RestartSafe
<1> QED
  BY <1>1, <1>2, <1>3, <1>4, <1>5 DEF Next

LEMMA ConsoleAlways == Spec => []ConsoleInv
<1>1. Init => ConsoleInv
  BY InitSafe
<1>2. ConsoleInv /\ [Next]_consoleVars => ConsoleInv'
  BY NextSafe
<1> QED
  BY <1>1, <1>2, PTL DEF Spec

\* However pages are loaded again, connections break and the server restarts:
\* the mark of a step is that of a chain all of whose jobs were started and have
\* ended well (createConsole.js: runAllStandaloneDeploy and the other loops that
\* return at the first failure).
THEOREM ConsoleSound == Spec => []ConsoleOK
<1>1. ConsoleInv => ConsoleOK
  BY DEF ConsoleInv, PageGood, Whole, ConsoleOK, StepDoneIsDone
<1> QED
  BY <1>1, ConsoleAlways, PTL

\* What a page has taken for the end of its job stays the status of that job,
\* whether a socket or a poll has told it (watchJob, pollJob, handleWSJob).
THEOREM EndSeenIsEnd == Spec => []ConclusionIsFinal
<1>1. ConsoleInv => ConclusionIsFinal
  BY DEF ConsoleInv, PageGood, ConclusionIsFinal
<1> QED
  BY <1>1, ConsoleAlways, PTL

=============================================================================
