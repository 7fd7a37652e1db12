------------------------- MODULE SiteSessionProofs --------------------------
(***************************************************************************)
(* Proofs about the session of the wizard (SiteSession), for any number of *)
(* edits, requests, failures and steps.                                    *)
(*                                                                         *)
(* Later steps are closed without a site.yaml (SessionOK): what a function *)
(* makes of the page may leave the user on a later step without the file.  *)
(* But every change of the place goes through the address (Watched), which *)
(* turns back; and who takes the file for gone, goes to the first step.    *)
(* So it is enough that no function loses the file and keeps the step      *)
(* (Fit).                                                                  *)
(*                                                                         *)
(* The second half is about the progress: it does not come back after a    *)
(* reset, the draft brings back the form that was left, and an answer that *)
(* is late takes nothing away.  ProgressInv says of the page, the draft    *)
(* and the requests under way what these need.                             *)
(***************************************************************************)
EXTENDS SiteSession, TLAPS

Steps == 0..LastStep
Views == {"home", "preflight", "wizard"}
Phases == {"opening", "ready", "closed"}
Whats == {"open", "entry", "workspace", "wizard", "go", "look", "goload", "load", "step", "dirs", "save", "saved", "auto"}

PageType ==
    [phase : Phases, view : Views, exists : BOOLEAN, form : Forms, dirty : BOOLEAN, busy : BOOLEAN,
     timers : SUBSET {"draft", "site"}, step : Steps, reached : Steps, done : SUBSET Steps]
DraftType == [form : Forms, at : [step : Steps, reached : Steps, done : SUBSET Steps]]
RequestType == [what : Whats, to : Steps, known : BOOLEAN, text : Forms, got : Forms \cup {Wait, Ok, Error}]

Closed(p) == p.view = "wizard" /\ p.step > 0 => p.exists

\* A page that may follow upon p, before the address is looked at.
Fit(p, q) ==
    /\ q \in PageType /\ q.phase = p.phase
    /\ p.exists => q.exists \/ q.step = 0

\* A request; only a PUT is answered with Ok.
RequestInv(r) == r \in RequestType /\ (IsPut(r) \/ r.got \in Forms \cup {Wait, Error})

SessionInv ==
    /\ disk \in Forms /\ draft \in DraftType /\ edits \in 0..MaxEdits
    /\ page \in PageType /\ Closed(page)
    /\ \A r \in net : RequestInv(r)
    /\ page.phase = "closed" => net = {}
    /\ page.phase = "opening" => page.view = "home" /\ \A r, s \in net : r.what = "open" /\ r = s
    /\ page.phase = "ready" => \A r \in net : r.what # "open"

-----------------------------------------------------------------------------
(* What functions do to a page.                                             *)

LEMMA Bounds ==
    /\ 0 \in Steps /\ 1 \in Steps /\ 0 \in Forms
    /\ \A i, j \in Steps : Greater(i, j) \in Steps
    /\ \A i \in Steps : i # 0 => i > 0
    /\ \A n \in 0..MaxEdits : n < MaxEdits => n + 1 \in Forms /\ n + 1 \in 0..MaxEdits
    /\ ByHand \in Forms
<1>1. MaxEdits \in Nat /\ LastStep \in Nat /\ LastStep # 0
  BY SessionAssumption
<1> QED
  BY <1>1 DEF Steps, Forms, ByHand, Greater

LEMMA RefilledFits ==
    ASSUME NEW p \in PageType, NEW f \in Forms
    PROVE  /\ Fit(p, Refilled(p, f))
           /\ Refilled(p, f).exists = p.exists /\ Refilled(p, f).step = p.step /\ Refilled(p, f).view = p.view
           /\ Refilled(p, f).reached = p.reached /\ Refilled(p, f).done = p.done
<1> DEFINE d == (p.phase = "ready")
           t == IF p.phase = "ready" THEN {"draft", "site"} ELSE p.timers
           q == [p EXCEPT !.form = f, !.dirty = d, !.timers = t]
<1>1. d \in BOOLEAN /\ t \in SUBSET {"draft", "site"}
  BY DEF PageType
<1>2. q = Refilled(p, f)
  BY DEF Refilled
<1> HIDE DEF d, t
<1>3. /\ q \in PageType
      /\ q.phase = p.phase /\ q.exists = p.exists /\ q.step = p.step /\ q.view = p.view
      /\ q.reached = p.reached /\ q.done = p.done
  BY <1>1, Zenon DEF PageType
<1> HIDE DEF q
<1> QED
  BY <1>2, <1>3 DEF Fit

\* The file is not there any more.
LEMMA VanishedFits ==
    ASSUME NEW p \in PageType
    PROVE  fileVanished(p) \in PageType /\ fileVanished(p).phase = p.phase /\ fileVanished(p).step = 0
           /\ fileVanished(p).view = p.view /\ Fit(p, fileVanished(p))
<1> DEFINE q == [p EXCEPT !.exists = FALSE]
           x == [q EXCEPT !.step = 0, !.reached = 0, !.done = {}]
<1>1. fileVanished(p) = Refilled(x, 0)
  BY DEF fileVanished, resetWizardProgress, resetSiteFormBlank
<1>2. q \in PageType /\ q.phase = p.phase /\ q.view = p.view
  BY Zenon DEF PageType
<1> HIDE DEF q
<1>3. x \in PageType /\ x.phase = p.phase /\ x.view = p.view /\ x.step = 0
  BY <1>2, Bounds, Zenon DEF PageType
<1> HIDE DEF x
<1>4. Refilled(x, 0).step = 0 /\ Refilled(x, 0).view = p.view /\ Fit(x, Refilled(x, 0))
  BY <1>3, RefilledFits, Bounds
<1> QED
  BY <1>1, <1>3, <1>4 DEF Fit

\* An answer of loadSite.
LEMMA LoadFits ==
    ASSUME NEW p \in PageType, NEW got \in Forms \cup {Error}
    PROVE  Fit(p, loadSite(p, got)) /\ loadSite(p, got).view = p.view
<1>1. CASE IsFile(got)
  <2> DEFINE ds == p.done \cup {0}
             top == Greater(p.reached, 1)
             x == [p EXCEPT !.exists = TRUE, !.done = ds, !.reached = top]
  <2>1. loadSite(p, got) = Refilled(x, got) /\ got \in Forms
    BY <1>1 DEF loadSite, IsFile
  <2>2. ds \in SUBSET Steps /\ top \in Steps
    BY Bounds DEF PageType
  <2> HIDE DEF ds, top
  <2>3. x \in PageType /\ x.phase = p.phase /\ x.view = p.view /\ x.exists = TRUE
    BY <2>2, Zenon DEF PageType
  <2> HIDE DEF x
  <2>4. Fit(x, Refilled(x, got)) /\ Refilled(x, got).exists = TRUE /\ Refilled(x, got).view = p.view
    BY <2>1, <2>3, RefilledFits
  <2> QED
    BY <2>1, <2>3, <2>4 DEF Fit
<1>2. CASE ~IsFile(got)
  <2>1. loadSite(p, got) = fileVanished(p) \/ loadSite(p, got) = p
    BY <1>2 DEF loadSite
  <2>2. Fit(p, p)
    BY DEF Fit
  <2> QED
    BY <2>1, <2>2, VanishedFits
<1> QED
  BY <1>1, <1>2

LEMMA PreflightFits ==
    ASSUME NEW p \in PageType
    PROVE  /\ Fit(p, toPreflight(p)) /\ toPreflight(p).view = "preflight"
           /\ toPreflight(p).exists = p.exists /\ toPreflight(p).step = p.step
<1> DEFINE q == [p EXCEPT !.view = "preflight"]
<1>1. toPreflight(p) = Refilled(q, p.form) /\ p.form \in Forms
  BY DEF toPreflight, PageType
<1>2. "preflight" \in Views
  BY DEF Views
<1>3. q \in PageType /\ q.phase = p.phase /\ q.exists = p.exists /\ q.step = p.step /\ q.view = "preflight"
  BY <1>2, Zenon DEF PageType
<1> HIDE DEF q
<1> QED
  BY <1>1, <1>3, RefilledFits DEF Fit

\* The address turns back who has no file.
LEMMA HashCloses ==
    ASSUME NEW p \in PageType, NEW h, h.view \in Views, h.step \in Steps
    PROVE  /\ Fit(p, applyHashToState(p, h)) /\ Closed(applyHashToState(p, h))
           /\ applyHashToState(p, h).exists = p.exists
<1> DEFINE v == IF p.exists \/ h.step = 0 THEN "wizard" ELSE "preflight"
           i == IF p.exists THEN h.step ELSE 0
           top == IF p.exists THEN Greater(p.reached, h.step) ELSE p.reached
           w == [p EXCEPT !.view = v, !.step = i, !.reached = top]
           o == [p EXCEPT !.view = h.view]
           q == IF h.view = "wizard" THEN w ELSE o
<1>1. v \in Views /\ i \in Steps /\ top \in Steps
  BY Bounds DEF PageType, Views
<1>2. applyHashToState(p, h) = IF q.view = "preflight" THEN toPreflight(q) ELSE q
  BY DEF applyHashToState
<1>3. ~p.exists => i = 0
  OBVIOUS
<1> HIDE DEF v, i, top
<1>4. w \in PageType /\ w.phase = p.phase /\ w.exists = p.exists /\ w.step = i
  BY <1>1, Zenon DEF PageType
<1>5. o \in PageType /\ o.phase = p.phase /\ o.exists = p.exists /\ o.view = h.view
  BY Zenon DEF PageType
<1> HIDE DEF w, o
<1>6. /\ q \in PageType /\ q.phase = p.phase /\ q.exists = p.exists
      /\ q.view = "wizard" /\ ~p.exists => q.step = 0
  BY <1>3, <1>4, <1>5
<1> HIDE DEF q
<1>7. q.view = "wizard" => Closed(q)
  <2>1. CASE p.exists
    BY <1>6, <2>1 DEF Closed
  <2>2. CASE ~p.exists
    BY <1>6, <2>2 DEF Closed
  <2> QED
    BY <2>1, <2>2
<1>8. CASE q.view = "preflight"
  BY <1>2, <1>6, <1>8, PreflightFits DEF Fit, Closed
<1>9. CASE q.view # "preflight"
  BY <1>2, <1>6, <1>7, <1>9 DEF Fit, Closed
<1> QED
  BY <1>8, <1>9

LEMMA StepFits ==
    ASSUME NEW p \in PageType, NEW i \in Steps
    PROVE  /\ Fit(p, applyWizardStep(p, i)) /\ Fit(p, GoOn(p, i))
<1> DEFINE top == Greater(p.reached, i)
           q == [p EXCEPT !.step = i, !.reached = top]
<1>1. top \in Steps
  BY Bounds DEF PageType
<1>2. q = applyWizardStep(p, i)
  BY DEF applyWizardStep
<1> HIDE DEF top
<1>3. q \in PageType /\ q.phase = p.phase /\ q.exists = p.exists
  BY <1>1, Zenon DEF PageType
<1> HIDE DEF q
<1>4. GoOn(p, i) = p \/ GoOn(p, i) = q
  BY <1>2 DEF GoOn
<1> QED
  BY <1>2, <1>3, <1>4 DEF Fit

LEMMA FitTogether ==
    ASSUME NEW p \in PageType, NEW q, NEW x, Fit(p, q), p.exists => q.exists, Fit(q, x)
    PROVE  Fit(p, x)
  BY DEF Fit

-----------------------------------------------------------------------------
(* What the callbacks make of a change.                                     *)

LEMMA WatchedSafe ==
    ASSUME page \in PageType, Closed(page), page.phase = "ready", NEW p, Fit(page, p)
    PROVE  Watched(p) \in PageType /\ Watched(p).phase = "ready" /\ Closed(Watched(p))
<1> DEFINE h == routePath(p)
           q == IF h # routePath(page) THEN applyHashToState(p, h) ELSE p
<1>1. p \in PageType /\ p.phase = "ready" /\ (page.exists => p.exists \/ p.step = 0)
  BY DEF Fit
<1>2. h.view = p.view /\ h.step = IF p.view = "wizard" THEN p.step ELSE 0
  BY DEF routePath
<1>3. h.view \in Views /\ h.step \in Steps
  BY <1>1, <1>2, Bounds DEF PageType
<1>4. q \in PageType /\ q.phase = "ready" /\ Closed(q)
  <2>1. CASE h # routePath(page)
    BY <1>1, <1>3, <2>1, HashCloses DEF Fit
  <2>2. CASE h = routePath(page)
    <3>1. p.view = page.view /\ (p.view = "wizard" => p.step = page.step)
      BY <2>2 DEF routePath
    <3>2. Closed(p)
      BY <1>1, <3>1, Bounds DEF Closed, PageType
    <3> QED
      BY <1>1, <2>2, <3>2
  <2> QED
    BY <2>1, <2>2
<1> DEFINE moved == wizardProgressSnapshot(q) # wizardProgressSnapshot(page) \/ q.view # page.view
           typed == q.form # page.form
           ts == q.timers \cup (IF moved \/ typed THEN {"draft"} ELSE {}) \cup (IF typed THEN {"site"} ELSE {})
           d == (q.dirty \/ typed)
           x == [q EXCEPT !.timers = ts, !.dirty = d]
<1>5. Watched(p) = x
  BY DEF Watched
<1> HIDE DEF q, moved, typed
<1>6. ts \in SUBSET {"draft", "site"} /\ d \in BOOLEAN
  BY <1>4 DEF PageType
<1> HIDE DEF ts, d
<1>7. x \in PageType /\ x.phase = q.phase /\ x.view = q.view /\ x.step = q.step /\ x.exists = q.exists
  BY <1>4, <1>6, Zenon DEF PageType
<1> HIDE DEF x
<1> QED
  BY <1>4, <1>5, <1>7 DEF Closed

\* A step of a page that is open: what is left to show of it.
LEMMA ShownStep ==
    ASSUME SessionInv, page.phase = "ready", NEW p, Fit(page, p), page' = Watched(p),
           disk' \in Forms, draft' \in DraftType, edits' \in 0..MaxEdits,
           \A r \in net' : RequestInv(r) /\ r.what # "open"
    PROVE  SessionInv'
<1>1. page' \in PageType /\ page'.phase = "ready" /\ Closed(page')
  BY WatchedSafe DEF SessionInv
<1>2. Closed(page)'
  BY <1>1 DEF Closed
<1>3. \A r \in net' : RequestInv(r)'
  BY DEF RequestInv, IsPut
<1> QED
  BY <1>1, <1>2, <1>3 DEF SessionInv

\* Something happens on the page.
LEMMA DoSafe ==
    ASSUME SessionInv, page.phase = "ready", NEW p, Fit(page, p), NEW requests, Do(p, requests),
           \A r \in requests : RequestInv(r) /\ r.what # "open"
    PROVE  SessionInv'
<1>1. \A r \in net' : RequestInv(r) /\ r.what # "open"
  BY DEF Do, SessionInv
<1>2. page' = Watched(p) /\ disk' \in Forms /\ draft' \in DraftType /\ edits' \in 0..MaxEdits
  BY DEF Do, stored, SessionInv
<1> QED
  BY <1>1, <1>2, ShownStep

\* An answer is dealt with.
LEMMA AfterSafe ==
    ASSUME SessionInv, page.phase = "ready", NEW r, NEW p, Fit(page, p), NEW requests, After(r, p, requests),
           \A s \in requests : RequestInv(s) /\ s.what # "open"
    PROVE  SessionInv'
<1>1. \A s \in net' : RequestInv(s) /\ s.what # "open"
  BY DEF After, SessionInv
<1>2. page' = Watched(p) /\ disk' \in Forms /\ draft' \in DraftType /\ edits' \in 0..MaxEdits
  BY DEF After, stored, SessionInv
<1> QED
  BY <1>1, <1>2, ShownStep

\* What is asked, and what is sent to be written.
LEMMA Asked ==
    ASSUME NEW what \in Whats, NEW to \in Steps, NEW known \in BOOLEAN
    PROVE  RequestInv(GET(what, to, known)) /\ GET(what, to, known).what = what
  BY Bounds DEF RequestInv, RequestType, GET

LEMMA Sent ==
    ASSUME NEW what \in {"auto", "step", "save"}, NEW to \in Steps, NEW known \in BOOLEAN, page \in PageType
    PROVE  RequestInv(PUT(what, to, known)) /\ PUT(what, to, known).what = what
<1>1. page.form \in Forms
  BY DEF PageType
<1>2. PUT(what, to, known) = [what |-> what, to |-> to, known |-> known, text |-> page.form, got |-> Wait]
  BY DEF PUT, GET
<1>3. what \in Whats
  BY DEF Whats
<1> QED
  BY <1>1, <1>2, <1>3 DEF RequestInv, RequestType

\* Fields that have nothing to do with it.
LEMMA ViewFits ==
    ASSUME NEW p, NEW q, Fit(p, q), NEW v \in Views
    PROVE  Fit(p, [q EXCEPT !.view = v])
<1> DEFINE x == [q EXCEPT !.view = v]
<1>1. q \in PageType
  BY DEF Fit
<1>2. x \in PageType /\ x.phase = q.phase /\ x.exists = q.exists /\ x.step = q.step
  BY <1>1, Zenon DEF PageType
<1> HIDE DEF x
<1>3. Fit(p, x)
  BY <1>2 DEF Fit
<1> QED
  BY <1>3 DEF x

LEMMA BusyFits ==
    ASSUME NEW p, NEW q, Fit(p, q), NEW b \in BOOLEAN
    PROVE  Fit(p, [q EXCEPT !.busy = b]) /\ [q EXCEPT !.busy = b].exists = q.exists
<1> DEFINE x == [q EXCEPT !.busy = b]
<1>1. q \in PageType
  BY DEF Fit
<1>2. x \in PageType /\ x.phase = q.phase /\ x.exists = q.exists /\ x.step = q.step
  BY <1>1, Zenon DEF PageType
<1> HIDE DEF x
<1>3. Fit(p, x) /\ x.exists = q.exists
  BY <1>2 DEF Fit
<1> QED
  BY <1>3 DEF x

LEMMA CleanFits ==
    ASSUME NEW p, NEW q, Fit(p, q)
    PROVE  Fit(p, [q EXCEPT !.dirty = FALSE])
<1> DEFINE x == [q EXCEPT !.dirty = FALSE]
<1>1. q \in PageType
  BY DEF Fit
<1>2. x \in PageType /\ x.phase = q.phase /\ x.exists = q.exists /\ x.step = q.step
  BY <1>1, Zenon DEF PageType
<1> HIDE DEF x
<1>3. Fit(p, x)
  BY <1>2 DEF Fit
<1> QED
  BY <1>3 DEF x

LEMMA TimersFit ==
    ASSUME NEW p \in PageType, NEW ts \in SUBSET {"draft", "site"}
    PROVE  Fit(p, [p EXCEPT !.timers = ts]) /\ [p EXCEPT !.timers = ts].view = p.view
           /\ [p EXCEPT !.timers = ts].step = p.step /\ [p EXCEPT !.timers = ts].exists = p.exists
<1> DEFINE x == [p EXCEPT !.timers = ts]
<1>2. /\ x \in PageType /\ x.phase = p.phase /\ x.exists = p.exists /\ x.step = p.step /\ x.view = p.view
  BY Zenon DEF PageType
<1> HIDE DEF x
<1>3. Fit(p, x)
  BY <1>2 DEF Fit
<1> QED
  BY <1>2, <1>3 DEF x

LEMMA DoneFits ==
    ASSUME NEW p, NEW q, Fit(p, q), NEW i \in Steps
    PROVE  Fit(p, [q EXCEPT !.done = @ \cup {i}]) /\ [q EXCEPT !.done = @ \cup {i}].exists = q.exists
<1> DEFINE ds == q.done \cup {i}
           x == [q EXCEPT !.done = ds]
<1>1. q \in PageType
  BY DEF Fit
<1>2. ds \in SUBSET Steps
  BY <1>1 DEF PageType
<1>3. x = [q EXCEPT !.done = @ \cup {i}]
  OBVIOUS
<1> HIDE DEF ds
<1>4. x \in PageType /\ x.phase = q.phase /\ x.exists = q.exists /\ x.step = q.step
  BY <1>1, <1>2, Zenon DEF PageType
<1> HIDE DEF x
<1>5. Fit(p, x)
  BY <1>4 DEF Fit
<1> QED
  BY <1>3, <1>4, <1>5

LEMMA ExistsFits ==
    ASSUME NEW p \in PageType
    PROVE  Fit(p, markSiteFileExists(p)) /\ markSiteFileExists(p).exists = TRUE
<1> DEFINE x == [p EXCEPT !.exists = TRUE]
<1>1. x = markSiteFileExists(p)
  BY DEF markSiteFileExists
<1>2. x \in PageType /\ x.phase = p.phase /\ x.exists = TRUE
  BY Zenon DEF PageType
<1> HIDE DEF x
<1> QED
  BY <1>1, <1>2 DEF Fit

\* The way goes on from a page that has lost the file, too.
LEMMA GoOnFits ==
    ASSUME NEW p, NEW q, Fit(p, q), NEW i \in Steps
    PROVE  Fit(p, GoOn(q, i))
<1> DEFINE x == applyWizardStep(q, i)
<1>1. q \in PageType /\ q.phase = p.phase /\ (p.exists => q.exists \/ q.step = 0)
  BY DEF Fit
<1>2. Fit(q, x)
  BY <1>1, StepFits
<1>3. GoOn(q, i) = q \/ ((q.exists \/ i = 0) /\ GoOn(q, i) = x)
  BY Zenon DEF GoOn
<1>4. x.step = i
  <2> DEFINE top == Greater(q.reached, i)
  <2>1. x = [q EXCEPT !.step = i, !.reached = top]
    BY DEF applyWizardStep
  <2> HIDE DEF top
  <2> QED
    BY <1>1, <2>1, Zenon DEF PageType
<1> HIDE DEF x
<1> QED
  BY <1>1, <1>2, <1>3, <1>4 DEF Fit

LEMMA SameFits == ASSUME NEW p \in PageType PROVE Fit(p, p)
  BY DEF Fit

LEMMA RefillFits ==
    ASSUME NEW p, NEW q, Fit(p, q), NEW f \in Forms
    PROVE  Fit(p, Refilled(q, f))
  BY RefilledFits DEF Fit

LEMMA EntryFits ==
    ASSUME NEW p, NEW q, Fit(p, q)
    PROVE  Fit(p, toPreflight(q))
  BY PreflightFits DEF Fit

\* A page has asked what is under way, and what has come is a form or an error.
LEMMA Asker ==
    ASSUME SessionInv, NEW r \in net, r.what # "open"
    PROVE  page.phase = "ready"
<1>1. page.phase \in Phases
  BY DEF SessionInv, PageType
<1> QED
  BY <1>1 DEF SessionInv, Phases

LEMMA Answer ==
    ASSUME SessionInv, NEW r \in net, r.got # Wait
    PROVE  /\ r.what \in Whats /\ r.to \in Steps /\ r.known \in BOOLEAN /\ RequestInv(r)
           /\ r.what \notin {"auto", "step", "save"} => r.got \in Forms \cup {Error}
<1>1. RequestInv(r)
  BY DEF SessionInv
<1> QED
  BY <1>1 DEF RequestInv, RequestType, IsPut

-----------------------------------------------------------------------------
(* The user.                                                                *)

LEMMA PageFacts ==
    ASSUME SessionInv
    PROVE  page \in PageType /\ page.form \in Forms /\ Fit(page, page) /\ 0 \in Steps /\ 1 \in Steps
  BY Bounds, SameFits DEF SessionInv, PageType

LEMMA EditFormSafe == ASSUME SessionInv, EditForm PROVE SessionInv'
<1> DEFINE n == edits + 1
           q == [page EXCEPT !.form = n]
<1>1. n \in Forms /\ n \in 0..MaxEdits
  BY Bounds DEF EditForm, SessionInv
<1>2. page.phase = "ready" /\ page' = Watched(q) /\ edits' = n /\ UNCHANGED <<disk, draft, net>>
  BY DEF EditForm, InSite, Ready
<1> HIDE DEF n
<1>3. q \in PageType /\ q.phase = page.phase /\ q.exists = page.exists
  BY <1>1, PageFacts, Zenon DEF PageType
<1> HIDE DEF q
<1>4. Fit(page, q)
  BY <1>3 DEF Fit
<1>5. disk' \in Forms /\ draft' \in DraftType /\ \A r \in net' : RequestInv(r) /\ r.what # "open"
  BY <1>2 DEF SessionInv
<1> QED
  BY <1>1, <1>2, <1>4, <1>5, ShownStep

LEMMA EditRestSafe == ASSUME SessionInv, EditRest PROVE SessionInv'
<1> DEFINE q == Refilled(page, page.form)
<1>1. page.phase = "ready" /\ Do(q, {})
  BY DEF EditRest, Ready
<1>2. Fit(page, q)
  BY PageFacts, RefilledFits
<1> HIDE DEF q
<1> QED
  BY <1>1, <1>2, DoSafe

LEMMA goHomeSafe == ASSUME SessionInv, goHome PROVE SessionInv'
<1> DEFINE q == [page EXCEPT !.view = "home"]
<1>1. page.phase = "ready" /\ Do(q, {})
  BY DEF goHome, Ready
<1>2. Fit(page, q)
  BY PageFacts, ViewFits DEF Views
<1> HIDE DEF q
<1> QED
  BY <1>1, <1>2, DoSafe

LEMMA onRouteChangeSafe == ASSUME SessionInv, NEW h \in Typed, onRouteChange(h) PROVE SessionInv'
<1> DEFINE q == applyHashToState(page, h)
<1>1. page.phase = "ready" /\ Do(q, {})
  BY DEF onRouteChange, Ready
<1>2. h.view \in Views /\ h.step \in Steps
  BY SessionAssumption DEF Views, Steps
<1>3. Fit(page, q)
  BY <1>2, PageFacts, HashCloses
<1> HIDE DEF q
<1> QED
  BY <1>1, <1>3, DoSafe

LEMMA goDeployEntrySafe == ASSUME SessionInv, goDeployEntry PROVE SessionInv'
<1> DEFINE w == (page.view = "wizard")
<1>1. page.phase = "ready" /\ Do(page, {GET("entry", 0, w)})
  BY DEF goDeployEntry, Free, Room, Ready
<1>2. w \in BOOLEAN
  OBVIOUS
<1> HIDE DEF w
<1>3. RequestInv(GET("entry", 0, w)) /\ GET("entry", 0, w).what = "entry"
  BY <1>2, PageFacts, Asked DEF Whats
<1> QED
  BY <1>1, <1>3, PageFacts, DoSafe

LEMMA initWorkspaceAndEnterSafe == ASSUME SessionInv, initWorkspaceAndEnter PROVE SessionInv'
<1> DEFINE q == [page EXCEPT !.busy = TRUE]
<1>1. page.phase = "ready" /\ Do(q, {GET("workspace", 0, FALSE)})
  BY DEF initWorkspaceAndEnter, Free, Room, Ready
<1>2. Fit(page, q)
  BY PageFacts, BusyFits
<1> HIDE DEF q
<1>3. RequestInv(GET("workspace", 0, FALSE)) /\ GET("workspace", 0, FALSE).what = "workspace"
  BY PageFacts, Asked DEF Whats
<1> QED
  BY <1>1, <1>2, <1>3, DoSafe

LEMMA goToStepSafe == ASSUME SessionInv, NEW i \in Steps, goToStep(i) PROVE SessionInv'
<1> DEFINE q == [page EXCEPT !.busy = TRUE]
<1>1. /\ page.phase = "ready"
      /\ Do(q, {PUT("step", i, FALSE)}) \/ Do(page, {GET("go", i, page.exists)})
  BY DEF goToStep, Free, Room, Ready
<1>2. Fit(page, q)
  BY PageFacts, BusyFits
<1> HIDE DEF q
<1>3. RequestInv(PUT("step", i, FALSE)) /\ PUT("step", i, FALSE).what = "step"
  BY PageFacts, Sent
<1>4. page.exists \in BOOLEAN
  BY PageFacts DEF PageType
<1>5. RequestInv(GET("go", i, page.exists)) /\ GET("go", i, page.exists).what = "go"
  BY <1>4, Asked DEF Whats
<1>6. CASE Do(q, {PUT("step", i, FALSE)})
  BY <1>1, <1>2, <1>3, <1>6, DoSafe
<1>7. CASE Do(page, {GET("go", i, page.exists)})
  BY <1>1, <1>5, <1>7, PageFacts, DoSafe
<1> QED
  BY <1>1, <1>6, <1>7

LEMMA LookSafe == ASSUME SessionInv, Look PROVE SessionInv'
<1>1. page.phase = "ready" /\ Do(page, {GET("look", 0, page.exists)})
  BY DEF Look, Room, Ready
<1>2. page.exists \in BOOLEAN
  BY PageFacts DEF PageType
<1>3. RequestInv(GET("look", 0, page.exists)) /\ GET("look", 0, page.exists).what = "look"
  BY <1>2, PageFacts, Asked DEF Whats
<1> QED
  BY <1>1, <1>3, PageFacts, DoSafe

LEMMA reloadSiteSafe == ASSUME SessionInv, reloadSite PROVE SessionInv'
<1>1. page.phase = "ready" /\ Do(page, {GET("load", 0, FALSE)})
  BY DEF reloadSite, Free, Room, Ready
<1>2. RequestInv(GET("load", 0, FALSE)) /\ GET("load", 0, FALSE).what = "load"
  BY PageFacts, Asked DEF Whats
<1> QED
  BY <1>1, <1>2, PageFacts, DoSafe

LEMMA nextFromSiteSafe == ASSUME SessionInv, nextFromSite PROVE SessionInv'
<1> DEFINE q == [page EXCEPT !.busy = TRUE]
<1>1. page.phase = "ready" /\ Do(q, {PUT("step", 1, TRUE)})
  BY DEF nextFromSite, Free, Room, Ready
<1>2. Fit(page, q)
  BY PageFacts, BusyFits
<1> HIDE DEF q
<1>3. RequestInv(PUT("step", 1, TRUE)) /\ PUT("step", 1, TRUE).what = "step"
  BY PageFacts, Sent
<1> QED
  BY <1>1, <1>2, <1>3, DoSafe

LEMMA saveSiteSafe == ASSUME SessionInv, saveSite PROVE SessionInv'
<1> DEFINE q == [page EXCEPT !.busy = TRUE]
<1>1. page.phase = "ready" /\ Do(q, {PUT("save", 0, FALSE)})
  BY DEF saveSite, Free, Room, Ready
<1>2. Fit(page, q)
  BY PageFacts, BusyFits
<1> HIDE DEF q
<1>3. RequestInv(PUT("save", 0, FALSE)) /\ PUT("save", 0, FALSE).what = "save"
  BY PageFacts, Sent
<1> QED
  BY <1>1, <1>2, <1>3, DoSafe

\* The work of a later step: the user was on it, so the file is there.
LEMMA completeFieldStepSafe == ASSUME SessionInv, NEW i \in 1..LastStep, completeFieldStep(i) PROVE SessionInv'
<1> DEFINE j == i + 1
           q == [page EXCEPT !.done = @ \cup {i}]
           x == applyWizardStep(q, j)
<1>1. /\ page.phase = "ready" /\ page.view = "wizard" /\ page.step = i /\ i < LastStep
      /\ page' = Watched(x) /\ UNCHANGED <<disk, draft, edits, net>>
  BY DEF completeFieldStep, Ready, stored
<1>2. i \in Steps /\ j \in Steps
  BY <1>1, SessionAssumption DEF Steps
<1> HIDE DEF j
<1>3. Fit(page, q) /\ q.exists = page.exists
  BY <1>2, PageFacts, DoneFits
<1> HIDE DEF q
<1>4. q \in PageType
  BY <1>3 DEF Fit
<1>5. Fit(page, x)
  BY <1>2, <1>3, <1>4, PageFacts, StepFits, FitTogether
<1> HIDE DEF x
<1>6. /\ disk' \in Forms /\ draft' \in DraftType /\ edits' \in 0..MaxEdits
      /\ \A r \in net' : RequestInv(r) /\ r.what # "open"
  BY <1>1 DEF SessionInv
<1> QED
  BY <1>1, <1>5, <1>6, ShownStep

-----------------------------------------------------------------------------
(* Opening and closing, timers, and what others do.                         *)

LEMMA FreshFacts ==
    ASSUME NEW x \in {"opening", "closed"}
    PROVE  /\ [Fresh EXCEPT !.phase = x] \in PageType /\ Closed([Fresh EXCEPT !.phase = x])
           /\ [Fresh EXCEPT !.phase = x].phase = x /\ [Fresh EXCEPT !.phase = x].view = "home"
<1> DEFINE q == [Fresh EXCEPT !.phase = x]
<1>1. x \in Phases /\ "home" \in Views
  BY DEF Phases, Views
<1>2. Fresh \in PageType /\ Fresh.view = "home"
  BY Bounds DEF Fresh, PageType, Phases, Views
<1>3. q \in PageType
  BY <1>1, <1>2, Zenon DEF PageType
<1>4. q.view = "home" /\ q.phase = x
  BY <1>2, Zenon DEF PageType
<1> HIDE DEF q
<1>5. Closed(q)
  BY <1>4 DEF Closed
<1> QED
  BY <1>3, <1>4, <1>5 DEF q

LEMMA SnapshotFits == ASSUME NEW p \in PageType PROVE [form |-> p.form, at |-> wizardProgressSnapshot(p)] \in DraftType
<1> DEFINE i == IF p.exists THEN p.step ELSE 0
           n == IF p.exists THEN p.reached ELSE 0
           ds == IF p.exists THEN p.done ELSE {}
<1>1. i \in Steps /\ n \in Steps /\ ds \in SUBSET Steps /\ p.form \in Forms
  BY Bounds DEF PageType
<1>2. wizardProgressSnapshot(p) = [step |-> i, reached |-> n, done |-> ds]
  BY DEF wizardProgressSnapshot
<1> HIDE DEF i, n, ds
<1> QED
  BY <1>1, <1>2 DEF DraftType

LEMMA InitSafe == ASSUME Init PROVE SessionInv
<1>1. page = [Fresh EXCEPT !.phase = "closed"] /\ net = {} /\ disk \in {0, ByHand} /\ edits = 0
      /\ draft = [form |-> 0, at |-> wizardProgressSnapshot(Fresh)]
  BY DEF Init
<1>2. page \in PageType /\ Closed(page) /\ page.phase = "closed"
  BY <1>1, FreshFacts
<1>3. wizardProgressSnapshot(Fresh) = [step |-> 0, reached |-> 0, done |-> {}]
  BY DEF wizardProgressSnapshot, Fresh
<1>4. draft \in DraftType
  BY <1>1, <1>3, Bounds DEF DraftType
<1>5. disk \in Forms /\ edits \in 0..MaxEdits
  BY <1>1, Bounds, SessionAssumption
<1> QED
  BY <1>1, <1>2, <1>4, <1>5 DEF SessionInv

LEMMA OpenSafe == ASSUME SessionInv, Open PROVE SessionInv'
<1> DEFINE g == GET("open", 0, FALSE)
<1>1. page' = Fresh /\ net' = {g} /\ UNCHANGED <<disk, draft, edits>>
  BY DEF Open, SessionInv, stored
<1>2. RequestInv(g) /\ g.what = "open"
  BY PageFacts, Asked DEF Whats
<1> HIDE DEF g
<1>3. [Fresh EXCEPT !.phase = "opening"] = Fresh
  BY DEF Fresh
<1>4. page' \in PageType /\ Closed(page') /\ page'.phase = "opening" /\ page'.view = "home"
  BY <1>1, <1>3, FreshFacts
<1>5. Closed(page)' /\ \A r \in net' : RequestInv(r)'
  BY <1>1, <1>2, <1>4 DEF Closed, RequestInv, IsPut
<1> QED
  BY <1>1, <1>2, <1>4, <1>5 DEF SessionInv

LEMMA onPageHideSafe == ASSUME SessionInv, onPageHide PROVE SessionInv'
<1> DEFINE sent == {q \in net : IsPut(q) /\ q.got = Wait /\ siteFormReadyToPersist(q.text)}
           written == {r.text : r \in sent}
<1>1. /\ page' = [Fresh EXCEPT !.phase = "closed"] /\ net' = {} /\ edits' = edits
      /\ draft' = [form |-> page.form, at |-> wizardProgressSnapshot(page)]
  BY DEF onPageHide, flushSitePersist, saveDraft
<1>2. disk' = disk \/ disk' \in written \/ disk' = page.form
  BY DEF onPageHide
<1>3. \A r \in sent : r.text \in Forms
  BY DEF SessionInv, RequestInv, RequestType
<1>4. disk' \in Forms
  BY <1>2, <1>3, PageFacts DEF SessionInv
<1>5. page' \in PageType /\ Closed(page') /\ page'.phase = "closed"
  BY <1>1, FreshFacts
<1>6. Closed(page)'
  BY <1>5 DEF Closed
<1>7. draft' \in DraftType
  BY <1>1, PageFacts, SnapshotFits
<1> QED
  BY <1>1, <1>4, <1>5, <1>6, <1>7 DEF SessionInv

\* A step that touches nothing of the page but its timers.
LEMMA TimersSafe ==
    ASSUME SessionInv, page.phase = "ready", NEW ts \in SUBSET {"draft", "site"}, page' = [page EXCEPT !.timers = ts],
           disk' \in Forms, draft' \in DraftType, edits' \in 0..MaxEdits,
           \A r \in net' : RequestInv(r) /\ r.what # "open"
    PROVE  SessionInv'
<1> DEFINE q == [page EXCEPT !.timers = ts]
<1>1. Fit(page, q) /\ q.view = page.view /\ q.step = page.step /\ q.exists = page.exists
  BY PageFacts, TimersFit
<1>2. page' = q
  OBVIOUS
<1> HIDE DEF q
<1>3. page' \in PageType /\ page'.phase = "ready"
  BY <1>1, <1>2 DEF Fit
<1>4. Closed(page)'
  BY <1>1, <1>2 DEF SessionInv, Closed
<1>5. \A r \in net' : RequestInv(r)'
  BY DEF RequestInv, IsPut
<1> QED
  BY <1>3, <1>4, <1>5 DEF SessionInv

LEMMA AutoSent ==
    ASSUME SessionInv, page.phase = "ready", net' = net \cup (IF autosaves THEN {PUT("auto", 0, FALSE)} ELSE {})
    PROVE  \A r \in net' : RequestInv(r) /\ r.what # "open"
<1>1. RequestInv(PUT("auto", 0, FALSE)) /\ PUT("auto", 0, FALSE).what = "auto"
  BY PageFacts, Sent
<1>2. \A r \in net : RequestInv(r) /\ r.what # "open"
  BY DEF SessionInv
<1>3. \A r \in net' : r \in net \/ r = PUT("auto", 0, FALSE)
  OBVIOUS
<1> QED
  BY <1>1, <1>2, <1>3

LEMMA onSiteVisibilitySafe == ASSUME SessionInv, onSiteVisibility PROVE SessionInv'
<1> DEFINE ts == IF page.dirty /\ ~autosaves THEN {"draft"} ELSE {}
<1>1. /\ page.phase = "ready" /\ page' = [page EXCEPT !.timers = ts] /\ UNCHANGED <<disk, edits>>
      /\ draft' = [form |-> page.form, at |-> wizardProgressSnapshot(page)]
      /\ net' = net \cup (IF autosaves THEN {PUT("auto", 0, FALSE)} ELSE {})
  BY DEF onSiteVisibility, Room, Ready, flushSitePersist, saveDraft
<1>2. ts \in SUBSET {"draft", "site"}
  OBVIOUS
<1> HIDE DEF ts
<1>3. draft' \in DraftType
  BY <1>1, PageFacts, SnapshotFits
<1>4. disk' \in Forms /\ edits' \in 0..MaxEdits
  BY <1>1 DEF SessionInv
<1>5. \A r \in net' : RequestInv(r) /\ r.what # "open"
  BY <1>1, AutoSent
<1> QED
  BY <1>1, <1>2, <1>3, <1>4, <1>5, TimersSafe

LEMMA persistDraftSoonSafe == ASSUME SessionInv, persistDraftSoon PROVE SessionInv'
<1> DEFINE ts == page.timers \ {"draft"}
<1>1. /\ page.phase = "ready" /\ page' = [page EXCEPT !.timers = ts] /\ UNCHANGED <<disk, edits, net>>
      /\ draft' = [form |-> page.form, at |-> wizardProgressSnapshot(page)]
  BY DEF persistDraftSoon, Ready, saveDraft
<1>2. ts \in SUBSET {"draft", "site"}
  BY PageFacts DEF PageType
<1> HIDE DEF ts
<1>3. draft' \in DraftType
  BY <1>1, PageFacts, SnapshotFits
<1>4. disk' \in Forms /\ edits' \in 0..MaxEdits /\ \A r \in net' : RequestInv(r) /\ r.what # "open"
  BY <1>1 DEF SessionInv
<1> QED
  BY <1>1, <1>2, <1>3, <1>4, TimersSafe

LEMMA persistSiteFormSoonSafe == ASSUME SessionInv, persistSiteFormSoon PROVE SessionInv'
<1> DEFINE ts == (page.timers \ {"site"}) \cup (IF page.dirty /\ ~autosaves THEN {"draft"} ELSE {})
<1>1. /\ page.phase = "ready" /\ page' = [page EXCEPT !.timers = ts] /\ UNCHANGED <<disk, draft, edits>>
      /\ net' = net \cup (IF autosaves THEN {PUT("auto", 0, FALSE)} ELSE {})
  BY DEF persistSiteFormSoon, Room, Ready, stored
<1>2. ts \in SUBSET {"draft", "site"}
  BY PageFacts DEF PageType
<1> HIDE DEF ts
<1>3. disk' \in Forms /\ draft' \in DraftType /\ edits' \in 0..MaxEdits
  BY <1>1 DEF SessionInv
<1>4. \A r \in net' : RequestInv(r) /\ r.what # "open"
  BY <1>1, AutoSent
<1> QED
  BY <1>1, <1>2, <1>3, <1>4, TimersSafe

LEMMA ByHandSafe == ASSUME SessionInv, WriteByHand \/ DeleteByHand PROVE SessionInv'
<1>1. disk' \in Forms /\ UNCHANGED <<draft, page, net, edits>>
  BY Bounds DEF WriteByHand, DeleteByHand
<1>2. Closed(page)' /\ \A r \in net' : RequestInv(r)'
  BY <1>1 DEF SessionInv, Closed, RequestInv, IsPut
<1> QED
  BY <1>1, <1>2 DEF SessionInv

\* The server answers, or fails.
LEMMA ReplySafe ==
    ASSUME SessionInv, NEW r \in net, NEW got, IsPut(r) => got \in {Ok, Error}, ~IsPut(r) => got \in Forms \cup {Error},
           net' = Reply(r, got), disk' \in Forms, UNCHANGED <<draft, page, edits>>
    PROVE  SessionInv'
<1> DEFINE s == [r EXCEPT !.got = got]
<1>1. net' = (net \ {r}) \cup {s} /\ RequestInv(r)
  BY DEF Reply, SessionInv
<1>2. got \in Forms \cup {Wait, Ok, Error}
  OBVIOUS
<1>3. s \in RequestType /\ s.what = r.what /\ s.got = got
  BY <1>1, <1>2, Zenon DEF RequestInv, RequestType
<1> HIDE DEF s
<1>4. RequestInv(s)
  BY <1>3 DEF RequestInv, IsPut
<1>5. \A x \in net' : RequestInv(x)
  BY <1>1, <1>4 DEF SessionInv
<1>6. Closed(page)' /\ \A x \in net' : RequestInv(x)'
  BY <1>5 DEF SessionInv, Closed, RequestInv, IsPut
<1>7. page'.phase # "closed"
  BY DEF SessionInv
<1>8. page'.phase = "opening" => page'.view = "home" /\ \A x, y \in net' : x.what = "open" /\ x = y
  BY <1>1, <1>3 DEF SessionInv
<1>9. page'.phase = "ready" => \A x \in net' : x.what # "open"
  BY <1>1, <1>3 DEF SessionInv
<1> QED
  BY <1>6, <1>7, <1>8, <1>9 DEF SessionInv

LEMMA HandleSafe == ASSUME SessionInv, NEW r \in net, Handle(r) PROVE SessionInv'
<1>1. UNCHANGED <<draft, page, edits>>
  BY DEF Handle
<1>2. RequestInv(r) /\ r.text \in Forms /\ disk \in Forms
  BY DEF SessionInv, RequestInv, RequestType
<1>3. CASE IsPut(r) /\ siteFormReadyToPersist(r.text)
  <2>1. disk' = r.text /\ net' = Reply(r, Ok)
    BY <1>3 DEF Handle
  <2> QED
    BY <1>1, <1>2, <1>3, <2>1, ReplySafe
<1>4. CASE ~(IsPut(r) /\ siteFormReadyToPersist(r.text))
  <2> DEFINE got == IF IsPut(r) THEN Error ELSE disk
  <2>1. disk' = disk /\ net' = Reply(r, got)
    BY <1>4 DEF Handle
  <2>2. (IsPut(r) => got \in {Ok, Error}) /\ (~IsPut(r) => got \in Forms \cup {Error})
    BY <1>2
  <2> HIDE DEF got
  <2> QED
    BY <1>1, <1>2, <2>1, <2>2, ReplySafe
<1> QED
  BY <1>3, <1>4

LEMMA FailSafe == ASSUME SessionInv, NEW r \in net, Fail(r) PROVE SessionInv'
<1>1. UNCHANGED <<draft, page, edits>> /\ disk' \in Forms /\ net' = Reply(r, Error)
  BY DEF Fail, SessionInv
<1> QED
  BY <1>1, ReplySafe

-----------------------------------------------------------------------------
(* Answers.                                                                 *)

\* The draft is taken over by a page that is still to be shown.
LEMMA DraftFits ==
    ASSUME NEW p \in PageType, NEW d \in DraftType
    PROVE  applyDraft(p, d) \in PageType /\ applyDraft(p, d).view = p.view
<1> DEFINE i == IF p.exists THEN d.at.step ELSE p.step
           n == IF p.exists THEN Greater(p.reached, d.at.reached) ELSE p.reached
           ds == IF p.exists THEN d.at.done ELSE p.done
           f == IF p.exists THEN p.form ELSE d.form
           b == ~p.exists
           q == [p EXCEPT !.step = i, !.reached = n, !.done = ds, !.form = f, !.dirty = b]
<1>1. i \in Steps /\ n \in Steps /\ ds \in SUBSET Steps /\ f \in Forms
  BY Bounds DEF PageType, DraftType
<1>2. b \in BOOLEAN
  OBVIOUS
<1>3. applyDraft(p, d) = q
  BY DEF applyDraft
<1> HIDE DEF i, n, ds, f, b
<1>4. q \in PageType /\ q.view = p.view
  BY <1>1, <1>2, Zenon DEF PageType
<1> QED
  BY <1>3, <1>4

LEMMA mountSafe == ASSUME SessionInv, NEW r \in net, NEW h \in Typed \cup {NoHash}, mount(r, h) PROVE SessionInv'
<1> DEFINE l == loadSite(page, r.got)
           a == applyDraft(l, draft)
           ts == {"draft", "site"}
           p == [a EXCEPT !.phase = "ready", !.timers = ts]
           q == IF h = NoHash THEN p ELSE applyHashToState(p, h)
<1>1. r.what = "open" /\ r.got # Wait /\ After(r, q, {})
  BY DEF mount
<1>2. page.phase = "opening"
  <2>1. page.phase \in Phases
    BY DEF SessionInv, PageType
  <2> QED
    BY <1>1, <2>1 DEF SessionInv, Phases
<1>3. page.view = "home" /\ net' = {} /\ page' = q /\ UNCHANGED <<disk, draft, edits>>
  BY <1>1, <1>2 DEF SessionInv, After, Watched, stored
<1>4. r.got \in Forms \cup {Error}
  BY <1>1, Answer
<1>5. l \in PageType /\ l.view = "home"
  BY <1>3, <1>4, PageFacts, LoadFits DEF Fit
<1>6. draft \in DraftType
  BY DEF SessionInv
<1> HIDE DEF l
<1>7. a \in PageType /\ a.view = "home"
  BY <1>5, <1>6, DraftFits
<1>8. ts \in SUBSET {"draft", "site"} /\ "ready" \in Phases
  BY DEF Phases
<1> HIDE DEF a, ts
<1>9. p \in PageType /\ p.phase = "ready" /\ p.view = "home"
  BY <1>7, <1>8, Zenon DEF PageType
<1> HIDE DEF p
<1>10. q \in PageType /\ q.phase = "ready" /\ Closed(q)
  <2>1. CASE h = NoHash
    BY <1>9, <2>1 DEF Closed
  <2>2. CASE h # NoHash
    <3>1. h.view \in Views /\ h.step \in Steps
      BY <2>2, SessionAssumption DEF Views, Steps
    <3> QED
      BY <1>9, <2>2, <3>1, HashCloses DEF Fit
  <2> QED
    BY <2>1, <2>2
<1> HIDE DEF q
<1>11. Closed(page)' /\ net' = {}
  BY <1>3, <1>10 DEF Closed
<1> QED
  BY <1>3, <1>10, <1>11 DEF SessionInv

LEMMA AutoSavedSafe == ASSUME SessionInv, NEW r \in net, AutoSaved(r) PROVE SessionInv'
<1> DEFINE m == markSiteFileExists(page)
           x == [m EXCEPT !.dirty = FALSE]
           ts == page.timers \cup {"draft"}
           y == [page EXCEPT !.timers = ts]
<1>1. r.what = "auto" /\ (After(r, x, {}) \/ After(r, y, {}))
  BY DEF AutoSaved
<1>2. page.phase = "ready"
  BY <1>1, Asker
<1>3. Fit(page, m)
  BY PageFacts, ExistsFits
<1>4. ts \in SUBSET {"draft", "site"}
  BY PageFacts DEF PageType
<1> HIDE DEF m, ts
<1>5. Fit(page, x) /\ Fit(page, y)
  BY <1>3, <1>4, PageFacts, CleanFits, TimersFit
<1> HIDE DEF x, y
<1> QED
  BY <1>1, <1>2, <1>5, AfterSafe

LEMMA EntryLoadedSafe == ASSUME SessionInv, NEW r \in net, EntryLoaded(r) PROVE SessionInv'
<1> DEFINE p == loadSite(page, r.got)
           x == [p EXCEPT !.view = "wizard"]
           y == toPreflight(p)
<1>1. r.what = "entry" /\ r.got # Wait /\ (After(r, x, {}) \/ After(r, p, {}) \/ After(r, y, {}))
  BY DEF EntryLoaded
<1>2. page.phase = "ready" /\ r.got \in Forms \cup {Error}
  BY <1>1, Asker, Answer
<1>3. Fit(page, p)
  BY <1>2, PageFacts, LoadFits
<1> HIDE DEF p
<1>4. Fit(page, x) /\ Fit(page, y)
  BY <1>3, ViewFits, EntryFits DEF Views
<1> HIDE DEF x, y
<1> QED
  BY <1>1, <1>2, <1>3, <1>4, AfterSafe

LEMMA WorkspaceReadySafe == ASSUME SessionInv, NEW r \in net, WorkspaceReady(r) PROVE SessionInv'
<1> DEFINE p == [page EXCEPT !.busy = FALSE]
           x == Refilled(p, p.form)
           g == GET("wizard", 0, FALSE)
<1>1. r.what = "workspace" /\ (After(r, p, {}) \/ After(r, x, {g}))
  BY DEF WorkspaceReady
<1>2. page.phase = "ready"
  BY <1>1, Asker
<1>3. Fit(page, p)
  BY PageFacts, BusyFits
<1> HIDE DEF p
<1>4. p.form \in Forms
  BY <1>3 DEF Fit, PageType
<1>5. Fit(page, x)
  BY <1>3, <1>4, RefillFits
<1>6. RequestInv(g) /\ g.what = "wizard"
  BY PageFacts, Asked DEF Whats
<1> HIDE DEF x, g
<1> QED
  BY <1>1, <1>2, <1>3, <1>5, <1>6, AfterSafe

LEMMA goWizardSafe == ASSUME SessionInv, NEW r \in net, goWizard(r) PROVE SessionInv'
<1> DEFINE p == loadSite(page, r.got)
           x == [p EXCEPT !.view = "wizard"]
<1>1. r.what = "wizard" /\ r.got # Wait /\ After(r, x, {})
  BY DEF goWizard
<1>2. page.phase = "ready" /\ r.got \in Forms \cup {Error}
  BY <1>1, Asker, Answer
<1>3. Fit(page, p)
  BY <1>2, PageFacts, LoadFits
<1> HIDE DEF p
<1>4. Fit(page, x)
  BY <1>3, ViewFits DEF Views
<1> HIDE DEF x
<1> QED
  BY <1>1, <1>2, <1>4, AfterSafe

LEMMA refreshSitePresenceSafe == ASSUME SessionInv, NEW r \in net, refreshSitePresence(r) PROVE SessionInv'
<1> DEFINE p == IF Vanished(r) THEN fileVanished(page) ELSE page
           x == GoOn(p, r.to)
           what == IF r.what = "go" THEN "goload" ELSE "load"
           g == GET(what, r.to, FALSE)
<1>1. /\ r.what \in {"go", "look"} /\ r.got # Wait
      /\ After(r, page, {g}) \/ After(r, x, {}) \/ After(r, p, {})
  BY DEF refreshSitePresence
<1>2. page.phase = "ready" /\ r.to \in Steps
  BY <1>1, Asker, Answer
<1>3. Fit(page, p)
  BY PageFacts, VanishedFits
<1> HIDE DEF p
<1>4. Fit(page, x)
  BY <1>2, <1>3, GoOnFits
<1>5. what \in {"goload", "load"}
  OBVIOUS
<1> HIDE DEF what
<1>6. RequestInv(g) /\ g.what \in {"goload", "load"}
  BY <1>2, <1>5, Asked DEF Whats
<1> HIDE DEF x, g
<1>7. CASE After(r, page, {g})
  BY <1>2, <1>6, <1>7, PageFacts, AfterSafe
<1>8. CASE After(r, x, {})
  BY <1>2, <1>4, <1>8, AfterSafe
<1>9. CASE After(r, p, {})
  BY <1>2, <1>3, <1>9, AfterSafe
<1> QED
  BY <1>1, <1>7, <1>8, <1>9

LEMMA SiteLoadedSafe == ASSUME SessionInv, NEW r \in net, SiteLoaded(r) PROVE SessionInv'
<1> DEFINE p == loadSite(page, r.got)
           x == GoOn(p, r.to)
<1>1. r.what \in {"goload", "load"} /\ r.got # Wait /\ (After(r, x, {}) \/ After(r, p, {}))
  BY DEF SiteLoaded
<1>2. page.phase = "ready" /\ r.got \in Forms \cup {Error} /\ r.to \in Steps
  BY <1>1, Asker, Answer
<1>3. Fit(page, p)
  BY <1>2, PageFacts, LoadFits
<1> HIDE DEF p
<1>4. Fit(page, x)
  BY <1>2, <1>3, GoOnFits
<1> HIDE DEF x
<1> QED
  BY <1>1, <1>2, <1>3, <1>4, AfterSafe

LEMMA prepareSiteStepSafe == ASSUME SessionInv, NEW r \in net, prepareSiteStep(r) PROVE SessionInv'
<1> DEFINE m == markSiteFileExists(page)
           d == [m EXCEPT !.done = @ \cup {0}]
           p == IF r.what = "dirs" THEN page ELSE d
           q == [p EXCEPT !.busy = FALSE]
           x == applyWizardStep(q, r.to)
           b == [page EXCEPT !.busy = FALSE]
           g == GET("dirs", r.to, r.known)
<1>1. /\ r.what \in {"step", "dirs"} /\ r.got # Wait
      /\ After(r, b, {}) \/ After(r, p, {g}) \/ After(r, x, {}) \/ After(r, q, {})
  BY DEF prepareSiteStep
<1>2. page.phase = "ready" /\ r.to \in Steps /\ r.known \in BOOLEAN
  BY <1>1, Asker, Answer
<1>3. Fit(page, m) /\ m.exists = TRUE
  BY PageFacts, ExistsFits
<1> HIDE DEF m
<1>4. Fit(page, d) /\ d.exists = TRUE
  BY <1>3, PageFacts, DoneFits
<1> HIDE DEF d
<1>5. Fit(page, p) /\ (page.exists => p.exists)
  BY <1>4, PageFacts
<1> HIDE DEF p
<1>6. Fit(page, q) /\ q.exists = p.exists
  BY <1>5, BusyFits
<1> HIDE DEF q
<1>7. Fit(page, x)
  <2>1. q \in PageType /\ (page.exists => q.exists)
    BY <1>5, <1>6 DEF Fit
  <2>2. Fit(q, x)
    BY <1>2, <2>1, StepFits
  <2> QED
    BY <1>6, <2>1, <2>2, PageFacts, FitTogether
<1>8. Fit(page, b)
  BY PageFacts, BusyFits
<1>9. RequestInv(g) /\ g.what = "dirs"
  BY <1>2, Asked DEF Whats
<1> HIDE DEF x, b, g
<1>10. CASE After(r, b, {})
  BY <1>2, <1>8, <1>10, AfterSafe
<1>11. CASE After(r, p, {g})
  BY <1>2, <1>5, <1>9, <1>11, AfterSafe
<1>12. CASE After(r, x, {})
  BY <1>2, <1>7, <1>12, AfterSafe
<1>13. CASE After(r, q, {})
  BY <1>2, <1>6, <1>13, AfterSafe
<1> QED
  BY <1>1, <1>10, <1>11, <1>12, <1>13

LEMMA SavedSafe == ASSUME SessionInv, NEW r \in net, Saved(r) PROVE SessionInv'
<1> DEFINE l == loadSite(page, r.got)
           x == [l EXCEPT !.busy = FALSE]
           m == markSiteFileExists(page)
           y == [m EXCEPT !.dirty = FALSE]
           b == [page EXCEPT !.busy = FALSE]
           g == GET("saved", 0, FALSE)
<1>1. /\ r.what \in {"save", "saved"} /\ r.got # Wait
      /\ (r.what = "saved" /\ After(r, x, {})) \/ After(r, y, {g}) \/ After(r, b, {})
  BY DEF Saved
<1>2. page.phase = "ready" /\ (r.what = "saved" => r.got \in Forms \cup {Error})
  BY <1>1, Asker, Answer
<1>3. Fit(page, m)
  BY PageFacts, ExistsFits
<1> HIDE DEF m
<1>4. Fit(page, y) /\ Fit(page, b)
  BY <1>3, PageFacts, CleanFits, BusyFits
<1>5. RequestInv(g) /\ g.what = "saved"
  BY PageFacts, Asked DEF Whats
<1>6. CASE r.what = "saved" /\ After(r, x, {})
  <2>1. Fit(page, l)
    BY <1>2, <1>6, PageFacts, LoadFits
  <2> HIDE DEF l
  <2>2. Fit(page, x)
    BY <2>1, BusyFits
  <2> HIDE DEF x
  <2> QED
    BY <1>2, <1>6, <2>2, AfterSafe
<1> HIDE DEF x, y, b, g
<1>7. CASE After(r, y, {g})
  BY <1>2, <1>4, <1>5, <1>7, AfterSafe
<1>8. CASE After(r, b, {})
  BY <1>2, <1>4, <1>8, AfterSafe
<1> QED
  BY <1>1, <1>6, <1>7, <1>8

-----------------------------------------------------------------------------
(* The theorem.                                                             *)

LEMMA AnsweredSafe == ASSUME SessionInv, Answered PROVE SessionInv'
<1>1. CASE Found
  BY <1>1, EntryLoadedSafe, goWizardSafe, refreshSitePresenceSafe, SiteLoadedSafe, SavedSafe DEF Found
<1>2. CASE \E r \in net : Handle(r) \/ AutoSaved(r) \/ WorkspaceReady(r) \/ prepareSiteStep(r)
  BY <1>2, HandleSafe, AutoSavedSafe, WorkspaceReadySafe, prepareSiteStepSafe
<1>3. CASE \E r \in net, h \in Typed \cup {NoHash} : mount(r, h)
  BY <1>3, mountSafe
<1> QED
  BY <1>1, <1>2, <1>3 DEF Answered

LEMMA UserSafe == ASSUME SessionInv, User PROVE SessionInv'
<1>1. CASE onPageHide \/ onSiteVisibility \/ EditForm \/ EditRest \/ goHome \/ goDeployEntry \/ initWorkspaceAndEnter
  BY <1>1, onPageHideSafe, onSiteVisibilitySafe, EditFormSafe, EditRestSafe, goHomeSafe, goDeployEntrySafe, initWorkspaceAndEnterSafe
<1>2. CASE (\E h \in Typed : onRouteChange(h)) \/ (\E i \in 0..LastStep : goToStep(i))
  BY <1>2, onRouteChangeSafe, goToStepSafe DEF Steps
<1>3. CASE Look \/ reloadSite \/ nextFromSite \/ saveSite \/ (\E i \in 1..LastStep : completeFieldStep(i))
  BY <1>3, LookSafe, reloadSiteSafe, nextFromSiteSafe, saveSiteSafe, completeFieldStepSafe
<1>4. CASE WriteByHand \/ DeleteByHand
  BY <1>4, ByHandSafe
<1> QED
  BY <1>1, <1>2, <1>3, <1>4 DEF User

LEMMA NextSafe == ASSUME SessionInv, [Next]_siteVars PROVE SessionInv'
<1>1. CASE UNCHANGED siteVars
  <2>1. UNCHANGED <<disk, draft, page, net, edits>>
    BY <1>1 DEF siteVars
  <2>2. Closed(page)' /\ \A r \in net' : RequestInv(r)'
    BY <2>1 DEF SessionInv, Closed, RequestInv, IsPut
  <2> QED
    BY <2>1, <2>2 DEF SessionInv
<1>2. CASE Open \/ persistDraftSoon \/ persistSiteFormSoon \/ Answered \/ \E r \in net : Fail(r)
  BY <1>2, OpenSafe, persistDraftSoonSafe, persistSiteFormSoonSafe, AnsweredSafe, FailSafe
<1>3. CASE User
  BY <1>3, UserSafe
<1> QED
  BY <1>1, <1>2, <1>3 DEF Next

LEMMA SessionInvOK == ASSUME SessionInv PROVE SessionOK
<1>1. page \in PageType /\ draft \in DraftType /\ disk \in Forms /\ Closed(page)
  BY DEF SessionInv
<1>2. TypeOK
  BY <1>1 DEF TypeOK, PageType, DraftType, Phases, Views, Steps
<1> QED
  BY <1>1, <1>2 DEF SessionOK, LaterStepsNeedFile, Closed

\* A page never shows a later step of the wizard unless it takes its site.yaml
\* for there, whichever answers, timers, addresses and clicks come in whichever
\* order (createConsole.js: applyHashToState, goToStep, refreshSitePresence);
\* and the form, the draft and the progress keep to their ranges.
THEOREM LaterStepsClosed == Spec => []SessionOK
<1>1. Init => SessionInv
  BY InitSafe
<1>2. SessionInv /\ [Next]_siteVars => SessionInv'
  BY NextSafe
<1>3. SessionInv => SessionOK
  BY SessionInvOK
<1> QED
  BY <1>1, <1>2, <1>3, PTL DEF Spec

-----------------------------------------------------------------------------
(* What is done, over resets, drafts and late answers.                      *)
(*                                                                          *)
(* A step that is done is either earned or the first one, and no function   *)
(* of the page adds another.  The draft of an older page may still hold     *)
(* what a reset took away; but no page is closed without writing it anew    *)
(* (DraftInv).  As long as nobody deletes the file and no request fails,    *)
(* who takes the file for there is right (PresenceInv).                     *)

DraftInv ==
    page.phase # "ready" =>
      draft.form = left /\ draft.at.done \subseteq earned \cup {0} /\ ~page.exists /\ page.done = {}

\* The answer under way says of the file what is true, or nothing.
Truthful(r) ==
    /\ IsPut(r) => r.got \in {Wait, Ok, Error} /\ (r.got = Ok => disk # 0)
    /\ ~IsPut(r) => r.got \in {Wait, 0} \/ disk # 0
    /\ r.what \in {"go", "look"} /\ r.known => disk # 0 /\ (r.got = Wait \/ r.got # 0)

PresenceInv ==
    faults = 0 => (page.exists => disk # 0) /\ \A r \in net : Truthful(r)

ProgressInv == SessionInv /\ faults \in Nat /\ DraftInv /\ ResetIsFinal /\ PresenceInv

\* Of two pages: nothing is done but what was, and what loading a file means.
Same(p, q) == q.done = p.done /\ q.exists = p.exists
Gains(p, q) == q.done \subseteq p.done \cup {0} /\ (p.exists /\ ~q.exists => q.done = {})

LEMMA FieldsSame ==
    ASSUME NEW p \in PageType, NEW v, NEW b, NEW ts
    PROVE  /\ Same(p, [p EXCEPT !.view = v]) /\ Same(p, [p EXCEPT !.busy = b])
           /\ Same(p, [p EXCEPT !.dirty = b]) /\ Same(p, [p EXCEPT !.timers = ts])
           /\ Same(p, [p EXCEPT !.form = v])
  BY DEF Same, PageType

LEMMA SamePreflight == ASSUME NEW p \in PageType PROVE Same(p, toPreflight(p))
<1> DEFINE q == [p EXCEPT !.view = "preflight"]
<1>1. toPreflight(p) = Refilled(q, p.form) /\ p.form \in Forms
  BY DEF toPreflight, PageType
<1>2. q \in PageType
  BY Zenon DEF PageType, Views
<1>3. Same(p, q)
  BY FieldsSame
<1> HIDE DEF q
<1> QED
  BY <1>1, <1>2, <1>3, RefilledFits DEF Same

LEMMA SameStep == ASSUME NEW p \in PageType, NEW i PROVE Same(p, applyWizardStep(p, i)) /\ Same(p, GoOn(p, i))
<1>1. Same(p, applyWizardStep(p, i))
  BY DEF Same, PageType, applyWizardStep
<1> QED
  BY <1>1 DEF GoOn, Same

LEMMA SameHash ==
    ASSUME NEW p \in PageType, NEW h, h.view \in Views, h.step \in Steps
    PROVE  Same(p, applyHashToState(p, h))
<1> DEFINE v == IF p.exists \/ h.step = 0 THEN "wizard" ELSE "preflight"
           i == IF p.exists THEN h.step ELSE 0
           top == IF p.exists THEN Greater(p.reached, h.step) ELSE p.reached
           w == [p EXCEPT !.view = v, !.step = i, !.reached = top]
           o == [p EXCEPT !.view = h.view]
           q == IF h.view = "wizard" THEN w ELSE o
<1>1. v \in Views /\ i \in Steps /\ top \in Steps
  BY Bounds DEF PageType, Views
<1>2. applyHashToState(p, h) = IF q.view = "preflight" THEN toPreflight(q) ELSE q
  BY DEF applyHashToState
<1> HIDE DEF v, i, top
<1>3. w \in PageType /\ Same(p, w) /\ o \in PageType /\ Same(p, o)
  BY <1>1, Zenon DEF PageType, Same
<1> HIDE DEF w, o
<1>4. q \in PageType /\ Same(p, q)
  BY <1>3
<1> HIDE DEF q
<1>5. Same(q, toPreflight(q))
  BY <1>4, SamePreflight
<1> QED
  BY <1>2, <1>4, <1>5 DEF Same

LEMMA VanishedGains ==
    ASSUME NEW p \in PageType
    PROVE  fileVanished(p).done = {} /\ ~fileVanished(p).exists
<1> DEFINE q == [p EXCEPT !.exists = FALSE]
           x == [q EXCEPT !.step = 0, !.reached = 0, !.done = {}]
<1>1. fileVanished(p) = Refilled(x, 0)
  BY DEF fileVanished, resetWizardProgress, resetSiteFormBlank
<1>2. q \in PageType /\ q.exists = FALSE
  BY Zenon DEF PageType
<1> HIDE DEF q
<1>3. x \in PageType /\ x.exists = FALSE /\ x.done = {}
  BY <1>2, Bounds, Zenon DEF PageType
<1> HIDE DEF x
<1> QED
  BY <1>1, <1>3, RefilledFits, Bounds

LEMMA LoadGains ==
    ASSUME NEW p \in PageType, NEW got \in Forms \cup {Error}
    PROVE  /\ Gains(p, loadSite(p, got))
           /\ loadSite(p, got).exists => IsFile(got)
           /\ got = 0 /\ ~p.exists => loadSite(p, got) = p
<1>1. CASE IsFile(got)
  <2> DEFINE ds == p.done \cup {0}
             top == Greater(p.reached, 1)
             x == [p EXCEPT !.exists = TRUE, !.done = ds, !.reached = top]
  <2>1. loadSite(p, got) = Refilled(x, got) /\ got \in Forms
    BY <1>1 DEF loadSite, IsFile
  <2>2. ds \in SUBSET Steps /\ top \in Steps
    BY Bounds DEF PageType
  <2> HIDE DEF top
  <2>3. x \in PageType /\ x.exists = TRUE /\ x.done = ds
    BY <2>2, Zenon DEF PageType
  <2> HIDE DEF x
  <2>4. Refilled(x, got).exists = TRUE /\ Refilled(x, got).done = ds
    BY <2>1, <2>3, RefilledFits
  <2> QED
    BY <1>1, <2>1, <2>4 DEF Gains, IsFile
<1>2. CASE ~IsFile(got)
  <2>1. loadSite(p, got) = IF p.exists THEN fileVanished(p) ELSE p
    BY <1>2 DEF loadSite
  <2>2. CASE p.exists
    BY <2>1, <2>2, VanishedGains DEF Gains
  <2>3. CASE ~p.exists
    BY <2>1, <2>3 DEF Gains
  <2> QED
    BY <2>2, <2>3
<1> QED
  BY <1>1, <1>2

\* The callbacks change nothing of it.
LEMMA WatchedSame ==
    ASSUME page.phase = "ready", NEW p \in PageType
    PROVE  Same(p, Watched(p))
<1> DEFINE h == routePath(p)
           q == IF h # routePath(page) THEN applyHashToState(p, h) ELSE p
<1>1. h.view = p.view /\ h.step = IF p.view = "wizard" THEN p.step ELSE 0
  BY DEF routePath
<1>2. h.view \in Views /\ h.step \in Steps
  BY <1>1, Bounds DEF PageType
<1>3. q \in PageType /\ Same(p, q)
  BY <1>2, SameHash, HashCloses DEF Fit, Same
<1> DEFINE moved == wizardProgressSnapshot(q) # wizardProgressSnapshot(page) \/ q.view # page.view
           typed == q.form # page.form
           ts == q.timers \cup (IF moved \/ typed THEN {"draft"} ELSE {}) \cup (IF typed THEN {"site"} ELSE {})
           d == (q.dirty \/ typed)
           x == [q EXCEPT !.timers = ts, !.dirty = d]
<1>4. Watched(p) = x
  BY DEF Watched
<1> HIDE DEF q, ts, d
<1>5. Same(q, x)
  BY <1>3, Zenon DEF PageType, Same
<1> HIDE DEF x
<1> QED
  BY <1>3, <1>4, <1>5 DEF Same

-----------------------------------------------------------------------------
(* The steps, and what is done after them.                                  *)

LEMMA Shown ==
    ASSUME ProgressInv, page.phase = "ready", NEW p, Fit(page, p), page' = Watched(p), Gains(page, p),
           faults = 0 /\ p.exists => disk # 0,
           earned' = earned \/ (page.exists /\ ~page'.exists),
           UNCHANGED <<disk, faults>>,
           \A r \in net' : r \in net \/ (faults = 0 => Truthful(r))
    PROVE  faults' \in Nat /\ DraftInv' /\ ResetIsFinal' /\ PresenceInv'
<1>1. p \in PageType
  BY DEF Fit
<1>2. Same(p, Watched(p))
  BY <1>1, WatchedSame
<1>3. page'.phase = "ready"
  BY WatchedSafe DEF ProgressInv, SessionInv
<1>4. page'.done = p.done /\ page'.exists = p.exists
  BY <1>2 DEF Same
<1>5. page.done \subseteq earned \cup {0}
  BY DEF ProgressInv, ResetIsFinal
<1>6. ResetIsFinal'
  <2>1. CASE earned' = earned
    BY <1>4, <1>5, <2>1 DEF Gains, ResetIsFinal
  <2>2. CASE page.exists /\ ~page'.exists
    BY <1>4, <2>2 DEF Gains, ResetIsFinal
  <2> QED
    BY <2>1, <2>2
<1>7. PresenceInv'
  <2> SUFFICES ASSUME faults' = 0
               PROVE  (page'.exists => disk' # 0) /\ \A r \in net' : Truthful(r)'
    BY DEF PresenceInv
  <2>1. \A r \in net : Truthful(r)
    BY DEF ProgressInv, PresenceInv
  <2>2. \A r \in net' : Truthful(r)
    BY <2>1
  <2>3. \A r \in net' : Truthful(r)'
    BY <2>2 DEF Truthful, IsPut
  <2> QED
    BY <1>4, <2>3
<1> QED
  BY <1>3, <1>6, <1>7 DEF DraftInv, ProgressInv

\* A step in which nothing but the timers of an open page changes.
LEMMA Quiet ==
    ASSUME ProgressInv, page.phase = "ready", NEW ts, page' = [page EXCEPT !.timers = ts],
           UNCHANGED <<disk, faults, earned>>,
           \A r \in net' : r \in net \/ (faults = 0 => Truthful(r))
    PROVE  faults' \in Nat /\ DraftInv' /\ ResetIsFinal' /\ PresenceInv'
<1>1. page'.phase = "ready" /\ page'.done = page.done /\ page'.exists = page.exists
  BY DEF ProgressInv, SessionInv, PageType
<1>2. ResetIsFinal'
  BY <1>1 DEF ProgressInv, ResetIsFinal
<1>3. PresenceInv'
  <2> SUFFICES ASSUME faults' = 0
               PROVE  (page'.exists => disk' # 0) /\ \A r \in net' : Truthful(r)'
    BY DEF PresenceInv
  <2>1. (page.exists => disk # 0) /\ \A r \in net : Truthful(r)
    BY DEF ProgressInv, PresenceInv
  <2>2. \A r \in net' : Truthful(r)
    BY <2>1
  <2> QED
    BY <1>1, <2>1, <2>2 DEF Truthful, IsPut
<1> QED
  BY <1>1, <1>2, <1>3 DEF DraftInv, ProgressInv

\* A page that only sends something, or has its place changed.
LEMMA DoKeeps ==
    ASSUME ProgressInv, page.phase = "ready", NEW p, Fit(page, p), Same(page, p), NEW requests, Do(p, requests),
           \A r \in requests : faults = 0 => Truthful(r)
    PROVE  faults' \in Nat /\ DraftInv' /\ ResetIsFinal' /\ PresenceInv'
<1>1. page' = Watched(p) /\ net' = net \cup requests /\ UNCHANGED <<disk, faults, earned>>
  BY DEF Do, stored
<1>2. Gains(page, p)
  BY DEF Same, Gains
<1>3. faults = 0 /\ p.exists => disk # 0
  BY DEF ProgressInv, PresenceInv, Same
<1>4. \A r \in net' : r \in net \/ (faults = 0 => Truthful(r))
  BY <1>1
<1> QED
  BY <1>1, <1>2, <1>3, <1>4, Shown

LEMMA AfterKeeps ==
    ASSUME ProgressInv, page.phase = "ready", NEW p, Fit(page, p), Gains(page, p),
           faults = 0 /\ p.exists => disk # 0,
           NEW r, NEW requests, After(r, p, requests),
           earned' = earned \/ (page.exists /\ ~page'.exists),
           \A s \in requests : faults = 0 => Truthful(s)
    PROVE  faults' \in Nat /\ DraftInv' /\ ResetIsFinal' /\ PresenceInv'
<1>1. page' = Watched(p) /\ UNCHANGED <<disk, faults>>
  BY DEF After, stored
<1>2. \A s \in net' : s \in net \/ (faults = 0 => Truthful(s))
  BY DEF After
<1> QED
  BY <1>1, <1>2, Shown

LEMMA SameGains ==
    ASSUME ProgressInv, NEW p, Gains(page, p), NEW q, Same(p, q)
    PROVE  /\ Gains(page, q)
           /\ (faults = 0 /\ p.exists => disk # 0) => (faults = 0 /\ q.exists => disk # 0)
  BY DEF Gains, Same

LEMMA Stays ==
    ASSUME ProgressInv
    PROVE  Same(page, page) /\ Gains(page, page) /\ (faults = 0 /\ page.exists => disk # 0)
  BY DEF ProgressInv, PresenceInv, Same, Gains

\* A question is truthful, as nothing has come yet; "go" and "look" note
\* whether the page takes the file for there.
LEMMA AskedTruly ==
    ASSUME ProgressInv, NEW what \in Whats \ {"auto", "step", "save"}, NEW to, NEW known,
           what \in {"go", "look"} => known = page.exists
    PROVE  faults = 0 => Truthful(GET(what, to, known))
<1>1. faults = 0 /\ page.exists => disk # 0
  BY Stays
<1>2. GET(what, to, known) = [what |-> what, to |-> to, known |-> known, text |-> 0, got |-> Wait]
  BY DEF GET
<1> QED
  BY <1>1, <1>2 DEF Truthful, IsPut

LEMMA SentTruly ==
    ASSUME NEW what \in {"auto", "step", "save"}, NEW to, NEW known
    PROVE  Truthful(PUT(what, to, known))
<1>1. PUT(what, to, known) = [what |-> what, to |-> to, known |-> known, text |-> page.form, got |-> Wait]
  BY DEF PUT, GET
<1>2. Wait # Ok
  BY AnswersDiffer
<1> QED
  BY <1>1, <1>2 DEF Truthful, IsPut

\* An answer, and what it says of the file.
LEMMA Truth ==
    ASSUME ProgressInv, NEW r \in net, r.got # Wait
    PROVE  /\ faults = 0 /\ ~IsPut(r) /\ IsFile(r.got) => disk # 0
           /\ faults = 0 /\ IsPut(r) => r.got \in {Ok, Error}
           /\ faults = 0 /\ r.got = Ok /\ IsPut(r) => disk # 0
           /\ faults = 0 /\ r.what \in {"go", "look"} => ~Vanished(r)
  BY DEF ProgressInv, PresenceInv, Truthful, IsFile, Vanished

-----------------------------------------------------------------------------
(* Step by step: the user.                                                  *)

LEMMA PageKnown ==
    ASSUME ProgressInv
    PROVE  SessionInv /\ page \in PageType /\ page.form \in Forms /\ page.exists \in BOOLEAN /\ Fit(page, page)
           /\ 0 \in Steps /\ 1 \in Steps
  BY PageFacts DEF ProgressInv, PageType

LEMMA EditFormKeeps ==
    ASSUME ProgressInv, EditForm
    PROVE  faults' \in Nat /\ DraftInv' /\ ResetIsFinal' /\ PresenceInv'
<1> DEFINE n == edits + 1
           q == [page EXCEPT !.form = n]
<1>1. n \in Forms
  BY Bounds DEF EditForm, SessionInv, ProgressInv
<1>2. page.phase = "ready" /\ page' = Watched(q) /\ UNCHANGED <<disk, faults, net, earned>>
  BY DEF EditForm, InSite, Ready
<1> HIDE DEF n
<1>3. q \in PageType /\ q.phase = page.phase /\ q.exists = page.exists
  BY <1>1, PageKnown, Zenon DEF PageType
<1>4. Same(page, q)
  BY PageKnown, FieldsSame
<1> HIDE DEF q
<1>5. Fit(page, q)
  BY <1>3 DEF Fit
<1>6. Gains(page, q) /\ (faults = 0 /\ q.exists => disk # 0)
  BY <1>4, Stays, SameGains
<1> QED
  BY <1>2, <1>5, <1>6, Shown

LEMMA EditRestKeeps ==
    ASSUME ProgressInv, EditRest
    PROVE  faults' \in Nat /\ DraftInv' /\ ResetIsFinal' /\ PresenceInv'
<1> DEFINE q == Refilled(page, page.form)
<1>1. page.phase = "ready" /\ Do(q, {})
  BY DEF EditRest, Ready
<1>2. Fit(page, q) /\ Same(page, q)
  BY PageKnown, RefilledFits DEF Same
<1> HIDE DEF q
<1> QED
  BY <1>1, <1>2, DoKeeps

LEMMA goHomeKeeps ==
    ASSUME ProgressInv, goHome
    PROVE  faults' \in Nat /\ DraftInv' /\ ResetIsFinal' /\ PresenceInv'
<1> DEFINE q == [page EXCEPT !.view = "home"]
<1>1. page.phase = "ready" /\ Do(q, {})
  BY DEF goHome, Ready
<1>2. Fit(page, q) /\ Same(page, q)
  BY PageKnown, ViewFits, FieldsSame DEF Views
<1> HIDE DEF q
<1> QED
  BY <1>1, <1>2, DoKeeps

LEMMA onRouteChangeKeeps ==
    ASSUME ProgressInv, NEW h \in Typed, onRouteChange(h)
    PROVE  faults' \in Nat /\ DraftInv' /\ ResetIsFinal' /\ PresenceInv'
<1> DEFINE q == applyHashToState(page, h)
<1>1. page.phase = "ready" /\ Do(q, {})
  BY DEF onRouteChange, Ready
<1>2. h.view \in Views /\ h.step \in Steps
  BY SessionAssumption DEF Views, Steps
<1>3. Fit(page, q) /\ Same(page, q)
  BY <1>2, PageKnown, HashCloses, SameHash
<1> HIDE DEF q
<1> QED
  BY <1>1, <1>3, DoKeeps

LEMMA goDeployEntryKeeps ==
    ASSUME ProgressInv, goDeployEntry
    PROVE  faults' \in Nat /\ DraftInv' /\ ResetIsFinal' /\ PresenceInv'
<1> DEFINE g == GET("entry", 0, (page.view = "wizard"))
<1>1. page.phase = "ready" /\ Do(page, {g})
  BY DEF goDeployEntry, Free, Room, Ready
<1>2. faults = 0 => Truthful(g)
  BY AskedTruly DEF Whats
<1> HIDE DEF g
<1> QED
  BY <1>1, <1>2, PageKnown, Stays, DoKeeps

LEMMA LookKeeps ==
    ASSUME ProgressInv, Look
    PROVE  faults' \in Nat /\ DraftInv' /\ ResetIsFinal' /\ PresenceInv'
<1> DEFINE g == GET("look", 0, page.exists)
<1>1. page.phase = "ready" /\ Do(page, {g})
  BY DEF Look, Room, Ready
<1>2. faults = 0 => Truthful(g)
  BY AskedTruly DEF Whats
<1> HIDE DEF g
<1> QED
  BY <1>1, <1>2, PageKnown, Stays, DoKeeps

LEMMA reloadSiteKeeps ==
    ASSUME ProgressInv, reloadSite
    PROVE  faults' \in Nat /\ DraftInv' /\ ResetIsFinal' /\ PresenceInv'
<1> DEFINE g == GET("load", 0, FALSE)
<1>1. page.phase = "ready" /\ Do(page, {g})
  BY DEF reloadSite, Free, Room, Ready
<1>2. faults = 0 => Truthful(g)
  BY AskedTruly DEF Whats
<1> HIDE DEF g
<1> QED
  BY <1>1, <1>2, PageKnown, Stays, DoKeeps

LEMMA initWorkspaceAndEnterKeeps ==
    ASSUME ProgressInv, initWorkspaceAndEnter
    PROVE  faults' \in Nat /\ DraftInv' /\ ResetIsFinal' /\ PresenceInv'
<1> DEFINE q == [page EXCEPT !.busy = TRUE]
           g == GET("workspace", 0, FALSE)
<1>1. page.phase = "ready" /\ Do(q, {g})
  BY DEF initWorkspaceAndEnter, Free, Room, Ready
<1>2. Fit(page, q) /\ Same(page, q)
  BY PageKnown, BusyFits, FieldsSame
<1>3. faults = 0 => Truthful(g)
  BY AskedTruly DEF Whats
<1> HIDE DEF q, g
<1> QED
  BY <1>1, <1>2, <1>3, DoKeeps

LEMMA nextFromSiteKeeps ==
    ASSUME ProgressInv, nextFromSite
    PROVE  faults' \in Nat /\ DraftInv' /\ ResetIsFinal' /\ PresenceInv'
<1> DEFINE q == [page EXCEPT !.busy = TRUE]
           g == PUT("step", 1, TRUE)
<1>1. page.phase = "ready" /\ Do(q, {g})
  BY DEF nextFromSite, Free, Room, Ready
<1>2. Fit(page, q) /\ Same(page, q)
  BY PageKnown, BusyFits, FieldsSame
<1>3. faults = 0 => Truthful(g)
  BY SentTruly
<1> HIDE DEF q, g
<1> QED
  BY <1>1, <1>2, <1>3, DoKeeps

LEMMA saveSiteKeeps ==
    ASSUME ProgressInv, saveSite
    PROVE  faults' \in Nat /\ DraftInv' /\ ResetIsFinal' /\ PresenceInv'
<1> DEFINE q == [page EXCEPT !.busy = TRUE]
           g == PUT("save", 0, FALSE)
<1>1. page.phase = "ready" /\ Do(q, {g})
  BY DEF saveSite, Free, Room, Ready
<1>2. Fit(page, q) /\ Same(page, q)
  BY PageKnown, BusyFits, FieldsSame
<1>3. faults = 0 => Truthful(g)
  BY SentTruly
<1> HIDE DEF q, g
<1> QED
  BY <1>1, <1>2, <1>3, DoKeeps

LEMMA goToStepKeeps ==
    ASSUME ProgressInv, NEW i \in Steps, goToStep(i)
    PROVE  faults' \in Nat /\ DraftInv' /\ ResetIsFinal' /\ PresenceInv'
<1> DEFINE q == [page EXCEPT !.busy = TRUE]
           s == PUT("step", i, FALSE)
           g == GET("go", i, page.exists)
<1>1. page.phase = "ready" /\ (Do(q, {s}) \/ Do(page, {g}))
  BY DEF goToStep, Free, Room, Ready
<1>2. Fit(page, q) /\ Same(page, q)
  BY PageKnown, BusyFits, FieldsSame
<1>3. (faults = 0 => Truthful(s)) /\ (faults = 0 => Truthful(g))
  BY SentTruly, AskedTruly DEF Whats
<1> HIDE DEF q, s, g
<1>4. CASE Do(q, {s})
  BY <1>1, <1>2, <1>3, <1>4, DoKeeps
<1>5. CASE Do(page, {g})
  BY <1>1, <1>3, <1>5, PageKnown, Stays, DoKeeps
<1> QED
  BY <1>1, <1>4, <1>5

LEMMA completeFieldStepKeeps ==
    ASSUME ProgressInv, NEW i \in 1..LastStep, completeFieldStep(i)
    PROVE  faults' \in Nat /\ DraftInv' /\ ResetIsFinal' /\ PresenceInv'
<1> DEFINE j == i + 1
           ds == page.done \cup {i}
           q == [page EXCEPT !.done = ds]
           x == applyWizardStep(q, j)
<1>1. /\ page.phase = "ready" /\ i < LastStep /\ earned' = earned \cup {i}
      /\ page' = Watched(x) /\ UNCHANGED <<disk, faults, net>>
  BY DEF completeFieldStep, Ready, stored
<1>2. i \in Steps /\ j \in Steps
  BY <1>1, SessionAssumption DEF Steps
<1>3. ds \in SUBSET Steps
  BY <1>2, PageKnown DEF PageType
<1> HIDE DEF j
<1>4. Fit(page, q)
  BY <1>2, PageKnown, DoneFits
<1> HIDE DEF ds
<1>5. q \in PageType /\ q.done = ds /\ q.exists = page.exists
  BY <1>3, PageKnown, Zenon DEF PageType
<1> HIDE DEF q
<1>6. Fit(page, x) /\ Same(q, x) /\ x \in PageType
  BY <1>2, <1>4, <1>5, PageKnown, StepFits, FitTogether, SameStep DEF Fit
<1> HIDE DEF x
<1>7. Same(x, Watched(x)) /\ Watched(x).phase = "ready"
  BY <1>1, <1>6, WatchedSame, WatchedSafe DEF ProgressInv, SessionInv
<1>8. page'.phase = "ready" /\ page'.done = page.done \cup {i} /\ page'.exists = page.exists
  BY <1>1, <1>5, <1>6, <1>7 DEF Same, ds
<1>9. ResetIsFinal'
  BY <1>1, <1>8 DEF ProgressInv, ResetIsFinal
<1>10. PresenceInv'
  BY <1>1, <1>8 DEF ProgressInv, PresenceInv, Truthful, IsPut
<1> QED
  BY <1>1, <1>8, <1>9, <1>10 DEF DraftInv, ProgressInv

-----------------------------------------------------------------------------
(* Step by step: opening, closing, timers, and others.                      *)

LEMMA FreshBlank ==
    ASSUME NEW x
    PROVE  [Fresh EXCEPT !.phase = x].exists = FALSE /\ [Fresh EXCEPT !.phase = x].done = {}
  BY DEF Fresh

LEMMA OpenKeeps ==
    ASSUME ProgressInv, Open
    PROVE  faults' \in Nat /\ DraftInv' /\ ResetIsFinal' /\ PresenceInv'
<1> DEFINE g == GET("open", 0, FALSE)
<1>1. page.phase = "closed" /\ page' = Fresh /\ net' = {g} /\ UNCHANGED <<disk, draft, faults, left, earned>>
  BY DEF Open, SessionInv, ProgressInv, stored
<1>2. faults = 0 => Truthful(g)
  BY AskedTruly DEF Whats
<1> HIDE DEF g
<1>3. page'.exists = FALSE /\ page'.done = {} /\ page'.phase = "opening"
  BY <1>1 DEF Fresh
<1>4. DraftInv'
  BY <1>1, <1>3 DEF ProgressInv, DraftInv
<1>5. ResetIsFinal'
  BY <1>3 DEF ResetIsFinal
<1>6. faults' = 0 => \A r \in net' : Truthful(r)'
  BY <1>1, <1>2 DEF Truthful, IsPut
<1>7. PresenceInv'
  BY <1>3, <1>6 DEF PresenceInv
<1> QED
  BY <1>1, <1>4, <1>5, <1>7 DEF ProgressInv

\* The draft of a page that is closed has its form and what it shows as done.
LEMMA onPageHideKeeps ==
    ASSUME ProgressInv, onPageHide
    PROVE  faults' \in Nat /\ DraftInv' /\ ResetIsFinal' /\ PresenceInv'
<1>1. /\ page.phase = "ready" /\ page' = [Fresh EXCEPT !.phase = "closed"] /\ net' = {} /\ left' = page.form
      /\ draft' = [form |-> page.form, at |-> wizardProgressSnapshot(page)] /\ UNCHANGED <<faults, earned>>
  BY DEF onPageHide, flushSitePersist, saveDraft, Ready
<1>2. page'.phase = "closed"
  BY <1>1, FreshFacts
<1>3. page'.exists = FALSE /\ page'.done = {}
  BY <1>1, FreshBlank
<1>4. wizardProgressSnapshot(page).done \subseteq page.done
  BY DEF wizardProgressSnapshot
<1>5. page.done \subseteq earned \cup {0}
  BY <1>1 DEF ProgressInv, ResetIsFinal
<1>6. draft'.form = left' /\ draft'.at.done \subseteq earned' \cup {0}
  BY <1>1, <1>4, <1>5
<1>7. DraftInv' /\ ResetIsFinal' /\ PresenceInv'
  BY <1>1, <1>2, <1>3, <1>6 DEF DraftInv, ResetIsFinal, PresenceInv
<1> QED
  BY <1>1, <1>7 DEF ProgressInv

LEMMA onSiteVisibilityKeeps ==
    ASSUME ProgressInv, onSiteVisibility
    PROVE  faults' \in Nat /\ DraftInv' /\ ResetIsFinal' /\ PresenceInv'
<1> DEFINE ts == IF page.dirty /\ ~autosaves THEN {"draft"} ELSE {}
           g == PUT("auto", 0, FALSE)
<1>1. /\ page.phase = "ready" /\ page' = [page EXCEPT !.timers = ts] /\ UNCHANGED <<disk, faults, earned>>
      /\ net' = net \cup (IF autosaves THEN {g} ELSE {})
  BY DEF onSiteVisibility, Room, Ready
<1>2. Truthful(g)
  BY SentTruly
<1> HIDE DEF ts, g
<1> QED
  BY <1>1, <1>2, Quiet

LEMMA persistDraftSoonKeeps ==
    ASSUME ProgressInv, persistDraftSoon
    PROVE  faults' \in Nat /\ DraftInv' /\ ResetIsFinal' /\ PresenceInv'
<1> DEFINE ts == page.timers \ {"draft"}
<1>1. page.phase = "ready" /\ page' = [page EXCEPT !.timers = ts] /\ UNCHANGED <<disk, net, faults, earned>>
  BY DEF persistDraftSoon, Ready
<1> HIDE DEF ts
<1> QED
  BY <1>1, Quiet

LEMMA persistSiteFormSoonKeeps ==
    ASSUME ProgressInv, persistSiteFormSoon
    PROVE  faults' \in Nat /\ DraftInv' /\ ResetIsFinal' /\ PresenceInv'
<1> DEFINE ts == (page.timers \ {"site"}) \cup (IF page.dirty /\ ~autosaves THEN {"draft"} ELSE {})
           g == PUT("auto", 0, FALSE)
<1>1. /\ page.phase = "ready" /\ page' = [page EXCEPT !.timers = ts] /\ UNCHANGED <<disk, faults, earned>>
      /\ net' = net \cup (IF autosaves THEN {g} ELSE {})
  BY DEF persistSiteFormSoon, Room, Ready, stored
<1>2. Truthful(g)
  BY SentTruly
<1> HIDE DEF ts, g
<1> QED
  BY <1>1, <1>2, Quiet

LEMMA ByHandKeeps ==
    ASSUME ProgressInv, WriteByHand \/ DeleteByHand
    PROVE  faults' \in Nat /\ DraftInv' /\ ResetIsFinal' /\ PresenceInv'
<1>1. UNCHANGED <<draft, page, net, left, earned>>
  BY DEF WriteByHand, DeleteByHand
<1>2. DraftInv' /\ ResetIsFinal'
  BY <1>1 DEF ProgressInv, DraftInv, ResetIsFinal
<1>3. CASE WriteByHand
  <2>1. disk' # 0 /\ faults' = faults
    BY <1>3, SessionAssumption DEF WriteByHand, ByHand
  <2> QED
    BY <1>1, <1>2, <2>1 DEF ProgressInv, PresenceInv, Truthful, IsPut
<1>4. CASE DeleteByHand
  <2>1. faults' \in Nat /\ faults' # 0
    BY <1>4 DEF DeleteByHand, ProgressInv
  <2> QED
    BY <1>2, <2>1 DEF PresenceInv
<1> QED
  BY <1>3, <1>4

LEMMA HandleKeeps ==
    ASSUME ProgressInv, NEW r \in net, Handle(r)
    PROVE  faults' \in Nat /\ DraftInv' /\ ResetIsFinal' /\ PresenceInv'
<1> DEFINE done == IsPut(r) /\ siteFormReadyToPersist(r.text)
           got == IF done THEN Ok ELSE IF IsPut(r) THEN Error ELSE disk
           s == [r EXCEPT !.got = got]
<1>1. UNCHANGED <<draft, page, faults, left, earned>> /\ net' = (net \ {r}) \cup {s} /\ r.got = Wait
  BY DEF Handle, Reply
<1>2. DraftInv' /\ ResetIsFinal' /\ faults' \in Nat
  BY <1>1 DEF ProgressInv, DraftInv, ResetIsFinal
<1>3. RequestInv(r) /\ r.text \in Forms
  BY DEF ProgressInv, SessionInv, RequestInv, RequestType
<1>4. (done => disk' # 0) /\ (disk # 0 => disk' # 0) /\ (~done => disk' = disk)
  BY <1>3, SessionAssumption DEF Handle, siteFormReadyToPersist, Forms, ByHand
<1>5. (IsPut(r) => got \in {Ok, Error}) /\ (IsPut(r) /\ got = Ok => done) /\ (~IsPut(r) => got = disk /\ ~done)
  BY AnswersDiffer
<1> HIDE DEF done, got
<1>6. s.what = r.what /\ s.known = r.known /\ s.got = got
  BY <1>3, Zenon DEF RequestInv, RequestType
<1> HIDE DEF s
<1>7. PresenceInv'
  <2> SUFFICES ASSUME faults = 0
               PROVE  (page'.exists => disk' # 0) /\ \A x \in net' : Truthful(x)'
    BY <1>1 DEF PresenceInv
  <2>1. (page.exists => disk # 0) /\ \A x \in net : Truthful(x)
    BY DEF ProgressInv, PresenceInv
  <2>2. ASSUME NEW x \in net PROVE Truthful(x)'
    BY <1>4, <2>1 DEF Truthful, IsPut
  <2>3. ASSUME NEW x, x = s PROVE Truthful(x)'
    <3>1. x.what = r.what /\ x.known = r.known /\ x.got = got
      BY <1>6, <2>3
    <3>2. r.what \in {"go", "look"} /\ r.known => disk # 0
      BY <2>1 DEF Truthful
    <3> QED
      BY <1>4, <1>5, <3>1, <3>2 DEF Truthful, IsPut
  <2>4. \A x \in net' : x \in net \/ x = s
    BY <1>1
  <2> QED
    BY <1>1, <1>4, <2>1, <2>2, <2>3, <2>4
<1> QED
  BY <1>2, <1>7

LEMMA FailKeeps ==
    ASSUME ProgressInv, NEW r \in net, Fail(r)
    PROVE  faults' \in Nat /\ DraftInv' /\ ResetIsFinal' /\ PresenceInv'
<1>1. UNCHANGED <<draft, page, left, earned>> /\ faults' = faults + 1
  BY DEF Fail
<1>2. faults' \in Nat /\ faults' # 0
  BY <1>1 DEF ProgressInv
<1> QED
  BY <1>1, <1>2 DEF ProgressInv, DraftInv, ResetIsFinal, PresenceInv

-----------------------------------------------------------------------------
(* Step by step: answers.                                                   *)

LEMMA ReadyAsker == ASSUME ProgressInv, NEW r \in net, r.what # "open" PROVE page.phase = "ready"
  BY Asker DEF ProgressInv

\* What loadSite makes of an answer to a page that is open.
LEMMA LoadKeeps ==
    ASSUME ProgressInv, NEW r \in net, r.got # Wait, r.what \in Whats \ {"auto", "step", "save"}
    PROVE  /\ Fit(page, loadSite(page, r.got)) /\ loadSite(page, r.got) \in PageType
           /\ Gains(page, loadSite(page, r.got))
           /\ (faults = 0 /\ loadSite(page, r.got).exists => disk # 0)
<1>1. r.got \in Forms \cup {Error} /\ ~IsPut(r)
  BY Answer DEF ProgressInv, IsPut
<1>2. Fit(page, loadSite(page, r.got))
  BY <1>1, PageKnown, LoadFits
<1>3. Gains(page, loadSite(page, r.got)) /\ (loadSite(page, r.got).exists => IsFile(r.got))
  BY <1>1, PageKnown, LoadGains
<1>4. faults = 0 /\ IsFile(r.got) => disk # 0
  BY <1>1, Truth
<1> QED
  BY <1>2, <1>3, <1>4 DEF Fit

\* The draft is taken over with what it shows as done, and its form only if
\* there is no file.
LEMMA DraftTaken ==
    ASSUME NEW p \in PageType, NEW d \in DraftType
    PROVE  /\ applyDraft(p, d).exists = p.exists
           /\ applyDraft(p, d).done = IF p.exists THEN d.at.done ELSE p.done
           /\ applyDraft(p, d).form = IF p.exists THEN p.form ELSE d.form
  BY DEF applyDraft, PageType

\* An address leaves the form alone.
LEMMA HashForm ==
    ASSUME NEW p \in PageType, NEW h
    PROVE  applyHashToState(p, h).form = p.form
<1> DEFINE v == IF p.exists \/ h.step = 0 THEN "wizard" ELSE "preflight"
           i == IF p.exists THEN h.step ELSE 0
           top == IF p.exists THEN Greater(p.reached, h.step) ELSE p.reached
           w == [p EXCEPT !.view = v, !.step = i, !.reached = top]
           o == [p EXCEPT !.view = h.view]
           q == IF h.view = "wizard" THEN w ELSE o
           x == [q EXCEPT !.view = "preflight"]
<1>1. applyHashToState(p, h) = IF q.view = "preflight" THEN Refilled(x, x.form) ELSE q
  BY DEF applyHashToState, toPreflight
<1> HIDE DEF v, i, top
<1>2. /\ q.form = p.form /\ DOMAIN q = DOMAIN p
      /\ q = [y \in DOMAIN p |-> q[y]]
  BY Zenon DEF PageType
<1> HIDE DEF q
<1>3. x.form = p.form /\ DOMAIN x = DOMAIN p
  BY <1>2 DEF PageType
<1> HIDE DEF x
<1>4. Refilled(x, x.form).form = p.form
  BY <1>3 DEF Refilled, PageType
<1> QED
  BY <1>1, <1>2, <1>4

\* The page is opened on the draft.
LEMMA mountKeeps ==
    ASSUME ProgressInv, NEW r \in net, NEW h \in Typed \cup {NoHash}, mount(r, h)
    PROVE  /\ faults' \in Nat /\ DraftInv' /\ ResetIsFinal' /\ PresenceInv'
           /\ \A s \in net : s.got = 0 => page'.form = left
<1> DEFINE l == loadSite(page, r.got)
           a == applyDraft(l, draft)
           ts == {"draft", "site"}
           p == [a EXCEPT !.phase = "ready", !.timers = ts]
           q == IF h = NoHash THEN p ELSE applyHashToState(p, h)
<1>1. r.what = "open" /\ r.got # Wait /\ After(r, q, {}) /\ UNCHANGED earned
  BY DEF mount
<1>2. SessionInv /\ page.phase = "opening" /\ \A s \in net : s = r
  <2>1. page.phase \in Phases
    BY DEF ProgressInv, SessionInv, PageType
  <2> QED
    BY <1>1, <2>1 DEF ProgressInv, SessionInv, Phases
<1>3. net' = {} /\ page' = q /\ UNCHANGED <<disk, draft, faults, left>>
  BY <1>1, <1>2 DEF SessionInv, After, Watched, stored
<1>4. r.got \in Forms \cup {Error} /\ ~IsPut(r)
  BY <1>1, <1>2, Answer DEF IsPut
<1>5. ~page.exists /\ page.done = {} /\ draft.form = left /\ draft.at.done \subseteq earned \cup {0}
  BY <1>2 DEF ProgressInv, DraftInv
<1>6. l \in PageType
  BY <1>1, <1>4, PageKnown, LoadFits DEF Fit
<1>7. Gains(page, l) /\ (l.exists => IsFile(r.got)) /\ (r.got = 0 => l = page)
  BY <1>4, <1>5, PageKnown, LoadGains
<1>8. draft \in DraftType
  BY <1>2 DEF SessionInv
<1> HIDE DEF l
<1>9. a \in PageType
  BY <1>6, <1>8, DraftFits
<1>10. a.exists = l.exists /\ a.done \subseteq earned \cup {0} /\ (r.got = 0 => a.form = left)
  BY <1>5, <1>6, <1>7, <1>8, DraftTaken DEF Gains
<1> HIDE DEF a
<1>11. p \in PageType /\ p.phase = "ready" /\ Same(a, p) /\ p.form = a.form
  <2>1. ts \in SUBSET {"draft", "site"} /\ "ready" \in Phases
    BY DEF Phases
  <2> HIDE DEF ts
  <2> QED
    BY <1>9, <2>1, Zenon DEF PageType, Same
<1> HIDE DEF p
<1>12. q.phase = "ready" /\ Same(p, q) /\ q.form = p.form
  <2>1. CASE h = NoHash
    BY <1>11, <2>1 DEF Same
  <2>2. CASE h # NoHash
    <3>1. h.view \in Views /\ h.step \in Steps
      BY <2>2, SessionAssumption DEF Views, Steps
    <3> QED
      BY <1>11, <2>2, <3>1, HashCloses, SameHash, HashForm DEF Fit
  <2> QED
    BY <2>1, <2>2
<1> HIDE DEF q
<1>13. page'.phase = "ready" /\ page'.done \subseteq earned \cup {0} /\ page'.exists = l.exists
  BY <1>3, <1>10, <1>11, <1>12 DEF Same
<1>14. faults = 0 /\ page'.exists => disk # 0
  BY <1>1, <1>4, <1>7, <1>13, Truth
<1>15. ResetIsFinal' /\ DraftInv' /\ PresenceInv'
  BY <1>1, <1>3, <1>13, <1>14 DEF ResetIsFinal, DraftInv, PresenceInv
<1>16. \A s \in net : s.got = 0 => page'.form = left
  BY <1>2, <1>3, <1>10, <1>11, <1>12
<1> QED
  BY <1>3, <1>15, <1>16 DEF ProgressInv

LEMMA MarkGains == ASSUME NEW p \in PageType PROVE Gains(p, markSiteFileExists(p))
  BY DEF Gains, PageType, markSiteFileExists

LEMMA AutoSavedKeeps ==
    ASSUME ProgressInv, NEW r \in net, AutoSaved(r)
    PROVE  faults' \in Nat /\ DraftInv' /\ ResetIsFinal' /\ PresenceInv'
<1> DEFINE m == markSiteFileExists(page)
           x == [m EXCEPT !.dirty = FALSE]
           ts == page.timers \cup {"draft"}
           y == [page EXCEPT !.timers = ts]
<1>1. /\ r.what = "auto" /\ r.got # Wait /\ earned' = earned
      /\ (r.got = Ok /\ After(r, x, {})) \/ After(r, y, {})
  BY DEF AutoSaved
<1>2. page.phase = "ready" /\ IsPut(r)
  BY <1>1, ReadyAsker DEF IsPut
<1>3. ts \in SUBSET {"draft", "site"}
  BY PageKnown DEF PageType
<1> HIDE DEF ts
<1>4. CASE After(r, y, {})
  <2>1. Fit(page, y) /\ Same(page, y)
    BY <1>3, PageKnown, TimersFit, FieldsSame
  <2> HIDE DEF y
  <2>2. Gains(page, y) /\ (faults = 0 /\ y.exists => disk # 0)
    BY <2>1, Stays, SameGains
  <2> QED
    BY <1>1, <1>2, <1>4, <2>1, <2>2, AfterKeeps
<1>5. CASE r.got = Ok /\ After(r, x, {})
  <2>1. Fit(page, m) /\ Gains(page, m) /\ m \in PageType
    BY PageKnown, ExistsFits, MarkGains DEF Fit
  <2> HIDE DEF m
  <2>2. Fit(page, x) /\ Same(m, x)
    BY <2>1, PageKnown, CleanFits, FieldsSame
  <2> HIDE DEF x
  <2>3. Gains(page, x) /\ (faults = 0 => disk # 0)
    BY <1>1, <1>2, <1>5, <2>1, <2>2, SameGains, Truth
  <2> QED
    BY <1>1, <1>2, <1>5, <2>2, <2>3, AfterKeeps
<1> QED
  BY <1>1, <1>4, <1>5

LEMMA WorkspaceReadyKeeps ==
    ASSUME ProgressInv, NEW r \in net, WorkspaceReady(r)
    PROVE  faults' \in Nat /\ DraftInv' /\ ResetIsFinal' /\ PresenceInv'
<1> DEFINE p == [page EXCEPT !.busy = FALSE]
           x == Refilled(p, p.form)
           g == GET("wizard", 0, FALSE)
<1>1. r.what = "workspace" /\ earned' = earned /\ (After(r, p, {}) \/ After(r, x, {g}))
  BY DEF WorkspaceReady
<1>2. page.phase = "ready"
  BY <1>1, ReadyAsker
<1>3. Fit(page, p) /\ Same(page, p)
  BY PageKnown, BusyFits, FieldsSame
<1> HIDE DEF p
<1>4. p \in PageType /\ p.form \in Forms
  BY <1>3 DEF Fit, PageType
<1>5. Fit(page, x) /\ Same(page, x)
  BY <1>3, <1>4, RefillFits, RefilledFits DEF Same
<1>6. faults = 0 => Truthful(g)
  BY AskedTruly DEF Whats
<1> HIDE DEF x, g
<1>7. /\ Gains(page, p) /\ (faults = 0 /\ p.exists => disk # 0)
      /\ Gains(page, x) /\ (faults = 0 /\ x.exists => disk # 0)
  BY <1>3, <1>5, Stays, SameGains
<1>8. CASE After(r, p, {})
  BY <1>1, <1>2, <1>3, <1>7, <1>8, AfterKeeps
<1>9. CASE After(r, x, {g})
  BY <1>1, <1>2, <1>5, <1>6, <1>7, <1>9, AfterKeeps
<1> QED
  BY <1>1, <1>8, <1>9

LEMMA EntryLoadedKeeps ==
    ASSUME ProgressInv, NEW r \in net, EntryLoaded(r), earned' = earned \/ (page.exists /\ ~page'.exists)
    PROVE  faults' \in Nat /\ DraftInv' /\ ResetIsFinal' /\ PresenceInv'
<1> DEFINE p == loadSite(page, r.got)
           x == [p EXCEPT !.view = "wizard"]
           y == toPreflight(p)
<1>1. r.what = "entry" /\ r.got # Wait /\ (After(r, x, {}) \/ After(r, p, {}) \/ After(r, y, {}))
  BY DEF EntryLoaded
<1>2. page.phase = "ready"
  BY <1>1, ReadyAsker
<1>3. Fit(page, p) /\ p \in PageType /\ Gains(page, p) /\ (faults = 0 /\ p.exists => disk # 0)
  BY <1>1, LoadKeeps DEF Whats
<1> HIDE DEF p
<1>4. Fit(page, x) /\ Fit(page, y) /\ Same(p, x) /\ Same(p, y)
  BY <1>3, ViewFits, EntryFits, FieldsSame, SamePreflight DEF Views
<1> HIDE DEF x, y
<1>5. Gains(page, x) /\ (faults = 0 /\ x.exists => disk # 0)
  BY <1>3, <1>4, SameGains
<1>6. Gains(page, y) /\ (faults = 0 /\ y.exists => disk # 0)
  BY <1>3, <1>4, SameGains
<1>7. CASE After(r, x, {})
  BY <1>2, <1>4, <1>5, <1>7, AfterKeeps
<1>8. CASE After(r, p, {})
  BY <1>2, <1>3, <1>8, AfterKeeps
<1>9. CASE After(r, y, {})
  BY <1>2, <1>4, <1>6, <1>9, AfterKeeps
<1> QED
  BY <1>1, <1>7, <1>8, <1>9

LEMMA goWizardKeeps ==
    ASSUME ProgressInv, NEW r \in net, goWizard(r), earned' = earned \/ (page.exists /\ ~page'.exists)
    PROVE  faults' \in Nat /\ DraftInv' /\ ResetIsFinal' /\ PresenceInv'
<1> DEFINE p == loadSite(page, r.got)
           x == [p EXCEPT !.view = "wizard"]
<1>1. r.what = "wizard" /\ r.got # Wait /\ After(r, x, {})
  BY DEF goWizard
<1>2. page.phase = "ready"
  BY <1>1, ReadyAsker
<1>3. Fit(page, p) /\ p \in PageType /\ Gains(page, p) /\ (faults = 0 /\ p.exists => disk # 0)
  BY <1>1, LoadKeeps DEF Whats
<1> HIDE DEF p
<1>4. Fit(page, x) /\ Same(p, x)
  BY <1>3, ViewFits, FieldsSame DEF Views
<1> HIDE DEF x
<1>5. Gains(page, x) /\ (faults = 0 /\ x.exists => disk # 0)
  BY <1>3, <1>4, SameGains
<1> QED
  BY <1>1, <1>2, <1>4, <1>5, AfterKeeps

LEMMA refreshSitePresenceKeeps ==
    ASSUME ProgressInv, NEW r \in net, refreshSitePresence(r), earned' = earned \/ (page.exists /\ ~page'.exists)
    PROVE  faults' \in Nat /\ DraftInv' /\ ResetIsFinal' /\ PresenceInv'
<1> DEFINE p == IF Vanished(r) THEN fileVanished(page) ELSE page
           x == GoOn(p, r.to)
           what == IF r.what = "go" THEN "goload" ELSE "load"
           g == GET(what, r.to, FALSE)
<1>1. /\ r.what \in {"go", "look"} /\ r.got # Wait
      /\ After(r, page, {g}) \/ After(r, x, {}) \/ After(r, p, {})
  BY DEF refreshSitePresence
<1>2. page.phase = "ready" /\ r.to \in Steps
  BY <1>1, ReadyAsker, Answer DEF ProgressInv
<1>3. Fit(page, p) /\ p \in PageType
  BY PageKnown, VanishedFits DEF Fit
<1>4. Gains(page, p) /\ (faults = 0 /\ p.exists => disk # 0)
  <2>1. CASE Vanished(r)
    BY <2>1, PageKnown, VanishedGains DEF Gains
  <2>2. CASE ~Vanished(r)
    BY <2>2, Stays
  <2> QED
    BY <2>1, <2>2
<1> HIDE DEF p
<1>5. Fit(page, x) /\ Same(p, x)
  BY <1>2, <1>3, GoOnFits, SameStep
<1>6. what \in {"goload", "load"}
  OBVIOUS
<1> HIDE DEF what
<1>7. faults = 0 => Truthful(g)
  BY <1>6, AskedTruly DEF Whats
<1> HIDE DEF x, g
<1>8. Gains(page, x) /\ (faults = 0 /\ x.exists => disk # 0)
  BY <1>4, <1>5, SameGains
<1>9. CASE After(r, page, {g})
  BY <1>2, <1>7, <1>9, PageKnown, Stays, AfterKeeps
<1>10. CASE After(r, x, {})
  BY <1>2, <1>5, <1>8, <1>10, AfterKeeps
<1>11. CASE After(r, p, {})
  BY <1>2, <1>3, <1>4, <1>11, AfterKeeps
<1> QED
  BY <1>1, <1>9, <1>10, <1>11

LEMMA SiteLoadedKeeps ==
    ASSUME ProgressInv, NEW r \in net, SiteLoaded(r), earned' = earned \/ (page.exists /\ ~page'.exists)
    PROVE  faults' \in Nat /\ DraftInv' /\ ResetIsFinal' /\ PresenceInv'
<1> DEFINE p == loadSite(page, r.got)
           x == GoOn(p, r.to)
<1>1. r.what \in {"goload", "load"} /\ r.got # Wait /\ (After(r, x, {}) \/ After(r, p, {}))
  BY DEF SiteLoaded
<1>2. page.phase = "ready" /\ r.to \in Steps
  BY <1>1, ReadyAsker, Answer DEF ProgressInv
<1>3. Fit(page, p) /\ p \in PageType /\ Gains(page, p) /\ (faults = 0 /\ p.exists => disk # 0)
  BY <1>1, LoadKeeps DEF Whats
<1> HIDE DEF p
<1>4. Fit(page, x) /\ Same(p, x)
  BY <1>2, <1>3, GoOnFits, SameStep
<1> HIDE DEF x
<1>5. Gains(page, x) /\ (faults = 0 /\ x.exists => disk # 0)
  BY <1>3, <1>4, SameGains
<1>6. CASE After(r, x, {})
  BY <1>2, <1>4, <1>5, <1>6, AfterKeeps
<1>7. CASE After(r, p, {})
  BY <1>2, <1>3, <1>7, AfterKeeps
<1> QED
  BY <1>1, <1>6, <1>7

LEMMA SavedKeeps ==
    ASSUME ProgressInv, NEW r \in net, Saved(r), earned' = earned \/ (page.exists /\ ~page'.exists)
    PROVE  faults' \in Nat /\ DraftInv' /\ ResetIsFinal' /\ PresenceInv'
<1> DEFINE l == loadSite(page, r.got)
           x == [l EXCEPT !.busy = FALSE]
           m == markSiteFileExists(page)
           y == [m EXCEPT !.dirty = FALSE]
           b == [page EXCEPT !.busy = FALSE]
           g == GET("saved", 0, FALSE)
<1>1. /\ r.what \in {"save", "saved"} /\ r.got # Wait
      /\ \/ r.what = "saved" /\ After(r, x, {})
         \/ r.what = "save" /\ r.got = Ok /\ After(r, y, {g})
         \/ After(r, b, {})
  BY DEF Saved
<1>2. page.phase = "ready"
  BY <1>1, ReadyAsker
<1>3. CASE r.what = "saved" /\ After(r, x, {})
  <2>1. Fit(page, l) /\ l \in PageType /\ Gains(page, l) /\ (faults = 0 /\ l.exists => disk # 0)
    BY <1>1, <1>3, LoadKeeps DEF Whats
  <2> HIDE DEF l
  <2>2. Fit(page, x) /\ Same(l, x)
    BY <2>1, BusyFits, FieldsSame
  <2> HIDE DEF x
  <2>3. Gains(page, x) /\ (faults = 0 /\ x.exists => disk # 0)
    BY <2>1, <2>2, SameGains
  <2> QED
    BY <1>2, <1>3, <2>2, <2>3, AfterKeeps
<1>4. CASE r.what = "save" /\ r.got = Ok /\ After(r, y, {g})
  <2>1. Fit(page, m) /\ Gains(page, m) /\ m \in PageType
    BY PageKnown, ExistsFits, MarkGains DEF Fit
  <2> HIDE DEF m
  <2>2. Fit(page, y) /\ Same(m, y)
    BY <2>1, PageKnown, CleanFits, FieldsSame
  <2>3. (faults = 0 => disk # 0) /\ (faults = 0 => Truthful(g))
    BY <1>1, <1>4, Truth, AskedTruly DEF IsPut, Whats
  <2> HIDE DEF y, g
  <2>4. Gains(page, y)
    BY <2>1, <2>2, SameGains
  <2> QED
    BY <1>2, <1>4, <2>2, <2>3, <2>4, AfterKeeps
<1>5. CASE After(r, b, {})
  <2>1. Fit(page, b) /\ Same(page, b)
    BY PageKnown, BusyFits, FieldsSame
  <2> HIDE DEF b
  <2>2. Gains(page, b) /\ (faults = 0 /\ b.exists => disk # 0)
    BY <2>1, Stays, SameGains
  <2> QED
    BY <1>2, <1>5, <2>1, <2>2, AfterKeeps
<1> QED
  BY <1>1, <1>3, <1>4, <1>5

LEMMA prepareSiteStepKeeps ==
    ASSUME ProgressInv, NEW r \in net, prepareSiteStep(r)
    PROVE  faults' \in Nat /\ DraftInv' /\ ResetIsFinal' /\ PresenceInv'
<1> DEFINE m == markSiteFileExists(page)
           d == [m EXCEPT !.done = @ \cup {0}]
           p == IF r.what = "dirs" THEN page ELSE d
           q == [p EXCEPT !.busy = FALSE]
           x == applyWizardStep(q, r.to)
           b == [page EXCEPT !.busy = FALSE]
           g == GET("dirs", r.to, r.known)
<1>1. /\ r.what \in {"step", "dirs"} /\ r.got # Wait /\ earned' = earned
      /\ \/ After(r, b, {})
         \/ /\ r.what = "step" => r.got # Error
            /\ After(r, p, {g}) \/ After(r, x, {}) \/ After(r, q, {})
  <2>1. r.what \in {"step", "dirs"} /\ r.got # Wait /\ earned' = earned
    BY DEF prepareSiteStep
  <2>2. CASE r.what = "step" /\ r.got = Error
    BY <2>1, <2>2, AnswersDiffer DEF prepareSiteStep
  <2>3. CASE ~(r.what = "step" /\ r.got = Error)
    <3>1. After(r, p, {g}) \/ After(r, x, {}) \/ After(r, q, {})
      BY <2>3 DEF prepareSiteStep
    <3> QED
      BY <2>1, <2>3, <3>1
  <2> QED
    BY <2>2, <2>3
<1>2. page.phase = "ready" /\ r.to \in Steps
  BY <1>1, ReadyAsker, Answer DEF ProgressInv
<1>3. Fit(page, b) /\ Same(page, b)
  BY PageKnown, BusyFits, FieldsSame
<1>4. Fit(page, m) /\ m.exists = TRUE /\ Gains(page, m) /\ m \in PageType
  BY PageKnown, ExistsFits, MarkGains DEF Fit
<1> HIDE DEF m
<1>5. Fit(page, d) /\ d.exists = TRUE /\ d.done = m.done \cup {0}
  BY <1>4, PageKnown, DoneFits DEF PageType
<1> HIDE DEF d
<1>6. Fit(page, p) /\ p \in PageType /\ Gains(page, p) /\ (page.exists => p.exists)
  BY <1>4, <1>5, PageKnown, Stays DEF Gains, Fit
<1>7. (r.what = "step" => r.got # Error) => (faults = 0 /\ p.exists => disk # 0)
  BY <1>1, Truth, Stays DEF IsPut
<1> HIDE DEF p
<1>8. Fit(page, q) /\ q \in PageType /\ q.exists = p.exists /\ Same(p, q)
  BY <1>6, PageKnown, BusyFits, FieldsSame DEF Fit
<1> HIDE DEF q
<1>9. Fit(page, x) /\ Same(q, x)
  BY <1>2, <1>6, <1>8, PageKnown, StepFits, SameStep, FitTogether
<1>10. faults = 0 => Truthful(g)
  BY AskedTruly DEF Whats
<1> HIDE DEF x, b, g
<1>11. CASE After(r, b, {})
  <2>1. Gains(page, b) /\ (faults = 0 /\ b.exists => disk # 0)
    BY <1>3, Stays, SameGains
  <2> QED
    BY <1>1, <1>2, <1>3, <1>11, <2>1, AfterKeeps
<1>12. CASE (r.what = "step" => r.got # Error) /\ (After(r, p, {g}) \/ After(r, x, {}) \/ After(r, q, {}))
  <2>1. faults = 0 /\ p.exists => disk # 0
    BY <1>7, <1>12
  <2>2. Gains(page, q) /\ (faults = 0 /\ q.exists => disk # 0)
    BY <1>6, <1>8, <2>1, SameGains
  <2>3. Gains(page, x) /\ (faults = 0 /\ x.exists => disk # 0)
    BY <1>9, <2>2, SameGains
  <2>4. CASE After(r, p, {g})
    BY <1>1, <1>2, <1>6, <1>10, <2>1, <2>4, AfterKeeps
  <2>5. CASE After(r, x, {})
    BY <1>1, <1>2, <1>9, <2>3, <2>5, AfterKeeps
  <2>6. CASE After(r, q, {})
    BY <1>1, <1>2, <1>8, <2>2, <2>6, AfterKeeps
  <2> QED
    BY <1>12, <2>4, <2>5, <2>6
<1> QED
  BY <1>1, <1>11, <1>12

-----------------------------------------------------------------------------
(* The theorems.                                                            *)

LEMMA ProgressInit == ASSUME Init PROVE ProgressInv
<1>1. page = [Fresh EXCEPT !.phase = "closed"] /\ net = {} /\ faults = 0 /\ left = 0 /\ earned = {}
      /\ draft = [form |-> 0, at |-> wizardProgressSnapshot(Fresh)]
  BY DEF Init
<1>2. page.phase = "closed" /\ page.exists = FALSE /\ page.done = {}
  BY <1>1, FreshFacts, FreshBlank
<1>3. wizardProgressSnapshot(Fresh) = [step |-> 0, reached |-> 0, done |-> {}]
  BY DEF wizardProgressSnapshot, Fresh
<1>4. draft.form = left /\ draft.at.done = {}
  BY <1>1, <1>3
<1> QED
  BY <1>1, <1>2, <1>4, InitSafe DEF ProgressInv, DraftInv, ResetIsFinal, PresenceInv

LEMMA FoundKeeps ==
    ASSUME ProgressInv, Found
    PROVE  faults' \in Nat /\ DraftInv' /\ ResetIsFinal' /\ PresenceInv'
<1>1. PICK r \in net :
        /\ EntryLoaded(r) \/ goWizard(r) \/ refreshSitePresence(r) \/ SiteLoaded(r) \/ Saved(r)
        /\ earned' = IF page.exists /\ ~page'.exists THEN {} ELSE earned
  BY DEF Found
<1>2. earned' = earned \/ (page.exists /\ ~page'.exists)
  BY <1>1
<1> QED
  BY <1>1, <1>2, EntryLoadedKeeps, goWizardKeeps, refreshSitePresenceKeeps, SiteLoadedKeeps, SavedKeeps

LEMMA NextKeeps ==
    ASSUME ProgressInv, Next
    PROVE  faults' \in Nat /\ DraftInv' /\ ResetIsFinal' /\ PresenceInv'
<1>1. CASE onPageHide \/ onSiteVisibility \/ EditForm \/ EditRest \/ goHome \/ goDeployEntry \/ initWorkspaceAndEnter
  BY <1>1, onPageHideKeeps, onSiteVisibilityKeeps, EditFormKeeps, EditRestKeeps, goHomeKeeps, goDeployEntryKeeps,
     initWorkspaceAndEnterKeeps
<1>2. CASE (\E h \in Typed : onRouteChange(h)) \/ (\E i \in 0..LastStep : goToStep(i))
  BY <1>2, onRouteChangeKeeps, goToStepKeeps DEF Steps
<1>3. CASE Look \/ reloadSite \/ nextFromSite \/ saveSite \/ (\E i \in 1..LastStep : completeFieldStep(i))
  BY <1>3, LookKeeps, reloadSiteKeeps, nextFromSiteKeeps, saveSiteKeeps, completeFieldStepKeeps
<1>4. CASE WriteByHand \/ DeleteByHand
  BY <1>4, ByHandKeeps
<1>5. CASE Open \/ persistDraftSoon \/ persistSiteFormSoon \/ \E r \in net : Fail(r)
  BY <1>5, OpenKeeps, persistDraftSoonKeeps, persistSiteFormSoonKeeps, FailKeeps
<1>6. CASE Found
  BY <1>6, FoundKeeps
<1>7. CASE \E r \in net : Handle(r) \/ AutoSaved(r) \/ WorkspaceReady(r) \/ prepareSiteStep(r)
  BY <1>7, HandleKeeps, AutoSavedKeeps, WorkspaceReadyKeeps, prepareSiteStepKeeps
<1>8. CASE \E r \in net, h \in Typed \cup {NoHash} : mount(r, h)
  BY <1>8, mountKeeps
<1> QED
  BY <1>1, <1>2, <1>3, <1>4, <1>5, <1>6, <1>7, <1>8 DEF Next, User, Answered

LEMMA ProgressNext == ASSUME ProgressInv, [Next]_siteVars PROVE ProgressInv'
<1>1. SessionInv'
  BY NextSafe DEF ProgressInv
<1>2. CASE UNCHANGED siteVars
  <2>1. UNCHANGED <<disk, draft, page, net, faults, left, earned>>
    BY <1>2 DEF siteVars
  <2>2. PresenceInv'
    BY <2>1 DEF ProgressInv, PresenceInv, Truthful, IsPut
  <2> QED
    BY <1>1, <2>1, <2>2 DEF ProgressInv, DraftInv, ResetIsFinal
<1>3. CASE Next
  BY <1>1, <1>3, NextKeeps DEF ProgressInv
<1> QED
  BY <1>2, <1>3

\* Progress that was reset because site.yaml was gone does not come back by
\* itself: every step but the first that a page shows as done was confirmed
\* since the last reset (createConsole.js: resetWizardProgress, applyDraft,
\* flushSitePersist).
THEOREM ResetStays == Spec => []ResetIsFinal
<1>1. Init => ProgressInv
  BY ProgressInit
<1>2. ProgressInv /\ [Next]_siteVars => ProgressInv'
  BY ProgressNext
<1>3. ProgressInv => ResetIsFinal
  BY DEF ProgressInv
<1> QED
  BY <1>1, <1>2, <1>3, PTL DEF Spec

\* A phase ends "opening" with the mount only.
LEMMA OnlyMountShows ==
    ASSUME ProgressInv, [Next]_siteVars, page.phase = "opening", page'.phase = "ready"
    PROVE  \E r \in net, h \in Typed \cup {NoHash} : mount(r, h)
<1>1. \A r \in net : r.what = "open"
  BY DEF ProgressInv, SessionInv
<1>2. page' # page
  OBVIOUS
<1>3. ~(onPageHide \/ onSiteVisibility \/ EditForm \/ EditRest \/ goHome \/ goDeployEntry \/ initWorkspaceAndEnter)
  BY DEF onPageHide, onSiteVisibility, EditForm, EditRest, goHome, goDeployEntry, initWorkspaceAndEnter, InSite, Free, Room, Ready
<1>4. ~((\E h \in Typed : onRouteChange(h)) \/ (\E i \in 0..LastStep : goToStep(i)))
  BY DEF onRouteChange, goToStep, Free, Room, Ready
<1>5. ~(Look \/ reloadSite \/ nextFromSite \/ saveSite \/ (\E i \in 1..LastStep : completeFieldStep(i)))
  BY DEF Look, reloadSite, nextFromSite, saveSite, completeFieldStep, InSite, Free, Room, Ready
<1>6. ~(WriteByHand \/ DeleteByHand \/ UNCHANGED siteVars)
  BY <1>2 DEF WriteByHand, DeleteByHand, siteVars
<1>7. ~(Open \/ persistDraftSoon \/ persistSiteFormSoon \/ \E r \in net : Fail(r))
  BY <1>2 DEF Open, persistDraftSoon, persistSiteFormSoon, Fail, Room, Ready
<1>8. ~Found
  BY <1>1 DEF Found, EntryLoaded, goWizard, refreshSitePresence, SiteLoaded, Saved
<1>9. ~(\E r \in net : Handle(r) \/ AutoSaved(r) \/ WorkspaceReady(r) \/ prepareSiteStep(r))
  BY <1>1, <1>2 DEF Handle, AutoSaved, WorkspaceReady, prepareSiteStep
<1> QED
  BY <1>3, <1>4, <1>5, <1>6, <1>7, <1>8, <1>9 DEF Next, User, Answered

\* Project, machines and middleware are those of the page that was closed last
\* when a page is opened and there is no site.yaml (createConsole.js: mount,
\* applyDraft and flushSitePersist).
THEOREM DraftRestores == Spec => ReopenRestores
<1> DEFINE Restores == \A r \in net : r.what = "open" /\ r.got = 0 /\ page'.phase = "ready" /\ page.phase = "opening" =>
                         page'.form = left
<1>1. Init => ProgressInv
  BY ProgressInit
<1>2. ProgressInv /\ [Next]_siteVars => ProgressInv'
  BY ProgressNext
<1>3. ProgressInv /\ [Next]_siteVars => Restores
  BY OnlyMountShows, mountKeeps
<1>4. ProgressInv /\ [Next]_siteVars => [Restores]_siteVars
  BY <1>3
<1> QED
  BY <1>1, <1>2, <1>4, PTL DEF Spec, ReopenRestores

\* Who answers a question of refreshSitePresence is refreshSitePresence.
LEMMA OnlyItsAnswer ==
    ASSUME ProgressInv, [Next]_siteVars, page.phase = "ready", page'.phase = "ready",
           NEW r \in net, r.what \in {"go", "look"}, r \notin net', page' # page
    PROVE  refreshSitePresence(r)
<1>1. ~onPageHide
  <2>1. [Fresh EXCEPT !.phase = "closed"].phase = "closed"
    BY FreshFacts
  <2> QED
    BY <2>1 DEF onPageHide
<1>2. ~(onSiteVisibility \/ EditForm \/ EditRest \/ goHome \/ goDeployEntry \/ initWorkspaceAndEnter)
  BY DEF onSiteVisibility, EditForm, EditRest, goHome, goDeployEntry, initWorkspaceAndEnter, Do
<1>3. ~((\E h \in Typed : onRouteChange(h)) \/ (\E i \in 0..LastStep : goToStep(i)))
  BY DEF onRouteChange, goToStep, Do
<1>4. ~(Look \/ reloadSite \/ nextFromSite \/ saveSite \/ (\E i \in 1..LastStep : completeFieldStep(i)))
  BY DEF Look, reloadSite, nextFromSite, saveSite, completeFieldStep, Do
<1>5. ~(WriteByHand \/ DeleteByHand \/ UNCHANGED siteVars)
  BY DEF WriteByHand, DeleteByHand, siteVars
<1>6. ~(Open \/ persistDraftSoon \/ persistSiteFormSoon \/ \E s \in net : Fail(s))
  BY DEF Open, persistDraftSoon, persistSiteFormSoon, Fail
<1>7. ASSUME NEW s \in net, AutoSaved(s) \/ WorkspaceReady(s) \/ prepareSiteStep(s)
      PROVE  FALSE
  <2>1. s.what \in {"auto", "workspace", "step", "dirs"} /\ \E p, requests : After(s, p, requests)
    BY <1>7 DEF AutoSaved, WorkspaceReady, prepareSiteStep
  <2> QED
    BY <2>1 DEF After
<1>8. ASSUME NEW s \in net, NEW h, mount(s, h) PROVE FALSE
  BY <1>8 DEF mount, ProgressInv, SessionInv
<1>9. ASSUME NEW s \in net, EntryLoaded(s) \/ goWizard(s) \/ SiteLoaded(s) \/ Saved(s)
      PROVE  FALSE
  <2>1. s.what \in {"entry", "wizard", "goload", "load", "save", "saved"} /\ \E p, requests : After(s, p, requests)
    BY <1>9 DEF EntryLoaded, goWizard, SiteLoaded, Saved
  <2> QED
    BY <2>1 DEF After
<1>10. ASSUME NEW s \in net, refreshSitePresence(s) PROVE s = r
  <2>1. \E p, requests : After(s, p, requests)
    BY <1>10 DEF refreshSitePresence
  <2> QED
    BY <2>1 DEF After
<1>11. ASSUME NEW s \in net PROVE ~Handle(s)
  BY DEF Handle
<1>12. Answered => \E s \in net : refreshSitePresence(s)
  BY <1>7, <1>8, <1>9, <1>11 DEF Answered, Found
<1> QED
  BY <1>1, <1>2, <1>3, <1>4, <1>5, <1>6, <1>10, <1>12 DEF Next, User

LEMMA AbsenceKeepsDone ==
    ASSUME ProgressInv, faults = 0, NEW r \in net, refreshSitePresence(r)
    PROVE  page.done \subseteq page'.done
<1> DEFINE x == GoOn(page, r.to)
           what == IF r.what = "go" THEN "goload" ELSE "load"
           g == GET(what, r.to, FALSE)
<1>1. r.what \in {"go", "look"} /\ r.got # Wait
  BY DEF refreshSitePresence
<1>2. ~Vanished(r) /\ page.phase = "ready"
  BY <1>1, Truth, ReadyAsker
<1>3. After(r, page, {g}) \/ After(r, x, {}) \/ After(r, page, {})
  BY <1>1, <1>2 DEF refreshSitePresence
<1>4. x \in PageType /\ Same(page, x)
  <2>1. r.to \in Steps
    BY <1>1, Answer DEF ProgressInv
  <2> QED
    BY <2>1, PageKnown, SameStep, StepFits DEF Fit
<1> HIDE DEF x, g
<1>5. page' = Watched(page) \/ page' = Watched(x)
  BY <1>3 DEF After
<1>6. Same(page, Watched(page)) /\ Same(x, Watched(x))
  BY <1>2, <1>4, PageKnown, WatchedSame
<1> QED
  BY <1>4, <1>5, <1>6 DEF Same

\* While nobody deletes the file and no request fails, refreshSitePresence
\* takes no step from those that are done, whichever answer it gets: "no file"
\* is only heard by who knew of a file when asking (createConsole.js:
\* refreshSitePresence and its hadSite).
THEOREM LateAbsenceIgnored == Spec => StaleAbsenceIgnored
<1> DEFINE Kept == \A r \in net : r.what \in {"go", "look"} /\ r \notin net' /\ page.phase = "ready" /\ page'.phase = "ready" /\ faults = 0 =>
                     page.done \subseteq page'.done
<1>1. Init => ProgressInv
  BY ProgressInit
<1>2. ProgressInv /\ [Next]_siteVars => ProgressInv'
  BY ProgressNext
<1>3. ProgressInv /\ [Next]_siteVars => Kept
  <2> SUFFICES ASSUME ProgressInv, [Next]_siteVars, NEW r \in net, r.what \in {"go", "look"}, r \notin net',
                      page.phase = "ready", page'.phase = "ready", faults = 0
               PROVE  page.done \subseteq page'.done
    OBVIOUS
  <2>1. CASE page' = page
    BY <2>1
  <2>2. CASE page' # page
    BY <2>2, OnlyItsAnswer, AbsenceKeepsDone
  <2> QED
    BY <2>1, <2>2
<1>4. ProgressInv /\ [Next]_siteVars => [Kept]_siteVars
  BY <1>3
<1> QED
  BY <1>1, <1>2, <1>4, PTL DEF Spec, StaleAbsenceIgnored
=============================================================================
