---------------------------- MODULE SiteSession ----------------------------
(***************************************************************************)
(* One page of the console and its site.yaml: where the user is in the     *)
(* wizard, what is in the form, and how both outlive the page              *)
(* (web/src/composables/createConsole.js, utils/storage.js, router/).      *)
(*                                                                         *)
(* The page keeps a flag for "there is a site.yaml".  Without the file the *)
(* wizard has no progress; the form lives in the draft of the browser.     *)
(* With it, the file counts, and edits are written to it 800 ms after the  *)
(* last.  Every request is an await: between its sending and its answer    *)
(* the user goes on, timers fire, other answers come, and somebody may     *)
(* write or delete the file by hand.                                       *)
(*                                                                         *)
(* A form is a number: 0 is the blank form, n the form after edit n.  As   *)
(* what is on disk, 0 says that there is no file.  The number is of the    *)
(* project, the machines and the middleware, which the draft brings back.  *)
(* The agents and exporters to watch, the workspace and the directories of *)
(* the standalone programs are not in it: a change of them marks the form  *)
(* as edited and starts the timers, and its number stays (EditRest,        *)
(* toPreflight); what the mount takes from them is not seen.               *)
(***************************************************************************)
EXTENDS Integers, FiniteSets

CONSTANTS
    MaxEdits,   \* bound: edits of the form
    MaxActs,    \* bound: what the user does, edits included
    MaxFaults,  \* bound: requests that fail and files that are deleted
    MaxNet,     \* bound: requests under way when a new one is made
    LastStep,   \* the last step of the wizard
    Typed,      \* addresses that are opened or gone back to
    NoHash, Wait, Ok, Error

ASSUME SessionAssumption ==
    /\ MaxEdits \in Nat /\ MaxActs \in Nat /\ MaxFaults \in Nat /\ MaxNet \in Nat \ {0} /\ LastStep \in Nat \ {0}
    /\ \A h \in Typed : h.view \in {"home", "preflight", "wizard"} /\ h.step \in 0..LastStep

\* A request that succeeded has neither failed nor is it still on its way.
ASSUME AnswersDiffer == Ok \notin {Wait, Error}

ByHand == MaxEdits + 1
Forms == 0..ByHand

\* After one edit something is still missing.
siteFormReadyToPersist(f) == f >= 2

VARIABLES
    disk,   \* site.yaml
    draft,  \* localStorage: a form, and where its user was
    page,
    net,    \* requests of the page
    edits, faults, acts,
    left,   \* the form of the page that was closed last
    earned  \* steps completed since site.yaml was last found missing

siteVars == <<disk, draft, page, net, edits, faults, acts, left, earned>>

-----------------------------------------------------------------------------
(* The page.                                                                *)

\* A page before anything is loaded.
Fresh ==
    [phase |-> "opening", view |-> "home", exists |-> FALSE, form |-> 0, dirty |-> FALSE, busy |-> FALSE,
     timers |-> {}, step |-> 0, reached |-> 0, done |-> {}]

Greater(a, b) == IF a > b THEN a ELSE b

\* The fields of the form are set, be it to what they were.
Refilled(p, f) ==
    [p EXCEPT !.form = f, !.dirty = p.phase = "ready",
              !.timers = IF p.phase = "ready" THEN {"draft", "site"} ELSE @]

wizardProgressSnapshot(p) ==
    [step |-> IF p.exists THEN p.step ELSE 0, reached |-> IF p.exists THEN p.reached ELSE 0,
     done |-> IF p.exists THEN p.done ELSE {}]

resetWizardProgress(p) ==
    [p EXCEPT !.step = 0, !.reached = 0, !.done = {}]

resetSiteFormBlank(p) == Refilled(p, 0)
fileVanished(p) == resetSiteFormBlank(resetWizardProgress([p EXCEPT !.exists = FALSE]))

\* The answer of GET /api/site: the file, 0 or Error.
IsFile(got) == got \notin {0, Error}
loadSite(p, got) ==
    IF IsFile(got)
    THEN Refilled([p EXCEPT !.exists = TRUE, !.done = @ \cup {0}, !.reached = Greater(@, 1)], got)
    ELSE IF p.exists THEN fileVanished(p) ELSE p

canGoToStep(p, i) ==
    CASE p.busy -> i = p.step
      [] ~p.busy /\ (i \in {p.step, 0} \/ i <= p.reached) -> TRUE
      [] OTHER -> i = p.step + 1 /\ p.step \in p.done

applyWizardStep(p, i) == [p EXCEPT !.step = i, !.reached = Greater(@, i)]

\* The start fills in the directory it begins with.
toPreflight(p) == Refilled([p EXCEPT !.view = "preflight"], p.form)

\* Fault: the address counts, file or not.
HashCounts(p, h) ==
    IF h.view = "wizard"
    THEN [p EXCEPT !.view = "wizard", !.step = h.step, !.reached = Greater(@, h.step)]
    ELSE IF h.view = "preflight" THEN toPreflight(p) ELSE [p EXCEPT !.view = h.view]

applyHashToState(p, h) ==
    LET InWizard == [p EXCEPT !.view = IF p.exists \/ h.step = 0 THEN "wizard" ELSE "preflight",
                              !.step = IF p.exists THEN h.step ELSE 0,
                              !.reached = IF p.exists THEN Greater(@, h.step) ELSE @]
        q == IF h.view = "wizard" THEN InWizard ELSE [p EXCEPT !.view = h.view]
    IN IF q.view = "preflight" THEN toPreflight(q) ELSE q

routePath(p) ==
    [view |-> p.view, step |-> IF p.view = "wizard" THEN p.step ELSE 0]

\* The watch() callbacks after a change, once the page is ready.  A new place
\* is put into the address, and the address is applied in turn; any change
\* asks for a draft, one of the form for site.yaml as well.
Watched(p) ==
    LET q == IF routePath(p) # routePath(page) THEN applyHashToState(p, routePath(p)) ELSE p
        moved == wizardProgressSnapshot(q) # wizardProgressSnapshot(page) \/ q.view # page.view
        typed == q.form # page.form
    IN IF page.phase # "ready" THEN p
       ELSE [q EXCEPT !.timers = @ \cup (IF moved \/ typed THEN {"draft"} ELSE {}) \cup (IF typed THEN {"site"} ELSE {}),
                      !.dirty = @ \/ typed]

-----------------------------------------------------------------------------
(* Requests.  "known" is what the sender knew when it sent.                 *)

GET(what, to, known) == [what |-> what, to |-> to, known |-> known, text |-> 0, got |-> Wait]
PUT(what, to, known) == [GET(what, to, known) EXCEPT !.text = page.form]
IsPut(r) == r.what \in {"auto", "step", "save"}

Ready == page.phase = "ready"
Room == Ready /\ Cardinality(net) < MaxNet

\* The user waits for what the last click has asked for.
Free == Room /\ \A r \in net : r.what \in {"look", "auto"}
InSite == Ready /\ page.view = "wizard" /\ page.step = 0
stored == <<disk, draft, edits, faults, left>>

\* Something happens on the page, and requests are sent.
Do(p, requests) == page' = Watched(p) /\ net' = net \cup requests /\ UNCHANGED <<stored, earned>>

\* The answer to r is dealt with.
After(r, p, requests) == page' = Watched(p) /\ net' = (net \ {r}) \cup requests /\ UNCHANGED stored

Reply(r, got) == (net \ {r}) \cup {[r EXCEPT !.got = got]}

\* The server answers with the file, or checks the form and writes it.
Handle(r) ==
    /\ r.got = Wait
    /\ IF IsPut(r) /\ siteFormReadyToPersist(r.text)
       THEN disk' = r.text /\ net' = Reply(r, Ok)
       ELSE disk' = disk /\ net' = Reply(r, IF IsPut(r) THEN Error ELSE disk)
    /\ UNCHANGED <<draft, page, edits, faults, left, earned>>

Fail(r) ==
    /\ r.got \in {Wait, Ok} /\ faults < MaxFaults
    /\ faults' = faults + 1 /\ net' = Reply(r, Error)
    /\ UNCHANGED <<disk, draft, page, edits, left, earned>>

-----------------------------------------------------------------------------
(* Opening and closing.                                                     *)

Init ==
    /\ disk \in {0, ByHand}
    /\ draft = [form |-> 0, at |-> wizardProgressSnapshot(Fresh)]
    /\ page = [Fresh EXCEPT !.phase = "closed"]
    /\ net = {} /\ edits = 0 /\ faults = 0 /\ acts = 0
    /\ left = 0 /\ earned = {}

Open ==
    /\ page.phase = "closed"
    /\ page' = Fresh /\ net' = net \cup {GET("open", 0, FALSE)}
    /\ UNCHANGED <<stored, earned>>

\* Fault: the form of the draft is left out.
FormLeftOut(p, d) ==
    [p EXCEPT !.step = IF p.exists THEN d.at.step ELSE @,
              !.reached = IF p.exists THEN Greater(@, d.at.reached) ELSE @,
              !.done = IF p.exists THEN d.at.done ELSE @]

\* Without a file the form is that of the draft: project, machines and
\* middleware, whose number it is.
applyDraft(p, d) ==
    [p EXCEPT !.step = IF p.exists THEN d.at.step ELSE @,
              !.reached = IF p.exists THEN Greater(@, d.at.reached) ELSE @,
              !.done = IF p.exists THEN d.at.done ELSE @,
              !.form = IF p.exists THEN @ ELSE d.form,
              !.dirty = ~p.exists]

\* mount, from the answer of loadSite on.  Directories that are gone and a
\* workspace that is none are emptied before the form is watched.
mount(r, h) ==
    /\ r.what = "open" /\ r.got # Wait
    /\ LET p == [applyDraft(loadSite(page, r.got), draft) EXCEPT !.phase = "ready", !.timers = {"draft", "site"}]
       IN After(r, IF h = NoHash THEN p ELSE applyHashToState(p, h), {})
    /\ UNCHANGED earned

saveDraft == draft' = [form |-> page.form, at |-> wizardProgressSnapshot(page)]
autosaves == page.dirty /\ siteFormReadyToPersist(page.form)

\* Fault: what the browser keeps is written by its timer alone.
FlushSiteOnly == UNCHANGED draft

flushSitePersist == saveDraft

\* The tab is put away.
onSiteVisibility ==
    /\ Room /\ \A r \in net : r.what # "auto"
    /\ flushSitePersist
    /\ page' = [page EXCEPT !.timers = IF page.dirty /\ ~autosaves THEN {"draft"} ELSE {}]
    /\ net' = net \cup (IF autosaves THEN {PUT("auto", 0, FALSE)} ELSE {})
    /\ UNCHANGED <<disk, edits, faults, left, earned>>

\* The page is left or loaded again.  What it has sent is handled at once, or
\* never.
onPageHide ==
    /\ Ready /\ flushSitePersist
    /\ page' = [Fresh EXCEPT !.phase = "closed"] /\ net' = {}
    /\ disk' \in {disk} \cup {r.text : r \in {q \in net : IsPut(q) /\ q.got = Wait /\ siteFormReadyToPersist(q.text)}}
                       \cup (IF autosaves THEN {page.form} ELSE {})
    /\ left' = page.form
    /\ UNCHANGED <<edits, faults, earned>>

\* debounce: 280 ms after the last change.
persistDraftSoon ==
    /\ Ready /\ "draft" \in page.timers /\ saveDraft
    /\ page' = [page EXCEPT !.timers = @ \ {"draft"}]
    /\ UNCHANGED <<disk, net, edits, faults, left, earned>>

\* 800 ms after the last edit.
persistSiteFormSoon ==
    /\ Room /\ \A r \in net : r.what # "auto"
    /\ "site" \in page.timers
    /\ page' = [page EXCEPT !.timers = (@ \ {"site"}) \cup (IF page.dirty /\ ~autosaves THEN {"draft"} ELSE {})]
    /\ net' = net \cup (IF autosaves THEN {PUT("auto", 0, FALSE)} ELSE {})
    /\ UNCHANGED <<stored, earned>>

markSiteFileExists(p) == [p EXCEPT !.exists = TRUE]

AutoSaved(r) ==
    /\ r.what = "auto" /\ r.got # Wait /\ UNCHANGED earned
    /\ After(r, IF r.got = Ok THEN [markSiteFileExists(page) EXCEPT !.dirty = FALSE]
                ELSE [page EXCEPT !.timers = @ \cup {"draft"}], {})

-----------------------------------------------------------------------------
(* The user.                                                                *)

EditForm ==
    /\ InSite /\ edits < MaxEdits
    /\ edits' = edits + 1
    /\ page' = Watched([page EXCEPT !.form = edits + 1])
    /\ UNCHANGED <<disk, draft, net, faults, left, earned>>

\* A directory, or what is to be watched: not in the number.
EditRest == Ready /\ page.view # "home" /\ Do(Refilled(page, page.form), {})

goHome == Ready /\ page.view # "home" /\ Do([page EXCEPT !.view = "home"], {})

onRouteChange(h) == Ready /\ h # routePath(page) /\ Do(applyHashToState(page, h), {})

goDeployEntry == Free /\ Do(page, {GET("entry", 0, page.view = "wizard")})

EntryLoaded(r) ==
    /\ r.what = "entry" /\ r.got # Wait
    /\ LET p == loadSite(page, r.got) IN
       After(r, CASE p.exists /\ (p.reached > 0 \/ 0 \in p.done) -> [p EXCEPT !.view = "wizard"]
                  [] OTHER -> IF r.known THEN p ELSE toPreflight(p), {})

initWorkspaceAndEnter ==
    /\ Free /\ page.view = "preflight" /\ ~page.busy
    /\ Do([page EXCEPT !.busy = TRUE], {GET("workspace", 0, FALSE)})

\* The directories are there, and goWizard loads the site.
WorkspaceReady(r) ==
    /\ r.what = "workspace" /\ r.got # Wait /\ UNCHANGED earned
    /\ LET p == [page EXCEPT !.busy = FALSE] IN
       IF r.got = Error THEN After(r, p, {}) ELSE After(r, Refilled(p, p.form), {GET("wizard", 0, FALSE)})

goWizard(r) ==
    /\ r.what = "wizard" /\ r.got # Wait
    /\ After(r, [loadSite(page, r.got) EXCEPT !.view = "wizard"], {})

-----------------------------------------------------------------------------
(* From step to step.                                                       *)

\* A tab: from the first step, not saved yet, forward means to save; else the
\* page looks for the file first.
goToStep(i) ==
    /\ Free /\ page.view = "wizard" /\ i # page.step
    /\ IF page.step = 0 /\ i > 0 /\ 0 \notin page.done
       THEN Do([page EXCEPT !.busy = TRUE], {PUT("step", i, FALSE)})
       ELSE Do(page, {GET("go", i, page.exists)})

\* Fault: the way goes on without the file.
GoOnAnyway(p, i) == IF canGoToStep(p, i) THEN applyWizardStep(p, i) ELSE p

GoOn(p, i) == IF (p.exists \/ i = 0) /\ canGoToStep(p, i) THEN applyWizardStep(p, i) ELSE p

\* Fault: what counts is what the page knows when the answer comes.
KnownNow(r) == page.exists /\ r.got = 0

Vanished(r) == r.known /\ r.got = 0

\* refreshSitePresence: asked by a tab ("go"), or when the page is seen again.
Look == Room /\ (\A r \in net : r.what # "look") /\ Do(page, {GET("look", 0, page.exists)})

refreshSitePresence(r) ==
    /\ r.what \in {"go", "look"} /\ r.got # Wait
    /\ LET p == IF Vanished(r) THEN fileVanished(page) ELSE page
           On(q) == IF r.what = "go" THEN GoOn(q, r.to) ELSE q
       IN IF IsFile(r.got) /\ ~page.exists
          THEN After(r, page, {GET(IF r.what = "go" THEN "goload" ELSE "load", r.to, FALSE)})
          ELSE After(r, On(p), {})

\* "Load again", and the loads of refreshSitePresence.
reloadSite == Free /\ InSite /\ ~page.busy /\ Do(page, {GET("load", 0, FALSE)})
SiteLoaded(r) ==
    /\ r.what \in {"goload", "load"} /\ r.got # Wait
    /\ LET p == loadSite(page, r.got) IN After(r, IF r.what = "goload" THEN GoOn(p, r.to) ELSE p, {})

\* The button under the last sub-step: save, and on to step 1.
nextFromSite ==
    /\ Free /\ InSite /\ ~page.busy
    /\ Do([page EXCEPT !.busy = TRUE], {PUT("step", 1, TRUE)})

\* Saved; the directory of Nginx may have to be looked for.
prepareSiteStep(r) ==
    /\ r.what \in {"step", "dirs"} /\ r.got # Wait /\ UNCHANGED earned
    /\ LET p == IF r.what = "dirs" THEN page ELSE [markSiteFileExists(page) EXCEPT !.done = @ \cup {0}]
           q == [p EXCEPT !.busy = FALSE]
       IN CASE r.what = "step" /\ r.got = Error -> After(r, [page EXCEPT !.busy = FALSE], {})
            [] r.what = "step" /\ r.got = Ok ->
                 \/ After(r, p, {GET("dirs", r.to, r.known)})
                 \/ After(r, IF r.known \/ canGoToStep(q, r.to) THEN applyWizardStep(q, r.to) ELSE q, {})
            [] OTHER -> After(r, IF r.known \/ canGoToStep(q, r.to) THEN applyWizardStep(q, r.to) ELSE q, {})

saveSite ==
    /\ Free /\ InSite /\ ~page.busy
    /\ Do([page EXCEPT !.busy = TRUE], {PUT("save", 0, FALSE)})

Saved(r) ==
    /\ r.what \in {"save", "saved"} /\ r.got # Wait
    /\ CASE r.what = "saved" -> After(r, [loadSite(page, r.got) EXCEPT !.busy = FALSE], {})
         [] r.what = "save" /\ r.got = Ok ->
              After(r, [markSiteFileExists(page) EXCEPT !.dirty = FALSE], {GET("saved", 0, FALSE)})
         [] OTHER -> After(r, [page EXCEPT !.busy = FALSE], {})

\* The work of a later step is done and confirmed.
completeFieldStep(i) ==
    /\ Ready /\ page.view = "wizard" /\ page.step = i /\ i < LastStep
    /\ earned' = earned \cup {i}
    /\ page' = Watched(applyWizardStep([page EXCEPT !.done = @ \cup {i}], i + 1))
    /\ UNCHANGED <<stored, net>>

\* Somebody writes or deletes site.yaml.
WriteByHand == disk # ByHand /\ disk' = ByHand /\ UNCHANGED <<draft, page, net, edits, faults, left, earned>>
DeleteByHand ==
    /\ disk # 0 /\ faults < MaxFaults
    /\ disk' = 0 /\ faults' = faults + 1
    /\ UNCHANGED <<draft, page, net, edits, left, earned>>

\* The answers that may find the file missing.
Found == \E r \in net :
    /\ EntryLoaded(r) \/ goWizard(r) \/ refreshSitePresence(r) \/ SiteLoaded(r) \/ Saved(r)
    /\ earned' = IF page.exists /\ ~page'.exists THEN {} ELSE earned

Answered ==
    \/ Found
    \/ \E r \in net : Handle(r) \/ AutoSaved(r) \/ WorkspaceReady(r) \/ prepareSiteStep(r)
    \/ \E r \in net, h \in Typed \cup {NoHash} : mount(r, h)

User ==
    \/ onPageHide \/ onSiteVisibility \/ EditForm \/ EditRest \/ goHome \/ goDeployEntry \/ initWorkspaceAndEnter
    \/ (\E h \in Typed : onRouteChange(h)) \/ (\E i \in 0..LastStep : goToStep(i))
    \/ Look \/ reloadSite \/ nextFromSite \/ saveSite \/ (\E i \in 1..LastStep : completeFieldStep(i))
    \/ WriteByHand \/ DeleteByHand

Next ==
    \/ acts < MaxActs /\ acts' = acts + 1 /\ User
    \/ acts' = acts /\ (Open \/ persistDraftSoon \/ persistSiteFormSoon \/ Answered \/ \E r \in net : Fail(r))

Spec == Init /\ [][Next]_siteVars
-----------------------------------------------------------------------------
(* Properties.                                                              *)

\* Types.
TypeOK ==
    /\ disk \in Forms /\ draft.form \in Forms
    /\ page.phase \in {"opening", "ready", "closed"} /\ page.view \in {"home", "preflight", "wizard"}
    /\ page.form \in Forms /\ page.timers \subseteq {"draft", "site"}
    /\ \A n \in {page.step, page.reached, draft.at.step, draft.at.reached} : n \in 0..LastStep
    /\ page.done \subseteq 0..LastStep

\* The steps after the first are open to a page that takes its site.yaml for
\* there, whatever address, tab or old answer brings the user to them ("without
\* a site.yaml no way from the address to the later steps").
LaterStepsNeedFile == page.view = "wizard" /\ page.step > 0 => page.exists

\* The types, and what is open to the page.
SessionOK == TypeOK /\ LaterStepsNeedFile

\* A page that is opened and finds no site.yaml shows the project, machines and
\* middleware of the page that was closed: the draft has every edit of them,
\* and nothing that happens while the page opens writes over them.  (Not so the
\* rest of the form: the draft brings back no agents and exporters, and the
\* mount empties or sets directories.)
ReopenRestores ==
    [][\A r \in net : r.what = "open" /\ r.got = 0 /\ page'.phase = "ready" /\ page.phase = "opening" =>
          page'.form = left]_siteVars

\* Progress that was reset because the file was gone does not come back by
\* itself: a later step that a page shows as done was confirmed by the user
\* since, also when the page is opened anew on the draft of an older one.  (It
\* says nothing of when the work that is confirmed was begun.)
ResetIsFinal == page.phase = "ready" => page.done \subseteq earned \cup {0}

\* The answer "no file" to a question asked before the file was written resets
\* nothing: as long as nobody deletes it and no request fails,
\* refreshSitePresence takes no progress away.
StaleAbsenceIgnored ==
    [][\A r \in net : r.what \in {"go", "look"} /\ r \notin net' /\ page.phase = "ready" /\ page'.phase = "ready" /\ faults = 0 =>
          page.done \subseteq page'.done]_siteVars

\* "Once project, machines and middleware are filled in they are written to
\* site.yaml by themselves": with no timer and no request left, and nobody
\* else writing, a complete form is on disk.
FilledInIsSaved ==
    /\ page.phase = "ready" /\ page.timers = {} /\ net = {} /\ faults = 0 /\ disk # ByHand
    /\ siteFormReadyToPersist(page.form)
    => disk = page.form
=============================================================================
