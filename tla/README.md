# wpgctl: models, checks and proofs

wpgctl deploys a water-plant platform (some twenty Docker services, middleware, an nginx
frontend) on one or a few Linux hosts that have no network. It is one Go binary: a command
line, and a web console in which people on site press buttons. This directory holds TLA+
models of the parts of it that keep state or run concurrently, TLC configurations that check
them on small instances, and theorems about them checked by TLAPS.

Paths below are relative to the repository root. "Plan" is `deployment-tool-plan.md`.

## 1. The system

### 1.1 Components, their state and operations

| Component | Code | State it keeps | Operations | Here |
|---|---|---|---|---|
| Deployment ledger | `internal/state/store.go` | `deployments.json` and its `.tmp` | `Append`, `List`, `LatestSuccess` | `Ledger`, `DeliveryLog` |
| Layered deployment | `internal/deploy`, `internal/health` | images, containers, rendered files; goroutines and a channel while it runs | `deploy.Run`, `health.WaitHealthy` | `LayeredDeploy` |
| Upgrade and rollback | `internal/upgrade` | jars and `bak/`, images, html and its backups, Nacos, history table, ledger | `upgrade.Run`, `upgrade.Rollback` | `Delivery` |
| SQL apply | `internal/db/apply.go` | `wpg_deploy_history`, effects of scripts | `db.Run`, `ListPending` | `SqlApply`, `SqlNames` |
| SQL files | `internal/db/files.go`, `sql_meta.go` | databases and tables | `ApplyFiles` | no |
| Console jobs | `internal/ui/server.go` and the handlers, `createConsole.js` | table of jobs in memory; what each page waits for | start a job, `okJob`, `failJob`, `handleWSJob`, `watchJob`, `pollJob`, chains | `Console` |
| Plan of machines and services | `createConsole.js`, `WizardSiteStep.vue`; `siteform.go` as the other end | the form's rows, row numbers of services, addresses; `site.yaml` | the edits of the form, `buildFormPayload`, `fillSiteForm`, the ways of saving and loading | `NodePlan` |
| Wizard session | `createConsole.js`, `utils/storage.js`, `router/` | flag "there is a `site.yaml`", place and progress in the wizard, form, draft in the browser, timers, requests under way | open, leave, drafts, autosave, tabs and addresses, presence checks, loads and saves | `SiteSession` |
| Wizard jobs | `createConsole.js`, `views/wizard` | `busy`, the socket `jobWs`, marks of steps and jobs, functions at work | every button of the steps that starts a job, "deploy all", confirmations, verification | `WizardJobs` |
| Site file and settings | `internal/ui/siteform.go`, `product.go`, `internal/state/settings.go` | `site.yaml` and `.tmp`, `settings.json` | save, form, settings GET and PUT | the form in `NodePlan`, `SiteSession`; the rest planned |
| Console daemon | `internal/ui/daemon*.go` | pid file, listen file, systemd unit | start, stop, install, uninstall | planned |
| Archive expansion | `internal/fetch/expand.go` | archives, their `.part` files, what they expand to | `ExpandArchives`, `Expand` | `Archives` |
| Package download | `internal/fetch/fetch.go` | partial downloads | `downloadResume`, `mergeParts` | planned |
| Nacos import | `internal/nacos` | namespace, configurations, backups | `Run` | planned; one step in `Delivery` |
| Host initialisation | `internal/initenv` | directories, Docker, firewall of every node | `Run`, `distributeInit` | planned |
| Remote deployment, ssh | `internal/remotedeploy`, `internal/sshx` | directories and binary on the nodes, stage directories | `Run`, `SyncDir`, `EnsureBinary` | planned |
| Firewall | `internal/firewall` | rules | `Start`, `OpenPorts`, `Reload` | planned |
| Module deployment | `internal/moduledeploy`, `internal/ui/module_ops.go` | expanded archives, images, `.env` and compose files, containers | `Run`, `RunNginxPatch`, `loadBaseImagesForBuild`, and the patches of texts | `ModuleDeploy`; texts planned |
| Docker wrapper | `internal/docker` | none | load, build, up, list | by what it leaves behind; `LoadImage` in `ModuleDeploy` |
| Rendering, configuration | `internal/render`, `internal/config` | none | templates; parse and validate | as a step; as constants |
| Status, precheck, verification | `internal/status`, `precheck`, `verify` | none | reports | no |
| Packing, secrets, helpers, command line | `internal/pack`, `vault`, `util`, `cmd` | none | | no |
| Web pages | `web/src` | forms, files, pickers, status | | the wizard in the three modules above, waiting for jobs in `Console`; status, file editor and pickers no |

### 1.2 How they interact

A button makes the page send a request; the handler makes a job (`newJob`), starts a goroutine
and answers with the job's id; the page then watches that job over a WebSocket or polls it. The
goroutine calls `deploy.Run`, `upgrade.Run`, `db.Run` and so on, the same functions that the
commands call in processes of their own. Nothing keeps two of them apart: the table of jobs has
a mutex, the jobs have none. They meet in files (`deployments.json`, `site.yaml`, module directories),
in the local Docker, in nginx's html directory, in Nacos and in MySQL.

`upgrade.Run` reads the ledger (`LatestSuccess`) for its baseline, calls `db.Run` and the Nacos
import, and appends a record. `deploy.Run` appends one too. Rollback searches the ledger.

The page is one state of its own. Its form is a draft in the browser until there is a `site.yaml`, then a
copy of that file that writes itself back 800 ms after an edit; a flag that there is a file decides which of
the two counts, whether later steps can be entered, and whether a draft is believed when the page is opened
again. Its buttons are async functions; what keeps them apart is a flag `busy`, and all of them share one
WebSocket. The place in the wizard is also the address, which the user may change at any time.

### 1.3 What is hard

* **Interleaving.** Jobs and commands overlap. Every `Append` makes a `Store` of its own, so the
  ledger's mutex excludes nobody, and all writers share one temporary file.
* **Crashes and partial failure.** Any process may die anywhere; every step of an upgrade may
  fail; the same upgrade is then tried again from whatever is left.
* **Goroutines.** Loaders behind a semaphore with an error channel; probers with deadlines.
* **Transactions.** MySQL commits by itself around DDL; an answer to a commit may be lost.
* **Order.** Layers; scripts sorted by name; records found from the end of a file.
* **Work in place.** Archives are expanded where they lie, a module is known to be prepared by what is
  found in its directory, and compose files are rewritten where docker reads them.
* **Copies.** Where a service goes is a number in the form, a name and roles in the file, and an address
  beside the middleware; each is changed by itself and computed from another.
* **Awaits.** Between a request and its answer the form is edited, a timer fires, the file is deleted, another
  answer comes; the code after the await goes by what it remembers or by what is there now.
* **Waiting.** A page waits for the end of a job while the job, the connection and the server
  may each go away.

### 1.4 What makes each component correct

* Ledger: acknowledged records stay, the file parses at any time, the success found is the newest.
* Layered deployment: no layer before the lower ones are healthy; a verdict reports something
  that happened; success is complete; the run ends and leaves nothing at work.
* Upgrade and rollback: versions follow baselines; a tag holds its jar; a success has its SQL, its
  images are there, and the original frontend can be found.
* SQL: the history tells the truth; a script without DDL takes effect exactly once; success means
  everything is applied as it is in the package.
* Archives and modules: what lies under the name of a `.tar` can be loaded; a module that is prepared is
  expanded to the last archive; what ends well runs the image that was delivered; a base image is one.
* Console: what a page was told is final; a step is marked by a chain all of whose
  jobs ended well; a wait ends.
* Plan: a service never slips to another machine, nor off the table, by an edit of something else; the file
  says what the form said; addresses and jobs go to the machine that is shown.
* Session: without the file the later steps stay closed; progress that was reset does not come back by itself; the
  project, machines and middleware that were typed are there again when the page is; a file that was just written
  is not taken for missing.
* Wizard jobs: a step counts as done only by what was done for it, however its functions interrupt one
  another; the buttons come back.

`PROJECT.json` lists the most important hazards one by one, each at the line where it bites, with the properties
about it, or a note where there is none yet.

## 2. Modules

```
DeliveryLog            what callers expect of the ledger: an append-only log
   ^ implemented by
Ledger         <-- RecordProofs              system calls of Append
LayeredDeploy  <-- MCDeploy, LayeredDeployProofs
Delivery       <-- MCDelivery, DeliveryProofs   deploy, upgrade, rollback of one site
SqlApply, SqlNames  <-- MCSqlApply;  SqlApply <-- RecordProofs
Console        <-- ConsoleProofs
Archives
   ^ extended by
ModuleDeploy   <-- MCModuleDeploy, ModuleDeployProofs   jobs on one module directory
NodePlan       <-- MCNodePlan, NodePlanProofs   the form and site.yaml, by content
SiteSession    <-- MCSiteSession, SiteSessionProofs   the same two over time: requests, timers, draft
WizardJobs     <-- MCWizardJobs, WizardJobsProofs   the buttons of the steps after the first
```

Definitions marked "Fault:" in the modules are not used by any specification. Each is a
plausible mistake in the definition that follows it; putting it in the place of that definition
breaks the property named in `PROJECT.json` "mutants", which shows that the property depends on
that piece of code.

### 2.1 `Ledger` (and `DeliveryLog`)

`Append` is four steps, one per system call, because that is where writers interleave:
`ReadAndAdd` (read and parse the file, add the record in memory), `OpenTmp` (open with truncation),
`WriteTmp`, `Rename`. A writer holds a descriptor (`fd`) that follows its file through a rename, so
a writer may be writing into what has just become the ledger. `Overlay` says what a write at offset
0 leaves in a file somebody else has filled; `PartOf` what an interrupted write leaves. `WriteFails`,
`RenameFails` (the temporary file was renamed away by another) and `Crash` are the other ends of
`Append`. `LatestSuccess` is the loop from the end of the list. The mutex of `Store` is left out
on purpose: no two callers share a `Store`. A record is an id, a site and a success flag; the id is
the order of the calls (`UnixNano`).

`DeliveryLog` is the abstract specification, a sequence that grows by one record at a time, and
`ImplementsLog` says that `Ledger` implements it under `log <- ledger.recs`. It does with one
writer, and does not with two.

### 2.2 `LayeredDeploy`

One `deploy.Run`. `pc` and `cursor` are the place in `Run` (rendering, the scan that starts a loader
for each image, the loop that ups a layer, the wait for its probers). `loader` and `prober` are the
goroutines. `errCh` counts what is in the error channel, whose capacity is an operator
(`ErrCapacity`) because it decides whether a failed loader can ever be waited for. The semaphore is
`Acquire`. A probe and the look at the deadline are two steps, so a deadline may pass between them;
`heard` and `silent` note what a port did while it was probed. Containers come up and die as they
like; a container of an earlier release may hold the port. The ledger append is the variable
`record`. Times, messages and rendering are left out, failures of each step are not.

### 2.3 `Delivery`

The state of one site as `deploy`, `upgrade` and `rollback` move it, with up to `crew` runs at
once and a crash possible between any two steps. A jar, an image or a configuration is named by the
version it is of, so that "the tag names the jar in it" can be said. One action per step of
`upgrade.Run`: baseline check, backup of each jar (its error is dropped, as in the code), copy and
build of each jar in the patch, SQL, Nacos, frontend archives one by one, compose up and health of
each service, and in case of failure `rollbackServices`. Appending to the ledger is one step here
(`Commit`); `Ledger` has the details. Of a deployment it has only what the other two see: it may skip the
rendering, load any part of the images that docker does not have (`loadImages` only warns when `images/` or an
archive is missing), and end as a success whatever became of its `compose up`, since an error of docker
compose is only logged and an older container may answer the probe. `Up` keeps
the point that matters: the compose file names the images, and the file is that of the version given.
The jars in the directory of a service are told apart by their file names (`JarName`): a copy keeps the name that
the jar has in the patch, `findJar` knows two plain names only, and `Build` takes whichever of the jars the
Dockerfile names. A site may have MySQL disabled: then `Sql` goes on with nothing executed, and the run and its record
say so (`mysql`, which is not in the file).
The SQL of a patch is a number of scripts done; `SqlApply` has the details. The site code is left
out: a ledger of one site. `run[r]` has the same fields for every kind of run; a run that is over, or has
not begun, is `Idle`. Html backups are named by a clock in seconds (`now`), because two archives
replaced within one second meet in one name.

### 2.4 `SqlApply` and `SqlNames`

`db.Run` by several processes. For each script in the order of the walk: find its row (`Skip`,
`Block` on another checksum), or execute it (`Exec`), insert the row (`Insert`, `Duplicate`), commit
(`Commit`, `CommitUnheard` when the answer is lost), or `Fail` at any place. The database is modelled
from how the code uses it, with MySQL's rules: DDL commits by itself and leaves autocommit on, so
`done` grows at `Exec`; an insert of a UNIQUE name waits while another transaction holds it. These
rules are an assumption about MySQL. Between runs `Replace` puts another package in place. A run may find MySQL
disabled in the site file (`Disabled`): it returns success and has not looked at the package. Its caller cannot
tell this from the other success; the model can (`skipped`), and `SuccessMeansApplied` is about the other.

`SqlNames` has file names as sequences of character codes, because the order of the walk is that of
strings: that is how the order of execution is computed for the instances.

### 2.5 `Console`

Pages and one server. Server: `OkJob`, `FailJob` (the goroutine of a job ends), `Write` and
`CheckStatus` (the two looks of `handleWSJob` at a job, between which the job may end), `Break`,
`Restart` (the table is in memory). Page: `Begin` a chain, `Post` (the answer may be lost after the job
was made), `Open`, `Receive`, `Closed` (a browser may or may not raise an error with the close; there
is no `onclose`), `Poll`, `PollBreaks`, `Reload`. What the jobs do is in the other modules.

An element of `Pages` is one function of a page, from its start to the end of its wait. Nothing makes a browser page
run one at a time: `completeFieldStep` starts the verification with no look at `busy`, and the functions that expand
archives do not set it. Such functions count as pages of their own here, and one that takes the socket of another
as `Break`; how they disturb each other's marks and buttons is what `WizardJobs` is about. `runDeploy` takes its mark
away when it begins, a chain leaves the mark of an earlier one (`Begin` may do either), so a mark remembers the chain
that has set it.

### 2.6 `Archives` and `ModuleDeploy`

`Archives` is `expand.go`: passes over a tree in which zips bring other zips and `.tar.zip` archives to
light. `Meet` picks the next archive of a pass in the order of the walk (what appeared after the pass began
may be met or not), `Open`, `Write` and `Rename` are the steps of `extractZipEntry`, `EndPass` decides about
another pass. The file `<target>.part` is shared by everybody who expands the directory, so a job has a
descriptor (`on`) that may come to lead to the file at the target, or to one without a name. A torn archive
is passed over, an entry that fails (`EntryFails`) ends its archive, and a zip whose directory has an entry
counts as expanded from then on.

`ModuleDeploy` adds the jobs of the console on one such directory, of four kinds: `full` (expand, load,
`.env`, up), `up`, `build` (base images first) and `nginx`. The rounds of `PrepareModuleArchives` are
`StartExpand`, `AnotherRound` and `EndPrepare`; `ListTars` and `Load` are the loop over the `.tar` files, in
which the tags that a load brought are the difference of two lists of `docker images` (`NewRefs`); `Sync` and
`WriteCompose` are the two moments of the rewriting of a compose file (it is truncated first); `NeedBase`,
`ListBase`, `TagBase` bring base images. An image is known by the tag it was delivered under, which is how
"this tag holds that image" is said. `crew` says how many jobs may overlap in a behaviour. What a job still has
to go through (`todo`, `ups`) is a set, taken in the order of the walk and of the projects (`First`). The addresses that
`PatchComposeEnvForSite` writes into the compose file of Kafka (`deploy.go:93-102`, in place, before the `.env`
files) are left out: of compose files only the image lines count here.

Three assumptions describe packages. `NestingAssumption`: archives are nested less deep than the twelve passes of
`expandTree` reach. `PackageAssumption`: an archive lies in the directory or in a zip; the image that a compose
file names is among the `.tar.zip` archives; no two images of its repository are. With two of them,
`pickLocalImageRef` takes the one that was loaded first, and `OkMeansAll` would not hold. The rest
(`ArchivesAssumption`, `ModuleDeployAssumption`) says what the constants are.

### 2.7 `NodePlan`

`form` is the part of the reactive form that says which machines there are and what goes where, with the
functions that edit it as functions on it (`pinNginxToPrimary`, `syncServiceAssignments`, `removeNode`,
`applyDualNodeTemplate`, `setDeployTopology`, ...), under their names. `file` is the `site.yaml` that
`buildFormPayload` makes and `Validate` accepts; `fillSiteForm` with `hydrateServiceAssignments` is the way
back. Each control of the table is an action that calls what its handler calls; each way of writing is an
action that does, or leaves out, the validation and the renewal of addresses that the way does or leaves out
(`saveSite`, `AutoSave`, `saveSiteFormOnly`, `persistKafkaAdvertiseHost`, `runMonitorDeploy`). The file may go
(`Removed`), and a load that finds none, or gets no answer, blanks the form of a page that knew of one (`LoseSite`):
`resetSiteFormBlank` cuts the machines to one row and leaves the numbers of the services. Here requests are
answered at once. Fields of the form that say nothing about machines are left out; addresses and the names a user
gives a machine are a few values, and a name may be an address, as `FindNode` takes either. Rows count from 1; what
is -1 in the code is 0.

A file somebody wrote by hand is one `Validate` accepts (`HandAssumption`), as `config.LoadSite` passes nothing else
to the page. PgSQL is the one service whose address is filled in twice: reading a file takes that of MySQL for one
that is missing, writing takes that of MySQL, or of the first machine when MySQL is off. The catalog never has PgSQL
without MySQL, and `PlanAssumption` says so.

### 2.8 `SiteSession`

The same form and file over time. A form is only a number (which edit it is), and what matters is where it is:
in the page, in the draft, in a request, on disk, with `page.dirty` and the two debounce timers. The number is of what
`applyDraft` restores and the mount leaves alone: the project, the machines and the five middlewares. The rest of the form,
what is monitored and the three directories, is in no number: an edit of it (`EditRest`), or the start page's setting of
the workspace (`toPreflight`), starts the timers and marks the form as edited, no more. A request is
sent, handled by the server, answered or failed, and dealt with, in steps of their own (`Handle`, `Fail`, and one
action for each continuation, named after the function that goes on: `mount`, `EntryLoaded`, `goWizard`,
`refreshSitePresence`, `SiteLoaded`, `prepareSiteStep`, `Saved`, `AutoSaved`). What a function remembers
across its await (`known`, `to`) is in the request. `Watched` is what Vue's watchers add to every change: the
address follows the place and is applied in turn, and timers start. `Open`, `mount` and `onPageHide` are the
life of a page; `WriteByHand` and `DeleteByHand` somebody else's hands. Of the server it has the
validation and the write; two PUTs at once are in neither module.

### 2.9 `WizardJobs`

The functions behind the buttons of the steps, from Docker to the verification. A call has its place (`write`
the site file, `look` at Nginx, `post` the job, `posted`, `wait` on the socket, `error`) and, for "deploy all",
the modules still to come. `sock` is `jobWs`: `watchJob` of one call closes the socket of another, whose wait
then never ends (the call vanishes) or, if the socket was not open yet, ends in an error. `Told` marks what
the end of the job shows (`Marked`, `stepDeployed`, `ModuleMark`). The confirmations under the steps
(`completeFieldStep`, which may start the verification), the tabs, the address and the reset after a deleted
`site.yaml` are actions of the user; `Button` is off while `page.busy`. What runs on the server is a job that
ends well or not; of jobs, sockets and connections in detail, `Console` speaks.

## 3. Model checking

Numbers are of distinct states. A run takes seconds, `site_session` about one minute, `console_jobs`,
`delivery` and `module_deploy` one to two, `node_plan` two and a half.

| Run | Instance | Shows |
|---|---|---|
| `ledger_solo` | 1 writer, 2 sites, 4 appends; 14 445 | `LedgerTypeOK`, `Durable`, `ImplementsLog`: with one Append at a time, failing or dying anywhere, the file is an append-only log |
| `ledger_race` | 2 writers, 4 appends; 128 355 | `LatestIsNewest`: whatever writers overwrite, the success found is the newest in the file |
| `deploy_run` | 3 services in 2 of 4 layers, 1 loader at a time; 214 610 | `SuccessIsComplete`, `QuietAtEnd`, `LayerBarrier`, `VerdictObserved`, and `Termination` |
| `delivery` | 1 or 2 runs at a time, 2 services, 3 patches (two in a row, a second one for the first version; one jar has its version in its name), directories with a jar under either known name or without, 3 runs; 4 008 769 | `TagIsItsJar` and `BaselineChain` with one runner, `SuccessHasItsSql`, `SiteOK`, `OriginalFrontendKept` with any |
| `sql_race` | 2 runners, 2 scripts (one with DDL), 2 contents, 3 runs; 22 628 | `HistoryOK`, `DmlExactlyOnce`, `SuccessMeansApplied` |
| `console_jobs` | 2 pages, chains of 2, 3 jobs, 1 restart; 1 475 174 | `ConclusionIsFinal`, `ConsoleOK`, `PollEnds` |
| `module_deploy` | 2 requests of 4 kinds, one by one with a failure or a death, or at once; nested zips, 2 `.tar.zip`; 442 806 | `ModuleOK`, `PrepareExpandsAll`, `BaseIsBase`, `OkMeansAll`, and `EveryJobEnds` |
| `node_plan` | up to 3 machines, 4 services, 3 edits or removals of the file, no file or one written by hand; 1 535 706 | `PlanOK`, `PlanStaysSound`, `SaveKeepsPlan`, `LoadSettles`, `HostsFollowPlan`, `JobsGoWhereShown` |
| `site_session` | 2 edits, 6 acts of the user, 1 fault, 2 requests at once, 2 later steps; 3 762 861 | `SessionOK`, `ResetIsFinal`, `ReopenRestores`, `StaleAbsenceIgnored` |
| `wizard_jobs` | 1 or 2 modules in each step, 3 clicks, 1 broken connection, entered at step 1, 3 or 6; 319 240 | `WizardOK`, `ChainMeansAll`, and `ButtonsComeBack` |

Some invariants are named conjunctions, of the types and of one more fact about the same variables:
`PlanOK` (`TypeOK`, `NginxOnPrimary`), `SessionOK` (`TypeOK`, `LaterStepsNeedFile`), `WizardOK` (`TypeOK`,
`MarksAreEarned`), `ConsoleOK` (`TypeOK`, `StepDoneIsDone`), `SiteOK` (`TypeOK`, `RecordedTagsBuilt`), `HistoryOK`
(`TypeOK`, `HistoryIsTrue`), `ModuleOK` (`TypeOK`, `TarIsWhole`); `Durable` is `AckedKept` and `AlwaysReadable`.

Two runs show a disagreement between the code and what the repository says of it; TLC finds each
property violated, and `PROJECT.json` "findings" quotes the text.

| Run | Property | What happens |
|---|---|---|
| `ledger_lost` | `AckedKept` | two Appends overlap, and a record that was acknowledged is overwritten |
| `autosave` | `FilledInIsSaved` | an edit made while the form before it is being written loses its mark with the answer, and is never written by itself |

### 3.1 Bounds, and why they are enough

* Ledger: losing a record takes two writers and two appends, an overlay takes a rename between another
  writer's open and write; four appends leave room for a crash or a failure before and after that.
  With one writer the records only ever matter as "before" and "mine"; the proofs cover all sizes.
* Deployment: three services give a layer with two that race and a higher one; layers 1 and 3 are
  empty, so the loop passes over an empty layer before, between and after work. `MCDeploy` starts
  from a fresh host with all tars or none, or from a host with images, containers of an earlier release
  and at most one image missing; all options vary. One loader at a time makes the semaphore bind.
  Two loaders can fail, one more than a channel of one can hold.
* Delivery: two patches in a row are needed for tags taken over from one record to the next, a third with
  the baseline of the first for a race over it; in the first and the third some service has no jar. Three runs allow for a
  deploy, two upgrades in a row, or an attempt that fails and its retry or a rollback, and for two that overlap and
  what comes before or after them. Two services are enough for "one has an image and the other has not"; two archives, and a
  clock that may stand still or move once, for the collision of backup names.
* SQL: two runners, a script with DDL before one without, three runs (two that race and one that starts
  from what they left). `PackageOrder` has the three names that the order of execution is about.
* Modules: a zip that holds a project and a zip, which holds the image and the other project, is the
  shallowest package for which a single pass is not enough; two projects of one image share what was loaded;
  one of them needs a base image that nothing provides. Two jobs are enough for every use that one makes of
  what another left or is doing; one failure or death anywhere in a job, and a request after it, for what it
  leaves. An older image of the same repository is there from the start. Overlapping jobs do not fail in this run.
* Console: two functions, of one page or of two, as they share nothing but the table of jobs, which is only ever
  looked up by an id that the function was given; a chain of two beside another, or one after it; one restart.
* Plan: three rows, so that one in the middle can go and one behind it can follow; four services in three
  groups: two of one group with nginx among them, one with an address that jobs renew, one that stands alone.
  The file by hand has roles and no services, and one role on both machines, so that the fallback chooses.
  PgSQL is not among the services; what it changes is proved.
  Three edits (a second machine, a move, a removal) around any number of saves, loads and loads without an answer.
  The two names that are typed are one that another machine may have and the address of one.
* Session: a form that may be saved, one that may not, one written by others; six acts make it possible to
  come, fill in, go on, leave and come back. Two requests overlap; a third would be one more of the
  same kinds. In `autosave` three edits, as the mark is lost by the second edit after the form is complete.
* Wizard jobs: a step of two modules, the second of which is Nacos, for chains and for the import; three
  clicks: one that starts something, one that interrupts it and one after both. Pages entered at the middleware
  and at Nginx bring the later steps within three clicks.

### 3.2 Fairness

Safety properties do not depend on fairness. Four runs are about liveness.

* `deploy_run`: weak fairness of `RunStep`, of every loader and prober, and of deadlines. Go schedules
  every goroutine that can run, `docker load` runs under the timeout of its Runner, and time passes.
  Nothing is assumed of containers: `Termination` holds when none ever answers.
* `console_jobs`: weak fairness of the end of a job (every docker, ssh and HTTP call in it has a
  timeout) and of `Poll` (a timer and a local server). Connections owe nothing. There is no such
  property for `watchJob`, and there can be none: a socket closed without an error leaves the page waiting.

* `module_deploy`: weak fairness of the steps of every job. A job is a goroutine or a process that nobody
  blocks, and every docker command runs under the timeout of its Runner (`CommandFails` is its other end).
  `EveryJobEnds` says that passes, rounds and loops over files end whatever other jobs do to the directory.

* `wizard_jobs`: weak fairness of `Work`: the server ends its jobs, answers come, and callbacks run. The user and
  broken connections owe nothing. `ButtonsComeBack` is conditional on no connection being broken and none of the
  ends being lost: a socket that closes without an error leaves the page busy for good, see above. What it
  shows is that functions which take each other's socket do not: whoever closes a socket ends by itself.

Deadlock is not checked: each model has a bound on the runs, appends or jobs, after which it stops, and a
deployment is over when it is over. Where the code could get stuck, a property says so instead
(`Termination`, `PollEnds`, `EveryJobEnds`, `ButtonsComeBack`).

### 3.3 Stated and not kept

These formulas are in the modules because they say what one would expect; the code does not keep them,
and TLC shows it when one is added to the `INVARIANTS` (or `PROPERTIES`) of a configuration of its module.

| Formula | Module | Why it fails |
|---|---|---|
| `ListedNewestFirst` | `Ledger` | the comment of `List` says newest first; the list is oldest first |
| `RecordIsTruth` | `LayeredDeploy` | a failed `compose up` beside an old container that answers: the smoke report is about the old release |
| `EveryRunRecorded` | `LayeredDeploy` | failures before the layers return without a record |
| `FailureUndone` | `Delivery` | `upgrade.go:37`: "失败时对镜像/前端/Nacos 自动回滚" (a failure rolls back images, frontend and Nacos); only images are, the new frontend and the new configuration stay |
| `UpgradedRuns` | `Delivery` | Plan, line 457: the tags in the compose file are updated and containers recreated; the compose file is that of the version the site comes from, and names its image |
| `RolledBackRuns` | `Delivery` | a rollback whose services cannot be started is recorded as a success |
| `BackupIsOfItsVersion` | `Delivery` | a retry archives the jar of the failed attempt as that of the old version |
| `FrontendComplete` | `Delivery` | each archive of a patch moves the one before it out of html |
| `BaselineChain` without `crew = 1` | `Delivery` | two patches of one baseline both pass the check and both succeed |
| `RecordedTagsBuilt` of every tag | `Delivery` | a deployment whose package has no `images/`, or not every archive, is a success if the probes are answered: its tags need not be in docker, and a rollback to it is not either |
| `TagIsItsJar` without `OneJar` | `Delivery` | Plan, line 481: packages name a jar with its version. `destJar` keeps that name, so the jar before it stays beside it; the build may take either, and the next backup finds the old one |
| `SuccessHasItsSql` without `mysql` | `Delivery` | `db.Run` returns success with nothing executed when the site file says that MySQL is disabled (`apply.go:55-58`), and the upgrade is recorded as done |
| `SuccessMeansApplied` of a run with MySQL disabled | `SqlApply` | the same early success (`Disabled`): no script of the package is in the history |
| `TagIsItsJar` without `crew = 1` | `Delivery` | a run replaces the jar between the copy and the build of another; to see it, give the patch to v4 in `MCDelivery` the jar of `web` |
| `AppliedInNumberOrder` | `MCSqlApply`, with `Order <- PackageOrder` | Plan, line 437: "按版本+序号排序" (sorted by version and number); names are compared as strings, `V4.0.2_10` before `V4.0.2_2` |
| a failed chain leaves no mark | `Console` | `runAllStandaloneDeploy` does not clear `fieldStepDone.standalone` (`createConsole.js:2870-2896`): after a chain that ended well, one that fails leaves the step shown as done |
| `EndIsSent` | `Console` | `docs/FULL-PLAN.md:61`: the socket pushes the progress of a job; one that ends between the two looks of `handleWSJob` is never told |
| `PreviewIsPending` | `MCSqlApply` | the preview lists every script, executed or not |
| `UpHasSiteEnv` | `ModuleDeploy` | a build that finds no compose file expands the archives after the `.env` files were changed, and ups what came out of them |
| `ComposeIsKept` | `ModuleDeploy` | image lines are rewritten for every module, to whatever docker lists first |
| `BaseIsBase` without `crew = 1` | `ModuleDeploy` | a load of another job adds its tags to the difference, and `java:8` becomes a tag of an application |
| `OkMeansAll` without `Pristine` | `ModuleDeploy` | a zip that was left half expanded counts as expanded: the job ends well with half of the package |
| `PrepareExpandsAll` without `fresh` | `ModuleDeploy` | one `.tar` and no pending `.tar.zip` count as "expanded", whatever the zips still hold |
| `OneDeploy` | `WizardJobs` | a redeployment of Nginx runs, the step is confirmed, the verification starts, takes the socket and, when it ends, puts the buttons on: the next deployment runs beside the first |
| `StepsLocked` | `WizardJobs` | `goToStep` refuses with "任务进行中，请稍后再切换步骤" (a task is under way, change steps later); the confirmations and the address do not look |
| `ResetStays` | `WizardJobs` | a function started before a reset marks its step after it (`ResetIsFinal` of `SiteSession` speaks of the confirmations, which are made after it) |

`TagBase` has one more effect worth knowing: a Dockerfile whose `FROM` nobody delivers gets a tag of the first
base image loaded, so that a Tomcat image may be a tag of Java's.

What follows was met while modelling the page. The properties above are stated so that they exclude it, each
by the condition named.

* `PlanStaysSound` excepts `Reload`: the draft puts its row numbers over the machines of the file; when the file
  has fewer, services point to no row and are not deployed, without a word.
* It excepts `LoseSite` as well: `resetSiteFormBlank` (`createConsole.js:342-366`) cuts the machines to one and keeps
  `serviceAssignments` and the topology. A user who then adds machines finds services on rows that are not there yet,
  or on machines that have nothing to do with those they were put on. That the load failed is enough for it.
* `SaveKeepsPlan` is about services that are deployed: one that is not may come back from the read after the
  save, by the role its group has on some machine.
* `HostsFollowPlan` is about files of `saveSite` and of the monitoring: the autosave and the way to the next step
  write addresses as they stand. With one machine, `syncSingleNodeHosts` overwrites only addresses that were copies.
* `JobsGoWhereShown` is about files of the ways that validate: `prepareSiteStep` and the deployment of Kafka write
  two machines of one name as well, and `FindNode` takes the first.
* It needs `NamesAreNames`, too: `FindNode` takes a machine by name or by address, and `validateNodePlan` compares names
  with names only. With the first machine at 127.0.0.1 and a second one named `127.0.0.1`, the plan is saved, the page
  shows the monitoring on the second, and its job goes to the first (3 states, when the condition is left out).
* Unticking the last machine of the monitoring means all machines (`toggleMonitorAgent`).
* `StaleAbsenceIgnored` is about `refreshSitePresence`. `loadSite` has no such guard: an answer "no file" to a
  question sent before the first save resets the progress and blanks the form afterwards, although the comment at
  `createConsole.js:1113` wants this only for a file that was there and is gone; an answer that is an error does so too.
* `ReopenRestores` is about pages that find out whether there is a file. A page whose first GET fails takes the
  draft, and its autosave writes that over `site.yaml`. A `site.yaml` that was deleted while no page was open
  is written again from the draft.
* It is about the project, the machines and the middleware. Of the rest of the form, `applyDraft`
  (`createConsole.js:3804-3819`) does not bring back what is monitored, although `saveDraft` has stored it; the mount empties
  the directories of the standalone programs when they are gone (`pruneMissingLocalPaths`, 1009-1010) and a workspace
  that is none (4127-4129), and a page that opens at the start page gets `/` for its workspace (3908-3909).
* `ResetIsFinal` is about the marks of confirmed steps: who confirms a step after a reset earns its mark, also when
  the work was begun before. Marks that functions set themselves are those of `WizardJobs` (`ResetStays` above).
* `SessionOK` lets an address (`#/wizard/5`) open any step as long as there is a file.
* Deployments on the wizard's later steps read the package directory anew for each module of a chain; an edit of it
  in the middle mixes two packages (`WizardJobs` has no directories). A deployment of Nacos takes away the mark of
  the import, but not the one of the step, so `MarksAreEarned` speaks of some import, not of the last Nacos.

## 4. Proofs

All theorems hold for every value of the constants that satisfies the named assumptions of the module
(`LedgerAssumption`, `DeployAssumption`, `DeliveryAssumption`, `SqlAssumption`, `ConsoleAssumption`, `PlanAssumption`
and `HandAssumption`, `SessionAssumption` and `AnswersDiffer`, `JobsAssumption`, and the four of 2.6); nothing else is assumed, except
where a theorem says so. TLC evaluates each of them on the instance of its run.

| Theorem | Module | Says |
|---|---|---|
| `LedgerTypeCorrect` | `RecordProofs` | `LedgerSpec => []LedgerTypeOK` |
| `NewestSuccessIsRead` | `RecordProofs` | `LedgerSpec => []LatestIsNewest`, for any number of writers |
| `SoloDurable` | `RecordProofs` | one writer: `LedgerSpec => []Durable`, that is `AckedKept` and `AlwaysReadable` |
| `SoloImplementsLog` | `RecordProofs` | one writer: `Ledger` implements `DeliveryLog` |
| `SoloHistoryGrows` | `RecordProofs` | one writer: what was seen stays |
| `TypeCorrect` | `LayeredDeployProofs` | `Spec => []TypeOK`, the bound of the semaphore included |
| `Barrier` | `LayeredDeployProofs` | `Spec => []LayerBarrier` |
| `CompleteSuccess` | `LayeredDeployProofs` | `Spec => []SuccessIsComplete` |
| `VerdictsAreReal` | `LayeredDeployProofs` | `Spec => []VerdictObserved` |
| `NothingLeftBehind` | `LayeredDeployProofs` | `Spec => []QuietAtEnd` |
| `ImagesOfRecords` | `DeliveryProofs` | `Spec => []SiteOK`: every tag of a patch that a success on record has is in the local docker |
| `ScriptsOfRecords` | `DeliveryProofs` | `Spec => []SuccessHasItsSql`, for any runs that overlap; about sites with a database |
| `FrontendKept` | `DeliveryProofs` | `Spec => []OriginalFrontendKept`, for any archives, upgrades and seconds |
| `ImagesHoldTheirJars` | `DeliveryProofs` | `Spec => []TagIsItsJar`, which speaks of runs that do not overlap and of jars of one name |
| `ChainOfBaselines` | `DeliveryProofs` | `Spec => BaselineChain`, an action property of runs that do not overlap |
| `HistoryTrue` | `RecordProofs` | `Spec => []HistoryOK`, for any scripts, runners and lost answers |
| `ExactlyOnce` | `RecordProofs` | `Spec => []DmlExactlyOnce` |
| `SuccessIsWhole` | `RecordProofs` | `Spec => []SuccessMeansApplied`, about runs with MySQL enabled |
| `ConsoleSound` | `ConsoleProofs` | `Spec => []ConsoleOK`: the mark of a step is that of a chain which has ended well as a whole |
| `EndSeenIsEnd` | `ConsoleProofs` | `Spec => []ConclusionIsFinal` |
| `PlanIsOK` | `NodePlanProofs` | `Spec => []PlanOK`: site.yaml is one the server accepts, nginx is on the first machine or nowhere |
| `PlanSoundKept` | `NodePlanProofs` | `Spec => PlanStaysSound`, an action property of every step but `Reload` and `LoseSite` |
| `SaveKept` | `NodePlanProofs` | `Spec => SaveKeepsPlan`, an action property, for any plan |
| `LoadsSettle` | `NodePlanProofs` | `Spec => []LoadSettles`, for any valid file |
| `HostsAreTheirs` | `NodePlanProofs` | `Spec => []HostsFollowPlan` |
| `JobsGoThere` | `NodePlanProofs` | `Spec => []JobsGoWhereShown`, about machines whose names are no addresses of others |
| `LaterStepsClosed` | `SiteSessionProofs` | `Spec => []SessionOK`, for any edits, requests, failures and steps |
| `ResetStays` | `SiteSessionProofs` | `Spec => []ResetIsFinal`: a step after the first that is shown as done was confirmed since the last reset |
| `DraftRestores` | `SiteSessionProofs` | `Spec => ReopenRestores`, an action property of a mount that finds no file: project, machines and middleware are those left |
| `LateAbsenceIgnored` | `SiteSessionProofs` | `Spec => StaleAbsenceIgnored`, an action property of `refreshSitePresence` while nothing failed or was deleted: it takes no step from those done |
| `TarsAreWhole` | `ModuleDeployProofs` | `Spec => []ModuleOK`: what lies under the name of a `.tar` is whole, or still being written, or something failed while jobs overlapped |
| `NothingLeftPacked` | `ModuleDeployProofs` | `Spec => []PrepareExpandsAll`, for any nesting that twelve passes reach |
| `JavaIsTheBaseImage` | `ModuleDeployProofs` | `Spec => []BaseIsBase`, which speaks of jobs that do not overlap |
| `FullMeansAll` | `ModuleDeployProofs` | `Spec => OkMeansAll`, an action property of jobs that do not overlap |
| `MarksEarned` | `WizardJobsProofs` | `Spec => []WizardOK`, for any modules, clicks and broken connections |
| `ChainIsWhole` | `WizardJobsProofs` | `Spec => ChainMeansAll`, an action property |

**Newest success.** `LatestIsNewest` speaks of the ledger file only, and is not inductive: what is in the
temporary file or in a writer's memory is the ledger of tomorrow. `OrderInv` says of all three that
ids ascend and are at most `calls`. A read adds a record with a larger id to an ascending list, a write
copies a list, a rename copies a file, a torn file has no records. That the last of the matching positions
exists and has the largest id is `LastIsNewest`, by induction-free use of the greatest element of a
bounded set of numbers (`GreatestNatural`, proved from well-foundedness; `DeliveryProofs` needs it for its ledger too).

**One writer.** `SoloInv` ties the writer's place in `Append` to the files: from the read on its list is
the ledger and one record more, and the temporary file it renames holds that list. So `Rename` appends
one record (`RenameCommits`), which is the step of `DeliveryLog`, and every other step stutters. The
assumption `SoleWriter` is needed: `ledger_lost` is the counterexample with two.

**Layers.** `LayerBarrier` alone says nothing about layers that have not started. `DeployInv` adds
`Passed` (nothing above the current layer is touched, all below is healthy), `Started` (what is
below, and what the cursor has passed, has been upped) and `Clean` (a bad verdict ends the run). The step that
matters is `Collect`, which moves to the next layer only when every verdict of this one is good; it has a
lemma of its own. At the end the layer is past the last one, so `Passed` and `Started` speak of every service.

**Goroutines.** `Quiet` says in which phases of `Run` loaders and probers exist at all, `Observed` that
a prober's state agrees with `heard` and `silent`, `Permits` that `Loading` has at most `Concurrency`
members; together they are inductive given `DeployInv`.

**Delivery.** A record is written at the end of a run, so what it says is the work of all steps before it.
`DeliveryInv` says of every record that those of its tags that are a patch's are built and, where there was a database,
that its SQL is in it (`GoodRecord`); and of every run, by its step, what of that it has done already (`GoodRun`): the
tags of the record it started from are built as far as they are patches', those in `built` are of its version, all
scripts are applied once it has passed them with a database.
Other runs cannot take it back, because images and scripts only become more (`SiteGoesOn`); a rollback
takes its tags from a record. `OriginalFrontendKept` is inductive: an archive moves html into a
backup that was empty, or joins what is there. With `crew = 1` (`LoneInv`) at most one run is busy; from the check of
the baseline on, the newest success of that run is the one it was checked for (`LoneRun`), and before each build the
patch's jar is there under the name it has in the patch; if it is the only one, the image has it, and
otherwise nothing is claimed of the service from then on, because jars of further names never go away. Both
formulas are false with two runs (3.3), so this part of the invariant is needed, and so is the condition.

**SQL.** `SqlInv` is about what separates an execution from its row. `OnceIfRow`: a script without DDL has taken
effect once if it has a row, else never, as both become visible in one commit. `Locked`: a row that waits
for its commit is the first of its name, which is the UNIQUE key at work, and what makes `Insert` of a second
runner wait or fail. `DdlFirst`: what DDL has done is done before its row is there. `Passed` and `AllApplied` carry
the prefix of the package a runner has gone through to the end of the run; they hold while others run because rows
only become more and nobody replaces the package under a runner.

**Console.** `PageGood` ties a page to the jobs it knows: those of its chain have ended well, except the one it waits
for; nothing is on the wire but what the job has come to (an end, once sent, is the job's end); what it was told is
the job's status. Whether a chain is whole is a matter of counting: the jobs that ended well, the one at work and
those still to come are as many as were asked for (`Counted`), so a page that marks its step has a chain of
which every job ended well (`Whole`), and a mark keeps the chain it is of. Jobs end once (`JobsGoOn`); a
restart ends the work on them and leaves what a page can have been told. Each action changes one page, and the
others keep `PageGood` by `JobsGoOn` alone.

**Plan.** The functions of the form are composed of few: each `...Keeps` lemma says that one of them yields a plan
again, keeps nginx on the first machine or nowhere, and keeps every number in the table (`Keeps`); `ControlsKeep` puts
them together for all controls of the page, and `SavesWrite` for all ways of saving, which either write a plan that
`Keeps` or refuse. A reload, and a load that finds no file, need not keep the numbers in the table, so `PlanSound` is
no invariant, and `PlanStaysSound` says which steps keep it. What the way through the file does is three lemmas: `PayloadFacts` and
`NodesFacts` (what is written), `FillFacts` (what is read). In the middle is `hydrateServiceAssignments`: a service
that exactly one row lists goes to that row (`HydrateFacts`, from the least element of a set of numbers). So a service
of a saved plan comes back to its row (`SaveReadsBack`), and a file that a filled form has written is
a fixed point (`SettledAtOnce`): each service is listed once, no address that is needed is missing (`NoHostMissing`),
no node is without an address. `LoadSettles` was first stated for the second round; the proof showed that it
holds after the first, and that is what is stated and checked now. `HostsFollowPlan` follows from the renewal before
the write; `JobsGoWhereShown` needs `JobsInv`: names differ in a file of a way that validates, and while nothing was
edited the rows of the form are those of the file, so that `FindNode` finds the row by its name, when no
address comes before it (`NamesAreNames`).

**Later steps.** `LaterStepsNeedFile` is about what a page shows, and the functions behind the requests do not keep it
by themselves: `goWizard` shows the wizard file or not, and a page may be on step 3 of a wizard that it does not show.
What they keep is `Fit`: none of them loses the file and keeps the step. The rest is `Watched`: a new place goes
through the address, and `applyHashToState` turns back who has no file (`HashCloses`); a place that is not new was
allowed before (`WatchedSafe`). `SessionInv` adds that a page that opens shows nothing and waits for one answer, that a
closed page has no requests, and that only a PUT is answered with `Ok`. So each action is left with `Fit` for the page
it makes, and with the shape of the requests it sends (`DoSafe`, `AfterSafe`).

**Session progress.** `ProgressInv` adds three things to `SessionInv`. `ResetIsFinal` is itself about one page; a
page takes its progress from the draft, so `DraftInv` says of the draft, until the next page is ready, that it holds the form
the last page left and no step that was not earned since the reset. Progress comes back in no other way: a function
that goes on after its await may take away (`Gains`), and loading a file means step 0 and no more. `PresenceInv`
says, as long as nothing failed and nobody took the file away, that a page which takes the file for there is right, and that
an answer under way says what is true, or was sent before and will be ignored (`known`).

**Marks.** `MarksAreEarned` speaks of steps; a step is marked because of a flag, and a flag because a function was
told an end. So `JobsInv` says of the flags what it says of the steps (`Earned`), of every function that the job it has
made is one for the work in its hands (`CallInv`), and of the socket that one function at most waits on it
(`SocketInv`); that jobs only come and end (`Grows`) carries all of this over the server's steps. What the end of a
wait does to the page is one lemma (`EndedWell`), used for ends that are told, sockets that are taken and connections
that break. Strings are a set `Word`, as the provers do not know that a literal is in `STRING`.

**Deploy all.** `ChainMeansAll` is about the step that marks. `ChainCall` says of a chain at any time: `rest` is the end
of the list of the step's modules, every module before it has a job that ended well and was made after the click
(`Since`), and the job it waits for was made after the click as well. The condition is needed because jobs are shared:
an older job of the same module must not count. Chains that were interrupted vanish, they do not go on.

**Tars.** `TarIsWhole` is about names, and what lies under a name depends on descriptors. `HeldOpen` says with one job at a
time that a descriptor leads to the `.part` it was opened for and that nothing but a shipped archive is torn
(`AloneWrites`); with several, and no failure, that every torn `.part` or target is held open by a job whose descriptor leads to
it (`OthersWrite`), so that its write will complete it. The step that matters is `Rename`: it moves a file that
another job still writes under its target, and that job's descriptor with it (`OthersExpanding`).

**Passes.** `PrepareExpandsAll` is proved by depth. `Depth` numbers the archives so that what lies in a zip is deeper than the
zip. In pass n everything less than n - 1 deep is expanded already (`Finished`), everything less than n deep was
there when the pass began (`Seen`), and what the walk has passed is expanded (`Behind`). If the pass changed nothing,
everything is (`AllSeen`); if it did, the next pass begins one deeper (`Walked`, `EndPassWalked`), and the twelfth has met all.
Work on a zip makes visible only what is deeper than it (`DeeperTarget`). `PrepInv` carries this through the phases
of `PrepareModuleArchives`, and needs `HeldOpen`: an archive counts as opened only if it is whole.

**Base image.** `BaseIsBase` holds because the list before a load is docker's list of that moment: `BaseInv` says so
of every job in its loops, and of every tag that a build has collected that it is one of a base image and holds
it. It is false with two jobs (3.3).

**A full job.** `OkMeansAll` speaks of the last step of a job, so `FullInv` says what the job has done by the time it is where it is:
each tag it collected is that of an archive and holds its image, every archive is loaded or still on its list
(`FullTags`), the `.env` of every project found is changed once it goes up, and the projects that are not on its list any more run
their image (`FullStarted`). That the list of `.tar` files was complete when it was made is `AllThere`: the outermost archive that is
missing lies in a zip that is there, hence expanded, hence not missing. What `Sync` picks is the image that the file came with
(`FullPicks`), because a file never names an image of another repository, not even between the two moments of its
rewriting (`NamesItsRepo`, kept by any jobs).

Only model-checked:

* `Termination`, `PollEnds`, `EveryJobEnds` and `ButtonsComeBack`: liveness under fairness is out of reach of this proof
  system, and so is ENABLED.
* The orders of `SqlNames`, whose `Digits` is a recursive function, as induction over data cannot be done with the
  provers at hand.

No module declares a RECURSIVE operator, so each can be proved about.

## 5. Assumptions about the surroundings

* Files: a rename is atomic, an open descriptor follows its file, a write may be cut short anywhere.
  Power loss that undoes a finished rename is not modelled.
* MySQL: implicit commit before DDL, autocommit afterwards, a UNIQUE key that makes an insert wait.
* Docker: a build or load leaves an image or does not; `up` starts what the compose file names.
* Browser: a WebSocket that is closed may or may not raise `error`; what a page has sent when it goes away is handled
  or not; `localStorage` is written at once.

## 6. Not modelled, and why

* Planned, see below: YAML mode and settings, the file editor, daemon, download, Nacos import, provisioning, firewall, the
  texts that a module deployment changes.
* Reports without state: status, precheck, verification, delivery report.
* Pure I/O and layout: rendering, packing, the file picker, status and catalog pages, the command line, logging.
* Cryptography (`vault`), parsing and validating YAML (`config`), parsing the output of tools.
* Execution of free SQL files (`ApplyFiles`, `splitSQL`); the consistency of a script's checksum with
  the statements executed (two reads of one file). A connection that is lost between `USE` and a script
  appears as a script that fails.
* Data races on `job.Result`, and the ids of jobs on a coarse clock.

## 7. Plan

Done: `Ledger`, `LayeredDeploy`, `Delivery`, `SqlApply`, `Console`, `Archives` and `ModuleDeploy`, `NodePlan`,
`SiteSession`, `WizardJobs`, with the proofs above. Next, in this order:

| | Module | Contents | Properties aimed at | Bounds |
|---|---|---|---|---|
| 1 | `ConsoleFiles` | `saveSite` beside the form, settings GET and PUT, `NewStore` readers | the site is always one that was checked; a PUT is not lost; settings can be read after a crash | 2 requests, 2 contents |
| 2 | `FileEditor` | paths, texts and answers of the page's editor | what is saved under a path was loaded from it, or typed there | 2 files, 2 loads |
| 3 | `Packages` | `downloadResume`, `mergeParts` | a finished download is the file on the server; a retry gets further | 1 file of 3 blocks, 2 server versions |
| 4 | `Provisioning` | `initenv.Run`, `distributeInit`, `EnsureBinary`, `SyncDir`, `ensureRemoteDir`, firewall start | a node reported ready is ready; 22 and the console stay reachable; a synced directory is whole | 2 nodes, 2 syncs |
| 5 | `NacosImport` | login, zips, namespace, changed files | what is overwritten has a backup; a retry converges | 2 zips, 2 configurations |
| 6 | `Daemon` | start, stop, install over pid file and systemd | a console that runs can be stopped; the address shown is the one listened on | 2 commands |
| 7 | `TextPatch` | `.env`, compose and nginx patches as functions on lines | idempotent; nothing but the named keys changes | files of 3 lines |

Abstract specifications worth stating: an atomic file for 1, "all or nothing, again and again" for 3 and 4.
Proved so far: every invariant and every action property of the passing runs. What is left to TLC is liveness.

## 8. Running

```
tlc -workers 2 -config MCDeploy.cfg MCDeploy.tla
tlapm RecordProofs.tla
tlapm LayeredDeployProofs.tla
tlapm DeliveryProofs.tla
tlapm ConsoleProofs.tla
tlapm NodePlanProofs.tla
tlapm SiteSessionProofs.tla
tlapm WizardJobsProofs.tla
tlapm ModuleDeployProofs.tla
```
