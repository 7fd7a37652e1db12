------------------------------ MODULE Delivery ------------------------------
(***************************************************************************)
(* The versions of one site as deploy, upgrade and rollback move them:     *)
(* internal/upgrade/upgrade.go in full, and of internal/deploy/deploy.go   *)
(* what the other two see of it (module LayeredDeploy has the rest).       *)
(*                                                                         *)
(* A run of one of the three is a console job or a command.  Nothing keeps *)
(* two of them apart, and any of them may die between two steps.  They     *)
(* meet in the ledger (an append is one step here; module Ledger has its   *)
(* system calls), the workspace with its jars and rendered compose files,  *)
(* the local docker, the nginx html directory, Nacos and the database.     *)
(*                                                                         *)
(* A jar, a container or a configuration is named by the version it is of; *)
(* the jars of a service are told apart by their file names as well, since *)
(* a copy only replaces the file of its own name.                          *)
(***************************************************************************)
EXTENDS Naturals, Sequences, FiniteSets

CONSTANTS
    Services,   \* services of the site
    Releases,   \* versions that come as a full package
    Patches,    \* patch packages: [base, version, services, jars, named, nacos, frontend]
    None,       \* no version, no jar, no record
    Layouts,    \* jars that may be in the service directories at first
    Runners,    \* where runs may take place at the same time
    NumScripts, \* SQL scripts of a patch
    NumFiles,   \* archives in the frontend directory of a patch
    Crews,      \* how many runs may overlap, 1 or more
    MaxRuns,    \* bound: runs in a behaviour
    MaxTime     \* bound: seconds on the clock that names html backups

Version == Releases \cup {p.version : p \in Patches}

\* File names in the directory of a service: the two that findJar knows, and
\* <service>-<version>.jar, which stands here as the version.
PlainJars == {"name.jar", "app.jar"}
JarName == PlainJars \cup Version
Jars == [Services -> [JarName -> Version \cup {None}]]

ASSUME DeliveryAssumption ==
    /\ None \notin Version /\ PlainJars \cap Version = {} /\ Layouts \subseteq Jars
    /\ NumScripts \in Nat \ {0} /\ NumFiles \in Nat \ {0}
    /\ Crews \subseteq Nat \ {0} /\ MaxRuns \in Nat /\ MaxTime \in Nat
    /\ \A p \in Patches :
          p.services \subseteq Services /\ p.jars \subseteq p.services /\ p.named \subseteq p.jars

VARIABLES
    ledger,     \* deployments.json
    run,        \* the run at each runner
    rendered,   \* versions with a directory rendered/<version>/compose
    images,     \* images in the local docker: version of the jar in each tag
    running,    \* version of the image each container runs
    jar,        \* version of each jar file in <workspace>/<service>/
    bak,        \* jars archived in bak/<version>/
    sqlDone,    \* scripts of each patch in wpg_deploy_history
    nacos,      \* version of the configuration in Nacos
    html,       \* contents of the nginx html directory
    htmlBak,    \* contents of each html.bak-<timestamp>
    now,        \* the clock, in seconds
    runs,       \* runs started so far
    crew        \* how many runs may overlap in this behaviour

siteVars == <<rendered, images, running, jar, bak, sqlDone, nacos, html, htmlBak>>
vars == <<ledger, run, siteVars, now, runs, crew>>

Tags == [Services -> Version \cup {None}]
NoTags == [s \in Services |-> None]
Idle == [step |-> "idle"]
Original == <<None, 0>>     \* what html holds before the first upgrade

\* f, but v at each of the keys.
Put(f, keys, v) == [x \in DOMAIN f \cup keys |-> IF x \in keys THEN v ELSE f[x]]

\* LatestSuccess, and the search of Rollback; None is the empty version.
Successes(ver) == {i \in DOMAIN ledger : ledger[i].ok /\ (ver = None \/ ledger[i].ver = ver)}
Last(S) == CHOOSE i \in S : \A j \in S : j <= i
Latest == IF Successes(None) = {} THEN None ELSE ledger[Last(Successes(None))]

\* "mysql" is not in the file: whether the run had a database to bring up to date.
Commit(action, ver, ok, tags, mysql) ==
    ledger' = Append(ledger, [action |-> action, ver |-> ver, ok |-> ok, tags |-> tags, mysql |-> mysql])

Init ==
    /\ ledger = <<>>
    /\ run = [r \in Runners |-> Idle]
    /\ rendered = {}
    /\ images = <<>>
    /\ running = NoTags
    /\ jar \in Layouts
    /\ bak = [v \in Version |-> NoTags]
    /\ sqlDone = [p \in Patches |-> 0]
    /\ nacos = None
    /\ html = {Original}
    /\ htmlBak = <<>>
    /\ now = 0
    /\ runs = 0
    /\ crew \in Crews

Begin(r, first) ==
    /\ run[r] = Idle
    /\ runs < MaxRuns
    /\ Cardinality({k \in Runners : run[k] # Idle}) < crew
    /\ runs' = runs + 1
    /\ run' = [run EXCEPT ![r] = first]
    /\ UNCHANGED <<ledger, siteVars, now>>

Go(r, state) == run' = [run EXCEPT ![r] = state]
Return(r) == Go(r, Idle)
At(r, step) == run[r].step = step

\* docker compose up -d of one service with the compose file of a version:
\* the container runs whatever jar is in the image that the file names.
Up(ver, s) ==
    /\ ver \in rendered
    /\ <<s, ver>> \in DOMAIN images
    /\ running' = [running EXCEPT ![s] = images[<<s, ver>>]]

-----------------------------------------------------------------------------
(* Deploy of a full package.                                                *)

DeployStart(r, v) == Begin(r, [step |-> "render", ver |-> v, todo |-> Services])

\* The images that are not in docker yet.
Missing(ver) == (Services \X {ver}) \ DOMAIN images

\* Rendering, which may be skipped, and loadImages: a package without images/
\* or without the archive of an image is only a warning, so any of the missing
\* ones may stay so.  A failure leaves no record.
DeployRender(r) ==
    /\ At(r, "render")
    /\ rendered' \in {rendered, rendered \cup {run[r].ver}}
    /\ \E loaded \in SUBSET Missing(run[r].ver) : images' = Put(images, loaded, run[r].ver)
    /\ Go(r, [run[r] EXCEPT !.step = "layers"]) \/ Return(r)
    /\ UNCHANGED <<ledger, running, jar, bak, sqlDone, nacos, html, htmlBak, now, runs>>

\* An error of docker compose is only logged.
DeployUp(r, s) ==
    /\ At(r, "layers") /\ s \in run[r].todo
    /\ Up(run[r].ver, s) \/ UNCHANGED running
    /\ Go(r, [run[r] EXCEPT !.todo = @ \ {s}])
    /\ UNCHANGED <<ledger, rendered, images, jar, bak, sqlDone, nacos, html, htmlBak, now, runs>>

\* Whether it is a success is up to the probes alone, and a container that was
\* there before may answer them.
DeployEnd(r) ==
    /\ At(r, "layers")
    /\ \E ok \in BOOLEAN :
          /\ ok => run[r].todo = {}
          /\ Commit("deploy", run[r].ver, ok, [s \in Services |-> run[r].ver], FALSE)
    /\ Return(r)
    /\ UNCHANGED <<siteVars, now, runs>>

-----------------------------------------------------------------------------
(* Upgrade with a patch (upgrade.Run).                                      *)

\* What a run remembers of the record it starts from.  "was" is not in the
\* code: it is what an undone upgrade would have to bring back.
UpgradeState(p) ==
    [step |-> "backup", patch |-> p, from |-> Latest.ver, tags |-> Latest.tags,
     built |-> {}, todo |-> p.services, svc |-> None, file |-> 1, mysql |-> FALSE,
     was |-> [nacos |-> nacos, html |-> html]]

\* Fault: the baseline of the patch is not compared with the ledger.
UpgradeAnyBase(r, p) ==
    /\ Latest # None
    /\ Begin(r, UpgradeState(p))

\* The baseline check: the last success must be what the patch is made for.
UpgradeStart(r, p) ==
    /\ Latest # None
    /\ Latest.ver = p.base
    /\ Begin(r, UpgradeState(p))

\* Names with a version are not looked for.
FindJar(s) == IF jar[s]["name.jar"] # None THEN jar[s]["name.jar"] ELSE jar[s]["app.jar"]

\* The jar that is found is archived under the version it is taken to be of.
\* The error of the copy is dropped.
BackupJar(r, s) ==
    /\ At(r, "backup") /\ s \in run[r].todo
    /\ \/ FindJar(s) # None /\ bak' = [bak EXCEPT ![run[r].from][s] = FindJar(s)]
       \/ UNCHANGED bak
    /\ Go(r, [run[r] EXCEPT !.todo = @ \ {s}])
    /\ UNCHANGED <<ledger, rendered, images, running, jar, sqlDone, nacos, html, htmlBak, now, runs>>

BackupDone(r) ==
    /\ At(r, "backup") /\ run[r].todo = {}
    /\ Go(r, [run[r] EXCEPT !.step = "copy", !.todo = run[r].patch.jars])
    /\ UNCHANGED <<ledger, siteVars, now, runs>>

\* Fault: the image is built from whatever jar is there.
LeaveJar(r, s) == UNCHANGED jar

\* The name of the jar that a patch has for a service (findPatchJar).
PatchJar(p, s) == IF s \in p.named THEN p.version ELSE "name.jar"

\* The jar keeps its name: one of another name stays beside it.
PutJar(r, s) == jar' = [jar EXCEPT ![s][PatchJar(run[r].patch, s)] = run[r].patch.version]

\* Services without a jar in the patch are skipped.
CopyJar(r, s) ==
    /\ At(r, "copy") /\ s \in run[r].todo
    /\ \/ PutJar(r, s) /\ Go(r, [run[r] EXCEPT !.step = "build", !.todo = @ \ {s}, !.svc = s])
       \/ UNCHANGED jar /\ Return(r)
    /\ UNCHANGED <<ledger, rendered, images, running, bak, sqlDone, nacos, html, htmlBak, now, runs>>

\* docker build -t <service>:<version> in the directory of the service.  Which
\* of the jars in it goes into the image is up to its Dockerfile.
Build(r) ==
    /\ At(r, "build")
    /\ \/ /\ \E n \in JarName :
                /\ jar[run[r].svc][n] # None
                /\ images' = Put(images, {<<run[r].svc, run[r].patch.version>>}, jar[run[r].svc][n])
          /\ Go(r, [run[r] EXCEPT !.step = "copy", !.built = @ \cup {run[r].svc}])
       \/ /\ Return(r)
          /\ UNCHANGED images
    /\ UNCHANGED <<ledger, rendered, running, jar, bak, sqlDone, nacos, html, htmlBak, now, runs>>

BuildDone(r) ==
    /\ At(r, "copy") /\ run[r].todo = {}
    /\ Go(r, [run[r] EXCEPT !.step = "sql"])
    /\ UNCHANGED <<ledger, siteVars, now, runs>>

\* Fault: a script that fails is logged and the upgrade goes on.
SqlGoesOn(r, k) == Go(r, [run[r] EXCEPT !.step = "nacos", !.mysql = TRUE])

SqlEnd(r, k) ==
    IF k = NumScripts THEN Go(r, [run[r] EXCEPT !.step = "nacos", !.mysql = TRUE]) ELSE Return(r)

\* db.Run of the scripts that the history table does not have yet.  One that
\* fails ends the upgrade: no record, nothing undone.  Where the site file says
\* that MySQL is disabled, none is executed and the upgrade goes on.
Sql(r) ==
    /\ At(r, "sql")
    /\ \/ \E k \in sqlDone[run[r].patch]..NumScripts :
             /\ sqlDone' = [sqlDone EXCEPT ![run[r].patch] = k]
             /\ SqlEnd(r, k)
       \/ UNCHANGED sqlDone /\ Go(r, [run[r] EXCEPT !.step = "nacos"])
    /\ UNCHANGED <<ledger, rendered, images, running, jar, bak, nacos, html, htmlBak, now, runs>>

\* A failed import is only a warning.
Nacos(r) ==
    /\ At(r, "nacos")
    /\ \/ run[r].patch.nacos /\ nacos' = run[r].patch.version
       \/ UNCHANGED nacos
    /\ Go(r, [run[r] EXCEPT !.step = "frontend"])
    /\ UNCHANGED <<ledger, rendered, images, running, jar, bak, sqlDone, html, htmlBak, now, runs>>

Archive(r, k) == <<run[r].patch.version, k>>

\* Fault: the directory is emptied, not moved away.
EmptyHtml(a) == html' = {a} /\ UNCHANGED htmlBak

\* html is moved to html.bak-<now>, which fails when that directory is there
\* and has something in it, and the archive is put into html.
ReplaceHtml(a) ==
    IF now \in DOMAIN htmlBak /\ htmlBak[now] # {}
    THEN html' = html \cup {a} /\ UNCHANGED htmlBak
    ELSE htmlBak' = Put(htmlBak, {now}, html) /\ html' = {a}

\* applyFrontend: one archive of the patch after the other.
Frontend(r) ==
    /\ At(r, "frontend") /\ run[r].patch.frontend /\ run[r].file <= NumFiles
    /\ ReplaceHtml(Archive(r, run[r].file))
    /\ Go(r, [run[r] EXCEPT !.file = @ + 1])
    /\ UNCHANGED <<ledger, rendered, images, running, jar, bak, sqlDone, nacos, now, runs>>

FrontendDone(r) ==
    /\ At(r, "frontend") /\ (run[r].patch.frontend => run[r].file > NumFiles)
    /\ Go(r, [run[r] EXCEPT !.step = "roll", !.todo = run[r].built])
    /\ UNCHANGED <<ledger, siteVars, now, runs>>

\* docker compose up of a service that has a new image, with the compose file
\* of the version the site comes from, and its health check.
Roll(r, s) ==
    /\ At(r, "roll") /\ s \in run[r].todo
    /\ Up(run[r].from, s)
    /\ Go(r, [run[r] EXCEPT !.todo = @ \ {s}])
    /\ UNCHANGED <<ledger, rendered, images, jar, bak, sqlDone, nacos, html, htmlBak, now, runs>>

\* The command fails, or the service does not get healthy.
RollFails(r, s) ==
    /\ At(r, "roll") /\ s \in run[r].todo
    /\ Up(run[r].from, s) \/ UNCHANGED running
    /\ Go(r, [run[r] EXCEPT !.step = "revert", !.todo = run[r].patch.services])
    /\ UNCHANGED <<ledger, rendered, images, jar, bak, sqlDone, nacos, html, htmlBak, now, runs>>

\* rollbackServices; its errors are dropped.
RevertService(r, s) ==
    /\ At(r, "revert") /\ s \in run[r].todo
    /\ Up(run[r].from, s) \/ UNCHANGED running
    /\ Go(r, [run[r] EXCEPT !.todo = @ \ {s}])
    /\ UNCHANGED <<ledger, rendered, images, jar, bak, sqlDone, nacos, html, htmlBak, now, runs>>

RevertDone(r) ==
    /\ At(r, "revert") /\ run[r].todo = {}
    /\ Commit("upgrade", run[r].patch.version, FALSE,
              [s \in Services |-> IF s \in run[r].patch.services THEN run[r].tags[s] ELSE None],
              run[r].mysql)
    /\ Return(r)
    /\ UNCHANGED <<siteVars, now, runs>>

\* Fault: every service of the patch is taken to have a new image.
MergedAll(r) ==
    [s \in Services |-> IF s \in run[r].patch.services THEN run[r].patch.version ELSE run[r].tags[s]]

\* The tags of the record it started from, and of the images it has built.
Merged(r) ==
    [s \in Services |-> IF s \in run[r].built THEN run[r].patch.version ELSE run[r].tags[s]]

UpgradeEnd(r) ==
    /\ At(r, "roll") /\ run[r].todo = {}
    /\ Commit("upgrade", run[r].patch.version, TRUE, Merged(r), run[r].mysql)
    /\ Return(r)
    /\ UNCHANGED <<siteVars, now, runs>>

-----------------------------------------------------------------------------
(* Rollback to the last success, or to the last success of a version.       *)

Target(to) == ledger[Last(Successes(to))]

RollbackStart(r, to) ==
    /\ Successes(to) # {}
    /\ LET target == Target(to) IN
       Begin(r, [step |-> "back", ver |-> target.ver, tags |-> target.tags,
                 todo |-> {s \in Services : target.tags[s] # None}])

\* rollbackServices again: whatever fails, the rollback succeeds.
RollbackService(r, s) ==
    /\ At(r, "back") /\ s \in run[r].todo
    /\ Up(run[r].ver, s) \/ UNCHANGED running
    /\ Go(r, [run[r] EXCEPT !.todo = @ \ {s}])
    /\ UNCHANGED <<ledger, rendered, images, jar, bak, sqlDone, nacos, html, htmlBak, now, runs>>

RollbackEnd(r) ==
    /\ At(r, "back") /\ run[r].todo = {}
    /\ Commit("rollback", run[r].ver, TRUE, run[r].tags, FALSE)
    /\ Return(r)
    /\ UNCHANGED <<siteVars, now, runs>>

-----------------------------------------------------------------------------
\* The process of a run is killed, or the machine restarts.
Crash(r) ==
    /\ run[r] # Idle
    /\ Return(r)
    /\ UNCHANGED <<ledger, siteVars, now, runs>>

Tick ==
    /\ now < MaxTime
    /\ now' = now + 1
    /\ UNCHANGED <<ledger, run, siteVars, runs>>

DeployStep(r) ==
    \/ \E v \in Releases : DeployStart(r, v)
    \/ DeployRender(r) \/ DeployEnd(r)
    \/ \E s \in Services : DeployUp(r, s)

UpgradeStep(r) ==
    \/ \E p \in Patches : UpgradeStart(r, p)
    \/ BackupDone(r) \/ Build(r) \/ BuildDone(r) \/ Sql(r) \/ Nacos(r)
    \/ Frontend(r) \/ FrontendDone(r) \/ RevertDone(r) \/ UpgradeEnd(r)
    \/ \E s \in Services : \/ BackupJar(r, s) \/ CopyJar(r, s) \/ Roll(r, s)
                           \/ RollFails(r, s) \/ RevertService(r, s)

RollbackStep(r) ==
    \/ \E to \in Version \cup {None} : RollbackStart(r, to)
    \/ \E s \in Services : RollbackService(r, s)
    \/ RollbackEnd(r)

Next ==
    /\ \/ Tick
       \/ \E r \in Runners : DeployStep(r) \/ UpgradeStep(r) \/ RollbackStep(r) \/ Crash(r)
    /\ UNCHANGED crew

Spec == Init /\ [][Next]_vars

-----------------------------------------------------------------------------
(* Properties.                                                              *)

Record ==
    [action : {"deploy", "upgrade", "rollback"}, ver : Version, ok : BOOLEAN, tags : Tags,
     mysql : BOOLEAN]
File == {Original} \cup (Version \X (1..NumFiles))
DeployRun == [step : {"render", "layers"}, ver : Releases, todo : SUBSET Services]
UpgradeRun ==
    [step : {"backup", "copy", "build", "sql", "nacos", "frontend", "roll", "revert"},
     patch : Patches, from : Version, tags : Tags, built : SUBSET Services,
     todo : SUBSET Services, svc : Services \cup {None}, file : 1..(NumFiles + 1), mysql : BOOLEAN,
     was : [nacos : Version \cup {None}, html : SUBSET File]]
RollbackRun == [step : {"back"}, ver : Version, tags : Tags, todo : SUBSET Services]

\* Types; a run that changes containers has a version whose tags it knows.
TypeOK ==
    /\ ledger \in Seq(Record)
    /\ run \in [Runners -> {Idle} \cup DeployRun \cup UpgradeRun \cup RollbackRun]
    /\ rendered \subseteq Releases
    /\ DOMAIN images \subseteq Services \X Version
    /\ \A t \in DOMAIN images : images[t] \in Version \cup {None}
    /\ running \in Tags /\ jar \in Jars
    /\ bak \in [Version -> Tags]
    /\ sqlDone \in [Patches -> 0..NumScripts]
    /\ nacos \in Version \cup {None}
    /\ html \subseteq File
    /\ DOMAIN htmlBak \subseteq 0..MaxTime
    /\ now \in 0..MaxTime
    /\ crew \in Crews

\* The version of the site changes only by a deploy, a rollback, or a patch
\* made for the version it had ("no skipped versions", plan 6.10 step 1), as long
\* as runs do not overlap.
BaselineChain ==
    [][ crew = 1 /\ Latest # None /\ Latest' # Latest =>
          \/ Latest'.action \in {"deploy", "rollback"}
          \/ \E p \in Patches : p.version = Latest'.ver /\ p.base = Latest.ver ]_ledger

\* The patches so far have put their jars of a service over the one it had.
OneJar(s) == \A m, n \in JarName : jar[s][m] # None /\ jar[s][n] # None => m = n

\* An image holds the jar of the version in its tag, after failed copies and
\* builds, retries and rollbacks as well, as long as runs do not overlap and
\* the jars of the service have had the one name.
TagIsItsJar ==
    crew = 1 => \A t \in DOMAIN images : OneJar(t[1]) => images[t] = t[2]

\* An upgrade that had a database to work on and is on record as a success has
\* all its SQL in it, however many attempts it took and whatever ran beside it:
\* that of the patch which has its version.
SuccessHasItsSql ==
    \A i \in DOMAIN ledger : ledger[i].ok /\ ledger[i].mysql =>
        \E p \in Patches : p.version = ledger[i].ver /\ sqlDone[p] = NumScripts

\* A tag of a patch that a success has, built by it or taken over from records
\* before it through any number of upgrades and rollbacks, is in the local
\* docker: the next record never claims an image that no build has made ("the
\* old image is still there", plan 6.10 step 8).  Of the tags of a full package
\* it is not so, see DeployRender.
RecordedTagsBuilt ==
    \A i \in DOMAIN ledger : ledger[i].ok =>
        \A s \in Services : ledger[i].tags[s] \in Version \ Releases =>
            <<s, ledger[i].tags[s]>> \in DOMAIN images

\* The types, and the images of the records.
SiteOK == TypeOK /\ RecordedTagsBuilt

\* What was in html before the first upgrade is never lost, although backups
\* are named by the second and may fail to be made.
OriginalFrontendKept ==
    Original \in html \/ \E t \in DOMAIN htmlBak : Original \in htmlBak[t]

\* upgrade.go:37: "a failure rolls back images, frontend and Nacos".
FailureUndone ==
    [][ \A r \in Runners : At(r, "revert") /\ ledger' # ledger /\ run'[r] = Idle =>
          nacos = run[r].was.nacos /\ html = run[r].was.html ]_vars

\* Plan 6.10 step 6: the containers of an upgraded service run the new image.
UpgradedRuns ==
    [][ \A r \in Runners : At(r, "roll") /\ ledger' # ledger /\ run'[r] = Idle =>
          \A s \in run[r].built : running[s] = run[r].patch.version ]_vars

\* Plan 6.10: rollback goes back to any version on record.
RolledBackRuns ==
    [][ \A r \in Runners : At(r, "back") /\ ledger' # ledger /\ run'[r] = Idle =>
          \A s \in Services : run[r].tags[s] # None => running[s] = run[r].tags[s] ]_vars

\* Plan 6.10 step 3: bak/<old version>/ holds the jars of the old version.
BackupIsOfItsVersion ==
    \A v \in Version, s \in Services : bak[v][s] \in {None, v}

\* upgrade.go:296: every archive of the patch is copied to html for the people
\* on site to unpack.
FrontendComplete ==
    \A r \in Runners : At(r, "roll") /\ run[r].patch.frontend =>
        \A k \in 1..NumFiles : Archive(r, k) \in html
=============================================================================
