----------------------------- MODULE WizardJobs -----------------------------
(***************************************************************************)
(* The steps of the wizard that run jobs, Docker to the verification, on   *)
(* one page (web/src/composables/createConsole.js, views/wizard).          *)
(*                                                                         *)
(* A button starts an async function.  It may first write site.yaml or ask *)
(* for the state of Nginx, then posts a job, waits for its end over the    *)
(* one WebSocket of the page (jobWs), marks what the end has shown, and,   *)
(* when it deploys a whole step, goes on to the next module.  "busy" keeps *)
(* the buttons off meanwhile.  But the buttons under a step, which confirm *)
(* it and go on, do not look at busy, nor does the address; and the last   *)
(* of them starts the verification.  So functions overlap: who opens the   *)
(* socket closes that of the other, whose wait then never ends or ends in  *)
(* an error.                                                               *)
(***************************************************************************)
EXTENDS Integers, Sequences, FiniteSets

CONSTANTS
    Chain,      \* the modules "deploy all" deploys, in order, by step
    Typed,      \* addresses of steps that are opened or gone back to
    MaxClicks,  \* bound: what the user does, deleting site.yaml included
    MaxFaults   \* bound: connections that break

Phases == {"database", "middleware", "business", "standalone"}

fieldStepDefs == <<"docker", "database", "middleware", "business", "standalone", "nginx", "verify">>
Key(i) == IF i = 0 THEN "site" ELSE fieldStepDefs[i]
Steps == 0..Len(fieldStepDefs)

ASSUME JobsAssumption ==
    /\ DOMAIN Chain = Phases /\ \A key \in Phases : Chain[key] \in Seq(STRING)
    /\ Typed \subseteq Steps /\ MaxClicks \in Nat /\ MaxFaults \in Nat

HasNacos == \E i \in DOMAIN Chain["middleware"] : Chain["middleware"][i] = "nacos"
Needs(key) == key = "middleware" /\ HasNacos

VARIABLES
    page,   \* step, reached, done (steps), flags, busy
    calls,  \* functions of the page that are at work
    sock,   \* jobWs: the job it is for, or 0
    jobs,   \* of the server: what each is for, and how it stands
    nginx,  \* Nginx runs
    clicks, faults

jobVars == <<page, calls, sock, jobs, nginx, clicks, faults>>

-----------------------------------------------------------------------------
(* The functions.  "rest" is what is still to be deployed, the module under *)
(* way first; "from" is the number of jobs there were at the start.         *)

Call(what, key, rest, at) == [what |-> what, key |-> key, rest |-> rest, at |-> at, job |-> 0, from |-> Len(jobs)]

\* A function that deploys Kafka writes site.yaml before, as does that of the
\* monitoring; that of Nginx looks whether it runs already.
runModuleDeploy(phase, m) == Call("module", phase, <<m>>, IF m = "kafka" THEN "write" ELSE "post")
runStandaloneDeploy(m) == Call("module", "standalone", <<m>>, "post")
runMonitorDeploy == Call("monitor", "business", <<"monitor">>, "write")
runInit == Call("init", "docker", <<"init">>, "post")
runNacosImport == Call("import", "middleware", <<"import">>, "post")
runNginxDeploy(force) == Call("nginx", "nginx", <<"nginx">>, IF force THEN "post" ELSE "look")
runVerify == Call("verify", "verify", <<"verify">>, "post")
refreshNginxRuntime == Call("look", "nginx", <<>>, "look")

\* "Deploy all" of a step.
runAllDatabaseDeploy == Call("all", "database", Chain["database"], "post")
runAllMiddlewareDeploy == Call("all", "middleware", Chain["middleware"], "write")
runAllBusinessDeploy == Call("all", "business", Chain["business"], "post")
runAllStandaloneDeploy == Call("all", "standalone", Chain["standalone"], "post")

\* Jobs that leave no mark on the page.
Plain(key) == Call("plain", key, <<"plain">>, "post")
runFirewallJob == Plain("docker")
runApplySQL == Plain("database")
expandPlatformArchives == Plain("business")
expandMonitorServices == Plain("business")
runFetch == Plain("elsewhere")
runUpgrade == Plain("elsewhere")
runRollback == Plain("elsewhere")

\* Requests that start no job.
Patch(key) == Call("patch", key, <<>>, "write")
patchAllBusinessEnv == Patch("business")
patchAllStandaloneEnv == Patch("standalone")
runScan == Patch("elsewhere")

\* What is not true any more as soon as it starts.
Unmarks(c) ==
    CASE c.what \in {"init", "import", "verify"} -> {c.what}
      [] c.what = "nginx" /\ c.at = "post" -> {"nginx"}
      [] OTHER -> {}

started(p, c) == [p EXCEPT !.busy = TRUE, !.flags = @ \ Unmarks(c)]
Marked(p, flag, key, ok) ==
    [p EXCEPT !.flags = IF ok THEN @ \cup {flag} ELSE @ \ {flag}, !.done = IF ok THEN @ \cup {key} ELSE @]

\* Fault: the step is done, whatever is imported.
DoneAnyway(p, phase) == [p EXCEPT !.done = @ \cup {phase}]

\* The last module of a step is deployed.
stepDeployed(p, phase) ==
    IF Needs(phase) /\ "import" \notin p.flags
    THEN [p EXCEPT !.done = @ \ {phase}]
    ELSE [p EXCEPT !.done = @ \cup {phase}]

\* After the deployment of Nacos its log tells whether it was imported to.
ModuleMark(p, m, logged) ==
    IF m # "nacos" THEN p
    ELSE [p EXCEPT !.flags = IF logged THEN @ \cup {"import"} ELSE @ \ {"import"}]

-----------------------------------------------------------------------------
(* The way of a function.                                                   *)

Become(c, d) == calls' = (calls \ {c}) \cup {d}
server == <<jobs, nginx>>
user == <<clicks, faults>>

\* Fault: no finally.
StayBusy(c, p) == page' = p /\ calls' = calls \ {c}

\* finally.
Finish(c, p) == page' = [p EXCEPT !.busy = FALSE] /\ calls' = calls \ {c}

\* Fault: the next module, also after a failure.
NextAnyway(c, p, ok) ==
    IF Len(c.rest) > 1
    THEN page' = p /\ Become(c, [c EXCEPT !.rest = Tail(@), !.at = "post", !.job = 0])
    ELSE Finish(c, stepDeployed(p, c.key))

\* "Stop after a failure".
NextModule(c, p, ok) ==
    \/ ok /\ Len(c.rest) > 1 /\ page' = p /\ Become(c, [c EXCEPT !.rest = Tail(@), !.at = "post", !.job = 0])
    \/ ok /\ Len(c.rest) = 1 /\ Finish(c, stepDeployed(p, c.key))
    \/ ~ok /\ Finish(c, p)

\* The wait of c has ended: well, or not, be it for an error of the socket.
\* "some" stands for what else the end tells: the log of an import, services
\* that run although the verification failed.
Ended(c, ok, some) ==
    LET p == IF ok /\ c.what \in {"module", "all"} THEN ModuleMark(page, Head(c.rest), some) ELSE page IN
    CASE c.what = "all" -> NextModule(c, p, ok)
      [] c.what = "module" -> Finish(c, IF ok /\ c.key = "standalone" THEN stepDeployed(p, c.key) ELSE p)
      [] c.what = "init" -> Finish(c, [p EXCEPT !.flags = IF ok THEN @ \cup {"init"} ELSE @ \ {"init"}])
      [] c.what = "import" -> Finish(c, Marked(p, "import", "middleware", ok))
      [] c.what = "verify" -> Finish(c, Marked(p, "verify", "verify", ok \/ some))
      [] c.what = "nginx" -> page' = Marked(p, "nginx", "nginx", ok) /\ Become(c, [c EXCEPT !.at = "lookagain"])
      [] OTHER -> Finish(c, p)

\* PUT /api/site/form.  Only the monitoring gives up when it fails.  The
\* request of patchAllEnv is all it does.
Written(c) ==
    /\ c.at = "write"
    /\ \/ c.what # "patch" /\ page' = page /\ Become(c, [c EXCEPT !.at = "post"])
       \/ c.what \in {"monitor", "patch"} /\ Finish(c, page)
    /\ UNCHANGED <<sock, server, user>>

\* GET /api/nginx/status, at the start, at the end, or for its own sake.
Looked(c) ==
    /\ c.at \in {"look", "lookagain"}
    /\ \E seen \in {FALSE, nginx} :
          LET p == IF seen THEN Marked(page, "nginx", "nginx", TRUE) ELSE page IN
          CASE c.what = "look" -> page' = p /\ calls' = calls \ {c}
            [] c.at = "lookagain" \/ seen -> Finish(c, p)
            [] OTHER -> page' = [p EXCEPT !.flags = @ \ {"nginx"}] /\ Become(c, [c EXCEPT !.at = "post"])
    /\ UNCHANGED <<sock, server, user>>

\* The server makes a job, or refuses to, or is not reached.
Posted(c) ==
    /\ c.at = "post"
    /\ \/ /\ jobs' = Append(jobs, [of |-> Head(c.rest), is |-> "running"])
          /\ Become(c, [c EXCEPT !.at = "posted", !.job = Len(jobs) + 1])
          /\ UNCHANGED page
       \/ UNCHANGED jobs /\ Finish(c, page)
    /\ UNCHANGED <<sock, nginx, user>>

\* The answer has come.  The socket of the function before is closed: that
\* function waits for good, or, when the socket was not open yet, gets an error.
watchJob(c) ==
    /\ c.at = "posted"
    /\ sock' = c.job
    /\ LET before == {d \in calls : d.at = "wait" /\ d.job = sock}
           others == calls \ ({c} \cup before)
           failed == {[d EXCEPT !.at = "error"] : d \in before}
       IN calls' \in {others \cup {[c EXCEPT !.at = "wait"]}, others \cup failed \cup {[c EXCEPT !.at = "wait"]}}
    /\ UNCHANGED <<page, server, user>>

\* onmessage: the job has ended.
Told(c) ==
    /\ c.at = "wait" /\ c.job = sock
    /\ jobs[c.job].is # "running"
    /\ sock' = 0
    /\ \E some \in BOOLEAN :
          /\ some /\ c.what # "verify" => jobs[c.job].is = "ok-imported"
          /\ jobs[c.job].is = "ok-imported" => some
          /\ Ended(c, jobs[c.job].is # "fail", some)
    /\ UNCHANGED <<server, user>>

\* onerror, of a socket that was closed too early.
Interrupted(c) == c.at = "error" /\ Ended(c, FALSE, FALSE) /\ UNCHANGED <<sock, server, user>>

\* The connection breaks: onerror, or nothing at all.
Broken(c) ==
    /\ c.at = "wait" /\ c.job = sock /\ faults < MaxFaults
    /\ faults' = faults + 1
    /\ sock' = 0
    /\ Ended(c, FALSE, FALSE) \/ (page' = page /\ calls' = calls \ {c})
    /\ UNCHANGED <<server, clicks>>

\* The server is through with a job.
JobEnds(j) ==
    /\ jobs[j].is = "running"
    /\ \E end \in {"ok", "fail"} \cup (IF jobs[j].of = "nacos" THEN {"ok-imported"} ELSE {}) :
          /\ jobs' = [jobs EXCEPT ![j].is = end]
          /\ IF jobs[j].of = "nginx" THEN nginx' \in (IF end = "ok" THEN {TRUE} ELSE {nginx, FALSE}) ELSE nginx' = nginx
    /\ UNCHANGED <<page, calls, sock, user>>

-----------------------------------------------------------------------------
(* The user.                                                                *)

\* The first step is done; or the page is opened again, on the draft and the
\* address of one that has Docker and databases.  Nginx may run from before.
Init ==
    /\ \/ /\ page = [step |-> 1, reached |-> 1, done |-> {"site"}, flags |-> {}, busy |-> FALSE]
          /\ jobs = <<>>
       \/ /\ \E i \in Typed :
                page = [step |-> i, reached |-> i, done |-> {"site", "docker", "database"}, flags |-> {}, busy |-> FALSE]
          /\ jobs = <<[of |-> "init", is |-> "ok"]>>
    /\ calls = IF Key(page.step) = "nginx" THEN {refreshNginxRuntime} ELSE {}
    /\ sock = 0
    /\ nginx \in BOOLEAN /\ clicks = 0 /\ faults = 0

Click == clicks < MaxClicks /\ clicks' = clicks + 1 /\ UNCHANGED <<sock, server, faults>>

\* A button that is off while the page is busy.
Button(c) == ~page.busy /\ Click /\ page' = started(page, c) /\ calls' = calls \cup {c}

At(key) == page.step # 0 /\ Key(page.step) = key
Offered(phase) == {Chain[phase][i] : i \in DOMAIN Chain[phase]}

Docker == At("docker") /\ Button(runInit)
Firewall == At("docker") /\ Button(runFirewallJob)

Database ==
    /\ At("database") /\ Chain["database"] # <<>>
    /\ \/ Button(runAllDatabaseDeploy)
       \/ \E m \in Offered("database") : Button(runModuleDeploy("database", m))

ApplySQL == At("database") /\ Button(runApplySQL)

Middleware ==
    /\ At("middleware") /\ Chain["middleware"] # <<>>
    /\ \/ Button(runAllMiddlewareDeploy)
       \/ \E m \in Offered("middleware") : Button(runModuleDeploy("middleware", m))

ImportNacos == At("middleware") /\ HasNacos /\ Button(runNacosImport)

Business ==
    /\ At("business")
    /\ \/ Button(patchAllBusinessEnv) \/ Button(expandPlatformArchives)
       \/ Chain["business"] # <<>> /\ Button(runAllBusinessDeploy)
       \/ \E m \in Offered("business") : Button(runModuleDeploy("business", m))

Monitoring == At("business") /\ (Button(runMonitorDeploy) \/ Button(expandMonitorServices))

Standalone ==
    /\ At("standalone") /\ Chain["standalone"] # <<>>
    /\ \/ Button(patchAllStandaloneEnv) \/ Button(runAllStandaloneDeploy)
       \/ \E m \in Offered("standalone") : Button(runStandaloneDeploy(m))

Nginx == At("nginx") /\ \E force \in BOOLEAN : Button(runNginxDeploy(force))
Verify == At("verify") /\ Button(runVerify)

\* The pages of packages and of upgrades, and back.
Packages == Button(runFetch) \/ Button(runScan)
Upgrades == Button(runUpgrade) \/ Button(runRollback)

\* The page comes to step i: the verification starts by itself, and Nginx is
\* looked for.
applyWizardStep(p, i) ==
    LET q == [p EXCEPT !.step = i, !.reached = IF i > @ THEN i ELSE @] IN
    CASE Key(i) = "verify" -> page' = started(q, runVerify) /\ calls' = calls \cup {runVerify}
      [] Key(i) = "nginx" -> page' = q /\ calls' = calls \cup {refreshNginxRuntime}
      [] OTHER -> page' = q /\ UNCHANGED calls

\* The button under a step, which is there, and on, when the step before is
\* done, or, for some, this one.
Confirmable(key) ==
    CASE key = "docker" -> "init" \in page.flags
      [] key = "middleware" -> "database" \in page.done /\ (Needs(key) => "import" \in page.flags)
      [] key = "nginx" -> "nginx" \in page.flags \cup page.done
      [] key \in {"site", "verify"} -> FALSE
      [] OTHER -> Key(page.step - 1) \in page.done

completeFieldStep(i) ==
    /\ page.step = i /\ Confirmable(Key(i))
    /\ Click
    /\ applyWizardStep([page EXCEPT !.done = @ \cup {Key(i)}], i + 1)

canGoToStep(i) == ~page.busy /\ (i <= page.reached \/ (i = page.step + 1 /\ Key(page.step) \in page.done))
goToStep(i) == i # page.step /\ canGoToStep(i) /\ Click /\ applyWizardStep(page, i)

\* The button under the first step.
nextFromSite ==
    /\ page.step = 0 /\ ~page.busy /\ Click
    /\ applyWizardStep([page EXCEPT !.done = @ \cup {"site"}], 1)

\* The address, or the way back of the browser, while there is a site.yaml.
applyHashToState(i) ==
    /\ i \in Typed \ {page.step} /\ "site" \in page.done /\ Click
    /\ page' = [page EXCEPT !.step = i, !.reached = IF i > @ THEN i ELSE @]
    /\ calls' = IF Key(i) = "nginx" THEN calls \cup {refreshNginxRuntime} ELSE calls

\* site.yaml was deleted, and the page notices.
resetWizardProgress ==
    /\ "site" \in page.done /\ Click
    /\ page' = [page EXCEPT !.step = 0, !.reached = 0, !.done = {}, !.flags = {}]
    /\ UNCHANGED calls

Work ==
    \/ \E c \in calls : Written(c) \/ Looked(c) \/ Posted(c) \/ watchJob(c) \/ Told(c) \/ Interrupted(c)
    \/ \E j \in DOMAIN jobs : JobEnds(j)

User ==
    \/ Docker \/ Firewall \/ Database \/ ApplySQL \/ Middleware \/ ImportNacos
    \/ Business \/ Monitoring \/ Standalone \/ Nginx \/ Verify \/ Packages \/ Upgrades
    \/ (\E i \in Steps : completeFieldStep(i) \/ goToStep(i) \/ applyHashToState(i))
    \/ nextFromSite \/ resetWizardProgress

Next == Work \/ User \/ \E c \in calls : Broken(c)

\* The page and the server go on; nobody has to click, and nothing to break.
Spec == Init /\ [][Next]_jobVars /\ WF_jobVars(Work)

-----------------------------------------------------------------------------
(* Properties.                                                              *)

Is(j, work) == jobs[j].of = work /\ jobs[j].is \in {"ok", "ok-imported"}

\* Types; a function that waits, waits on the socket of the page.
TypeOK ==
    /\ page.step \in Steps /\ page.reached \in Steps /\ page.step <= page.reached
    /\ page.done \subseteq {Key(i) : i \in Steps} /\ page.flags \subseteq {"init", "import", "nginx", "verify"}
    /\ page.busy \in BOOLEAN /\ sock \in 0..Len(jobs)
    /\ \A c \in calls : c.at \in {"write", "look", "lookagain", "post", "posted", "wait", "error"}
    /\ \A c \in calls : c.at = "wait" => c.job = sock

\* When "deploy all" ends by marking its step, every module of the step was
\* deployed, after the click and with success, whatever interrupted it on the
\* way ("so that half a set is not taken for the whole").
ChainMeansAll ==
    [][\A c \in calls : c.what = "all" /\ c \notin calls' /\ c.key \in page'.done \ page.done =>
          \A i \in DOMAIN Chain[c.key] : \E j \in (c.from + 1)..Len(jobs) : Is(j, Chain[c.key][i])]_jobVars

\* Docker is shown as done only when it was installed, the middleware only
\* when Nacos got its configuration ("without it the services of the platform
\* fail to register"), whichever of the buttons and jobs sets the mark.
MarksAreEarned ==
    /\ "docker" \in page.done => \E j \in DOMAIN jobs : Is(j, "init")
    /\ "middleware" \in page.done /\ HasNacos =>
          \E j \in DOMAIN jobs : Is(j, "import") \/ (jobs[j].of = "nacos" /\ jobs[j].is = "ok-imported")

\* The types, the socket, and the marks.
WizardOK == TypeOK /\ MarksAreEarned

\* Functions interrupt one another, and those that are interrupted never say
\* that they have ended.  Still, as long as no connection breaks and every
\* end is told, the page does not stay busy: who closes a socket ends itself.
ButtonsComeBack == [](faults = 0) => []<>~page.busy

\* A page deploys one thing at a time, as long as no connection breaks: its
\* buttons are off until what they have started is over.
OneDeploy ==
    faults = 0 => Cardinality({j \in DOMAIN jobs : jobs[j].is = "running" /\ jobs[j].of # "verify"}) <= 1

\* goToStep: "a task is under way, change steps later".
StepsLocked == [][page.busy => page'.step = page.step]_jobVars

\* A step is marked again after a reset only by what was started since.
ResetStays ==
    [][\A c \in calls : c \notin calls' /\ page.done = {} => page'.done = {}]_jobVars
=============================================================================
