---- MODULE ModuleDeploy ----
(***************************************************************************)
(* internal/moduledeploy: one module directory brought up on one host, as  *)
(* the console (ui/module_ops.go) and the command line ask for it:         *)
(*   full    expand, docker load, .env, compose up                         *)
(*   up      compose up alone                                              *)
(*   build   compose up --build, after the base images are there           *)
(*   nginx   RunNginxPatch                                                 *)
(* Every request is a goroutine or a process of its own, and nothing keeps *)
(* two of them from working in the same directory.                         *)
(*                                                                         *)
(* An image is known by its tag, and what a tag holds by the tag it was    *)
(* delivered under.  A compose file is known by the image it names.  Left  *)
(* out: firewall rules, proxy addresses in nginx's conf, the search for    *)
(* directories (module_path.go) and the choice of one part (SubService).   *)
(***************************************************************************)
EXTENDS Archives, FiniteSets, SequencesExt

CONSTANTS
  Damages,     \* the archives that may have come incomplete: sets of them
  Projects,    \* the compose files, entries of zips, in the order they go up
  BaseTars,    \* the .tar.zip archives of base images (java8.tar.zip)
  Html,        \* the zips under nginx's html
  Shipped,     \* the archives that lie in the directory at first
  ImageIn,     \* for each .tar.zip, the tag of its image
  Names,       \* for each compose file, the image it names as delivered
  Needs,       \* for each compose file, the FROM images of its Dockerfile
  Base,        \* java:8
  RepoOf,      \* the repository of a tag
  Tags,
  Older,       \* the tags the host has at first
  Requests,    \* the kinds of request made
  Rounds,      \* 3
  Crews,       \* how many jobs may overlap
  MaxAsked,    \* bound: requests
  MaxHarm      \* bound: failures and deaths, for each number of jobs that overlap

Project == {Projects[i] : i \in DOMAIN Projects}

ASSUME ModuleDeployAssumption ==
  /\ IsFiniteSet(Jobs) /\ IsFiniteSet(Tags)
  /\ BaseTars \subseteq TarZips /\ Html \subseteq Zips /\ Shipped \subseteq Archive
  /\ Projects \in Seq(Project) /\ Project \subseteq UNION {Held(z) : z \in Zips}
  /\ ImageIn \in [TarZips -> Tags] /\ Names \in [Project -> Tags]
  /\ Needs \in [Project -> SUBSET Tags]
  /\ Older \subseteq Tags /\ Base \in Tags /\ {"none", "cut"} \cap Tags = {}
  /\ Requests \subseteq {"full", "up", "build", "nginx"}
  /\ Rounds \in Nat \ {0} /\ MaxAsked \in Nat
  /\ Crews \subseteq Nat \ {0} /\ MaxHarm \in [Crews -> Nat]

\* What a package is made of: an archive is shipped or lies in a zip, the image of
\* each project is among them, and no other one of the same repository.
SameRepo(tag, p) == RepoOf[tag] = RepoOf[Names[p]]
ASSUME PackageAssumption ==
  /\ \A a \in Archive \ Shipped : \E z \in Zips : a \in Held(z)
  /\ \A p \in Project : \E t \in TarZips : ImageIn[t] = Names[p]
  /\ \A p \in Project, t \in TarZips : SameRepo(ImageIn[t], p) => ImageIn[t] = Names[p]

VARIABLES
  images,     \* for each tag, the image it holds: none or a tag
  compose,    \* for each compose file, the image it names, or cut
  env,        \* the compose files whose .env holds the values of the site
  running,    \* for each compose file, the images its containers are made of
  job,        \* for each job, where it stands
  crew,       \* how many jobs may overlap in this behaviour
  asked, harm

hostVars == <<images, compose, env, running>>
bounds == <<crew, asked, harm>>
vars == <<treeVars, hostVars, job, bounds>>

Idle == [pc |-> "idle", kind |-> "none", round |-> 0, todo |-> {}, before |-> {},
         refs |-> <<>>, ups |-> {}, want |-> "none", fresh |-> FALSE, end |-> "none"]

Local == {t \in Tags : images[t] # "none"}
IsTar(t) == Visible(TarOf[t])
\* The .tar files found, and the .tar.zip without one.
TarsOf(set) == {t \in TarZips \cap set : IsTar(t)}
Pending == {t \in TarZips : Visible(t) /\ ~IsTar(t)}
Found == {p \in Project : Visible(p)}

\* Lists are gone through in the order of the walk, and of the projects.
Least(S) == CHOOSE i \in S : \A k \in S : i <= k
First(order, set) == order[Least({i \in DOMAIN order : order[i] \in set})]

Job == [pc : {"idle", "prepare", "expand", "html", "load", "loading", "env", "find",
              "findagain", "one", "write", "check", "base", "baseloading", "basetag",
              "compose"},
        kind : {"none", "full", "up", "build", "nginx"}, round : 0 .. Rounds,
        todo : SUBSET TarZips, before : SUBSET Tags, refs : Seq(Tags),
        ups : SUBSET Project, want : Tags \cup {"none"}, fresh : BOOLEAN,
        end : {"none", "ok", "skipped", "failed", "died"}]

TypeOK ==
  /\ TreeTypeOK
  /\ images \in [Tags -> Tags \cup {"none"}]
  /\ compose \in [Project -> Tags \cup {"cut"}]
  /\ env \subseteq Project
  /\ running \in [Project -> SUBSET Tags]
  /\ job \in [Jobs -> Job]
  /\ \A j \in Jobs :
       exp[j].at # "off" => job[j].pc \in {"expand", "html", "findagain", "base"}
  /\ crew \in Crews /\ asked \in 0 .. MaxAsked /\ harm \in 0 .. MaxHarm[crew]

Init ==
  /\ \E damaged \in Damages : TreeInit(Shipped, damaged)
  /\ images = [t \in Tags |-> IF t \in Older THEN t ELSE "none"]
  /\ compose = [p \in Project |-> Names[p]]
  /\ env = {}
  /\ running = [p \in Project |-> {}]
  /\ job = [j \in Jobs |-> Idle]
  /\ crew \in Crews /\ asked = 0 /\ harm = 0

-----------------------------------------------------------------------------
At(j, pc) == job[j].pc = pc
Goto(j, pc) == job' = [job EXCEPT ![j].pc = pc]
Ended(j, end) == job' = [job EXCEPT ![j] = [Idle EXCEPT !.end = end]]
NoTree == UNCHANGED treeVars
Wait(j) == exp[j].at = "done"
Close(j) == exp' = [exp EXCEPT ![j] = Off] /\ UNCHANGED <<file, part, dirs>>

FirstOf(kind) ==
  CASE kind = "up" -> "find" [] kind = "build" -> "env" [] OTHER -> "prepare"

\* handleModuleDeploy and handleNginxPatch: nothing is locked.  Jobs are alike, and
\* the first that is idle takes the request; the outcomes of earlier ones are
\* forgotten.
Request(j) ==
  /\ At(j, "idle") /\ \A k \in Jobs : At(k, "idle") => j <= k
  /\ asked < MaxAsked
  /\ Cardinality({k \in Jobs : ~At(k, "idle")}) < crew
  /\ asked' = asked + 1
  /\ \E kind \in Requests :
       job' = [k \in Jobs |->
         CASE k = j -> [Idle EXCEPT !.pc = FirstOf(kind), !.kind = kind,
                          !.fresh = crew = 1 /\ \A t \in TarZips : ~IsTar(t)]
           [] k # j /\ At(k, "idle") -> Idle
           [] OTHER -> job[k]]
  /\ NoTree /\ UNCHANGED <<hostVars, crew, harm>>

\* InspectNginxRuntime: what runs is left alone, unless the request forces it.
Skip(j) ==
  /\ At(j, "prepare") /\ job[j].kind = "nginx" /\ job[j].round = 0
  /\ Found # {} /\ running[First(Projects, Found)] # {}
  /\ Ended(j, "skipped")
  /\ NoTree /\ UNCHANGED <<hostVars, bounds>>

-----------------------------------------------------------------------------
(* PrepareModuleArchives.                                                  *)

Prepared(j) == IF job[j].kind = "nginx" THEN "html" ELSE "load"
NothingToExpand == Pending = {} /\ \E t \in TarZips : IsTar(t)

AlreadyThere(j) ==
  /\ At(j, "prepare")
  /\ NothingToExpand
  /\ Goto(j, Prepared(j))
  /\ NoTree /\ UNCHANGED <<hostVars, bounds>>

StartExpand(j) ==
  /\ At(j, "prepare")
  /\ ~NothingToExpand
  /\ ExpandTree(j, Archive)
  /\ job' = [job EXCEPT ![j].pc = "expand", ![j].round = 1]
  /\ UNCHANGED <<file, part, dirs, hostVars, bounds>>

\* Fault: a round that got nowhere is not counted.
SameRound(j) == job[j].round
NextRound(j) == job[j].round + 1
MayRepeat(j) == job[j].round < Rounds
AnotherRound(j) ==
  /\ At(j, "expand") /\ Wait(j)
  /\ Pending # {} /\ MayRepeat(j)
  /\ ExpandTree(j, Archive)
  /\ job' = [job EXCEPT ![j].round = NextRound(j)]
  /\ UNCHANGED <<file, part, dirs, hostVars, bounds>>

\* With nginx, a directory without archives is no error, nor is any error when
\* there is a .tar.
PrepareFails(j) ==
  \/ Pending # {} /\ ~(job[j].kind = "nginx" /\ \E t \in TarZips : IsTar(t))
  \/ Pending = {} /\ NothingFound(j) /\ job[j].kind # "nginx"

EndPrepare(j) ==
  /\ At(j, "expand") /\ Wait(j)
  /\ Pending = {} \/ ~MayRepeat(j)
  /\ IF PrepareFails(j) THEN Ended(j, "failed") ELSE Goto(j, Prepared(j))
  /\ Close(j)
  /\ UNCHANGED <<hostVars, bounds>>

\* ExpandNginxHTML.
ExpandHtml(j) ==
  /\ At(j, "html") /\ exp[j].at = "off"
  /\ ExpandTree(j, Html)
  /\ UNCHANGED <<file, part, dirs, hostVars, job, bounds>>

EndHtml(j) ==
  /\ At(j, "html") /\ Wait(j)
  /\ Close(j)
  /\ Goto(j, "load")
  /\ UNCHANGED <<hostVars, bounds>>

-----------------------------------------------------------------------------
(* docker load.  The tags a load brought are the difference of two lists   *)
(* of docker images, whoever added them; without one, the tag it printed.  *)

ListTars(j) ==
  /\ At(j, "load")
  /\ IF TarsOf(TarZips) # {}
     THEN job' = [job EXCEPT ![j].pc = "loading", ![j].todo = TarsOf(TarZips),
                             ![j].before = Local]
     ELSE IF job[j].kind = "nginx" THEN Goto(j, "find") ELSE Ended(j, "failed")
  /\ NoTree /\ UNCHANGED <<hostVars, bounds>>

AfterLoad(j) == IF job[j].kind = "full" THEN "env" ELSE "find"
Loaded(j, tag) == [images EXCEPT ![tag] = tag]
\* Fault: every tag that docker lists counts as loaded.
EveryRef(j, tag) == Local \cup {tag}
NewRefs(j, tag) == IF Local \cup {tag} \subseteq job[j].before THEN {tag}
                   ELSE (Local \cup {tag}) \ job[j].before
BaseTag(j, refs, loaded) ==
  IF job[j].kind = "build" /\ loaded[Base] = "none"
  THEN [loaded EXCEPT ![Base] = loaded[Head(refs)]] ELSE loaded

\* One .tar: a torn one is refused by docker.
NextTar(j) == First(Order, job[j].todo)
Load(j) ==
  LET t == NextTar(j)
      rest == job[j].todo \ {t} IN
  /\ job[j].pc \in {"loading", "baseloading"}
  /\ IF file[TarOf[t]] # "whole" THEN Ended(j, "failed") /\ UNCHANGED images
     ELSE \E refs \in SetToSeqs(NewRefs(j, ImageIn[t])) :
       /\ images' = BaseTag(j, refs, Loaded(j, ImageIn[t]))
       /\ job' = [job EXCEPT
            ![j].todo = rest,
            ![j].before = IF rest = {} THEN {} ELSE Local',
            ![j].refs = @ \o refs,
            ![j].pc = IF rest # {} THEN @
                      ELSE IF @ = "loading" THEN AfterLoad(j) ELSE "basetag"]
  /\ NoTree /\ UNCHANGED <<compose, env, running, bounds>>

\* PatchEnvTree: one .env after the other, each replaced by a rename.
Patchable == Found \ env
PatchEnv(j) ==
  /\ At(j, "env")
  /\ IF Patchable = {} THEN Goto(j, "find") /\ UNCHANGED env
     ELSE env' = env \cup {First(Projects, Patchable)} /\ UNCHANGED job
  /\ NoTree /\ UNCHANGED <<images, compose, running, bounds>>

-----------------------------------------------------------------------------
(* compose up, project by project.                                         *)

\* projectsForModule: a project that is not there is only warned about.
FindProjects(j) ==
  /\ At(j, "find")
  /\ IF Found # {} THEN job' = [job EXCEPT ![j].pc = "one", ![j].ups = Found] /\ UNCHANGED exp
     ELSE IF job[j].kind = "build"
     THEN Goto(j, "findagain") /\ ExpandTree(j, Archive)
     ELSE Ended(j, "failed") /\ UNCHANGED exp
  /\ UNCHANGED <<file, part, dirs, hostVars, bounds>>

FindAgain(j) ==
  /\ At(j, "findagain") /\ Wait(j)
  /\ Close(j)
  /\ IF Found # {} THEN job' = [job EXCEPT ![j].pc = "one", ![j].ups = Found]
     ELSE Ended(j, "failed")
  /\ UNCHANGED <<hostVars, bounds>>

This(j) == First(Projects, job[j].ups)

\* pickLocalImageRef: a tag loaded by this job if one is of the same
\* repository, else whichever docker lists first.
\* Fault: what was loaded is not preferred.
NoPreference(j, cur) == {}
Preferred(j, cur) == {i \in DOMAIN job[j].refs : RepoOf[job[j].refs[i]] = RepoOf[cur]}
Read(p) == IF file[p] = "whole" THEN compose[p] ELSE "cut"
Picks(j, cur) ==
  IF Preferred(j, cur) # {} THEN {job[j].refs[Least(Preferred(j, cur))]}
  ELSE LET same == {r \in Local : RepoOf[r] = RepoOf[cur]} IN
       IF same = {} THEN {cur} ELSE same

\* SyncComposeImagesFromDocker: the file is written in place.
Sync(j) ==
  LET p == This(j) IN
  /\ At(j, "one") /\ job[j].kind # "build"
  /\ \E new \in (IF Read(p) = "cut" THEN {"cut"} ELSE Picks(j, compose[p])) :
       IF new = Read(p) THEN Goto(j, "check") /\ UNCHANGED compose
       ELSE /\ compose' = [compose EXCEPT ![p] = "cut"]
            /\ job' = [job EXCEPT ![j].pc = "write", ![j].want = new]
  /\ NoTree /\ UNCHANGED <<images, env, running, bounds>>

WriteCompose(j) ==
  /\ At(j, "write")
  /\ compose' = [compose EXCEPT ![This(j)] = job[j].want]
  /\ job' = [job EXCEPT ![j].pc = "check", ![j].want = "none"]
  /\ NoTree /\ UNCHANGED <<images, env, running, bounds>>

\* MissingImages: a file without an image line names none.
Check(j) ==
  /\ At(j, "check")
  /\ IF Read(This(j)) \in Local \cup {"cut"} THEN Goto(j, "compose") ELSE Ended(j, "failed")
  /\ NoTree /\ UNCHANGED <<hostVars, bounds>>

\* loadBaseImagesForBuild.
Still(j) == Needs[This(j)] \ Local
NeedBase(j) ==
  /\ At(j, "one") /\ job[j].kind = "build"
  /\ IF Still(j) = {} THEN Goto(j, "compose") /\ UNCHANGED exp
     ELSE Goto(j, "base") /\ ExpandOnce(j, BaseTars)
  /\ UNCHANGED <<file, part, dirs, hostVars, bounds>>

ListBase(j) ==
  /\ At(j, "base") /\ Wait(j)
  /\ Close(j)
  /\ job' = [job EXCEPT ![j].todo = TarsOf(BaseTars), ![j].refs = <<>>,
                        ![j].before = IF TarsOf(BaseTars) = {} THEN {} ELSE Local,
                        ![j].pc = IF TarsOf(BaseTars) = {} THEN "basetag" ELSE "baseloading"]
  /\ UNCHANGED <<hostVars, bounds>>

\* Whatever FROM image is missing yet is made a tag of the first one loaded.
TagBase(j) ==
  /\ At(j, "basetag")
  /\ IF Still(j) # {} /\ job[j].refs = <<>> THEN Ended(j, "failed") /\ UNCHANGED images
     ELSE /\ images' = [t \in Tags |-> IF t \in Still(j) THEN images[Head(job[j].refs)]
                                       ELSE images[t]]
          /\ Goto(j, "compose")
  /\ NoTree /\ UNCHANGED <<compose, env, running, bounds>>

MadeOf(j, p) == IF job[j].kind = "build" THEN {images[n] : n \in Needs[p]}
                ELSE {images[compose[p]]}
\* ComposeUp: docker refuses a file that is cut, or one whose image it lacks.
ComposeUp(j) ==
  LET p == This(j)
      rest == job[j].ups \ {p} IN
  /\ At(j, "compose")
  /\ IF Read(p) = "cut" \/ (job[j].kind # "build" /\ Read(p) \notin Local)
     THEN Ended(j, "failed") /\ UNCHANGED running
     ELSE /\ running' = [running EXCEPT ![p] = MadeOf(j, p)]
          /\ IF rest = {} THEN Ended(j, "ok")
             ELSE job' = [job EXCEPT ![j].pc = "one", ![j].ups = rest]
  /\ NoTree /\ UNCHANGED <<images, compose, env, bounds>>

-----------------------------------------------------------------------------
(* Failures and deaths, as many as MaxHarm allows.                         *)

EntryFault(j) ==
  /\ EntryFails(j)
  /\ UNCHANGED <<hostVars, job, crew, asked>>

CommandFails(j) ==
  /\ job[j].pc \in {"loading", "baseloading", "env", "compose"}
  /\ Ended(j, "failed")
  /\ NoTree /\ UNCHANGED <<hostVars, crew, asked>>

Dies(j) ==
  /\ ~At(j, "idle")
  /\ Ended(j, "died")
  /\ Close(j)
  /\ UNCHANGED <<hostVars, crew, asked>>

Harm(j) ==
  /\ harm < MaxHarm[crew]
  /\ harm' = harm + 1
  /\ EntryFault(j) \/ CommandFails(j) \/ Dies(j)

\* The compose file of a project and its .env come out of a zip together.
PutsNow(j) ==
  IF \/ exp[j].at = "rename" /\ part[Target(j)] # "none"
     \/ exp[j].at = "write" /\ exp[j].on = "target"
  THEN Project \cap {Target(j)} ELSE {}
Expanding(j) ==
  /\ ExpandStep(j)
  /\ compose' = [p \in Project |-> IF p \in PutsNow(j) THEN Names[p] ELSE compose[p]]
  /\ env' = env \ PutsNow(j)
  /\ UNCHANGED <<images, running, job, bounds>>

Step(j) ==
  \/ Skip(j) \/ AlreadyThere(j) \/ StartExpand(j) \/ AnotherRound(j) \/ EndPrepare(j)
  \/ ExpandHtml(j) \/ EndHtml(j) \/ ListTars(j) \/ Load(j) \/ PatchEnv(j)
  \/ FindProjects(j) \/ FindAgain(j) \/ Sync(j) \/ WriteCompose(j) \/ Check(j)
  \/ NeedBase(j) \/ ListBase(j) \/ TagBase(j) \/ ComposeUp(j) \/ Expanding(j)

Next == \E j \in Jobs : Request(j) \/ Step(j) \/ Harm(j)
Spec == Init /\ [][Next]_vars
Fairness == \A j \in Jobs : WF_vars(Step(j))
FairSpec == Spec /\ Fairness

-----------------------------------------------------------------------------
(* Properties.                                                             *)

\* What lies under the name of a .tar can be loaded.  With one job at a time
\* this is so whatever fails and whenever the process dies; with two, a .tar can
\* be torn while one of them still holds it open, and stays torn only when
\* something failed.
TarIsWhole ==
  \A t \in TarZips : file[TarOf[t]] = "torn" =>
    /\ crew > 1
    /\ harm > 0 \/ \E j \in Jobs : Writes(j, TarOf[t]) /\ exp[j].on = "target"

\* The types, and the .tar files.
ModuleOK == TypeOK /\ TarIsWhole

\* When nothing fails, a job that begins in a directory without a .tar goes on
\* only when everything is expanded, however the archives are nested.
AllExpanded == \A a \in Archive : file[a] = "whole" => Expanded(a)
PrepareExpandsAll ==
  \A j \in Jobs : job[j].fresh /\ job[j].kind # "build" /\ harm = 0
                  /\ job[j].pc \in {"load", "loading", "env"} => AllExpanded

\* A full job that ends well, and had the directory for itself, leaves every
\* project that the package has running the image of the package with the values
\* of the site -- unless a zip was left half expanded or a compose file cut.
Half(z) == z \in dirs /\ \E f \in Held(z) : ~Visible(f)
Pristine ==
  /\ AllExpanded
  /\ \A f \in Name : file[f] # "torn"
  /\ \A z \in Zips : ~Half(z)
  /\ \A p \in Project : compose[p] # "cut"
EndsWell(j, kind) == job[j].kind = kind /\ job'[j].end = "ok" /\ job[j].pc # "idle"
OkMeansAll ==
  [][\A j \in Jobs : EndsWell(j, "full") /\ crew = 1 /\ Pristine =>
       /\ env = Project
       /\ \A p \in Project : running'[p] = {Names[p]}]_vars

\* What java:8 names is the image of java8.tar, or one that was delivered under that
\* name: a tag is given to what the load of that .tar brought, and with one job at a
\* time nothing else comes in between.
BaseIsBase ==
  crew = 1 => \/ images[Base] \in {"none"} \cup {ImageIn[t] : t \in BaseTars}
              \/ images[Base] = Base /\ Base \in Older \cup {ImageIn[t] : t \in TarZips}

\* Every job ends: passes and rounds are bounded, commands have a timeout.
EveryJobEnds == \A j \in Jobs : ~At(j, "idle") ~> At(j, "idle")

\* Options: expand, load, change .env, compose up, in this order.
UpHasSiteEnv ==
  [][\A j \in Jobs : At(j, "compose") /\ job[j].kind \in {"full", "build"} /\ running' # running
        => This(j) \in env]_vars

\* deploy.go:92: docker-compose.yaml is not changed, with the exception of Kafka.
ComposeIsKept == \A p \in Project : compose[p] = Names[p]
====
