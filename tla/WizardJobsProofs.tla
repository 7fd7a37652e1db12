-------------------------- MODULE WizardJobsProofs --------------------------
(***************************************************************************)
(* Proofs about the marks of the wizard (WizardJobs), for any modules in   *)
(* the steps and any number of clicks and of broken connections.           *)
(*                                                                         *)
(* MarksAreEarned speaks of the steps that are done.  A step is marked     *)
(* because of a flag, a flag because of a job that has ended, and the end  *)
(* is told to the function that waits: so the invariant says of the flags  *)
(* what it says of the steps, and of every function that the job it waits  *)
(* for is one for the work it is about to mark.                            *)
(*                                                                         *)
(* ChainMeansAll speaks of the moment "deploy all" marks its step; the     *)
(* invariant for it (ChainCall) says of every chain, at any time, that     *)
(* what is behind it was deployed since the click and that the rest of     *)
(* the step is ahead of it.                                                *)
(***************************************************************************)
EXTENDS WizardJobs, SequenceTheorems, TLAPS

\* STRING, with those of its elements spelt out that are used: to the provers
\* it is any set.
Word ==
    STRING \cup {"module", "monitor", "init", "import", "nginx", "verify", "look", "all", "plain", "patch",
                 "docker", "database", "middleware", "business", "standalone", "elsewhere"}

Keys == {Key(i) : i \in Steps}
Flags == {"init", "import", "nginx", "verify"}
Places == {"write", "look", "lookagain", "post", "posted", "wait", "error"}

PageType == [step : Steps, reached : Steps, done : SUBSET Keys, flags : SUBSET Flags, busy : BOOLEAN]
CallType == [what : Word, key : Word, rest : Seq(Word), at : Places, job : Nat, from : Nat]
JobType == [of : Word, is : {"running", "ok", "fail", "ok-imported"}]

\* A job of js was for this work and has ended well.
Succeeded(js, work) == \E j \in DOMAIN js : js[j].of = work /\ js[j].is \in {"ok", "ok-imported"}
Imported(js) ==
    \E j \in DOMAIN js : \/ js[j].of = "import" /\ js[j].is \in {"ok", "ok-imported"}
                         \/ js[j].of = "nacos" /\ js[j].is = "ok-imported"

\* What the flags and the steps of p mean, given the jobs.
Earned(p, js) ==
    /\ "init" \in p.flags \/ "docker" \in p.done => Succeeded(js, "init")
    /\ "import" \in p.flags \/ ("middleware" \in p.done /\ HasNacos) => Imported(js)

PageInv(p, js) == p \in PageType /\ p.step <= p.reached /\ Earned(p, js)

\* A function of the page, and the job it has made.
CallInv(c, js) ==
    /\ c \in CallType
    /\ c.what \in {"all", "module"} => c.key \in Phases
    /\ c.what \in {"init", "import"} => Head(c.rest) = c.what
    /\ c.what \notin {"patch", "look"} => c.rest # <<>>
    /\ c.what = "patch" => c.at = "write"
    /\ c.what = "look" => c.at = "look"
    /\ c.at \in {"posted", "wait"} => c.job \in DOMAIN js /\ js[c.job].of = Head(c.rest)

\* One function waits, on the socket of the page.
SocketInv(cs, s, js) ==
    /\ s \in 0..Len(js)
    /\ \A c \in cs : c.at = "wait" => c.job = s
    /\ \A c, d \in cs : c.at = "wait" /\ d.at = "wait" => c = d

JobsInv ==
    /\ jobs \in Seq(JobType)
    /\ PageInv(page, jobs)
    /\ \A c \in calls : CallInv(c, jobs)
    /\ SocketInv(calls, sock, jobs)

\* Jobs come and end; an end is final.
Grows(js, ks) ==
    /\ ks \in Seq(JobType) /\ Len(js) <= Len(ks)
    /\ \A j \in DOMAIN js : ks[j].of = js[j].of /\ (js[j].is # "running" => ks[j].is = js[j].is)

-----------------------------------------------------------------------------
(* Facts about the definitions.                                             *)

LEMMA Words ==
    /\ "module" \in Word /\ "monitor" \in Word /\ "init" \in Word /\ "import" \in Word /\ "nginx" \in Word
    /\ "verify" \in Word /\ "look" \in Word /\ "all" \in Word /\ "plain" \in Word /\ "patch" \in Word
    /\ "docker" \in Word /\ "database" \in Word /\ "middleware" \in Word /\ "business" \in Word
    /\ "standalone" \in Word /\ "elsewhere" \in Word
BY DEF Word

LEMMA TheSteps ==
    /\ Steps = 0..7 /\ Len(fieldStepDefs) = 7
    /\ Key(0) = "site" /\ Key(1) = "docker" /\ Key(2) = "database" /\ Key(3) = "middleware"
    /\ Key(4) = "business" /\ Key(5) = "standalone" /\ Key(6) = "nginx" /\ Key(7) = "verify"
BY DEF Steps, Key, fieldStepDefs

LEMMA TheKeys ==
    Keys = {"site", "docker", "database", "middleware", "business", "standalone", "nginx", "verify"}
<1>1. \A i \in 0..7 : i \in {0, 1, 2, 3, 4, 5, 6, 7}
  OBVIOUS
<1> QED
  BY <1>1, TheSteps DEF Keys

LEMMA TailOfMore ==
    ASSUME NEW S, NEW s \in Seq(S), Len(s) > 1
    PROVE  Tail(s) \in Seq(S) /\ Tail(s) # <<>>
<1> DEFINE t == Tail(s)
<1>1. Len(<<>>) = 0 /\ Len(s) # 0
  BY EmptySeq, LenProperties
<1>2. s # <<>>
  BY <1>1
<1>3. t \in Seq(S) /\ Len(t) = Len(s) - 1
  BY <1>2, HeadTailProperties
<1> HIDE DEF t
<1>4. Len(t) > 0
  BY <1>3, LenProperties
<1>5. t # <<>>
  BY <1>1, <1>4
<1> QED
  BY <1>3, <1>5 DEF t

LEMMA PageGrows ==
    ASSUME NEW p, NEW js \in Seq(JobType), NEW ks, Grows(js, ks), PageInv(p, js)
    PROVE  PageInv(p, ks)
<1>1. ks \in Seq(JobType) /\ DOMAIN js = 1..Len(js) /\ DOMAIN ks = 1..Len(ks)
  BY DEF Grows
<1>2. \A j \in DOMAIN js : j \in DOMAIN ks
  BY <1>1, LenProperties DEF Grows
<1>3. \A work : Succeeded(js, work) => Succeeded(ks, work)
  BY <1>2 DEF Succeeded, Grows
<1>4. Imported(js) => Imported(ks)
  BY <1>2 DEF Imported, Grows
<1> QED
  BY <1>3, <1>4 DEF PageInv, Earned

LEMMA CallGrows ==
    ASSUME NEW c, NEW js \in Seq(JobType), NEW ks, Grows(js, ks), CallInv(c, js)
    PROVE  CallInv(c, ks)
<1>1. ks \in Seq(JobType) /\ DOMAIN js = 1..Len(js) /\ DOMAIN ks = 1..Len(ks)
  BY DEF Grows
<1>2. \A j \in DOMAIN js : j \in DOMAIN ks
  BY <1>1, LenProperties DEF Grows
<1> QED
  BY <1>2 DEF CallInv, Grows

\* What functions do to the page leaves its invariant alone.
LEMMA BusyChanges ==
    ASSUME NEW p, NEW js, PageInv(p, js), NEW b \in BOOLEAN
    PROVE  PageInv([p EXCEPT !.busy = b], js)
<1> DEFINE q == [p EXCEPT !.busy = b]
<1>1. p \in PageType
  BY DEF PageInv
<1>2. /\ q \in PageType
      /\ q.step = p.step /\ q.reached = p.reached /\ q.done = p.done /\ q.flags = p.flags
  BY <1>1, Zenon DEF PageType
<1> HIDE DEF q
<1>3. PageInv(q, js)
  BY <1>2 DEF PageInv, Earned
<1> QED
  BY <1>3 DEF q

\* A flag may always be taken away, and set when it is earned.
LEMMA FlagsChange ==
    ASSUME NEW p, NEW js, PageInv(p, js), NEW fs \in SUBSET Flags,
           "init" \in fs => "init" \in p.flags \/ Succeeded(js, "init"),
           "import" \in fs => "import" \in p.flags \/ Imported(js)
    PROVE  PageInv([p EXCEPT !.flags = fs], js)
<1> DEFINE q == [p EXCEPT !.flags = fs]
<1>1. p \in PageType
  BY DEF PageInv
<1>2. /\ q \in PageType
      /\ q.step = p.step /\ q.reached = p.reached /\ q.done = p.done /\ q.flags = fs
  BY <1>1, Zenon DEF PageType
<1> HIDE DEF q
<1>3. PageInv(q, js)
  BY <1>2 DEF PageInv, Earned
<1> QED
  BY <1>3 DEF q

\* So may the mark of a step.
LEMMA DoneChanges ==
    ASSUME NEW p, NEW js, PageInv(p, js), NEW ds \in SUBSET Keys,
           "docker" \in ds => "docker" \in p.done \/ Succeeded(js, "init"),
           "middleware" \in ds /\ HasNacos => "middleware" \in p.done \/ Imported(js)
    PROVE  PageInv([p EXCEPT !.done = ds], js)
<1> DEFINE q == [p EXCEPT !.done = ds]
<1>1. p \in PageType
  BY DEF PageInv
<1>2. /\ q \in PageType
      /\ q.step = p.step /\ q.reached = p.reached /\ q.done = ds /\ q.flags = p.flags
  BY <1>1, Zenon DEF PageType
<1> HIDE DEF q
<1>3. PageInv(q, js)
  BY <1>2 DEF PageInv, Earned
<1> QED
  BY <1>3 DEF q

LEMMA StepMoves ==
    ASSUME NEW p, NEW js, PageInv(p, js), NEW i \in Steps
    PROVE  PageInv([p EXCEPT !.step = i, !.reached = IF i > @ THEN i ELSE @], js)
<1> DEFINE top == IF i > p.reached THEN i ELSE p.reached
           q == [p EXCEPT !.step = i, !.reached = top]
<1>1. p \in PageType /\ p.reached \in Steps
  BY DEF PageInv, PageType
<1>2. top \in Steps /\ i <= top
  BY <1>1, TheSteps
<1> HIDE DEF top
<1>3. /\ q \in PageType
      /\ q.step = i /\ q.reached = top /\ q.done = p.done /\ q.flags = p.flags
  BY <1>1, <1>2, Zenon DEF PageType
<1> HIDE DEF q
<1>4. PageInv(q, js)
  BY <1>2, <1>3 DEF PageInv, Earned
<1> QED
  BY <1>4 DEF q, top

\* Marked: the flag and the step, when it went well.
LEMMA MarkedWell ==
    ASSUME NEW p, NEW js, PageInv(p, js), NEW ok \in BOOLEAN, NEW flag \in Flags, NEW key \in Keys,
           flag # "init", key # "docker",
           ok /\ (flag = "import" \/ key = "middleware") => Imported(js)
    PROVE  PageInv(Marked(p, flag, key, ok), js)
<1> DEFINE fs == IF ok THEN p.flags \cup {flag} ELSE p.flags \ {flag}
           ds == IF ok THEN p.done \cup {key} ELSE p.done
           q == [p EXCEPT !.flags = fs]
<1>1. p \in PageType /\ p.flags \in SUBSET Flags /\ p.done \in SUBSET Keys
  BY DEF PageInv, PageType
<1>2. fs \in SUBSET Flags /\ ds \in SUBSET Keys
  BY <1>1
<1>3. ("init" \in fs => "init" \in p.flags) /\ ("import" \in fs => "import" \in p.flags \/ Imported(js))
  OBVIOUS
<1>4. ("docker" \in ds => "docker" \in p.done) /\ ("middleware" \in ds => "middleware" \in p.done \/ Imported(js))
  OBVIOUS
<1>5. Marked(p, flag, key, ok) = [q EXCEPT !.done = ds] /\ q.done = p.done
  BY <1>1 DEF Marked, PageType
<1> HIDE DEF fs, ds
<1>6. PageInv(q, js)
  BY <1>2, <1>3, FlagsChange
<1> HIDE DEF q
<1>7. PageInv([q EXCEPT !.done = ds], js)
  BY <1>2, <1>4, <1>5, <1>6, DoneChanges
<1> QED
  BY <1>5, <1>7

\* stepDeployed: the middleware is marked only when the flag of the import is set.
LEMMA DeployedWell ==
    ASSUME NEW p, NEW js, PageInv(p, js), NEW phase \in Phases
    PROVE  PageInv(stepDeployed(p, phase), js)
<1>1. p \in PageType /\ p.done \in SUBSET Keys /\ phase \in Keys /\ phase # "docker"
  BY TheKeys DEF PageInv, PageType, Phases
<1>2. CASE Needs(phase) /\ "import" \notin p.flags
  <2>1. stepDeployed(p, phase) = [p EXCEPT !.done = p.done \ {phase}]
    BY <1>2 DEF stepDeployed
  <2>2. \E ds \in SUBSET Keys : ds = p.done \ {phase} /\ \A k \in ds : k \in p.done
    BY <1>1
  <2> QED
    BY <2>1, <2>2, DoneChanges
<1>3. CASE ~(Needs(phase) /\ "import" \notin p.flags)
  <2>1. stepDeployed(p, phase) = [p EXCEPT !.done = p.done \cup {phase}]
    BY <1>3 DEF stepDeployed
  <2>2. p.done \cup {phase} \in SUBSET Keys
    BY <1>1
  <2>3. phase = "middleware" /\ HasNacos => Imported(js)
    BY <1>3 DEF Needs, PageInv, Earned
  <2> QED
    BY <1>1, <2>1, <2>2, <2>3, DoneChanges
<1> QED
  BY <1>2, <1>3

LEMMA ModuleMarkedWell ==
    ASSUME NEW p, NEW js, PageInv(p, js), NEW m, NEW logged \in BOOLEAN,
           m = "nacos" /\ logged => Imported(js)
    PROVE  PageInv(ModuleMark(p, m, logged), js)
<1> DEFINE fs == IF logged THEN p.flags \cup {"import"} ELSE p.flags \ {"import"}
<1>1. p.flags \in SUBSET Flags
  BY DEF PageInv, PageType
<1>2. CASE m = "nacos"
  <2>1. ModuleMark(p, m, logged) = [p EXCEPT !.flags = fs]
    BY <1>2 DEF ModuleMark
  <2>2. fs \in SUBSET Flags
    BY <1>1 DEF Flags
  <2>3. ("init" \in fs => "init" \in p.flags) /\ ("import" \in fs => "import" \in p.flags \/ Imported(js))
    BY <1>2
  <2> HIDE DEF fs
  <2> QED
    BY <2>1, <2>2, <2>3, FlagsChange
<1>3. CASE m # "nacos"
  BY <1>3 DEF ModuleMark
<1> QED
  BY <1>2, <1>3

LEMMA StartedWell ==
    ASSUME NEW p, NEW js, PageInv(p, js), NEW c
    PROVE  PageInv(started(p, c), js)
<1> DEFINE q == [p EXCEPT !.busy = TRUE]
<1>1. PageInv(q, js)
  BY BusyChanges
<1>2. p \in PageType /\ p.flags \in SUBSET Flags /\ q.flags = p.flags
  BY DEF PageInv, PageType
<1>3. started(p, c) = [q EXCEPT !.flags = p.flags \ Unmarks(c)]
  BY <1>2 DEF started, PageType
<1> HIDE DEF q
<1>4. p.flags \ Unmarks(c) \in SUBSET Flags
  BY <1>2
<1>5. PageInv([q EXCEPT !.flags = p.flags \ Unmarks(c)], js)
  BY <1>1, <1>2, <1>4, FlagsChange
<1> QED
  BY <1>3, <1>5
-----------------------------------------------------------------------------
(* Functions that come, go on, and end.                                     *)

\* A call goes on, not to wait.
LEMMA CallGoesOn ==
    ASSUME NEW cs, NEW s, NEW js, SocketInv(cs, s, js), \A e \in cs : CallInv(e, js),
           NEW c, NEW d, CallInv(d, js), d.at # "wait"
    PROVE  /\ \A e \in (cs \ {c}) \cup {d} : CallInv(e, js)
           /\ SocketInv((cs \ {c}) \cup {d}, s, js)
BY DEF SocketInv

LEMMA CallsGo ==
    ASSUME NEW cs, NEW ds, ds \subseteq cs, NEW s, NEW js, SocketInv(cs, s, js), \A e \in cs : CallInv(e, js)
    PROVE  /\ \A e \in ds : CallInv(e, js)
           /\ SocketInv(ds, s, js)
BY DEF SocketInv

LEMMA FinishWell ==
    ASSUME JobsInv, NEW c, NEW p, PageInv(p, jobs), Finish(c, p)
    PROVE  /\ PageInv(page', jobs)
           /\ calls' \subseteq calls \ {c}
<1>1. PageInv([p EXCEPT !.busy = FALSE], jobs)
  BY BusyChanges
<1> QED
  BY <1>1 DEF Finish

\* The end of a wait, if what it tells is true, leaves the page a right one;
\* the call is gone, or goes on to another module or another look.
LEMMA EndedWell ==
    ASSUME JobsInv, NEW c \in calls, NEW ok \in BOOLEAN, NEW some \in BOOLEAN, Ended(c, ok, some),
           ok => Succeeded(jobs, Head(c.rest)),
           ok /\ some /\ Head(c.rest) = "nacos" => Imported(jobs)
    PROVE  /\ PageInv(page', jobs)
           /\ \/ calls' \subseteq calls \ {c}
              \/ \E d : calls' = (calls \ {c}) \cup {d} /\ d.at # "wait" /\ CallInv(d, jobs)
<1> DEFINE p == IF ok /\ c.what \in {"module", "all"} THEN ModuleMark(page, Head(c.rest), some) ELSE page
<1>1. PageInv(page, jobs) /\ CallInv(c, jobs)
  BY DEF JobsInv
<1>2. PageInv(p, jobs)
  BY <1>1, ModuleMarkedWell
<1>3. Ended(c, ok, some) =
        CASE c.what = "all" -> NextModule(c, p, ok)
          [] c.what = "module" -> Finish(c, IF ok /\ c.key = "standalone" THEN stepDeployed(p, c.key) ELSE p)
          [] c.what = "init" -> Finish(c, [p EXCEPT !.flags = IF ok THEN @ \cup {"init"} ELSE @ \ {"init"}])
          [] c.what = "import" -> Finish(c, Marked(p, "import", "middleware", ok))
          [] c.what = "verify" -> Finish(c, Marked(p, "verify", "verify", ok \/ some))
          [] c.what = "nginx" -> page' = Marked(p, "nginx", "nginx", ok) /\ Become(c, [c EXCEPT !.at = "lookagain"])
          [] OTHER -> Finish(c, p)
  BY DEF Ended
<1> HIDE DEF p
<1>4. ok /\ Head(c.rest) = "import" => Imported(jobs)
  BY DEF Succeeded, Imported
<1>5. CASE c.what = "all"
  <2>1. NextModule(c, p, ok)
    BY <1>3, <1>5
  <2> DEFINE d == [c EXCEPT !.rest = Tail(@), !.at = "post", !.job = 0]
  <2>2. CASE Len(c.rest) > 1 /\ page' = p /\ Become(c, d)
    <3>0. Len(c.rest) > 1
      BY <2>2
    <3>1. page' = p /\ calls' = (calls \ {c}) \cup {d}
      BY <2>2 DEF Become
    <3>2. c \in CallType /\ c.rest \in Seq(Word) /\ c.rest # <<>> /\ c.key \in Phases
      BY <1>1, <1>5 DEF CallInv, CallType
    <3>3. Tail(c.rest) \in Seq(Word) /\ Tail(c.rest) # <<>>
      BY <3>0, <3>2, TailOfMore
    <3>4. /\ d \in CallType
          /\ d.what = "all" /\ d.key = c.key /\ d.rest = Tail(c.rest) /\ d.at = "post"
      BY <1>5, <3>2, <3>3 DEF CallType, Places
    <3> HIDE DEF d
    <3>5. CallInv(d, jobs)
      BY <3>2, <3>3, <3>4 DEF CallInv
    <3> QED
      BY <1>2, <3>1, <3>4, <3>5
  <2>3. CASE Finish(c, stepDeployed(p, c.key))
    <3>1. PageInv(stepDeployed(p, c.key), jobs)
      BY <1>1, <1>2, <1>5, DeployedWell DEF CallInv
    <3> QED
      BY <2>3, <3>1, FinishWell
  <2>4. CASE Finish(c, p)
    BY <1>2, <2>4, FinishWell
  <2> HIDE DEF d
  <2> QED
    BY <2>1, <2>2, <2>3, <2>4, Zenon DEF NextModule, d
<1>6. CASE c.what = "module"
  <2>1. CASE ok /\ c.key = "standalone"
    <3>1. Finish(c, stepDeployed(p, c.key))
      BY <1>3, <1>6, <2>1
    <3>2. PageInv(stepDeployed(p, c.key), jobs)
      BY <1>1, <1>2, <1>6, DeployedWell DEF CallInv
    <3> QED
      BY <3>1, <3>2, FinishWell
  <2>2. CASE ~(ok /\ c.key = "standalone")
    BY <1>2, <1>3, <1>6, <2>2, FinishWell
  <2> QED
    BY <2>1, <2>2
<1>7. CASE c.what = "init"
  <2> DEFINE fs == IF ok THEN p.flags \cup {"init"} ELSE p.flags \ {"init"}
  <2>1. Finish(c, [p EXCEPT !.flags = fs])
    BY <1>3, <1>7
  <2>2. fs \in SUBSET Flags
    BY <1>2 DEF PageInv, PageType, Flags
  <2>3. ("init" \in fs => Succeeded(jobs, "init")) /\ ("import" \in fs => "import" \in p.flags)
    BY <1>1, <1>7 DEF CallInv
  <2> HIDE DEF fs
  <2>4. PageInv([p EXCEPT !.flags = fs], jobs)
    BY <1>2, <2>2, <2>3, FlagsChange
  <2> QED
    BY <2>1, <2>4, FinishWell
<1>8. CASE c.what = "import"
  <2>1. Finish(c, Marked(p, "import", "middleware", ok))
    BY <1>3, <1>8
  <2>2. ok => Imported(jobs)
    BY <1>1, <1>4, <1>8 DEF CallInv
  <2>3. PageInv(Marked(p, "import", "middleware", ok), jobs)
    BY <1>2, <2>2, MarkedWell, TheKeys DEF Flags
  <2> QED
    BY <2>1, <2>3, FinishWell
<1>9. CASE c.what = "verify"
  <2>1. Finish(c, Marked(p, "verify", "verify", ok \/ some))
    BY <1>3, <1>9
  <2>2. PageInv(Marked(p, "verify", "verify", ok \/ some), jobs)
    BY <1>2, MarkedWell, TheKeys DEF Flags
  <2> QED
    BY <2>1, <2>2, FinishWell
<1>10. CASE c.what = "nginx"
  <2> DEFINE d == [c EXCEPT !.at = "lookagain"]
  <2>1. page' = Marked(p, "nginx", "nginx", ok) /\ calls' = (calls \ {c}) \cup {d}
    BY <1>3, <1>10 DEF Become
  <2>2. PageInv(Marked(p, "nginx", "nginx", ok), jobs)
    BY <1>2, MarkedWell, TheKeys DEF Flags
  <2>3. d \in CallType /\ d.what = "nginx" /\ d.rest = c.rest /\ d.at = "lookagain"
    BY <1>1, <1>10 DEF CallInv, CallType, Places
  <2> HIDE DEF d
  <2>4. CallInv(d, jobs)
    BY <1>1, <1>10, <2>3 DEF CallInv
  <2> QED
    BY <2>1, <2>2, <2>3, <2>4
<1>11. CASE c.what \notin {"all", "module", "init", "import", "verify", "nginx"}
  BY <1>2, <1>3, <1>11, FinishWell
<1> QED
  BY <1>5, <1>6, <1>7, <1>8, <1>9, <1>10, <1>11
-----------------------------------------------------------------------------
(* The steps.                                                               *)

\* While the server and the socket stay as they are, the page and the calls
\* are what has to be looked at.
LEMMA OnThePage ==
    ASSUME JobsInv, jobs' = jobs, sock' = sock, PageInv(page', jobs),
           \A e \in calls' : CallInv(e, jobs), SocketInv(calls', sock, jobs)
    PROVE  JobsInv'
BY DEF JobsInv

LEMMA NewCall ==
    ASSUME JobsInv, NEW d, CallInv(d, jobs), d.at # "wait"
    PROVE  /\ \A e \in calls \cup {d} : CallInv(e, jobs)
           /\ SocketInv(calls \cup {d}, sock, jobs)
BY DEF JobsInv, SocketInv

\* A function ends without a mark.
LEMMA FinishStep ==
    ASSUME JobsInv, jobs' = jobs, sock' = sock, NEW c, NEW p, PageInv(p, jobs), Finish(c, p)
    PROVE  JobsInv'
<1>1. PageInv(page', jobs) /\ calls' \subseteq calls
  BY FinishWell
<1>2. (\A e \in calls' : CallInv(e, jobs)) /\ SocketInv(calls', sock, jobs)
  BY <1>1, CallsGo DEF JobsInv
<1> QED
  BY <1>1, <1>2, OnThePage

\* It goes on.
LEMMA BecomeStep ==
    ASSUME JobsInv, jobs' = jobs, sock' = sock, PageInv(page', jobs),
           NEW c, NEW d, CallInv(d, jobs), d.at # "wait", Become(c, d)
    PROVE  JobsInv'
<1>1. calls' = (calls \ {c}) \cup {d}
  BY DEF Become
<1>2. (\A e \in calls' : CallInv(e, jobs)) /\ SocketInv(calls', sock, jobs)
  BY <1>1, CallGoesOn DEF JobsInv
<1> QED
  BY <1>2, OnThePage

\* c, gone to another place where it has no job yet.
LEMMA Elsewhere ==
    ASSUME NEW js, NEW c, CallInv(c, js), c.what \notin {"patch", "look"}, NEW at \in {"post", "lookagain"}
    PROVE  CallInv([c EXCEPT !.at = at], js)
<1> DEFINE d == [c EXCEPT !.at = at]
<1>1. c \in CallType
  BY DEF CallInv
<1>2. /\ d \in CallType
      /\ d.what = c.what /\ d.key = c.key /\ d.rest = c.rest /\ d.at = at
  BY <1>1 DEF CallType, Places
<1> HIDE DEF d
<1>3. CallInv(d, js)
  BY <1>2 DEF CallInv
<1> QED
  BY <1>3 DEF d

LEMMA WrittenStep ==
    ASSUME JobsInv, NEW c \in calls, Written(c)
    PROVE  JobsInv'
<1>1. PageInv(page, jobs) /\ CallInv(c, jobs) /\ jobs' = jobs /\ sock' = sock /\ c.at = "write"
  BY DEF JobsInv, Written, server
<1>2. CASE c.what # "patch" /\ page' = page /\ Become(c, [c EXCEPT !.at = "post"])
  <2>1. c.what \notin {"patch", "look"}
    BY <1>1, <1>2 DEF CallInv
  <2>2. CallInv([c EXCEPT !.at = "post"], jobs) /\ [c EXCEPT !.at = "post"].at = "post"
    BY <1>1, <2>1, Elsewhere DEF CallInv, CallType
  <2> QED
    BY <1>1, <1>2, <2>2, BecomeStep
<1>3. CASE Finish(c, page)
  BY <1>1, <1>3, FinishStep
<1> QED
  BY <1>2, <1>3 DEF Written

LEMMA LookedStep ==
    ASSUME JobsInv, NEW c \in calls, Looked(c)
    PROVE  JobsInv'
<1>1. PageInv(page, jobs) /\ CallInv(c, jobs) /\ jobs' = jobs /\ sock' = sock
  BY DEF JobsInv, Looked, server
<1>2. PICK p : /\ PageInv(p, jobs)
               /\ \/ page' = p /\ calls' = calls \ {c}
                  \/ Finish(c, p)
                  \/ /\ c.what # "look" /\ c.at # "lookagain"
                     /\ page' = [p EXCEPT !.flags = @ \ {"nginx"}] /\ Become(c, [c EXCEPT !.at = "post"])
  <2>1. PICK seen : LET p == IF seen THEN Marked(page, "nginx", "nginx", TRUE) ELSE page IN
          CASE c.what = "look" -> page' = p /\ calls' = calls \ {c}
            [] c.at = "lookagain" \/ seen -> Finish(c, p)
            [] OTHER -> page' = [p EXCEPT !.flags = @ \ {"nginx"}] /\ Become(c, [c EXCEPT !.at = "post"])
    BY DEF Looked
  <2> DEFINE p == IF seen THEN Marked(page, "nginx", "nginx", TRUE) ELSE page
  <2>2. PageInv(Marked(page, "nginx", "nginx", TRUE), jobs)
    BY <1>1, MarkedWell, TheKeys DEF Flags
  <2>3. PageInv(p, jobs)
    BY <1>1, <2>2
  <2>4. \/ page' = p /\ calls' = calls \ {c}
        \/ Finish(c, p)
        \/ /\ c.what # "look" /\ c.at # "lookagain"
           /\ page' = [p EXCEPT !.flags = @ \ {"nginx"}] /\ Become(c, [c EXCEPT !.at = "post"])
    BY <2>1
  <2> HIDE DEF p
  <2> QED
    BY <2>3, <2>4
<1>3. CASE page' = p /\ calls' = calls \ {c}
  <2>1. (\A e \in calls' : CallInv(e, jobs)) /\ SocketInv(calls', sock, jobs)
    BY <1>3, CallsGo DEF JobsInv
  <2> QED
    BY <1>1, <1>2, <1>3, <2>1, OnThePage
<1>4. CASE Finish(c, p)
  BY <1>1, <1>2, <1>4, FinishStep
<1>5. CASE /\ c.what # "look" /\ c.at # "lookagain"
           /\ page' = [p EXCEPT !.flags = @ \ {"nginx"}] /\ Become(c, [c EXCEPT !.at = "post"])
  <2>1. c.at = "look"
    BY <1>5 DEF Looked
  <2>2. CallInv([c EXCEPT !.at = "post"], jobs) /\ [c EXCEPT !.at = "post"].at = "post"
    BY <1>1, <1>5, <2>1, Elsewhere DEF CallInv, CallType
  <2>3. \E fs \in SUBSET Flags : fs = p.flags \ {"nginx"} /\ \A f \in fs : f \in p.flags
    BY <1>2 DEF PageInv, PageType
  <2>4. PageInv(page', jobs)
    BY <1>2, <1>5, <2>3, FlagsChange
  <2> QED
    BY <1>1, <1>5, <2>2, <2>4, BecomeStep
<1> QED
  BY <1>2, <1>3, <1>4, <1>5

\* Jobs change: the page and the other calls stay right.
LEMMA JobsChange ==
    ASSUME JobsInv, NEW js, Grows(jobs, js)
    PROVE  /\ js \in Seq(JobType) /\ PageInv(page, js)
           /\ \A e \in calls : CallInv(e, js)
           /\ SocketInv(calls, sock, js)
<1>1. jobs \in Seq(JobType) /\ Len(jobs) \in Nat /\ Len(js) \in Nat /\ Len(jobs) <= Len(js)
  BY LenProperties DEF JobsInv, Grows
<1>2. SocketInv(calls, sock, js)
  BY <1>1 DEF JobsInv, SocketInv
<1> QED
  BY <1>1, <1>2, PageGrows, CallGrows DEF JobsInv, Grows

LEMMA PostedStep ==
    ASSUME JobsInv, NEW c \in calls, Posted(c)
    PROVE  JobsInv'
<1>1. /\ PageInv(page, jobs) /\ CallInv(c, jobs) /\ sock' = sock /\ c.at = "post" /\ jobs \in Seq(JobType)
  BY DEF JobsInv, Posted
<1>2. CASE jobs' = jobs /\ Finish(c, page)
  BY <1>1, <1>2, FinishStep
<1>3. CASE /\ jobs' = Append(jobs, [of |-> Head(c.rest), is |-> "running"])
           /\ Become(c, [c EXCEPT !.at = "posted", !.job = Len(jobs) + 1])
           /\ page' = page
  <2> DEFINE new == [of |-> Head(c.rest), is |-> "running"]
             js == Append(jobs, new)
             d == [c EXCEPT !.at = "posted", !.job = Len(jobs) + 1]
  <2>1. c \in CallType /\ c.rest \in Seq(Word) /\ c.rest # <<>> /\ c.what \notin {"patch", "look"}
    BY <1>1 DEF CallInv, CallType
  <2>2. Head(c.rest) \in Word
    BY <2>1, HeadTailProperties
  <2>3. new \in JobType /\ new.of = Head(c.rest)
    BY <2>2 DEF JobType
  <2> HIDE DEF new
  <2>4. /\ js \in Seq(JobType) /\ Len(js) = Len(jobs) + 1
        /\ \A j \in 1..Len(jobs) : js[j] = jobs[j]
        /\ js[Len(jobs) + 1] = new
    BY <1>1, <2>3, AppendProperties
  <2>5. Len(jobs) \in Nat /\ DOMAIN jobs = 1..Len(jobs) /\ DOMAIN js = 1..Len(js)
    BY <1>1, <2>4, LenProperties
  <2> HIDE DEF js
  <2>6. Grows(jobs, js)
    BY <2>4, <2>5 DEF Grows
  <2>7. /\ PageInv(page, js) /\ SocketInv(calls, sock, js)
        /\ \A e \in calls : CallInv(e, js)
    BY <2>6, JobsChange
  <2>8. /\ d \in CallType
        /\ d.what = c.what /\ d.key = c.key /\ d.rest = c.rest /\ d.at = "posted" /\ d.job = Len(jobs) + 1
    <3> DEFINE n == Len(jobs) + 1
    <3>1. n \in Nat
      BY <2>5
    <3> HIDE DEF n
    <3> SUFFICES /\ [c EXCEPT !.at = "posted", !.job = n] \in CallType
                 /\ LET x == [c EXCEPT !.at = "posted", !.job = n] IN
                       x.what = c.what /\ x.key = c.key /\ x.rest = c.rest /\ x.at = "posted" /\ x.job = n
      BY DEF n
    <3> QED
      BY <2>1, <3>1 DEF CallType, Places
  <2>9. jobs' = js /\ calls' = (calls \ {c}) \cup {d} /\ page' = page
    BY <1>3 DEF Become, js, new
  <2> HIDE DEF d
  <2>10. d.job \in DOMAIN js /\ js[d.job].of = Head(d.rest)
    BY <2>3, <2>4, <2>5, <2>8
  <2>11. CallInv(d, js)
    BY <1>1, <2>1, <2>8, <2>10 DEF CallInv
  <2>12. (\A e \in calls' : CallInv(e, js)) /\ SocketInv(calls', sock, js)
    BY <2>7, <2>8, <2>9, <2>11, CallGoesOn
  <2> QED
    BY <1>1, <2>4, <2>7, <2>9, <2>12 DEF JobsInv
<1> QED
  BY <1>2, <1>3 DEF Posted

LEMMA WatchStep ==
    ASSUME JobsInv, NEW c \in calls, watchJob(c)
    PROVE  JobsInv'
<1> DEFINE before == {d \in calls : d.at = "wait" /\ d.job = sock}
           others == calls \ ({c} \cup before)
           failed == {[d EXCEPT !.at = "error"] : d \in before}
           w == [c EXCEPT !.at = "wait"]
<1>1. /\ jobs' = jobs /\ page' = page /\ sock' = c.job /\ c.at = "posted"
      /\ PageInv(page, jobs) /\ CallInv(c, jobs) /\ jobs \in Seq(JobType) /\ SocketInv(calls, sock, jobs)
  BY DEF JobsInv, watchJob, server
<1>2. calls' \in {others \cup {w}, others \cup failed \cup {w}}
  BY DEF watchJob
<1>3. \A e \in calls : CallInv(e, jobs)
  BY DEF JobsInv
<1>4. \A e \in others : e \in calls /\ e.at # "wait"
  BY <1>1 DEF SocketInv
<1>5. \A e \in failed : CallInv(e, jobs) /\ e.at # "wait"
  <2> SUFFICES ASSUME NEW d \in before
               PROVE  CallInv([d EXCEPT !.at = "error"], jobs) /\ [d EXCEPT !.at = "error"].at # "wait"
    OBVIOUS
  <2> DEFINE x == [d EXCEPT !.at = "error"]
  <2>1. CallInv(d, jobs) /\ d \in CallType /\ d.what \notin {"patch", "look"}
    BY <1>3 DEF CallInv
  <2>2. x \in CallType /\ x.what = d.what /\ x.key = d.key /\ x.rest = d.rest /\ x.at = "error"
    BY <2>1 DEF CallType, Places
  <2> HIDE DEF x
  <2>3. CallInv(x, jobs) /\ x.at # "wait"
    BY <2>1, <2>2 DEF CallInv
  <2> QED
    BY <2>3 DEF x
<1>6. CallInv(w, jobs) /\ w.at = "wait" /\ w.job = c.job /\ c.job \in DOMAIN jobs
  <2>1. c \in CallType /\ c.what \notin {"patch", "look"} /\ c.job \in DOMAIN jobs
    BY <1>1 DEF CallInv
  <2>2. w \in CallType /\ w.what = c.what /\ w.key = c.key /\ w.rest = c.rest /\ w.at = "wait" /\ w.job = c.job
    BY <2>1 DEF CallType, Places
  <2> HIDE DEF w
  <2> QED
    BY <1>1, <2>1, <2>2 DEF CallInv
<1> HIDE DEF others, failed, w
<1>7. \A e \in calls' : CallInv(e, jobs) /\ (e.at = "wait" => e = w)
  BY <1>2, <1>3, <1>4, <1>5, <1>6
<1>8. c.job \in 0..Len(jobs)
  BY <1>1, <1>6, LenProperties
<1>9. SocketInv(calls', c.job, jobs)
  BY <1>6, <1>7, <1>8 DEF SocketInv
<1> QED
  BY <1>1, <1>7, <1>9 DEF JobsInv

\* The wait of c is over, whatever ended it, and nobody waits any more.
LEMMA OverStep ==
    ASSUME JobsInv, NEW c \in calls, c.at = "wait", PageInv(page', jobs), jobs' = jobs, sock' = 0,
           \/ calls' \subseteq calls \ {c}
           \/ \E d : calls' = (calls \ {c}) \cup {d} /\ d.at # "wait" /\ CallInv(d, jobs)
    PROVE  JobsInv'
<1>1. /\ SocketInv(calls, sock, jobs) /\ \A e \in calls : CallInv(e, jobs)
      /\ jobs \in Seq(JobType)
  BY DEF JobsInv
<1>2. \A e \in calls \ {c} : e.at # "wait"
  BY <1>1 DEF SocketInv
<1>3. \A e \in calls' : CallInv(e, jobs) /\ e.at # "wait"
  BY <1>1, <1>2
<1>4. 0 \in 0..Len(jobs)
  BY <1>1, LenProperties
<1>5. SocketInv(calls', 0, jobs)
  BY <1>3, <1>4 DEF SocketInv
<1> QED
  BY <1>1, <1>3, <1>5 DEF JobsInv

LEMMA ToldStep ==
    ASSUME JobsInv, NEW c \in calls, Told(c)
    PROVE  JobsInv'
<1> DEFINE ok == jobs[c.job].is # "fail"
<1>1. /\ c.at = "wait" /\ jobs[c.job].is # "running" /\ sock' = 0 /\ jobs' = jobs
      /\ CallInv(c, jobs) /\ jobs \in Seq(JobType)
  BY DEF JobsInv, Told, server
<1>2. PICK some \in BOOLEAN : /\ some /\ c.what # "verify" => jobs[c.job].is = "ok-imported"
                              /\ jobs[c.job].is = "ok-imported" => some
                              /\ Ended(c, ok, some)
  BY DEF Told
<1>3. c.job \in DOMAIN jobs /\ jobs[c.job].of = Head(c.rest)
  BY <1>1 DEF CallInv
<1>4. jobs[c.job] \in JobType
  BY <1>1, <1>3, LenProperties
<1>5. jobs[c.job].is \in {"running", "ok", "fail", "ok-imported"}
  BY <1>4 DEF JobType
<1>6. ok => Succeeded(jobs, Head(c.rest))
  BY <1>1, <1>3, <1>5 DEF Succeeded
<1>7. ok \in BOOLEAN
  OBVIOUS
<1> HIDE DEF ok
<1>8. CASE c.what # "verify"
  <2>1. ok /\ some /\ Head(c.rest) = "nacos" => Imported(jobs)
    BY <1>2, <1>3, <1>8 DEF Imported
  <2> QED
    BY <1>1, <1>2, <1>6, <1>7, <2>1, EndedWell, OverStep
<1>9. CASE c.what = "verify"
  <2>1. Finish(c, Marked(page, "verify", "verify", ok \/ some))
    BY <1>2, <1>9 DEF Ended
  <2>2. PageInv(Marked(page, "verify", "verify", ok \/ some), jobs)
    BY MarkedWell, TheKeys DEF Flags, JobsInv
  <2>3. PageInv(page', jobs) /\ calls' \subseteq calls \ {c}
    BY <2>1, <2>2, FinishWell
  <2> QED
    BY <1>1, <2>3, OverStep
<1> QED
  BY <1>8, <1>9

LEMMA InterruptedStep ==
    ASSUME JobsInv, NEW c \in calls, Interrupted(c)
    PROVE  JobsInv'
<1>1. Ended(c, FALSE, FALSE) /\ jobs' = jobs /\ sock' = sock
  BY DEF Interrupted, server
<1>2. /\ PageInv(page', jobs)
      /\ \/ calls' \subseteq calls \ {c}
         \/ \E d : calls' = (calls \ {c}) \cup {d} /\ d.at # "wait" /\ CallInv(d, jobs)
  BY <1>1, EndedWell
<1>3. (\A e \in calls : CallInv(e, jobs)) /\ SocketInv(calls, sock, jobs)
  BY DEF JobsInv
<1>4. CASE calls' \subseteq calls \ {c}
  <2>1. calls' \subseteq calls
    BY <1>4
  <2>2. (\A e \in calls' : CallInv(e, jobs)) /\ SocketInv(calls', sock, jobs)
    BY <1>3, <2>1, CallsGo
  <2> QED
    BY <1>1, <1>2, <2>2, OnThePage
<1>5. CASE \E d : calls' = (calls \ {c}) \cup {d} /\ d.at # "wait" /\ CallInv(d, jobs)
  <2>1. PICK d : calls' = (calls \ {c}) \cup {d} /\ d.at # "wait" /\ CallInv(d, jobs)
    BY <1>5
  <2>2. /\ \A e \in (calls \ {c}) \cup {d} : CallInv(e, jobs)
        /\ SocketInv((calls \ {c}) \cup {d}, sock, jobs)
    BY <1>3, <2>1, CallGoesOn
  <2>3. (\A e \in calls' : CallInv(e, jobs)) /\ SocketInv(calls', sock, jobs)
    BY <2>1, <2>2
  <2> QED
    BY <1>1, <1>2, <2>3, OnThePage
<1> QED
  BY <1>2, <1>4, <1>5

LEMMA BrokenStep ==
    ASSUME JobsInv, NEW c \in calls, Broken(c)
    PROVE  JobsInv'
<1>1. c.at = "wait" /\ sock' = 0 /\ jobs' = jobs /\ PageInv(page, jobs)
  BY DEF Broken, server, JobsInv
<1>2. CASE Ended(c, FALSE, FALSE)
  BY <1>1, <1>2, EndedWell, OverStep
<1>3. CASE page' = page /\ calls' = calls \ {c}
  BY <1>1, <1>3, OverStep
<1> QED
  BY <1>2, <1>3 DEF Broken

LEMMA JobEndsStep ==
    ASSUME JobsInv, NEW j \in DOMAIN jobs, JobEnds(j)
    PROVE  JobsInv'
<1>1. jobs \in Seq(JobType) /\ jobs[j].is = "running" /\ page' = page /\ calls' = calls /\ sock' = sock
  BY DEF JobsInv, JobEnds
<1>2. PICK end \in {"ok", "fail", "ok-imported"} : jobs' = [jobs EXCEPT ![j].is = end]
  BY DEF JobEnds
<1>3. DOMAIN jobs = 1..Len(jobs) /\ Len(jobs) \in Nat /\ jobs \in [1..Len(jobs) -> JobType]
  BY <1>1, LenProperties
<1>4. /\ jobs' \in [1..Len(jobs) -> JobType]
      /\ \A k \in 1..Len(jobs) : jobs'[k].of = jobs[k].of /\ (k # j => jobs'[k] = jobs[k])
  BY <1>2, <1>3 DEF JobType
<1>5. jobs' \in Seq(JobType) /\ Len(jobs') = Len(jobs)
  BY <1>3, <1>4
<1>6. Grows(jobs, jobs')
  BY <1>1, <1>3, <1>4, <1>5 DEF Grows
<1>7. /\ jobs' \in Seq(JobType) /\ PageInv(page, jobs')
      /\ \A e \in calls : CallInv(e, jobs')
      /\ SocketInv(calls, sock, jobs')
  BY <1>6, JobsChange
<1> QED
  BY <1>1, <1>7 DEF JobsInv
-----------------------------------------------------------------------------
(* The user.                                                                *)

LEMMA ChainOf ==
    ASSUME NEW phase \in Phases
    PROVE  Chain[phase] \in Seq(Word) /\ \A m \in Offered(phase) : m \in Word
<1> DEFINE n == Len(Chain[phase])
<1>0. Chain[phase] \in Seq(STRING) /\ n \in Nat /\ Chain[phase] \in [1..n -> STRING]
  BY JobsAssumption, LenProperties
<1> HIDE DEF n
<1>1. Chain[phase] \in Seq(Word)
  <2>1. Chain[phase] \in [1..n -> Word]
    BY <1>0 DEF Word
  <2> QED
    BY <1>0, <2>1
<1>2. \A i \in DOMAIN Chain[phase] : Chain[phase][i] \in Word
  BY <1>1, LenProperties
<1> QED
  BY <1>1, <1>2 DEF Offered

\* A function that has just been called has no job, so it is a right one as
\* soon as it has what it needs for one.
LEMMA Called ==
    ASSUME jobs \in Seq(JobType), NEW what \in Word, NEW key \in Word, NEW rest \in Seq(Word),
           NEW at \in {"write", "look", "post"},
           what \in {"all", "module"} => key \in Phases,
           what \in {"init", "import"} => rest = <<what>>,
           what \notin {"patch", "look"} => rest # <<>>,
           what = "patch" => at = "write",
           what = "look" => at = "look"
    PROVE  CallInv(Call(what, key, rest, at), jobs) /\ Call(what, key, rest, at).at # "wait"
<1> DEFINE n == Len(jobs)
           c == [what |-> what, key |-> key, rest |-> rest, at |-> at, job |-> 0, from |-> n]
<1>1. n \in Nat
  BY LenProperties
<1> HIDE DEF n
<1>2. /\ c \in CallType
      /\ c.what = what /\ c.key = key /\ c.rest = rest /\ c.at = at
  BY <1>1 DEF CallType, Places
<1>3. c = Call(what, key, rest, at)
  BY DEF Call, n
<1> HIDE DEF c
<1>4. what \in {"init", "import"} => Head(rest) = what
  OBVIOUS
<1>5. CallInv(c, jobs) /\ c.at # "wait"
  BY <1>2, <1>4 DEF CallInv
<1> QED
  BY <1>3, <1>5

\* With one piece of work.
LEMMA CalledOnce ==
    ASSUME jobs \in Seq(JobType), NEW what \in Word, NEW key \in Word, NEW m \in Word,
           NEW at \in {"write", "look", "post"},
           what \notin {"all", "patch", "look"},
           what = "module" => key \in Phases,
           what \in {"init", "import"} => m = what
    PROVE  CallInv(Call(what, key, <<m>>, at), jobs) /\ Call(what, key, <<m>>, at).at # "wait"
<1>1. <<m>> \in Seq(Word) /\ <<m>> # <<>>
  OBVIOUS
<1> DEFINE rest == <<m>>
<1>2. what \in {"init", "import"} => rest = <<what>>
  OBVIOUS
<1>3. rest \in Seq(Word) /\ rest # <<>>
  BY <1>1
<1> HIDE DEF rest
<1>4. CallInv(Call(what, key, rest, at), jobs) /\ Call(what, key, rest, at).at # "wait"
  BY <1>2, <1>3, Called
<1> QED
  BY <1>4 DEF rest

\* With none.
LEMMA CalledEmpty ==
    ASSUME jobs \in Seq(JobType), NEW what \in Word, NEW key \in Word, NEW at \in {"write", "look"},
           <<what, at>> \in {<<"patch", "write">>, <<"look", "look">>}
    PROVE  CallInv(Call(what, key, <<>>, at), jobs) /\ Call(what, key, <<>>, at).at # "wait"
<1>1. <<>> \in Seq(Word)
  OBVIOUS
<1>2. what \in {"patch", "look"} /\ (what = "patch" => at = "write") /\ (what = "look" => at = "look")
  OBVIOUS
<1> QED
  BY <1>1, <1>2, Called

LEMMA ModuleCalls ==
    ASSUME jobs \in Seq(JobType), NEW phase \in Phases, NEW m \in Offered(phase)
    PROVE  /\ CallInv(runModuleDeploy(phase, m), jobs) /\ runModuleDeploy(phase, m).at # "wait"
           /\ CallInv(runStandaloneDeploy(m), jobs) /\ runStandaloneDeploy(m).at # "wait"
<1>1. m \in Word
  BY ChainOf
<1>3. phase \in Word /\ "standalone" \in Phases
  BY Words DEF Phases
<1>4. CASE m = "kafka"
  <2>1. runModuleDeploy(phase, m) = Call("module", phase, <<m>>, "write")
    BY <1>4 DEF runModuleDeploy
  <2> QED
    BY <1>1, <1>3, <2>1, CalledOnce, Words DEF runStandaloneDeploy
<1>5. CASE m # "kafka"
  <2>1. runModuleDeploy(phase, m) = Call("module", phase, <<m>>, "post")
    BY <1>5 DEF runModuleDeploy
  <2> QED
    BY <1>1, <1>3, <2>1, CalledOnce, Words DEF runStandaloneDeploy
<1> QED
  BY <1>4, <1>5

LEMMA ChainCalls ==
    ASSUME jobs \in Seq(JobType)
    PROVE  /\ Chain["database"] # <<>> => CallInv(runAllDatabaseDeploy, jobs) /\ runAllDatabaseDeploy.at # "wait"
           /\ Chain["middleware"] # <<>> => CallInv(runAllMiddlewareDeploy, jobs) /\ runAllMiddlewareDeploy.at # "wait"
           /\ Chain["business"] # <<>> => CallInv(runAllBusinessDeploy, jobs) /\ runAllBusinessDeploy.at # "wait"
           /\ Chain["standalone"] # <<>> => CallInv(runAllStandaloneDeploy, jobs) /\ runAllStandaloneDeploy.at # "wait"
<1>1. /\ "database" \in Phases /\ "middleware" \in Phases /\ "business" \in Phases /\ "standalone" \in Phases
  BY DEF Phases
<1> QED
  BY <1>1, ChainOf, Called, Words DEF runAllDatabaseDeploy, runAllMiddlewareDeploy, runAllBusinessDeploy, runAllStandaloneDeploy

LEMMA OtherCalls ==
    ASSUME jobs \in Seq(JobType)
    PROVE  /\ CallInv(runInit, jobs) /\ runInit.at # "wait"
           /\ CallInv(runNacosImport, jobs) /\ runNacosImport.at # "wait"
           /\ CallInv(runMonitorDeploy, jobs) /\ runMonitorDeploy.at # "wait"
           /\ CallInv(runVerify, jobs) /\ runVerify.at # "wait"
           /\ CallInv(refreshNginxRuntime, jobs) /\ refreshNginxRuntime.at # "wait"
           /\ \A force \in BOOLEAN : CallInv(runNginxDeploy(force), jobs) /\ runNginxDeploy(force).at # "wait"
           /\ \A key \in Word : /\ CallInv(Plain(key), jobs) /\ Plain(key).at # "wait"
                                  /\ CallInv(Patch(key), jobs) /\ Patch(key).at # "wait"
<1>1. CallInv(runInit, jobs) /\ runInit.at # "wait"
  BY CalledOnce, Words DEF runInit
<1>2. CallInv(runNacosImport, jobs) /\ runNacosImport.at # "wait"
  BY CalledOnce, Words DEF runNacosImport
<1>3. CallInv(runMonitorDeploy, jobs) /\ runMonitorDeploy.at # "wait"
  BY CalledOnce, Words DEF runMonitorDeploy
<1>4. CallInv(runVerify, jobs) /\ runVerify.at # "wait"
  BY CalledOnce, Words DEF runVerify
<1>5. CallInv(refreshNginxRuntime, jobs) /\ refreshNginxRuntime.at # "wait"
  BY CalledEmpty, Words DEF refreshNginxRuntime
<1>6. ASSUME NEW force \in BOOLEAN
      PROVE  CallInv(runNginxDeploy(force), jobs) /\ runNginxDeploy(force).at # "wait"
  <2>1. \A at \in {"look", "post"} :
           CallInv(Call("nginx", "nginx", <<"nginx">>, at), jobs) /\ Call("nginx", "nginx", <<"nginx">>, at).at # "wait"
    BY CalledOnce, Words
  <2>2. \E at \in {"look", "post"} : runNginxDeploy(force) = Call("nginx", "nginx", <<"nginx">>, at)
    BY DEF runNginxDeploy
  <2> QED
    BY <2>1, <2>2
<1>7. ASSUME NEW key \in Word
      PROVE  /\ CallInv(Plain(key), jobs) /\ Plain(key).at # "wait"
             /\ CallInv(Patch(key), jobs) /\ Patch(key).at # "wait"
  BY CalledOnce, CalledEmpty, Words DEF Plain, Patch
<1> QED
  BY <1>1, <1>2, <1>3, <1>4, <1>5, <1>6, <1>7

\* A click calls a function, which marks the page as busy.
LEMMA ButtonStep ==
    ASSUME JobsInv, NEW d, CallInv(d, jobs), d.at # "wait", Button(d)
    PROVE  JobsInv'
<1>1. /\ page' = started(page, d) /\ calls' = calls \cup {d} /\ jobs' = jobs /\ sock' = sock
      /\ PageInv(page, jobs)
  BY DEF Button, Click, server, JobsInv
<1>2. PageInv(page', jobs)
  BY <1>1, StartedWell
<1>3. (\A e \in calls' : CallInv(e, jobs)) /\ SocketInv(calls', sock, jobs)
  BY <1>1, NewCall
<1> QED
  BY <1>1, <1>2, <1>3, OnThePage

\* The page comes to a step, on which a function may start by itself.
LEMMA ArriveStep ==
    ASSUME JobsInv, NEW p, PageInv(p, jobs), NEW i \in Steps, applyWizardStep(p, i), Click
    PROVE  JobsInv'
<1> DEFINE q == [p EXCEPT !.step = i, !.reached = IF i > @ THEN i ELSE @]
<1>1. jobs' = jobs /\ sock' = sock /\ jobs \in Seq(JobType)
  BY DEF Click, server, JobsInv
<1>2. PageInv(q, jobs) /\ PageInv(started(q, runVerify), jobs)
  BY StepMoves, StartedWell
<1>3. /\ page' = q \/ page' = started(q, runVerify)
      /\ calls' \in {calls, calls \cup {runVerify}, calls \cup {refreshNginxRuntime}}
  BY DEF applyWizardStep
<1> HIDE DEF q
<1>4. PageInv(page', jobs)
  BY <1>2, <1>3
<1>5. CASE calls' = calls
  <2>1. (\A e \in calls' : CallInv(e, jobs)) /\ SocketInv(calls', sock, jobs)
    BY <1>5 DEF JobsInv
  <2> QED
    BY <1>1, <1>4, <2>1, OnThePage
<1>6. CASE calls' = calls \cup {runVerify}
  <2>1. (\A e \in calls' : CallInv(e, jobs)) /\ SocketInv(calls', sock, jobs)
    BY <1>1, <1>6, NewCall, OtherCalls
  <2> QED
    BY <1>1, <1>4, <2>1, OnThePage
<1>7. CASE calls' = calls \cup {refreshNginxRuntime}
  <2>1. (\A e \in calls' : CallInv(e, jobs)) /\ SocketInv(calls', sock, jobs)
    BY <1>1, <1>7, NewCall, OtherCalls
  <2> QED
    BY <1>1, <1>4, <2>1, OnThePage
<1> QED
  BY <1>3, <1>5, <1>6, <1>7

\* The user confirms a step: what its mark means has been done, or the button
\* would not be there.
LEMMA ConfirmStep ==
    ASSUME JobsInv, NEW i \in Steps, completeFieldStep(i)
    PROVE  JobsInv'
<1> DEFINE ds == page.done \cup {Key(i)}
           p == [page EXCEPT !.done = ds]
<1>1. /\ Confirmable(Key(i)) /\ Click /\ applyWizardStep(p, i + 1)
      /\ PageInv(page, jobs)
  BY DEF completeFieldStep, JobsInv
<1>2. page.done \in SUBSET Keys /\ Key(i) \in Keys
  BY <1>1 DEF PageInv, PageType, Keys
<1>3. ds \in SUBSET Keys
  BY <1>2
<1>4. Key(i) = "docker" => Succeeded(jobs, "init")
  BY <1>1 DEF Confirmable, PageInv, Earned
<1>5. Key(i) = "middleware" /\ HasNacos => Imported(jobs)
  BY <1>1 DEF Confirmable, Needs, PageInv, Earned
<1>6. PageInv(p, jobs)
  <2>1. \A k \in ds : k \in page.done \/ k = Key(i)
    OBVIOUS
  <2> HIDE DEF ds
  <2> QED
    BY <1>1, <1>3, <1>4, <1>5, <2>1, DoneChanges
<1>7. i + 1 \in Steps
  <2>1. Key(i) # "verify"
    BY <1>1 DEF Confirmable
  <2>2. i \in 0..7 /\ i # 7
    BY <2>1, TheSteps
  <2> QED
    BY <2>2, TheSteps
<1> HIDE DEF p
<1> QED
  BY <1>1, <1>6, <1>7, ArriveStep

LEMMA SiteStep ==
    ASSUME JobsInv, nextFromSite
    PROVE  JobsInv'
<1> DEFINE ds == page.done \cup {"site"}
           p == [page EXCEPT !.done = ds]
<1>1. Click /\ applyWizardStep(p, 1) /\ PageInv(page, jobs)
  BY DEF nextFromSite, JobsInv
<1>2. ds \in SUBSET Keys
  BY <1>1, TheKeys DEF PageInv, PageType
<1>3. PageInv(p, jobs)
  <2>1. \A k \in ds : k \in page.done \/ k = "site"
    OBVIOUS
  <2> HIDE DEF ds
  <2> QED
    BY <1>1, <1>2, <2>1, DoneChanges
<1>4. 1 \in Steps
  BY TheSteps
<1> HIDE DEF p
<1> QED
  BY <1>1, <1>3, <1>4, ArriveStep

LEMMA AddressStep ==
    ASSUME JobsInv, NEW i \in Steps, applyHashToState(i)
    PROVE  JobsInv'
<1>1. /\ page' = [page EXCEPT !.step = i, !.reached = IF i > @ THEN i ELSE @]
      /\ calls' \in {calls, calls \cup {refreshNginxRuntime}}
      /\ jobs' = jobs /\ sock' = sock /\ jobs \in Seq(JobType) /\ PageInv(page, jobs)
  BY DEF applyHashToState, Click, server, JobsInv
<1>2. PageInv(page', jobs)
  BY <1>1, StepMoves
<1>3. (\A e \in calls : CallInv(e, jobs)) /\ SocketInv(calls, sock, jobs)
  BY DEF JobsInv
<1>4. /\ \A e \in calls \cup {refreshNginxRuntime} : CallInv(e, jobs)
      /\ SocketInv(calls \cup {refreshNginxRuntime}, sock, jobs)
  BY <1>1, NewCall, OtherCalls
<1>5. (\A e \in calls' : CallInv(e, jobs)) /\ SocketInv(calls', sock, jobs)
  BY <1>1, <1>3, <1>4
<1> QED
  BY <1>1, <1>2, <1>5, OnThePage

LEMMA ResetStep ==
    ASSUME JobsInv, resetWizardProgress
    PROVE  JobsInv'
<1>1. /\ page' = [page EXCEPT !.step = 0, !.reached = 0, !.done = {}, !.flags = {}]
      /\ calls' = calls /\ jobs' = jobs /\ sock' = sock
      /\ page \in PageType
  BY DEF resetWizardProgress, Click, server, JobsInv, PageInv
<1>2. 0 \in Steps
  BY TheSteps
<1>3. /\ page' \in PageType
      /\ page'.step = 0 /\ page'.reached = 0 /\ page'.done = {} /\ page'.flags = {}
  BY <1>1, <1>2, Zenon DEF PageType
<1>4. PageInv(page', jobs)
  BY <1>3 DEF PageInv, Earned
<1>5. (\A e \in calls' : CallInv(e, jobs)) /\ SocketInv(calls', sock, jobs)
  BY <1>1 DEF JobsInv
<1> QED
  BY <1>1, <1>4, <1>5, OnThePage

LEMMA Buttons ==
    ASSUME JobsInv,
           \/ Docker \/ Firewall \/ Database \/ ApplySQL \/ Middleware \/ ImportNacos \/ Business
           \/ Monitoring \/ Standalone \/ Nginx \/ Verify \/ Packages \/ Upgrades
    PROVE  JobsInv'
<1>1. jobs \in Seq(JobType)
  BY DEF JobsInv
<1>2. "database" \in Phases /\ "middleware" \in Phases /\ "business" \in Phases /\ "standalone" \in Phases
  BY DEF Phases
<1>3. CASE Docker
  BY <1>1, <1>3, ButtonStep, OtherCalls DEF Docker
<1>4. CASE Firewall
  BY <1>1, <1>4, ButtonStep, OtherCalls, Words DEF Firewall, runFirewallJob
<1>5. CASE Database
  <2>1. CASE Chain["database"] # <<>> /\ Button(runAllDatabaseDeploy)
    BY <1>1, <2>1, ButtonStep, ChainCalls
  <2>2. ASSUME NEW m \in Offered("database"), Button(runModuleDeploy("database", m)) PROVE JobsInv'
    BY <1>1, <1>2, <2>2, ButtonStep, ModuleCalls
  <2> QED
    BY <1>5, <2>1, <2>2 DEF Database
<1>6. CASE ApplySQL
  BY <1>1, <1>6, ButtonStep, OtherCalls, Words DEF ApplySQL, runApplySQL
<1>7. CASE Middleware
  <2>1. CASE Chain["middleware"] # <<>> /\ Button(runAllMiddlewareDeploy)
    BY <1>1, <2>1, ButtonStep, ChainCalls
  <2>2. ASSUME NEW m \in Offered("middleware"), Button(runModuleDeploy("middleware", m)) PROVE JobsInv'
    BY <1>1, <1>2, <2>2, ButtonStep, ModuleCalls
  <2> QED
    BY <1>7, <2>1, <2>2 DEF Middleware
<1>8. CASE ImportNacos
  BY <1>1, <1>8, ButtonStep, OtherCalls DEF ImportNacos
<1>9. CASE Business
  <2>1. CASE Button(patchAllBusinessEnv) \/ Button(expandPlatformArchives)
    BY <1>1, <2>1, ButtonStep, OtherCalls, Words DEF patchAllBusinessEnv, expandPlatformArchives
  <2>2. CASE Chain["business"] # <<>> /\ Button(runAllBusinessDeploy)
    BY <1>1, <2>2, ButtonStep, ChainCalls
  <2>3. ASSUME NEW m \in Offered("business"), Button(runModuleDeploy("business", m)) PROVE JobsInv'
    BY <1>1, <1>2, <2>3, ButtonStep, ModuleCalls
  <2> QED
    BY <1>9, <2>1, <2>2, <2>3 DEF Business
<1>10. CASE Monitoring
  BY <1>1, <1>10, ButtonStep, OtherCalls, Words DEF Monitoring, expandMonitorServices
<1>11. CASE Standalone
  <2>1. CASE Button(patchAllStandaloneEnv)
    BY <1>1, <2>1, ButtonStep, OtherCalls, Words DEF patchAllStandaloneEnv
  <2>2. CASE Chain["standalone"] # <<>> /\ Button(runAllStandaloneDeploy)
    BY <1>1, <2>2, ButtonStep, ChainCalls
  <2>3. ASSUME NEW m \in Offered("standalone"), Button(runStandaloneDeploy(m)) PROVE JobsInv'
    BY <1>1, <1>2, <2>3, ButtonStep, ModuleCalls
  <2> QED
    BY <1>11, <2>1, <2>2, <2>3 DEF Standalone
<1>12. CASE Nginx
  BY <1>1, <1>12, ButtonStep, OtherCalls DEF Nginx
<1>13. CASE Verify
  BY <1>1, <1>13, ButtonStep, OtherCalls DEF Verify
<1>14. CASE Packages
  BY <1>1, <1>14, ButtonStep, OtherCalls, Words DEF Packages, runFetch, runScan
<1>15. CASE Upgrades
  BY <1>1, <1>15, ButtonStep, OtherCalls, Words DEF Upgrades, runUpgrade, runRollback
<1> QED
  BY <1>3, <1>4, <1>5, <1>6, <1>7, <1>8, <1>9, <1>10, <1>11, <1>12, <1>13, <1>14, <1>15
-----------------------------------------------------------------------------
(* The invariant.                                                           *)

LEMMA InitWell ==
    ASSUME Init
    PROVE  JobsInv
<1>1. PICK i \in Steps, ds \in SUBSET Keys :
        /\ page = [step |-> i, reached |-> i, done |-> ds, flags |-> {}, busy |-> FALSE]
        /\ "middleware" \notin ds
        /\ \/ jobs = <<>> /\ "docker" \notin ds
           \/ jobs = <<[of |-> "init", is |-> "ok"]>>
  <2>1. CASE /\ page = [step |-> 1, reached |-> 1, done |-> {"site"}, flags |-> {}, busy |-> FALSE]
             /\ jobs = <<>>
    <3>1. 1 \in Steps /\ {"site"} \in SUBSET Keys
      BY TheSteps, TheKeys
    <3> QED
      BY <2>1, <3>1
  <2>2. CASE /\ \E i \in Typed : page = [step |-> i, reached |-> i, done |-> {"site", "docker", "database"},
                                       flags |-> {}, busy |-> FALSE]
             /\ jobs = <<[of |-> "init", is |-> "ok"]>>
    <3>1. {"site", "docker", "database"} \in SUBSET Keys /\ Typed \subseteq Steps
      BY JobsAssumption, TheKeys
    <3> QED
      BY <2>2, <3>1
  <2> QED
    BY <2>1, <2>2 DEF Init
<1>2. /\ page \in PageType
      /\ page.step = i /\ page.reached = i /\ page.done = ds /\ page.flags = {}
  BY <1>1 DEF PageType, Flags
<1>3. i <= i
  BY TheSteps
<1>4. jobs \in Seq(JobType)
  <2> DEFINE done == [of |-> "init", is |-> "ok"]
  <2>1. done \in JobType
    BY Words DEF JobType
  <2>2. jobs = <<>> \/ jobs = <<done>>
    BY <1>1
  <2> HIDE DEF done
  <2>3. <<done>> \in Seq(JobType) /\ <<>> \in Seq(JobType)
    BY <2>1
  <2> QED
    BY <2>2, <2>3
<1>5. "docker" \in ds => Succeeded(jobs, "init")
  <2> SUFFICES ASSUME jobs = <<[of |-> "init", is |-> "ok"]>> PROVE Succeeded(jobs, "init")
    BY <1>1
  <2>1. 1 \in DOMAIN jobs /\ jobs[1].of = "init" /\ jobs[1].is = "ok"
    OBVIOUS
  <2> QED
    BY <2>1 DEF Succeeded
<1>6. PageInv(page, jobs)
  BY <1>1, <1>2, <1>3, <1>5 DEF PageInv, Earned
<1>7. sock = 0 /\ calls \subseteq {refreshNginxRuntime}
  BY DEF Init
<1>8. \A c \in calls : CallInv(c, jobs) /\ c.at # "wait"
  BY <1>4, <1>7, OtherCalls
<1>9. 0 \in 0..Len(jobs)
  BY <1>4, LenProperties
<1>10. SocketInv(calls, sock, jobs)
  BY <1>7, <1>8, <1>9 DEF SocketInv
<1> QED
  BY <1>4, <1>6, <1>8, <1>10 DEF JobsInv

LEMMA NextWell ==
    ASSUME JobsInv, [Next]_jobVars
    PROVE  JobsInv'
<1>1. ASSUME NEW c \in calls,
             Written(c) \/ Looked(c) \/ Posted(c) \/ watchJob(c) \/ Told(c) \/ Interrupted(c) \/ Broken(c)
      PROVE  JobsInv'
  BY <1>1, WrittenStep, LookedStep, PostedStep, WatchStep, ToldStep, InterruptedStep, BrokenStep
<1>2. ASSUME NEW j \in DOMAIN jobs, JobEnds(j) PROVE JobsInv'
  BY <1>2, JobEndsStep
<1>3. ASSUME User PROVE JobsInv'
  <2>1. ASSUME NEW i \in Steps, completeFieldStep(i) PROVE JobsInv'
    BY <2>1, ConfirmStep
  <2>2. ASSUME NEW i \in Steps, goToStep(i) PROVE JobsInv'
    <3>1. Click /\ applyWizardStep(page, i) /\ PageInv(page, jobs)
      BY <2>2 DEF goToStep, JobsInv
    <3> QED
      BY <3>1, ArriveStep
  <2>3. ASSUME NEW i \in Steps, applyHashToState(i) PROVE JobsInv'
    BY <2>3, AddressStep
  <2>4. ASSUME nextFromSite PROVE JobsInv'
    BY <2>4, SiteStep
  <2>5. ASSUME resetWizardProgress PROVE JobsInv'
    BY <2>5, ResetStep
  <2> QED
    BY <1>3, <2>1, <2>2, <2>3, <2>4, <2>5, Buttons DEF User
<1>4. CASE UNCHANGED jobVars
  BY <1>4 DEF jobVars, JobsInv
<1> QED
  BY <1>1, <1>2, <1>3, <1>4 DEF Next, Work

\* The types of the wizard's state, the one function that waits on the socket,
\* and the marks: Docker and the middleware are shown as done only after the
\* jobs that do it, for any modules, clicks and broken connections.
THEOREM MarksEarned == Spec => []WizardOK
<1>1. Init => JobsInv
  BY InitWell
<1>2. JobsInv /\ [Next]_jobVars => JobsInv'
  BY NextWell
<1>3. JobsInv => WizardOK
  <2> SUFFICES ASSUME JobsInv PROVE WizardOK
    OBVIOUS
  <2>1. PageInv(page, jobs) /\ SocketInv(calls, sock, jobs) /\ \A c \in calls : c \in CallType
    BY DEF JobsInv, CallInv
  <2>2. TypeOK
    BY <2>1 DEF TypeOK, PageInv, PageType, CallType, SocketInv, Keys, Flags, Places
  <2>3. Succeeded(jobs, "init") => \E j \in DOMAIN jobs : Is(j, "init")
    BY DEF Succeeded, Is
  <2>4. Imported(jobs) =>
          \E j \in DOMAIN jobs : Is(j, "import") \/ (jobs[j].of = "nacos" /\ jobs[j].is = "ok-imported")
    BY DEF Imported, Is
  <2>5. MarksAreEarned
    BY <2>1, <2>3, <2>4 DEF MarksAreEarned, PageInv, Earned
  <2> QED
    BY <2>2, <2>5 DEF WizardOK
<1> QED
  BY <1>1, <1>2, <1>3, PTL DEF Spec

-----------------------------------------------------------------------------
(* "Deploy all".  What a call of it has behind it was deployed since its    *)
(* click, and what it has before it is the rest of its step (ChainCall).    *)

Since(n, work, js) == \E j \in (n + 1)..Len(js) : js[j].of = work /\ js[j].is \in {"ok", "ok-imported"}

ChainCall(c, js) ==
    c.what = "all" =>
      /\ c.from <= Len(js) /\ Len(c.rest) <= Len(Chain[c.key])
      /\ \A i \in 1..Len(c.rest) : c.rest[i] = Chain[c.key][Len(Chain[c.key]) - Len(c.rest) + i]
      /\ \A i \in 1..(Len(Chain[c.key]) - Len(c.rest)) : Since(c.from, Chain[c.key][i], js)
      /\ c.at \in {"posted", "wait"} => c.job > c.from

ChainInv == JobsInv /\ \A c \in calls : ChainCall(c, jobs)

LEMMA ChainGrows ==
    ASSUME NEW c, NEW js \in Seq(JobType), NEW ks, Grows(js, ks), CallInv(c, js), ChainCall(c, js)
    PROVE  ChainCall(c, ks)
<1>1. /\ ks \in Seq(JobType) /\ DOMAIN js = 1..Len(js) /\ DOMAIN ks = 1..Len(ks)
      /\ Len(js) \in Nat /\ Len(ks) \in Nat /\ Len(js) <= Len(ks) /\ c.from \in Nat
  BY LenProperties DEF Grows, CallInv, CallType
<1>2. \A j \in 1..Len(js) : ks[j].of = js[j].of /\ (js[j].is # "running" => ks[j].is = js[j].is)
  BY <1>1 DEF Grows
<1>3. ASSUME NEW work, Since(c.from, work, js) PROVE Since(c.from, work, ks)
  <2>1. PICK j \in (c.from + 1)..Len(js) : js[j].of = work /\ js[j].is \in {"ok", "ok-imported"}
    BY <1>3 DEF Since
  <2>2. j \in 1..Len(js) /\ j \in (c.from + 1)..Len(ks)
    BY <1>1
  <2> QED
    BY <1>2, <2>1, <2>2 DEF Since
<1>4. c.from <= Len(js) => c.from <= Len(ks)
  BY <1>1
<1> QED
  BY <1>3, <1>4 DEF ChainCall

\* Lengths of a call's modules and its step.
LEMMA ChainLengths ==
    ASSUME NEW c, NEW js, CallInv(c, js), c.what = "all"
    PROVE  /\ c.key \in Phases /\ c.rest \in Seq(Word) /\ c.rest # <<>>
           /\ Len(c.rest) \in Nat \ {0} /\ Len(Chain[c.key]) \in Nat /\ DOMAIN Chain[c.key] = 1..Len(Chain[c.key])
           /\ c.from \in Nat /\ c.job \in Nat
<1>1. c.key \in Phases /\ c.rest \in Seq(Word) /\ c.rest # <<>> /\ c.from \in Nat /\ c.job \in Nat
  BY DEF CallInv, CallType
<1>2. Chain[c.key] \in Seq(Word)
  BY <1>1, ChainOf
<1>3. Len(c.rest) # 0
  BY <1>1, EmptySeq
<1> QED
  BY <1>1, <1>2, <1>3, LenProperties

\* c, at another place of its way.
LEMMA ChainElsewhere ==
    ASSUME NEW js, NEW c \in CallType, ChainCall(c, js), NEW at \in Places,
           at \in {"posted", "wait"} => c.at \in {"posted", "wait"}
    PROVE  ChainCall([c EXCEPT !.at = at], js)
<1> DEFINE d == [c EXCEPT !.at = at]
<1>1. /\ d.what = c.what /\ d.key = c.key /\ d.rest = c.rest /\ d.job = c.job /\ d.from = c.from /\ d.at = at
  BY DEF CallType
<1> HIDE DEF d
<1>2. ChainCall(d, js)
  BY <1>1 DEF ChainCall
<1> QED
  BY <1>2 DEF d

\* A module is deployed: one more is behind the call.
LEMMA OneMore ==
    ASSUME NEW js \in Seq(JobType), NEW c, CallInv(c, js), ChainCall(c, js), c.what = "all", c.at = "wait",
           js[c.job].is \in {"ok", "ok-imported"}
    PROVE  /\ \A i \in 1..(Len(Chain[c.key]) - Len(c.rest) + 1) : Since(c.from, Chain[c.key][i], js)
           /\ Len(c.rest) > 1 => ChainCall([c EXCEPT !.rest = Tail(@), !.at = "post", !.job = 0], js)
<1> DEFINE n == Len(Chain[c.key])
           m == Len(c.rest)
           t == Tail(c.rest)
           d == [c EXCEPT !.rest = t, !.at = "post", !.job = 0]
<1>1. /\ c.key \in Phases /\ c.rest \in Seq(Word) /\ c.rest # <<>> /\ m \in Nat \ {0} /\ n \in Nat
      /\ c.from \in Nat /\ c.job \in Nat
  BY ChainLengths
<1>2. /\ c.from <= Len(js) /\ m <= n /\ c.job > c.from
      /\ \A i \in 1..m : c.rest[i] = Chain[c.key][n - m + i]
      /\ \A i \in 1..(n - m) : Since(c.from, Chain[c.key][i], js)
  BY DEF ChainCall
<1>3. c.job \in 1..Len(js) /\ js[c.job].of = Head(c.rest) /\ Head(c.rest) = c.rest[1]
  BY <1>1, LenProperties, HeadTailProperties DEF CallInv
<1>4. t \in Seq(Word) /\ Len(t) = m - 1 /\ \A i \in 1..Len(t) : t[i] = c.rest[i + 1]
  BY <1>1, HeadTailProperties
<1>5. /\ d.what = "all" /\ d.key = c.key /\ d.rest = t /\ d.from = c.from /\ d.at = "post"
  BY DEF CallInv, CallType
<1> HIDE DEF n, m, t, d
<1>6. Since(c.from, Chain[c.key][n - m + 1], js)
  <2>1. c.job \in (c.from + 1)..Len(js)
    BY <1>1, <1>2, <1>3
  <2>2. c.rest[1] = Chain[c.key][n - m + 1]
    BY <1>1, <1>2
  <2> QED
    BY <1>3, <2>1, <2>2 DEF Since
<1>7. \A i \in 1..(n - m + 1) : Since(c.from, Chain[c.key][i], js)
  <2> SUFFICES ASSUME NEW i \in 1..(n - m + 1) PROVE Since(c.from, Chain[c.key][i], js)
    OBVIOUS
  <2>1. i \in 1..(n - m) \/ i = n - m + 1
    BY <1>1, <1>2
  <2> QED
    BY <1>2, <1>6, <2>1
<1>8. ASSUME m > 1 PROVE ChainCall(d, js)
  <2>1. \A i \in 1..Len(t) : t[i] = Chain[c.key][n - Len(t) + i]
    <3> SUFFICES ASSUME NEW i \in 1..Len(t) PROVE t[i] = Chain[c.key][n - Len(t) + i]
      OBVIOUS
    <3>1. i + 1 \in 1..m /\ n - m + (i + 1) = n - Len(t) + i
      BY <1>1, <1>4
    <3> QED
      BY <1>2, <1>4, <3>1
  <2>2. n - Len(t) = n - m + 1 /\ Len(t) <= n
    BY <1>1, <1>2, <1>4
  <2> QED
    BY <1>2, <1>5, <1>7, <2>1, <2>2 DEF ChainCall, n
<1> QED
  BY <1>7, <1>8 DEF n, m, t, d

\* A call that has just been made has everything before it.
LEMMA NewChain ==
    ASSUME jobs \in Seq(JobType), NEW phase \in Phases, NEW at \in {"write", "post"}
    PROVE  ChainCall(Call("all", phase, Chain[phase], at), jobs)
<1> DEFINE s == Chain[phase]
           k == Len(jobs)
           d == [what |-> "all", key |-> phase, rest |-> s, at |-> at, job |-> 0, from |-> k]
<1>1. s \in Seq(Word)
  BY ChainOf
<1>2. Len(s) \in Nat /\ k \in Nat
  BY <1>1, LenProperties
<1>3. d = Call("all", phase, s, at)
  BY DEF Call
<1>4. d.key = phase /\ d.rest = s /\ d.at = at /\ d.from = k
  OBVIOUS
<1> HIDE DEF d, k
<1>5. /\ k <= Len(jobs) /\ Len(s) <= Len(s)
      /\ \A i \in 1..Len(s) : s[i] = s[Len(s) - Len(s) + i]
      /\ 1..(Len(s) - Len(s)) = {}
  BY <1>2 DEF k
<1>6. ChainCall(d, jobs)
  BY <1>4, <1>5 DEF ChainCall
<1> QED
  BY <1>3, <1>6

\* Other calls are none of these.
LEMMA NoChain ==
    ASSUME NEW what, what # "all", NEW key, NEW rest, NEW at
    PROVE  ChainCall(Call(what, key, rest, at), jobs)
  BY DEF ChainCall, Call

-----------------------------------------------------------------------------
(* The steps of a "deploy all".                                             *)

LEMMA ChainKept ==
    ASSUME ChainInv, JobsInv', jobs' = jobs, \A e \in calls' : e \in calls \/ ChainCall(e, jobs)
    PROVE  ChainInv'
<1>1. \A e \in calls' : ChainCall(e, jobs)
  BY DEF ChainInv
<1>2. \A e \in calls' : ChainCall(e, jobs')
  BY <1>1
<1> QED
  BY <1>2 DEF ChainInv

\* Jobs change, and c goes on to d.
LEMMA ChainKeptOn ==
    ASSUME ChainInv, JobsInv', Grows(jobs, jobs'), \A e \in calls' : e \in calls \/ ChainCall(e, jobs')
    PROVE  ChainInv'
<1>1. \A e \in calls : ChainCall(e, jobs')
  BY ChainGrows DEF ChainInv, JobsInv
<1>2. \A e \in calls' : ChainCall(e, jobs')
  BY <1>1
<1> QED
  BY <1>2 DEF ChainInv

LEMMA KnownCall ==
    ASSUME ChainInv, NEW c \in calls
    PROVE  JobsInv /\ c \in CallType /\ CallInv(c, jobs) /\ ChainCall(c, jobs) /\ jobs \in Seq(JobType)
  BY DEF ChainInv, JobsInv, CallInv

\* The end of a wait: the call is gone, or goes on with what is left.
LEMMA EndedChain ==
    ASSUME ChainInv, NEW c \in calls, NEW ok \in BOOLEAN, NEW some, Ended(c, ok, some),
           ok /\ c.what = "all" => c.at = "wait" /\ jobs[c.job].is \in {"ok", "ok-imported"}
    PROVE  /\ calls \ {c} \subseteq calls'
           /\ \A e \in calls' : e \in calls \/ ChainCall(e, jobs)
<1> DEFINE p == IF ok /\ c.what \in {"module", "all"} THEN ModuleMark(page, Head(c.rest), some) ELSE page
           d == [c EXCEPT !.rest = Tail(@), !.at = "post", !.job = 0]
           x == [c EXCEPT !.at = "lookagain"]
<1>1. c \in CallType /\ CallInv(c, jobs) /\ ChainCall(c, jobs) /\ jobs \in Seq(JobType)
  BY KnownCall
<1>2. \/ c.what = "all" /\ NextModule(c, p, ok)
      \/ \E q : Finish(c, q)
      \/ Become(c, x)
  BY DEF Ended
<1>3. NextModule(c, p, ok) => (ok /\ Len(c.rest) > 1 /\ Become(c, d)) \/ \E q : Finish(c, q)
  BY DEF NextModule
<1>4. ChainCall(x, jobs)
  <2>1. "lookagain" \in Places
    BY DEF Places
  <2> QED
    BY <1>1, <2>1, ChainElsewhere
<1>5. ok /\ c.what = "all" /\ Len(c.rest) > 1 => ChainCall(d, jobs)
  BY <1>1, OneMore
<1> HIDE DEF p, d, x
<1>6. CASE \E q : Finish(c, q)
  BY <1>6 DEF Finish
<1>7. CASE Become(c, x)
  BY <1>4, <1>7 DEF Become
<1>8. CASE c.what = "all" /\ ok /\ Len(c.rest) > 1 /\ Become(c, d)
  BY <1>5, <1>8 DEF Become
<1> QED
  BY <1>2, <1>3, <1>6, <1>7, <1>8

LEMMA WrittenChain == ASSUME ChainInv, NEW c \in calls, Written(c) PROVE ChainInv' /\ calls \ {c} \subseteq calls'
<1> DEFINE d == [c EXCEPT !.at = "post"]
<1>1. JobsInv' /\ jobs' = jobs
  BY WrittenStep DEF Written, server, ChainInv
<1>2. calls' = calls \ {c} \/ calls' = (calls \ {c}) \cup {d}
  BY DEF Written, Become, Finish
<1>3. ChainCall(d, jobs)
  BY KnownCall, ChainElsewhere DEF Places
<1> HIDE DEF d
<1> QED
  BY <1>1, <1>2, <1>3, ChainKept

LEMMA LookedChain == ASSUME ChainInv, NEW c \in calls, Looked(c) PROVE ChainInv' /\ calls \ {c} \subseteq calls'
<1> DEFINE d == [c EXCEPT !.at = "post"]
<1>1. JobsInv' /\ jobs' = jobs
  BY LookedStep DEF Looked, server, ChainInv
<1>2. calls' = calls \ {c} \/ calls' = (calls \ {c}) \cup {d}
  BY DEF Looked, Become, Finish
<1>3. ChainCall(d, jobs)
  BY KnownCall, ChainElsewhere DEF Places
<1> HIDE DEF d
<1> QED
  BY <1>1, <1>2, <1>3, ChainKept

LEMMA PostedChain == ASSUME ChainInv, NEW c \in calls, Posted(c) PROVE ChainInv' /\ calls \ {c} \subseteq calls'
<1> DEFINE n == Len(jobs) + 1
           new == [of |-> Head(c.rest), is |-> "running"]
           d == [c EXCEPT !.at = "posted", !.job = n]
<1>1. /\ JobsInv' /\ c.at = "post" /\ jobs \in Seq(JobType) /\ c \in CallType
      /\ CallInv(c, jobs) /\ ChainCall(c, jobs)
  BY KnownCall, PostedStep DEF Posted
<1>2. CASE jobs' = jobs /\ Finish(c, page)
  BY <1>1, <1>2, ChainKept DEF Finish
<1>3. CASE jobs' = Append(jobs, new) /\ Become(c, d)
  <2>1. Head(c.rest) \in Word
    <3>1. c.what \notin {"patch", "look"}
      BY <1>1 DEF CallInv
    <3>2. c.rest \in Seq(Word) /\ c.rest # <<>>
      BY <1>1, <3>1 DEF CallInv, CallType
    <3> QED
      BY <3>2, HeadTailProperties
  <2>2. new \in JobType
    BY <2>1 DEF JobType
  <2> HIDE DEF new
  <2>3. /\ jobs' \in Seq(JobType) /\ Len(jobs') = n
        /\ \A j \in 1..Len(jobs) : jobs'[j] = jobs[j]
    BY <1>1, <1>3, <2>2, AppendProperties
  <2>4. Len(jobs) \in Nat /\ DOMAIN jobs = 1..Len(jobs) /\ DOMAIN jobs' = 1..Len(jobs')
    BY <1>1, <2>3, LenProperties
  <2>5. Grows(jobs, jobs')
    BY <2>3, <2>4 DEF Grows
  <2>6. ChainCall(c, jobs')
    BY <1>1, <2>5, ChainGrows
  <2>7. /\ d.what = c.what /\ d.key = c.key /\ d.rest = c.rest /\ d.job = n /\ d.from = c.from
    BY <1>1 DEF CallType
  <2>8. c.what = "all" => c.from <= Len(jobs) /\ c.from \in Nat
    BY <1>1 DEF ChainCall, CallType
  <2>9. c.what = "all" => n > c.from
    BY <2>4, <2>8
  <2> HIDE DEF d, n
  <2>10. ChainCall(d, jobs')
    BY <2>6, <2>7, <2>9 DEF ChainCall
  <2> QED
    BY <1>1, <1>3, <2>5, <2>10, ChainKeptOn DEF Become
<1> QED
  BY <1>2, <1>3 DEF Posted

LEMMA WatchChain == ASSUME ChainInv, NEW c \in calls, watchJob(c) PROVE ChainInv'
<1> DEFINE before == {d \in calls : d.at = "wait" /\ d.job = sock}
           others == calls \ ({c} \cup before)
           failed == {[d EXCEPT !.at = "error"] : d \in before}
           w == [c EXCEPT !.at = "wait"]
<1>1. JobsInv' /\ jobs' = jobs /\ c.at = "posted"
  BY WatchStep DEF watchJob, server, ChainInv
<1>2. calls' \in {others \cup {w}, others \cup failed \cup {w}}
  BY DEF watchJob
<1>3. ChainCall(w, jobs)
  BY <1>1, KnownCall, ChainElsewhere DEF Places
<1>4. \A e \in failed : ChainCall(e, jobs)
  <2> SUFFICES ASSUME NEW d \in before PROVE ChainCall([d EXCEPT !.at = "error"], jobs)
    OBVIOUS
  <2>1. d \in calls
    OBVIOUS
  <2> QED
    BY <2>1, KnownCall, ChainElsewhere DEF Places
<1>5. others \subseteq calls
  OBVIOUS
<1> HIDE DEF others, failed, w
<1> QED
  BY <1>1, <1>2, <1>3, <1>4, <1>5, ChainKept

LEMMA ToldChain ==
    ASSUME ChainInv, NEW c \in calls, Told(c)
    PROVE  ChainInv' /\ calls \ {c} \subseteq calls'
<1> DEFINE ok == jobs[c.job].is # "fail"
<1>1. JobsInv' /\ jobs' = jobs /\ c.at = "wait" /\ jobs[c.job].is # "running"
  BY ToldStep DEF Told, server, ChainInv
<1>2. PICK some \in BOOLEAN : Ended(c, ok, some)
  BY DEF Told
<1>3. jobs[c.job] \in JobType
  BY <1>1, KnownCall, LenProperties DEF CallInv
<1>4. ok => jobs[c.job].is \in {"ok", "ok-imported"}
  BY <1>1, <1>3 DEF JobType
<1>5. ok \in BOOLEAN
  OBVIOUS
<1> HIDE DEF ok
<1>6. calls \ {c} \subseteq calls' /\ \A e \in calls' : e \in calls \/ ChainCall(e, jobs)
  BY <1>1, <1>2, <1>4, <1>5, EndedChain
<1> QED
  BY <1>1, <1>6, ChainKept

LEMMA FailedChain ==
    ASSUME ChainInv, NEW c \in calls, Interrupted(c) \/ Broken(c)
    PROVE  ChainInv' /\ calls \ {c} \subseteq calls'
<1>1. JobsInv' /\ jobs' = jobs
  BY InterruptedStep, BrokenStep DEF Interrupted, Broken, server, ChainInv
<1>2. Ended(c, FALSE, FALSE) \/ calls' = calls \ {c}
  BY DEF Interrupted, Broken
<1>3. CASE Ended(c, FALSE, FALSE)
  <2>1. calls \ {c} \subseteq calls' /\ \A e \in calls' : e \in calls \/ ChainCall(e, jobs)
    BY <1>3, EndedChain
  <2> QED
    BY <1>1, <2>1, ChainKept
<1>4. CASE calls' = calls \ {c}
  BY <1>1, <1>4, ChainKept
<1> QED
  BY <1>2, <1>3, <1>4

LEMMA JobEndsChain == ASSUME ChainInv, NEW j \in DOMAIN jobs, JobEnds(j) PROVE ChainInv'
<1>1. JobsInv' /\ jobs \in Seq(JobType) /\ jobs[j].is = "running" /\ calls' = calls
  BY JobEndsStep DEF JobEnds, ChainInv, JobsInv
<1>2. PICK end \in {"ok", "fail", "ok-imported"} : jobs' = [jobs EXCEPT ![j].is = end]
  BY DEF JobEnds
<1>3. DOMAIN jobs = 1..Len(jobs) /\ Len(jobs) \in Nat /\ jobs \in [1..Len(jobs) -> JobType]
  BY <1>1, LenProperties
<1>4. /\ jobs' \in [1..Len(jobs) -> JobType]
      /\ \A k \in 1..Len(jobs) : jobs'[k].of = jobs[k].of /\ (k # j => jobs'[k] = jobs[k])
  BY <1>2, <1>3 DEF JobType
<1>5. jobs' \in Seq(JobType) /\ Len(jobs') = Len(jobs)
  BY <1>3, <1>4
<1>6. Grows(jobs, jobs')
  BY <1>1, <1>3, <1>4, <1>5 DEF Grows
<1> QED
  BY <1>1, <1>6, ChainKeptOn

\* What the user does calls functions, and ends none.
LEMMA UserCalls ==
    ASSUME ChainInv, User
    PROVE  /\ calls \subseteq calls' /\ jobs' = jobs
           /\ \A e \in calls' : e \in calls \/ ChainCall(e, jobs)
<1>0. jobs \in Seq(JobType)
  BY DEF ChainInv, JobsInv
<1> DEFINE Goal == /\ calls \subseteq calls' /\ jobs' = jobs
                   /\ \A e \in calls' : e \in calls \/ ChainCall(e, jobs)
<1>1. ASSUME NEW d, ChainCall(d, jobs), Button(d) PROVE Goal
  BY <1>1 DEF Button, Click, server
<1>2. /\ "database" \in Phases /\ "middleware" \in Phases /\ "business" \in Phases /\ "standalone" \in Phases
  BY DEF Phases
<1>3. /\ ChainCall(runAllDatabaseDeploy, jobs) /\ ChainCall(runAllMiddlewareDeploy, jobs)
      /\ ChainCall(runAllBusinessDeploy, jobs) /\ ChainCall(runAllStandaloneDeploy, jobs)
  BY <1>0, <1>2, NewChain DEF runAllDatabaseDeploy, runAllMiddlewareDeploy, runAllBusinessDeploy, runAllStandaloneDeploy
<1>4. /\ \A phase, m : ChainCall(runModuleDeploy(phase, m), jobs)
      /\ \A m : ChainCall(runStandaloneDeploy(m), jobs)
  BY NoChain DEF runModuleDeploy, runStandaloneDeploy
<1>5. /\ ChainCall(runInit, jobs) /\ ChainCall(runNacosImport, jobs) /\ ChainCall(runMonitorDeploy, jobs)
      /\ ChainCall(runVerify, jobs) /\ ChainCall(refreshNginxRuntime, jobs)
      /\ \A force : ChainCall(runNginxDeploy(force), jobs)
  BY NoChain DEF runInit, runNacosImport, runMonitorDeploy, runVerify, refreshNginxRuntime, runNginxDeploy
<1>6. \A key : ChainCall(Plain(key), jobs) /\ ChainCall(Patch(key), jobs)
  BY NoChain DEF Plain, Patch
<1> SUFFICES Goal
  OBVIOUS
<1> HIDE DEF Goal
<1>7. CASE Docker \/ Firewall \/ Database \/ ApplySQL \/ Middleware \/ ImportNacos
  BY <1>1, <1>3, <1>4, <1>5, <1>6, <1>7
     DEF Docker, Firewall, runFirewallJob, Database, ApplySQL, runApplySQL, Middleware, ImportNacos
<1>8. CASE Business \/ Monitoring \/ Standalone
  BY <1>1, <1>3, <1>4, <1>5, <1>6, <1>8
     DEF Business, patchAllBusinessEnv, expandPlatformArchives, Monitoring, expandMonitorServices, Standalone, patchAllStandaloneEnv
<1>9. CASE Nginx \/ Verify \/ Packages \/ Upgrades
  BY <1>1, <1>5, <1>6, <1>9 DEF Nginx, Verify, Packages, runFetch, runScan, Upgrades, runUpgrade, runRollback
<1>10. ASSUME NEW p, NEW i, applyWizardStep(p, i), Click PROVE Goal
  BY <1>5, <1>10 DEF applyWizardStep, Click, server, Goal
<1>11. CASE (\E i \in Steps : completeFieldStep(i) \/ goToStep(i) \/ applyHashToState(i)) \/ nextFromSite \/ resetWizardProgress
  <2>1. ASSUME NEW i \in Steps, applyHashToState(i) PROVE Goal
    BY <1>5, <2>1 DEF applyHashToState, Click, server, Goal
  <2>2. CASE resetWizardProgress
    BY <2>2 DEF resetWizardProgress, Click, server, Goal
  <2> QED
    BY <1>10, <1>11, <2>1, <2>2 DEF completeFieldStep, goToStep, nextFromSite
<1> QED
  BY <1>7, <1>8, <1>9, <1>11 DEF User

LEMMA ChainNext == ASSUME ChainInv, [Next]_jobVars PROVE ChainInv'
<1>1. JobsInv'
  BY NextWell DEF ChainInv
<1>2. CASE User
  BY <1>1, <1>2, UserCalls, ChainKept
<1>3. CASE UNCHANGED jobVars
  BY <1>1, <1>3, ChainKept DEF jobVars
<1>4. CASE Work \/ \E c \in calls : Broken(c)
  BY <1>4, WrittenChain, LookedChain, PostedChain, WatchChain, ToldChain, FailedChain, JobEndsChain DEF Work
<1> QED
  BY <1>2, <1>3, <1>4 DEF Next

LEMMA ChainInit == ASSUME Init PROVE ChainInv
<1>1. \A c \in calls : ChainCall(c, jobs)
  BY NoChain DEF Init, refreshNginxRuntime
<1> QED
  BY <1>1, InitWell DEF ChainInv

-----------------------------------------------------------------------------
(* Who marks the step.                                                      *)

LEMMA FinishDone == ASSUME NEW c, NEW p, Finish(c, p), p \in PageType PROVE page'.done = p.done
  BY DEF Finish, PageType

LEMMA ModuleMarkDone ==
    ASSUME NEW p \in PageType, NEW m, NEW logged
    PROVE  ModuleMark(p, m, logged).done = p.done /\ ModuleMark(p, m, logged).flags \subseteq p.flags \cup {"import"}
           /\ (ModuleMark(p, m, logged) = p \/ \E fs : ModuleMark(p, m, logged) = [p EXCEPT !.flags = fs])
  BY DEF ModuleMark, PageType

\* The end of a "deploy all" leaves what is done alone, but for the end of its
\* last module.
LEMMA EndedDone ==
    ASSUME JobsInv, NEW c \in calls, c.what = "all", NEW ok \in BOOLEAN, NEW some \in BOOLEAN, Ended(c, ok, some),
           ~(ok /\ Len(c.rest) = 1)
    PROVE  page'.done = page.done
<1> DEFINE p == IF ok /\ c.what \in {"module", "all"} THEN ModuleMark(page, Head(c.rest), some) ELSE page
<1>1. page \in PageType
  BY DEF JobsInv, PageInv
<1>2. p.done = page.done
  BY <1>1, ModuleMarkDone
<1>3. p \in PageType
  <2>1. ASSUME NEW fs \in SUBSET Flags PROVE [page EXCEPT !.flags = fs] \in PageType
    BY <1>1, Zenon DEF PageType
  <2>2. page.flags \cup {"import"} \in SUBSET Flags /\ page.flags \ {"import"} \in SUBSET Flags
    BY <1>1 DEF PageType, Flags
  <2> QED
    BY <1>1, <2>1, <2>2 DEF ModuleMark
<1>4. NextModule(c, p, ok)
  BY DEF Ended
<1> HIDE DEF p
<1>5. page' = p \/ Finish(c, p)
  BY <1>4 DEF NextModule
<1> QED
  BY <1>2, <1>3, <1>5, FinishDone

\* A call of "deploy all" that is over and whose step is newly done: its last
\* module has ended well.
LEMMA MarkedByTheLast ==
    ASSUME ChainInv, [Next]_jobVars, NEW c \in calls, c.what = "all", c \notin calls', c.key \in page'.done \ page.done
    PROVE  /\ c.at = "wait" /\ Len(c.rest) = 1 /\ jobs[c.job].is \in {"ok", "ok-imported"}
<1>1. JobsInv /\ c \in CallType /\ CallInv(c, jobs) /\ page \in PageType /\ jobs \in Seq(JobType) /\ c.key # "nginx"
  BY KnownCall, ChainLengths DEF JobsInv, PageInv, Phases
<1>2. page'.done # page.done
  OBVIOUS
<1>3. ~User
  BY UserCalls
<1>4. ~UNCHANGED jobVars
  BY DEF jobVars
<1>5. ASSUME NEW d \in calls, Written(d) \/ Looked(d) \/ Posted(d) \/ Told(d) \/ Interrupted(d) \/ Broken(d) PROVE d = c
  BY <1>5, WrittenChain, LookedChain, PostedChain, ToldChain, FailedChain
<1>6. ASSUME NEW d \in calls PROVE ~watchJob(d)
  BY DEF watchJob
<1>7. ASSUME NEW j \in DOMAIN jobs PROVE ~JobEnds(j)
  BY DEF JobEnds
<1>8. ~Written(c)
  BY <1>1, <1>2, FinishDone DEF Written
<1>9. ~Posted(c)
  BY <1>1, <1>2, FinishDone DEF Posted
<1>10. ~Looked(c)
  <2> SUFFICES ASSUME Looked(c) PROVE FALSE
    OBVIOUS
  <2>1. PICK seen : LET p == IF seen THEN Marked(page, "nginx", "nginx", TRUE) ELSE page IN
          CASE c.what = "look" -> page' = p /\ calls' = calls \ {c}
            [] c.at = "lookagain" \/ seen -> Finish(c, p)
            [] OTHER -> page' = [p EXCEPT !.flags = @ \ {"nginx"}] /\ Become(c, [c EXCEPT !.at = "post"])
    BY DEF Looked
  <2> DEFINE p == IF seen THEN Marked(page, "nginx", "nginx", TRUE) ELSE page
  <2>2. PageInv(p, jobs)
    BY <1>1, MarkedWell, TheKeys DEF Flags, JobsInv
  <2>3. p.done \subseteq page.done \cup {"nginx"}
    BY <1>1 DEF Marked, PageType
  <2>4. Finish(c, p) \/ page' = [p EXCEPT !.flags = @ \ {"nginx"}]
    BY <2>1
  <2> HIDE DEF p
  <2>5. p \in PageType
    BY <2>2 DEF PageInv
  <2>6. page'.done = p.done
    BY <2>4, <2>5, FinishDone DEF PageType
  <2> QED
    BY <1>1, <2>3, <2>6
<1>11. ~(Interrupted(c) \/ Broken(c))
  BY <1>1, <1>2, EndedDone DEF Interrupted, Broken
<1>12. ASSUME Told(c) PROVE c.at = "wait" /\ Len(c.rest) = 1 /\ jobs[c.job].is \in {"ok", "ok-imported"}
  <2> DEFINE ok == jobs[c.job].is # "fail"
  <2>1. c.at = "wait" /\ jobs[c.job].is # "running"
    BY <1>12 DEF Told
  <2>2. PICK some \in BOOLEAN : Ended(c, ok, some)
    BY <1>12 DEF Told
  <2>3. jobs[c.job] \in JobType
    BY <1>1, <2>1, LenProperties DEF CallInv
  <2>4. ok \in BOOLEAN
    OBVIOUS
  <2>5. ok => jobs[c.job].is \in {"ok", "ok-imported"}
    BY <2>1, <2>3 DEF JobType
  <2> HIDE DEF ok
  <2>6. ok /\ Len(c.rest) = 1
    BY <1>1, <1>2, <2>2, <2>4, EndedDone
  <2> QED
    BY <2>1, <2>5, <2>6
<1> QED
  BY <1>3, <1>4, <1>5, <1>6, <1>7, <1>8, <1>9, <1>10, <1>11, <1>12 DEF Next, Work

\* "Deploy all" marks its step only when every module of the step was deployed
\* since the click (createConsole.js: runAllMiddlewareDeploy and its like, and
\* watchJob), whatever takes its socket away, resets the page or breaks the
\* connection.
THEOREM ChainIsWhole == Spec => ChainMeansAll
<1> DEFINE Whole == \A c \in calls : c.what = "all" /\ c \notin calls' /\ c.key \in page'.done \ page.done =>
                      \A i \in DOMAIN Chain[c.key] : \E j \in (c.from + 1)..Len(jobs) : Is(j, Chain[c.key][i])
<1>1. Init => ChainInv
  BY ChainInit
<1>2. ChainInv /\ [Next]_jobVars => ChainInv'
  BY ChainNext
<1>3. ChainInv /\ [Next]_jobVars => Whole
  <2> SUFFICES ASSUME ChainInv, [Next]_jobVars, NEW c \in calls, c.what = "all", c \notin calls',
                      c.key \in page'.done \ page.done, NEW i \in DOMAIN Chain[c.key]
               PROVE  \E j \in (c.from + 1)..Len(jobs) : Is(j, Chain[c.key][i])
    OBVIOUS
  <2>1. c.at = "wait" /\ Len(c.rest) = 1 /\ jobs[c.job].is \in {"ok", "ok-imported"}
    BY MarkedByTheLast
  <2>2. jobs \in Seq(JobType) /\ CallInv(c, jobs) /\ ChainCall(c, jobs)
    BY KnownCall
  <2>3. Len(Chain[c.key]) \in Nat /\ DOMAIN Chain[c.key] = 1..Len(Chain[c.key])
    BY <2>2, ChainLengths
  <2>4. Len(Chain[c.key]) - Len(c.rest) + 1 = Len(Chain[c.key])
    BY <2>1, <2>3
  <2>5. Since(c.from, Chain[c.key][i], jobs)
    BY <2>1, <2>2, <2>3, <2>4, OneMore
  <2> QED
    BY <2>5 DEF Since, Is
<1>4. ChainInv /\ [Next]_jobVars => [Whole]_jobVars
  BY <1>3
<1> QED
  BY <1>1, <1>2, <1>4, PTL DEF Spec, ChainMeansAll
=============================================================================
