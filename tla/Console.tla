------------------------------ MODULE Console ------------------------------
(***************************************************************************)
(* The web console: pages (web/src/composables/createConsole.js) that      *)
(* start jobs and wait for their end, and the server (internal/ui) that    *)
(* runs each job in a goroutine and keeps its status in memory.            *)
(*                                                                         *)
(* A page starts one job, or a chain of them ("deploy all"), one after the *)
(* other until one fails.  It waits over a WebSocket (watchJob), to which  *)
(* handleWSJob writes the job every half second, or asks again and again   *)
(* (pollJob).  The server may be restarted, which empties its table of     *)
(* jobs, and any connection may break.                                     *)
(*                                                                         *)
(* "Page" is one such function of a page, with its wait.  Several may be   *)
(* at work on one page: the verification starts with no look at busy, and  *)
(* what expands archives does not set it (module WizardJobs).  Here each   *)
(* is a page of its own, and a socket that another function takes is a     *)
(* connection that breaks.                                                 *)
(***************************************************************************)
EXTENDS Naturals, Sequences, FiniteSets

CONSTANTS
    Pages,          \* functions of browser pages that run jobs
    MaxChain,       \* bound: jobs in a chain
    MaxJobs,        \* bound: jobs in a behaviour
    MaxRestarts,    \* bound: restarts of the server
    MaxWire         \* bound: messages on their way to a page

ASSUME ConsoleAssumption == MaxChain \in Nat /\ MaxJobs \in Nat /\ MaxRestarts \in Nat /\ MaxWire \in Nat

VARIABLES
    \* The server.
    jobs,       \* status of each job
    known,      \* jobs in the table of the server
    working,    \* jobs whose goroutine is at work
    restarts,
    handler,    \* where handleWSJob is for each page
    \* Each page.
    page,       \* what it is doing
    job,        \* the job it has started last
    mine,       \* jobs of its chain
    asked,      \* how many jobs the chain is to have
    left,       \* how many of them are not started yet
    told,       \* how it saw its last job end
    stepDone,   \* the mark of its step: the chain that has set it
    wire        \* what the server has sent over the socket of each page

serverVars == <<jobs, known, working, restarts>>
chainVars == <<job, mine, asked, left>>
consoleVars == <<serverVars, handler, page, chainVars, told, stepDone, wire>>

Job == 1..MaxJobs
Started == {j \in Job : jobs[j] # "none"}
Ended(s) == s \in {"ok", "fail"}

\* The step is not shown as done.
NotDone == [by |-> {}, of |-> 0]

-----------------------------------------------------------------------------
Init ==
    /\ jobs = [j \in Job |-> "none"]
    /\ known = {} /\ working = {} /\ restarts = 0
    /\ handler = [p \in Pages |-> "none"]
    /\ page = [p \in Pages |-> "idle"]
    /\ job = [p \in Pages |-> 0]
    /\ mine = [p \in Pages |-> {}]
    /\ asked = [p \in Pages |-> 0]
    /\ left = [p \in Pages |-> 0]
    /\ told = [p \in Pages |-> "none"]
    /\ stepDone = [p \in Pages |-> NotDone]
    /\ wire = [p \in Pages |-> <<>>]

-----------------------------------------------------------------------------
(* The server.                                                              *)

OkJob(j) ==
    /\ j \in working
    /\ jobs' = [jobs EXCEPT ![j] = "ok"]
    /\ working' = working \ {j}
    /\ UNCHANGED <<known, restarts, handler, page, chainVars, told, stepDone, wire>>

\* Fault: the handler does not return after failJob.
FailAndGoOn(j) ==
    /\ j \in working
    /\ jobs' = [jobs EXCEPT ![j] = "fail"]
    /\ UNCHANGED <<known, working, restarts, handler, page, chainVars, told, stepDone, wire>>

FailJob(j) ==
    /\ j \in working
    /\ jobs' = [jobs EXCEPT ![j] = "fail"]
    /\ working' = working \ {j}
    /\ UNCHANGED <<known, restarts, handler, page, chainVars, told, stepDone, wire>>

\* handleWSJob, at a tick: the job, as it is now, goes to the page.
Write(p) ==
    /\ handler[p] = "tick"
    /\ Len(wire[p]) < MaxWire
    /\ IF job[p] \in known
       THEN /\ wire' = [wire EXCEPT ![p] = Append(@, jobs[job[p]])]
            /\ handler' = [handler EXCEPT ![p] = "written"]
       ELSE /\ wire' = [wire EXCEPT ![p] = @ \o <<"not found", "closed">>]
            /\ handler' = [handler EXCEPT ![p] = "gone"]
    /\ UNCHANGED <<serverVars, page, chainVars, told, stepDone>>

\* Then it looks at the status again, and returns when the job has ended.
CheckStatus(p) ==
    /\ handler[p] = "written"
    /\ IF Ended(jobs[job[p]])
       THEN /\ wire' = [wire EXCEPT ![p] = Append(@, "closed")]
            /\ handler' = [handler EXCEPT ![p] = "gone"]
       ELSE /\ handler' = [handler EXCEPT ![p] = "tick"]
            /\ UNCHANGED wire
    /\ UNCHANGED <<serverVars, page, chainVars, told, stepDone>>

\* The connection breaks.
Break(p) ==
    /\ handler[p] \in {"tick", "written"}
    /\ handler' = [handler EXCEPT ![p] = "gone"]
    /\ wire' = [wire EXCEPT ![p] = Append(@, "closed")]
    /\ UNCHANGED <<serverVars, page, chainVars, told, stepDone>>

\* The process ends, its jobs with it, and a new one takes its place.
Restart ==
    /\ restarts < MaxRestarts
    /\ restarts' = restarts + 1
    /\ known' = {} /\ working' = {}
    /\ handler' = [p \in Pages |-> IF handler[p] = "none" THEN "none" ELSE "gone"]
    /\ wire' = [p \in Pages |-> IF handler[p] \in {"tick", "written"}
                                THEN Append(wire[p], "closed") ELSE wire[p]]
    /\ UNCHANGED <<jobs, page, chainVars, told, stepDone>>

-----------------------------------------------------------------------------
(* The pages.                                                               *)

CloseSocket(p) ==
    /\ handler' = [handler EXCEPT ![p] = "none"]
    /\ wire' = [wire EXCEPT ![p] = <<>>]

\* A button, or a step that starts its job by itself.  A deployment takes its
\* mark away (runDeploy); a chain leaves the one that an earlier chain has set.
Begin(p) ==
    /\ page[p] = "idle"
    /\ page' = [page EXCEPT ![p] = "post"]
    /\ \E n \in 1..MaxChain : asked' = [asked EXCEPT ![p] = n] /\ left' = [left EXCEPT ![p] = n]
    /\ mine' = [mine EXCEPT ![p] = {}]
    /\ stepDone' \in {stepDone, [stepDone EXCEPT ![p] = NotDone]}
    /\ CloseSocket(p)
    /\ UNCHANGED <<serverVars, job, told>>

\* The request makes a job, whether or not its answer gets back.
Post(p, how) ==
    /\ page[p] = "post"
    /\ \E j \in Job :
          /\ jobs[j] = "none" /\ \A i \in 1..(j - 1) : jobs[i] # "none"
          /\ jobs' = [jobs EXCEPT ![j] = "running"]
          /\ known' = known \cup {j}
          /\ working' = working \cup {j}
          /\ job' = [job EXCEPT ![p] = j]
          /\ mine' = [mine EXCEPT ![p] = @ \cup {j}]
    /\ left' = [left EXCEPT ![p] = @ - 1]
    /\ UNCHANGED asked
    /\ page' = [page EXCEPT ![p] = how]
    /\ told' = [told EXCEPT ![p] = IF how = "idle" THEN "error" ELSE "none"]
    /\ UNCHANGED <<restarts, handler, stepDone, wire>>

\* The request is refused or does not arrive.
PostFails(p) ==
    /\ page[p] = "post"
    /\ page' = [page EXCEPT ![p] = "idle"]
    /\ told' = [told EXCEPT ![p] = "error"]
    /\ UNCHANGED <<serverVars, handler, chainVars, stepDone, wire>>

\* The step is done, by the chain that ends.
Mark(p) == stepDone' = [stepDone EXCEPT ![p] = [by |-> mine[p], of |-> asked[p]]]

\* Fault: the loop over the chain does not look at the outcome.
GoOn(p, res) ==
    /\ told' = [told EXCEPT ![p] = res]
    /\ page' = [page EXCEPT ![p] = IF left[p] > 0 THEN "post" ELSE "idle"]
    /\ IF left[p] = 0 THEN Mark(p) ELSE UNCHANGED stepDone

\* The page has learnt how its job ended: the next one of the chain, or the
\* end of the chain, or, if it failed, nothing more.
Conclude(p, res) ==
    /\ told' = [told EXCEPT ![p] = res]
    /\ page' = [page EXCEPT ![p] = IF res = "ok" /\ left[p] > 0 THEN "post" ELSE "idle"]
    /\ IF res = "ok" /\ left[p] = 0 THEN Mark(p) ELSE UNCHANGED stepDone

\* new WebSocket.  It opens, or onerror ends the wait.
Open(p) ==
    /\ page[p] = "watch" /\ handler[p] = "none"
    /\ \/ /\ handler' = [handler EXCEPT ![p] = "tick"]
          /\ UNCHANGED <<page, told, stepDone>>
       \/ Conclude(p, "error") /\ UNCHANGED handler
    /\ UNCHANGED <<serverVars, chainVars, wire>>

\* onmessage: only a job that has ended ends the wait.
Receive(p) ==
    /\ page[p] = "watch" /\ wire[p] # <<>>
    /\ Head(wire[p]) # "closed"
    /\ IF Ended(Head(wire[p]))
       THEN CloseSocket(p) /\ Conclude(p, Head(wire[p]))
       ELSE /\ wire' = [wire EXCEPT ![p] = Tail(@)]
            /\ UNCHANGED <<handler, page, told, stepDone>>
    /\ UNCHANGED <<serverVars, chainVars>>

\* The socket is closed under the page.  A browser may raise an error with it
\* or not; there is no onclose.
Closed(p) ==
    /\ page[p] = "watch" /\ wire[p] # <<>>
    /\ Head(wire[p]) = "closed"
    /\ \/ /\ wire' = [wire EXCEPT ![p] = Tail(@)]
          /\ UNCHANGED <<handler, page, told, stepDone>>
       \/ CloseSocket(p) /\ Conclude(p, "error")
    /\ UNCHANGED <<serverVars, chainVars>>

\* Fault: pollJob waits for a success only.
StopsOnOk(s) == s = "ok"

Stops(s) == s \in {"ok", "fail"}

\* pollJob: the next answer that is not "running", or an exception.
Poll(p) ==
    /\ page[p] = "poll"
    /\ \/ /\ job[p] \in known /\ Stops(jobs[job[p]])
          /\ Conclude(p, jobs[job[p]])
       \/ /\ job[p] \notin known
          /\ Conclude(p, "error")
    /\ UNCHANGED <<serverVars, handler, chainVars, wire>>

PollBreaks(p) ==
    /\ page[p] = "poll"
    /\ Conclude(p, "error")
    /\ UNCHANGED <<serverVars, handler, chainVars, wire>>

\* The page is loaded again: it knows nothing of a job that may go on.
Reload(p) ==
    /\ page[p] # "idle"
    /\ page' = [page EXCEPT ![p] = "idle"]
    /\ told' = [told EXCEPT ![p] = "error"]
    /\ CloseSocket(p)
    /\ UNCHANGED <<serverVars, chainVars, stepDone>>

PageStep(p) ==
    \/ Begin(p) \/ Reload(p) \/ PostFails(p) \/ Open(p) \/ Receive(p) \/ Closed(p) \/ Poll(p) \/ PollBreaks(p)
    \/ \E how \in {"watch", "poll", "idle"} : Post(p, how)

Next ==
    \/ \E j \in Job : OkJob(j) \/ FailJob(j)
    \/ \E p \in Pages : Write(p) \/ CheckStatus(p) \/ Break(p) \/ PageStep(p)
    \/ Restart

Spec == Init /\ [][Next]_consoleVars

\* What a job does ends: docker, ssh and HTTP calls have timeouts.  The timer
\* of pollJob fires and its requests are answered.
FairSpec ==
    /\ Spec
    /\ \A j \in Job : WF_consoleVars(OkJob(j) \/ FailJob(j))
    /\ \A p \in Pages : WF_consoleVars(Poll(p))

-----------------------------------------------------------------------------
(* Properties.                                                              *)

\* Types; a page has a socket only while it watches.
TypeOK ==
    /\ jobs \in [Job -> {"none", "running", "ok", "fail"}]
    /\ working \subseteq known /\ known \subseteq Started
    /\ restarts \in 0..MaxRestarts
    /\ handler \in [Pages -> {"none", "tick", "written", "gone"}]
    /\ page \in [Pages -> {"idle", "post", "watch", "poll"}]
    /\ job \in [Pages -> 0..MaxJobs]
    /\ mine \in [Pages -> SUBSET Started]
    /\ asked \in [Pages -> 0..MaxChain] /\ left \in [Pages -> 0..MaxChain]
    /\ told \in [Pages -> {"none", "ok", "fail", "error"}]
    /\ stepDone \in [Pages -> [by : SUBSET Job, of : 0..MaxChain]]
    /\ wire \in [Pages -> Seq({"running", "ok", "fail", "not found", "closed"})]
    /\ \A p \in Pages : handler[p] # "none" => page[p] = "watch"

\* What a page has seen as the end of its job is its end: the status does not
\* change any more, however the job was watched.
ConclusionIsFinal ==
    \A p \in Pages : told[p] \in {"ok", "fail"} => jobs[job[p]] = told[p]

\* The mark of a step is that of a chain which has started as many jobs as it
\* was asked for, and every one of them has ended well ("stop after a failure,
\* so that half a set is not taken for the whole"), whatever chains that failed,
\* lost sight of a job or were reloaded came before and after it.
StepDoneIsDone ==
    \A p \in Pages :
        /\ Cardinality(stepDone[p].by) = stepDone[p].of
        /\ \A j \in stepDone[p].by : jobs[j] = "ok"

\* The types, and the steps.
ConsoleOK == TypeOK /\ StepDoneIsDone

\* A page that polls is done some time, whatever happens to job and server.
PollEnds == \A p \in Pages : page[p] = "poll" ~> page[p] # "poll"

\* Plan P1-2: the job's WebSocket pushes the progress, and "a failure brings
\* its log by itself".  So when handleWSJob is through with a job that has
\* ended, and no connection broke, the end is what it has sent last.
EndIsSent ==
    [][\A p \in Pages : handler[p] = "written" /\ handler'[p] = "gone" /\ CheckStatus(p) =>
          \E i \in DOMAIN wire[p] : Ended(wire[p][i])]_consoleVars
=============================================================================
