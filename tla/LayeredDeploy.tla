---------------------------- MODULE LayeredDeploy ----------------------------
(***************************************************************************)
(* One run of internal/deploy/deploy.go: render, load the images of the    *)
(* enabled services with a bounded number of docker load processes, check  *)
(* the required files, start the services layer by layer, wait for the     *)
(* health of every service of a layer before the next one, and write the   *)
(* result to the ledger.                                                   *)
(*                                                                         *)
(* Four kinds of actor take steps: the goroutine of Run, one loader per    *)
(* image, one prober per service of the layer (health.WaitHealthy), and    *)
(* the containers, which come up, die and come up again as they like.      *)
(* Services are numbered in the order of the manifest, which is the order  *)
(* of both loops.                                                          *)
(***************************************************************************)
EXTENDS Naturals, FiniteSets

CONSTANTS
    NumServices,    \* enabled services of the manifest
    Layer,          \* layer of each service, checked to be in 1..4 by config
    Unprobed,       \* services whose health type is "none"
    Concurrency     \* docker load processes at a time

Service == 1..NumServices
LastLayer == 4

ASSUME DeployAssumption ==
    /\ NumServices \in Nat
    /\ Layer \in [Service -> 1..LastLayer]
    /\ Unprobed \subseteq Service
    /\ Concurrency \in Nat \ {0}

VARIABLES
    opts,       \* options and package contents of this run
    pc,         \* where Run is
    cursor,     \* loop variable over the services
    images,     \* services whose image is in the local docker
    loader,     \* goroutine that loads the image of each service
    errCh,      \* errors in the channel of loadImages
    layer,      \* layer that Run works on
    container,  \* release that the container of each service runs
    answering,  \* services whose port answers
    upped,      \* services that Run has passed to docker compose up
    prober,     \* goroutine that waits for the health of each service
    expired,    \* services whose health deadline has passed
    heard,      \* services whose port has answered since their prober started
    silent,     \* services whose port has been silent since then
    smoke,      \* smoke report: services and their verdicts
    result,     \* what Run returned
    record      \* what Run left in the ledger

mainVars == <<pc, cursor, layer, upped, smoke, result, record>>
loadVars == <<images, loader, errCh>>
probeVars == <<prober, expired, heard, silent>>
containerVars == <<container, answering>>
deployVars == <<opts, mainVars, loadVars, containerVars, probeVars>>

OfLayer(k) == {s \in Service : Layer[s] = k}
Loading == {s \in Service : loader[s] \in {"loading", "failed"}}
NoErr == "none"

-----------------------------------------------------------------------------
\* A package may lack images/ altogether, or the tar file of an image, or a
\* required file; containers of an earlier deployment may be running.
Init ==
    /\ opts \in [skipRender : BOOLEAN, dryRun : BOOLEAN, imagesDir : BOOLEAN,
                 tars : SUBSET Service, filesOK : BOOLEAN]
    /\ pc = "render"
    /\ cursor = 1
    /\ images \in SUBSET Service
    /\ loader = [s \in Service |-> "none"]
    /\ errCh = 0
    /\ layer = 1
    /\ container \in [Service -> {"none", "old"}]
    /\ answering = {}
    /\ upped = {}
    /\ prober = [s \in Service |-> "idle"]
    /\ expired = {}
    /\ heard = {}
    /\ silent = {}
    /\ smoke = {}
    /\ result = NoErr
    /\ record = NoErr

Finish(res) ==
    /\ pc' = "done"
    /\ result' = res

\* writeDeployRecord, whose error is dropped: the record may not be written.
FinishWithRecord(res) ==
    /\ Finish(res)
    /\ record' \in {res, NoErr}

\* Rendering, unless it is skipped, and the dry run that stops after it.
Render ==
    /\ pc = "render"
    /\ \/ /\ ~opts.skipRender
          /\ Finish("error")
       \/ /\ opts.dryRun
          /\ Finish("ok")
       \/ /\ ~opts.dryRun
          /\ pc' = "scan"
          /\ UNCHANGED result
    /\ UNCHANGED <<opts, cursor, layer, upped, smoke, record, loadVars, containerVars, probeVars>>

-----------------------------------------------------------------------------
(* loadImages.                                                              *)

\* The loop: an image that is there, or that has no tar file, is skipped.
Scan(s) ==
    /\ pc = "scan"
    /\ opts.imagesDir
    /\ cursor = s
    /\ cursor' = s + 1
    /\ loader' = IF s \notin images /\ s \in opts.tars
                 THEN [loader EXCEPT ![s] = "queued"] ELSE loader
    /\ UNCHANGED <<opts, pc, layer, upped, smoke, result, record, images, errCh,
                   containerVars, probeVars>>

\* Fault: no semaphore.
AcquireFreely(s) ==
    /\ loader[s] = "queued"
    /\ loader' = [loader EXCEPT ![s] = "loading"]
    /\ UNCHANGED <<opts, mainVars, images, errCh, containerVars, probeVars>>

\* sem <- struct{}{}: the semaphore has room for Concurrency loaders.
Acquire(s) ==
    /\ loader[s] = "queued"
    /\ Cardinality(Loading) < Concurrency
    /\ loader' = [loader EXCEPT ![s] = "loading"]
    /\ UNCHANGED <<opts, mainVars, images, errCh, containerVars, probeVars>>

LoadOK(s) ==
    /\ loader[s] = "loading"
    /\ loader' = [loader EXCEPT ![s] = "done"]
    /\ images' = images \cup {s}
    /\ UNCHANGED <<opts, mainVars, errCh, containerVars, probeVars>>

\* Fault: room for one error only in the channel.
SmallChannel == 1

\* make(chan error, len(services)).
ErrCapacity == NumServices

LoadFails(s) ==
    /\ loader[s] = "loading"
    /\ loader' = [loader EXCEPT ![s] = "failed"]
    /\ UNCHANGED <<opts, mainVars, images, errCh, containerVars, probeVars>>

\* errCh <- err, before the semaphore is released.
SendErr(s) ==
    /\ loader[s] = "failed"
    /\ errCh < ErrCapacity
    /\ errCh' = errCh + 1
    /\ loader' = [loader EXCEPT ![s] = "done"]
    /\ UNCHANGED <<opts, mainVars, images, containerVars, probeVars>>

\* Fault: an error makes loadImages return before the other loaders have ended.
AllLoadedOrError ==
    errCh > 0 \/ (cursor > NumServices /\ \A s \in Service : loader[s] \in {"none", "done"})

\* wg.Wait of loadImages, at the end of the loop.
AllLoaded ==
    cursor > NumServices /\ \A s \in Service : loader[s] \in {"none", "done"}

\* The first error ends Run; so does a required file that is not there.
Loaded ==
    /\ pc = "scan"
    /\ ~opts.imagesDir \/ AllLoaded
    /\ IF errCh > 0 \/ ~opts.filesOK
       THEN Finish("error") /\ UNCHANGED cursor
       ELSE pc' = "up" /\ cursor' = 1 /\ UNCHANGED result
    /\ UNCHANGED <<opts, layer, upped, smoke, record, loadVars, containerVars, probeVars>>

-----------------------------------------------------------------------------
(* The layers.                                                              *)

\* docker compose up -d of one service.  Its error is only logged.  Without
\* the image it fails and leaves the old container; a failure later on may
\* leave the old container, none, or the new one.
ComposeUp(s) ==
    /\ pc = "up"
    /\ s \in OfLayer(layer)
    /\ cursor <= s /\ \A t \in OfLayer(layer) : t >= cursor => t >= s
    /\ cursor' = s + 1
    /\ upped' = upped \cup {s}
    /\ \/ UNCHANGED containerVars
       \/ /\ s \in images
          /\ \E release \in {"new", "none"} :
                container' = [container EXCEPT ![s] = release]
          /\ answering' = answering \ {s}
    /\ UNCHANGED <<opts, pc, layer, smoke, result, record, loadVars, probeVars>>

\* Every service of the layer is up: one prober each.
StartProbers ==
    /\ pc = "up"
    /\ OfLayer(layer) # {}
    /\ \A s \in OfLayer(layer) : s < cursor
    /\ pc' = "probe"
    /\ prober' = [s \in Service |-> IF s \in OfLayer(layer) THEN "probing" ELSE prober[s]]
    /\ heard' = heard \cup (OfLayer(layer) \cap answering)
    /\ silent' = silent \cup (OfLayer(layer) \ answering)
    /\ UNCHANGED <<opts, cursor, layer, upped, smoke, result, record, loadVars,
                   containerVars, expired>>

SkipEmptyLayer ==
    /\ pc = "up"
    /\ layer <= LastLayer /\ OfLayer(layer) = {}
    /\ layer' = layer + 1
    /\ UNCHANGED <<opts, pc, cursor, upped, smoke, result, record, loadVars,
                   containerVars, probeVars>>

\* Fault: the deadline is looked at before the first probe is made.
ProbeAfterDeadline(s) ==
    /\ prober[s] = "probing"
    /\ prober' = [prober EXCEPT ![s] =
                    IF s \in expired THEN "failed"
                    ELSE IF s \in Unprobed \/ s \in answering THEN "healthy" ELSE "missed"]
    /\ UNCHANGED <<opts, mainVars, loadVars, containerVars, expired, heard, silent>>

\* WaitHealthy: one probe of the port of the service.
Probe(s) ==
    /\ prober[s] = "probing"
    /\ prober' = [prober EXCEPT ![s] =
                    IF s \in Unprobed \/ s \in answering THEN "healthy" ELSE "missed"]
    /\ UNCHANGED <<opts, mainVars, loadVars, containerVars, expired, heard, silent>>

\* After a probe that failed: give up, or sleep and probe again.
CheckDeadline(s) ==
    /\ prober[s] = "missed"
    /\ prober' = [prober EXCEPT ![s] = IF s \in expired THEN "failed" ELSE "probing"]
    /\ UNCHANGED <<opts, mainVars, loadVars, containerVars, expired, heard, silent>>

\* Time passes: the deadline of a prober that is still at work.
Expire(s) ==
    /\ prober[s] \in {"probing", "missed"}
    /\ s \notin expired
    /\ expired' = expired \cup {s}
    /\ UNCHANGED <<opts, mainVars, loadVars, containerVars, prober, heard, silent>>

\* wg.Wait of the layer.
AllVerdicts == \A s \in OfLayer(layer) : prober[s] \in {"healthy", "failed"}

\* Fault: a layer passes when one of its services is healthy.
SomeHealthy == \E s \in OfLayer(layer) : prober[s] = "healthy"

LayerOK == \A s \in OfLayer(layer) : prober[s] = "healthy"

Verdicts == {[name |-> s, ok |-> prober[s] = "healthy"] : s \in OfLayer(layer)}

\* The results of the layer go into the report; one that is not healthy ends
\* the run with a failed record.
Collect ==
    /\ pc = "probe"
    /\ AllVerdicts
    /\ smoke' = smoke \cup Verdicts
    /\ IF LayerOK
       THEN /\ layer' = layer + 1
            /\ pc' = "up"
            /\ cursor' = 1
            /\ UNCHANGED <<result, record>>
       ELSE FinishWithRecord("error") /\ UNCHANGED <<layer, cursor>>
    /\ UNCHANGED <<opts, upped, loadVars, containerVars, probeVars>>

\* Fault: a fourth layer that is never reached.
ThreeLayersDone == layer >= LastLayer

LayersDone == layer > LastLayer

Succeed ==
    /\ pc = "up"
    /\ LayersDone
    /\ FinishWithRecord("ok")
    /\ UNCHANGED <<opts, cursor, layer, upped, smoke, loadVars, containerVars, probeVars>>

-----------------------------------------------------------------------------
(* The containers.  A port answers for whichever version listens there.     *)

Probed(s) == IF prober[s] \in {"probing", "missed"} THEN {s} ELSE {}

\* Once the run is over the containers are left out, so that it may stop.
Answer(s) ==
    /\ pc # "done"
    /\ container[s] # "none" /\ s \notin answering
    /\ answering' = answering \cup {s}
    /\ heard' = heard \cup Probed(s)
    /\ UNCHANGED <<opts, mainVars, loadVars, container, prober, expired, silent>>

Die(s) ==
    /\ pc # "done"
    /\ s \in answering
    /\ answering' = answering \ {s}
    /\ silent' = silent \cup Probed(s)
    /\ UNCHANGED <<opts, mainVars, loadVars, container, prober, expired, heard>>

RunStep ==
    \/ Render \/ Loaded \/ StartProbers \/ SkipEmptyLayer \/ Collect \/ Succeed
    \/ \E s \in Service : Scan(s) \/ ComposeUp(s)

LoaderStep(s) == Acquire(s) \/ LoadOK(s) \/ LoadFails(s) \/ SendErr(s)
ProberStep(s) == Probe(s) \/ CheckDeadline(s)

Next ==
    \/ RunStep
    \/ \E s \in Service : \/ LoaderStep(s) \/ ProberStep(s) \/ Expire(s)
                          \/ Answer(s) \/ Die(s)

Spec == Init /\ [][Next]_deployVars

\* Go runs every goroutine that can go on, docker load returns within the ten
\* minutes of its Runner, and time passes.  Containers owe nothing.
Fairness ==
    /\ WF_deployVars(RunStep)
    /\ \A s \in Service : /\ WF_deployVars(LoaderStep(s))
                          /\ WF_deployVars(ProberStep(s))
                          /\ WF_deployVars(Expire(s))

FairSpec == Spec /\ Fairness

-----------------------------------------------------------------------------
(* Properties.                                                              *)

\* Types, and no more than Concurrency docker load processes.
TypeOK ==
    /\ opts \in [skipRender : BOOLEAN, dryRun : BOOLEAN, imagesDir : BOOLEAN,
                 tars : SUBSET Service, filesOK : BOOLEAN]
    /\ pc \in {"render", "scan", "up", "probe", "done"}
    /\ cursor \in 1..(NumServices + 1)
    /\ images \subseteq Service
    /\ loader \in [Service -> {"none", "queued", "loading", "failed", "done"}]
    /\ errCh \in 0..NumServices
    /\ layer \in 1..(LastLayer + 1)
    /\ container \in [Service -> {"none", "old", "new"}]
    /\ answering \subseteq Service
    /\ upped \subseteq Service
    /\ prober \in [Service -> {"idle", "probing", "missed", "healthy", "failed"}]
    /\ expired \subseteq Service
    /\ heard \subseteq Service /\ silent \subseteq Service
    /\ smoke \subseteq [name : Service, ok : BOOLEAN]
    /\ result \in {NoErr, "ok", "error"}
    /\ record \in {NoErr, "ok", "error"}
    /\ Cardinality(Loading) <= Concurrency

Healthy(s) == [name |-> s, ok |-> TRUE] \in smoke

\* No service is started before every enabled service of every lower layer has
\* been reported healthy ("the next layer starts only when the layer before is
\* all healthy", plan 6.7), whatever the order in which probers answer.
LayerBarrier ==
    \A s \in upped, t \in Service : Layer[t] < Layer[s] => Healthy(t)

\* A run that returns success, and is not a dry run, has started every enabled
\* service and has a report in which each is healthy and none is not; a record
\* in the ledger says what the run returned.
SuccessIsComplete ==
    pc = "done" =>
        /\ record \in {NoErr, result}
        /\ result = "ok" /\ ~opts.dryRun =>
              upped = Service /\ smoke = [name : Service, ok : {TRUE}]

\* A verdict is about something that happened: a service is reported healthy
\* only if its port answered while it was probed, and unhealthy only if the
\* port was silent at some time then, even when the deadline passes during
\* the first probe.
VerdictObserved ==
    \A s \in Service \ Unprobed :
        /\ prober[s] = "healthy" => s \in heard
        /\ prober[s] = "failed" => s \in silent

\* Nothing that Run started is still at work when it has returned.
QuietAtEnd ==
    pc = "done" => \A s \in Service : /\ loader[s] \in {"none", "done"}
                                      /\ prober[s] \in {"idle", "healthy", "failed"}

\* The run ends, whatever fails and however the containers behave: no channel
\* that fills up, no wait for a goroutine that has gone.
Termination == <>(pc = "done")

\* The plan (6.12) calls the ledger the only truth on "which version this site
\* runs now": a success on record means that every container runs it.
RecordIsTruth ==
    record = "ok" => \A s \in Service : container[s] = "new"

\* The plan (6.12) records every deploy with its result.
EveryRunRecorded ==
    pc = "done" /\ ~opts.dryRun => record # NoErr
=============================================================================
