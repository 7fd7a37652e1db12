------------------------ MODULE LayeredDeployProofs -------------------------
(***************************************************************************)
(* Theorems about LayeredDeploy, for any number of services, any layers    *)
(* and any concurrency.                                                    *)
(*                                                                         *)
(* LayerBarrier is not inductive: it needs that Run has not touched        *)
(* services above its current layer, and that whatever is below has been   *)
(* reported healthy (Passed).  SuccessIsComplete needs besides that every  *)
(* service below has been started and that no service with a bad verdict   *)
(* is in the report of a run that goes on (Clean).                         *)
(***************************************************************************)
EXTENDS LayeredDeploy, FiniteSetTheorems, TLAPS

\* The types, the bound of the semaphore apart.
Types ==
    /\ opts \in [skipRender : BOOLEAN, dryRun : BOOLEAN, imagesDir : BOOLEAN,
                 tars : SUBSET Service, filesOK : BOOLEAN]
    /\ pc \in {"render", "scan", "up", "probe", "done"}
    /\ cursor \in 1..(NumServices + 1)
    /\ images \subseteq Service
    /\ loader \in [Service -> {"none", "queued", "loading", "failed", "done"}]
    /\ errCh \in 0..NumServices
    /\ layer \in 1..(LastLayer + 1)
    /\ container \in [Service -> {"none", "old", "new"}]
    /\ answering \subseteq Service
    /\ upped \subseteq Service
    /\ prober \in [Service -> {"idle", "probing", "missed", "healthy", "failed"}]
    /\ expired \subseteq Service
    /\ heard \subseteq Service /\ silent \subseteq Service
    /\ smoke \subseteq [name : Service, ok : BOOLEAN]
    /\ result \in {NoErr, "ok", "error"}
    /\ record \in {NoErr, "ok", "error"}

Permits == Cardinality(Loading) <= Concurrency

\* A layer that is being probed is one of the four.
ProbedLayer == pc = "probe" => layer <= LastLayer

\* Run has touched nothing above its layer, and all below it is healthy.
Passed ==
    /\ \A s \in upped : Layer[s] <= layer
    /\ \A s \in Service : Layer[s] < layer => Healthy(s)

\* What lies below has been started, and so has the layer that is probed and
\* the part of a layer that the cursor has passed.
Started ==
    /\ \A s \in Service : Layer[s] < layer => s \in upped
    /\ pc = "probe" => OfLayer(layer) \subseteq upped
    /\ pc = "up" => \A s \in OfLayer(layer) : s < cursor => s \in upped
    /\ pc = "up" /\ OfLayer(layer) = {} => cursor = 1

\* Bad verdicts end the run; results and records are of the end.
Clean ==
    /\ result # "error" => \A e \in smoke : e.ok = TRUE
    /\ pc # "done" => result = NoErr
    /\ pc = "done" => record \in {NoErr, result}
    /\ pc # "done" => record = NoErr
    /\ result = "ok" /\ ~opts.dryRun => layer > LastLayer

DeployInv == Types /\ ProbedLayer /\ Passed /\ Started /\ Clean

-----------------------------------------------------------------------------
LEMMA InitTypes == Init => Types
<1> SUFFICES ASSUME Init PROVE Types
  OBVIOUS
<1>1. container \in [Service -> {"none", "old", "new"}]
  BY DEF Init
<1>2. /\ cursor \in 1..(NumServices + 1) /\ errCh \in 0..NumServices
      /\ layer \in 1..(LastLayer + 1)
  BY DeployAssumption DEF Init, LastLayer
<1> QED
  BY <1>1, <1>2 DEF Init, Types, NoErr

\* The results of a layer are entries of the report.
LEMMA VerdictTypes == Verdicts \subseteq [name : Service, ok : BOOLEAN]
<1> SUFFICES ASSUME NEW s \in Service
             PROVE  [name |-> s, ok |-> prober[s] = "healthy"] \in [name : Service, ok : BOOLEAN]
  BY Zenon DEF Verdicts, OfLayer
<1> DEFINE ok == prober[s] = "healthy"
<1>1. ok \in BOOLEAN
  OBVIOUS
<1>2. [name |-> s, ok |-> ok] \in [name : Service, ok : BOOLEAN]
  <2> HIDE DEF ok
  <2> QED
    BY <1>1
<1> QED
  BY <1>2

\* Every step keeps the types.
LEMMA StepTypes == ASSUME Types, ProbedLayer, [Next]_deployVars PROVE Types'
<1> USE DeployAssumption DEF Types, mainVars, loadVars, containerVars, probeVars
<1>1. CASE Render
  BY <1>1 DEF Render, Finish, NoErr
<1>2. CASE Loaded
  BY <1>2 DEF Loaded, Finish, NoErr, Service
<1>3. CASE StartProbers
  BY <1>3 DEF StartProbers, OfLayer
<1>4. CASE SkipEmptyLayer
  BY <1>4 DEF SkipEmptyLayer, LastLayer
<1>5. CASE Collect
  <2>1. smoke' \subseteq [name : Service, ok : BOOLEAN]
    BY <1>5, VerdictTypes DEF Collect
  <2>2. layer' \in 1..(LastLayer + 1) /\ cursor' \in 1..(NumServices + 1)
    BY <1>5 DEF Collect, ProbedLayer, LastLayer
  <2>3. /\ pc' \in {"render", "scan", "up", "probe", "done"}
        /\ result' \in {NoErr, "ok", "error"}
        /\ record' \in {NoErr, "ok", "error"}
    BY <1>5 DEF Collect, FinishWithRecord, Finish, NoErr
  <2> QED
    BY <1>5, <2>1, <2>2, <2>3 DEF Collect
<1>6. CASE Succeed
  BY <1>6 DEF Succeed, FinishWithRecord, Finish, NoErr
<1>7. ASSUME NEW s \in Service, Scan(s) PROVE Types'
  BY <1>7 DEF Scan, Service
<1>8. ASSUME NEW s \in Service, ComposeUp(s) PROVE Types'
  <2>1. container' \in [Service -> {"none", "old", "new"}]
    BY <1>8 DEF ComposeUp
  <2>2. answering' \subseteq Service
    BY <1>8 DEF ComposeUp
  <2>3. cursor' \in 1..(NumServices + 1)
    BY <1>8 DEF ComposeUp, Service
  <2> QED
    BY <1>8, <2>1, <2>2, <2>3 DEF ComposeUp
<1>9. ASSUME NEW s \in Service, LoaderStep(s) PROVE Types'
  <2>1. /\ errCh' \in 0..NumServices
        /\ images' \subseteq Service
        /\ loader' \in [Service -> {"none", "queued", "loading", "failed", "done"}]
    BY <1>9 DEF LoaderStep, Acquire, LoadOK, LoadFails, SendErr, ErrCapacity
  <2>2. UNCHANGED <<opts, mainVars, containerVars, probeVars>>
    BY <1>9 DEF LoaderStep, Acquire, LoadOK, LoadFails, SendErr
  <2> QED
    BY <2>1, <2>2
<1>10. ASSUME NEW s \in Service, ProberStep(s) PROVE Types'
  BY <1>10 DEF ProberStep, Probe, CheckDeadline
<1>11. ASSUME NEW s \in Service, Expire(s) PROVE Types'
  BY <1>11 DEF Expire
<1>12. ASSUME NEW s \in Service, Answer(s) \/ Die(s) PROVE Types'
  BY <1>12 DEF Answer, Die, Probed
<1>13. CASE UNCHANGED deployVars
  BY <1>13 DEF deployVars
<1> QED
  BY <1>1, <1>2, <1>3, <1>4, <1>5, <1>6, <1>7, <1>8, <1>9, <1>10, <1>11, <1>12, <1>13
     DEF Next, RunStep

\* What the steps of loaders, probers, time and containers leave alone.
LEMMA OthersLeaveMain ==
  ASSUME NEW s \in Service,
         LoaderStep(s) \/ ProberStep(s) \/ Expire(s) \/ Answer(s) \/ Die(s)
  PROVE  UNCHANGED <<opts, pc, cursor, layer, upped, smoke, result, record>>
  BY DEF LoaderStep, Acquire, LoadOK, LoadFails, SendErr, ProberStep, Probe, CheckDeadline,
         Expire, Answer, Die, mainVars

-----------------------------------------------------------------------------
(* The invariant.                                                           *)

LEMMA InitInv == Init => DeployInv
<1> SUFFICES ASSUME Init PROVE DeployInv
  OBVIOUS
<1>1. Types
  BY InitTypes
<1>2. ProbedLayer
  BY DEF Init, ProbedLayer
<1>3. Passed
  BY DeployAssumption DEF Init, Passed, LastLayer
<1>4. Started
  BY DeployAssumption DEF Init, Started, LastLayer
<1>5. Clean
  BY DEF Init, Clean, NoErr
<1> QED
  BY <1>1, <1>2, <1>3, <1>4, <1>5 DEF DeployInv

\* A layer has been collected: nobody below it lacks a good verdict.
LEMMA CollectStep == ASSUME DeployInv, Collect PROVE DeployInv'
<1> USE DEF DeployInv
<1>0. Types'
  BY StepTypes DEF Next, RunStep
<1>1. ProbedLayer'
  BY DEF Collect, FinishWithRecord, Finish, ProbedLayer
<1>2. /\ upped' = upped /\ smoke \subseteq smoke' /\ layer' \in {layer, layer + 1}
      /\ opts' = opts /\ pc = "probe" /\ layer \in Nat
  BY DEF Collect, Types, LastLayer
<1>3. layer' = layer + 1 => LayerOK /\ pc' = "up" /\ cursor' = 1 /\ UNCHANGED <<result, record>>
  BY <1>2 DEF Collect
<1>4. layer' = layer => FinishWithRecord("error")
  BY <1>2 DEF Collect
<1>5. ASSUME NEW s \in Service, Layer[s] = layer, LayerOK PROVE Healthy(s)'
  <2>1. s \in OfLayer(layer) /\ prober[s] = "healthy"
    BY <1>5 DEF OfLayer, LayerOK
  <2>2. [name |-> s, ok |-> prober[s] = "healthy"] \in smoke'
    BY <2>1 DEF Collect, Verdicts
  <2>3. (prober[s] = "healthy") = TRUE
    BY <2>1
  <2> QED
    BY <2>2, <2>3 DEF Healthy
<1>6. Passed'
  <2>1. \A s \in Service : Layer[s] \in Nat
    BY DeployAssumption DEF LastLayer
  <2>2. \A s \in upped' : Layer[s] <= layer'
    BY <1>2, <2>1 DEF Passed, Types
  <2>3. ASSUME NEW s \in Service, Layer[s] < layer' PROVE Healthy(s)'
    <3>1. CASE Layer[s] < layer
      BY <3>1, <1>2 DEF Passed, Healthy
    <3>2. CASE ~(Layer[s] < layer)
      BY <3>2, <2>3, <1>2, <1>3, <1>5, <2>1
    <3> QED
      BY <3>1, <3>2
  <2> QED
    BY <2>2, <2>3 DEF Passed
<1>7. Started'
  <2>1. ASSUME NEW s \in Service, Layer[s] < layer' PROVE s \in upped'
    <3>1. Layer[s] \in Nat
      BY DeployAssumption DEF LastLayer
    <3>2. Layer[s] < layer \/ s \in OfLayer(layer)
      BY <3>1, <1>2, <2>1 DEF OfLayer
    <3> QED
      BY <3>2, <1>2 DEF Started
  <2>2. pc' # "probe"
    BY <1>2, <1>3, <1>4 DEF FinishWithRecord, Finish
  <2>3. pc' = "up" => \A s \in Service : ~(s < cursor')
    <3>1. pc' = "up" => cursor' = 1
      BY <1>2, <1>3, <1>4 DEF FinishWithRecord, Finish
    <3> QED
      BY <3>1, DeployAssumption DEF Service
  <2>4. \A s \in OfLayer(layer)' : s \in Service
    BY DEF OfLayer
  <2>5. pc' = "up" => cursor' = 1
    BY <1>2, <1>3, <1>4 DEF FinishWithRecord, Finish
  <2> QED
    BY <2>1, <2>2, <2>3, <2>4, <2>5 DEF Started
<1>8. Clean'
  <2>1. CASE LayerOK
    <3>1. layer' = layer + 1
      BY <2>1 DEF Collect
    <3>2. ASSUME NEW e \in Verdicts PROVE e.ok = TRUE
      <4>1. PICK s \in OfLayer(layer) : e = [name |-> s, ok |-> prober[s] = "healthy"]
        BY Zenon DEF Verdicts
      <4>2. prober[s] = "healthy"
        BY <2>1 DEF LayerOK
      <4>3. e = [name |-> s, ok |-> TRUE]
        BY <4>1, <4>2
      <4> QED
        BY <4>3
    <3>3. result' = result /\ record' = record /\ pc' = "up"
      BY <3>1, <1>3
    <3>4. smoke' = smoke \cup Verdicts
      BY DEF Collect
    <3>5. result = NoErr /\ record = NoErr
      BY <1>2 DEF Clean
    <3>6. \A e \in smoke' : e.ok = TRUE
      BY <3>2, <3>4, <3>5 DEF Clean, NoErr
    <3> QED
      BY <3>3, <3>5, <3>6 DEF Clean, NoErr
  <2>2. CASE ~LayerOK
    BY <2>2 DEF Collect, FinishWithRecord, Finish, Clean, NoErr
  <2> QED
    BY <2>1, <2>2
<1> QED
  BY <1>0, <1>1, <1>6, <1>7, <1>8

\* Every step keeps the invariant.
LEMMA StepInv == ASSUME DeployInv, [Next]_deployVars PROVE DeployInv'
<1> USE DEF DeployInv
<1>0. Types'
  BY StepTypes
<1>1. CASE Render
  <2>1. UNCHANGED <<opts, layer, upped, smoke, record, cursor>> /\ pc = "render"
    BY <1>1 DEF Render
  <2>2. pc' \in {"scan", "done"} /\ result' \in {result, "ok", "error"}
        /\ (pc' = "scan" => result' = result) /\ (pc' = "done" => result' # NoErr)
        /\ (result' = "ok" => result = "ok" \/ opts.dryRun)
    BY <1>1 DEF Render, Finish, NoErr
  <2>3. ProbedLayer' /\ Passed' /\ Started'
    BY <2>1, <2>2 DEF ProbedLayer, Passed, Started, Healthy, OfLayer
  <2>4. Clean'
    BY <2>1, <2>2 DEF Clean, NoErr
  <2> QED
    BY <1>0, <2>3, <2>4
<1>2. CASE Loaded
  <2>1. UNCHANGED <<opts, layer, upped, smoke, record>> /\ pc = "scan"
    BY <1>2 DEF Loaded
  <2>2. \/ pc' = "done" /\ result' = "error"
        \/ pc' = "up" /\ cursor' = 1 /\ result' = result
    BY <1>2 DEF Loaded, Finish
  <2>3. ProbedLayer' /\ Passed'
    BY <2>1, <2>2 DEF ProbedLayer, Passed, Healthy
  <2>4. Started'
    <3>1. \A s \in OfLayer(layer)' : ~(s < 1)
      BY DeployAssumption DEF OfLayer, Service
    <3> QED
      BY <3>1, <2>1, <2>2 DEF Started
  <2>5. Clean'
    BY <2>1, <2>2 DEF Clean, NoErr
  <2> QED
    BY <1>0, <2>3, <2>4, <2>5
<1>3. CASE StartProbers
  <2>1. UNCHANGED <<opts, layer, upped, smoke, record, result, cursor>>
        /\ pc = "up" /\ pc' = "probe"
        /\ OfLayer(layer) # {} /\ \A s \in OfLayer(layer) : s < cursor
    BY <1>3 DEF StartProbers
  <2>2. ProbedLayer'
    BY <2>1, DeployAssumption DEF ProbedLayer, OfLayer, LastLayer
  <2>3. Passed' /\ Started' /\ Clean'
    BY <2>1 DEF Passed, Started, Clean, Healthy, OfLayer
  <2> QED
    BY <1>0, <2>2, <2>3
<1>4. CASE SkipEmptyLayer
  <2>1. UNCHANGED <<opts, upped, smoke, record, result, cursor, pc>>
        /\ pc = "up" /\ layer' = layer + 1 /\ layer \in Nat
        /\ \A s \in Service : Layer[s] # layer
    BY <1>4 DEF SkipEmptyLayer, OfLayer, Types, LastLayer
  <2>2. \A s \in Service : Layer[s] \in Nat
    BY DeployAssumption DEF LastLayer
  <2>3. \A s \in Service : Layer[s] < layer + 1 => Layer[s] < layer
    BY <2>1, <2>2
  <2>4. ProbedLayer' /\ Clean'
    <3>1. result = NoErr
      BY <2>1 DEF Clean
    <3>2. ProbedLayer'
      BY <2>1 DEF ProbedLayer
    <3>3. Clean'
      BY <2>1, <3>1 DEF Clean, NoErr
    <3> QED
      BY <3>2, <3>3
  <2>5. Passed'
    BY <2>1, <2>2, <2>3 DEF Passed, Healthy, Types
  <2>6. Started'
    <3>1. \A s \in OfLayer(layer)' : s < cursor => s \in upped
      <4> SUFFICES ASSUME NEW s \in Service, Layer[s] = layer + 1, s < cursor
                   PROVE  s \in upped
        BY <2>1 DEF OfLayer
      <4>1. cursor = 1
        <5>1. OfLayer(layer) = {}
          BY <1>4 DEF SkipEmptyLayer
        <5> QED
          BY <5>1, <2>1 DEF Started
      <4> QED
        BY <4>1, DeployAssumption DEF Service
    <3> QED
      BY <3>1, <2>1, <2>3, <1>4 DEF Started, SkipEmptyLayer
  <2> QED
    BY <1>0, <2>4, <2>5, <2>6
<1>5. CASE Collect
  BY <1>5, CollectStep
<1>6. CASE Succeed
  <2>1. UNCHANGED <<opts, layer, upped, smoke, cursor>> /\ pc = "up" /\ pc' = "done"
        /\ result' = "ok" /\ record' \in {"ok", NoErr} /\ layer > LastLayer
    BY <1>6 DEF Succeed, LayersDone, FinishWithRecord, Finish
  <2>2. ProbedLayer' /\ Passed' /\ Started' /\ Clean'
    BY <2>1 DEF ProbedLayer, Passed, Started, Clean, Healthy, OfLayer, NoErr
  <2> QED
    BY <1>0, <2>2
<1>7. ASSUME NEW s \in Service, Scan(s) PROVE DeployInv'
  BY <1>0, <1>7 DEF Scan, ProbedLayer, Passed, Started, Clean, Healthy, OfLayer
<1>8. ASSUME NEW s \in Service, ComposeUp(s) PROVE DeployInv'
  <2>1. UNCHANGED <<opts, pc, layer, smoke, record, result>> /\ pc = "up"
        /\ s \in OfLayer(layer) /\ cursor <= s /\ cursor' = s + 1
        /\ \A t \in OfLayer(layer) : t >= cursor => t >= s
        /\ upped' = upped \cup {s} /\ cursor \in Nat
    BY <1>8 DEF ComposeUp, Types
  <2>2. ProbedLayer' /\ Clean'
    BY <2>1 DEF ProbedLayer, Clean
  <2>3. Passed'
    BY <2>1, DeployAssumption DEF Passed, Healthy, OfLayer, LastLayer
  <2>4. Started'
    <3>1. ASSUME NEW t \in OfLayer(layer), t < s + 1 PROVE t \in upped \cup {s}
      <4>1. t \in Nat /\ s \in Nat
        BY DeployAssumption DEF OfLayer, Service
      <4> QED
        BY <4>1, <3>1, <2>1 DEF Started
    <3> QED
      BY <3>1, <2>1 DEF Started, OfLayer
  <2> QED
    BY <1>0, <2>2, <2>3, <2>4
<1>9. ASSUME NEW s \in Service,
             LoaderStep(s) \/ ProberStep(s) \/ Expire(s) \/ Answer(s) \/ Die(s)
      PROVE  DeployInv'
  <2>1. UNCHANGED <<opts, pc, cursor, layer, upped, smoke, result, record>>
    BY <1>9, OthersLeaveMain
  <2> QED
    BY <1>0, <2>1 DEF ProbedLayer, Passed, Started, Clean, Healthy, OfLayer
<1>10. CASE UNCHANGED deployVars
  BY <1>0, <1>10 DEF deployVars, mainVars, ProbedLayer, Passed, Started, Clean, Healthy, OfLayer
<1> QED
  BY <1>1, <1>2, <1>3, <1>4, <1>5, <1>6, <1>7, <1>8, <1>9, <1>10 DEF Next, RunStep

LEMMA Invariant == Spec => []DeployInv
<1>1. Init => DeployInv
  BY InitInv
<1>2. DeployInv /\ [Next]_deployVars => DeployInv'
  BY StepInv
<1> QED
  BY <1>1, <1>2, PTL DEF Spec

-----------------------------------------------------------------------------
(* Theorems.                                                                *)

\* For any deployment plan, no layer starts before the ones below are healthy.
THEOREM Barrier == Spec => []LayerBarrier
<1>1. DeployInv => LayerBarrier
  <2> SUFFICES ASSUME DeployInv, NEW s \in upped, NEW t \in Service, Layer[t] < Layer[s]
               PROVE  Healthy(t)
    BY DEF LayerBarrier
  <2>1. Layer[s] \in Nat /\ Layer[t] \in Nat /\ layer \in Nat
    BY DeployAssumption DEF DeployInv, Types, LastLayer
  <2>2. Layer[t] < layer
    BY <2>1 DEF DeployInv, Passed
  <2> QED
    BY <2>2 DEF DeployInv, Passed
<1> QED
  BY <1>1, Invariant, PTL

\* For any deployment plan, success means that all was started and healthy.
THEOREM CompleteSuccess == Spec => []SuccessIsComplete
<1>1. DeployInv => SuccessIsComplete
  <2> SUFFICES ASSUME DeployInv, pc = "done"
               PROVE  /\ record \in {NoErr, result}
                      /\ result = "ok" /\ ~opts.dryRun =>
                            upped = Service /\ smoke = [name : Service, ok : {TRUE}]
    BY DEF SuccessIsComplete
  <2>1. record \in {NoErr, result}
    BY DEF DeployInv, Clean
  <2>2. ASSUME result = "ok", ~opts.dryRun
        PROVE  upped = Service /\ smoke = [name : Service, ok : {TRUE}]
    <3>1. \A s \in Service : Layer[s] < layer
      BY <2>2, DeployAssumption DEF DeployInv, Clean, Types, LastLayer
    <3>2. upped = Service
      BY <3>1 DEF DeployInv, Started, Types
    <3>3. \A s \in Service : [name |-> s, ok |-> TRUE] \in smoke
      BY <3>1 DEF DeployInv, Passed, Healthy
    <3>4. ASSUME NEW e \in smoke PROVE e \in [name : Service, ok : {TRUE}]
      BY <2>2 DEF DeployInv, Clean, Types
    <3>5. ASSUME NEW e \in [name : Service, ok : {TRUE}] PROVE e \in smoke
      <4>1. e = [name |-> e.name, ok |-> TRUE] /\ e.name \in Service
        OBVIOUS
      <4> QED
        BY <4>1, <3>3
    <3> QED
      BY <3>2, <3>4, <3>5
  <2> QED
    BY <2>1, <2>2
<1> QED
  BY <1>1, Invariant, PTL

-----------------------------------------------------------------------------
(* The semaphore, and the goroutines of the two waits.                      *)

\* Loaders live while Run is in loadImages, probers while it waits for a layer.
Quiet ==
    /\ pc # "scan" => \A s \in Service : loader[s] \in {"none", "done"}
    /\ ~opts.imagesDir => \A s \in Service : loader[s] = "none"
    /\ \A s \in Service : prober[s] \in {"probing", "missed"} =>
          pc = "probe" /\ s \in OfLayer(layer)

\* What a prober has concluded is something its port did.
Observed ==
    \A s \in Service \ Unprobed :
        /\ prober[s] \in {"probing", "missed"} => IF s \in answering THEN s \in heard
                                                                     ELSE s \in silent
        /\ prober[s] = "missed" => s \in silent
        /\ prober[s] = "healthy" => s \in heard
        /\ prober[s] = "failed" => s \in silent

LEMMA LoadingFinite == Loading \subseteq Service /\ IsFiniteSet(Service)
<1>1. IsFiniteSet(Service)
  BY FS_Interval, DeployAssumption DEF Service
<1> QED
  BY <1>1 DEF Loading

\* The semaphore bounds the docker load processes.
LEMMA StepPermits == ASSUME Types, Permits, [Next]_deployVars PROVE Permits'
<1>0. IsFiniteSet(Loading) /\ Cardinality(Loading) \in Nat
  BY LoadingFinite, FS_Subset, FS_CardinalityType
<1>1. ASSUME NEW s \in Service, Acquire(s) PROVE Permits'
  <2>1. Loading' = Loading \cup {s} /\ Cardinality(Loading) < Concurrency
    BY <1>1 DEF Acquire, Loading, Types
  <2>2. Cardinality(Loading \cup {s}) <= Cardinality(Loading) + 1
    BY <1>0, FS_AddElement
  <2>3. Cardinality(Loading \cup {s}) \in Nat
    BY <1>0, FS_AddElement, FS_CardinalityType
  <2> QED
    BY <1>0, <2>1, <2>2, <2>3, DeployAssumption DEF Permits
<1>2. ASSUME Loading' \subseteq Loading PROVE Permits'
  <2>1. Cardinality(Loading') <= Cardinality(Loading) /\ Cardinality(Loading') \in Nat
    BY <1>0, <1>2, FS_Subset, FS_CardinalityType
  <2> QED
    BY <1>0, <2>1, DeployAssumption DEF Permits
<1>3. ASSUME NEW s \in Service, Scan(s) \/ LoadOK(s) \/ LoadFails(s) \/ SendErr(s) PROVE Loading' \subseteq Loading
  BY <1>3 DEF Scan, LoadOK, LoadFails, SendErr, Loading, Types
<1>4. ASSUME loader' = loader PROVE Loading' \subseteq Loading
  BY <1>4 DEF Loading
<1>5. CASE RunStep
  <2>1. (\E s \in Service : Scan(s)) \/ loader' = loader
    BY <1>5 DEF RunStep, Render, Loaded, StartProbers, SkipEmptyLayer, Collect, Succeed,
                ComposeUp, loadVars
  <2> QED
    BY <2>1, <1>2, <1>3, <1>4
<1>6. ASSUME NEW s \in Service,
             LoaderStep(s) \/ ProberStep(s) \/ Expire(s) \/ Answer(s) \/ Die(s)
      PROVE  Permits'
  <2>1. LoaderStep(s) \/ loader' = loader
    BY <1>6 DEF ProberStep, Probe, CheckDeadline, Expire, Answer, Die, loadVars
  <2> QED
    BY <2>1, <1>1, <1>2, <1>3, <1>4 DEF LoaderStep
<1>7. CASE UNCHANGED deployVars
  BY <1>7, <1>2, <1>4 DEF deployVars, loadVars
<1> QED
  BY <1>5, <1>6, <1>7 DEF Next

LEMMA StepQuiet == ASSUME DeployInv, Quiet, [Next]_deployVars PROVE Quiet'
<1> USE DEF DeployInv
<1>1. CASE Render
  BY <1>1 DEF Render, Finish, Quiet, loadVars, probeVars, OfLayer
<1>2. CASE Loaded
  BY <1>2 DEF Loaded, AllLoaded, Finish, Quiet, loadVars, probeVars, OfLayer
<1>3. CASE StartProbers
  BY <1>3 DEF StartProbers, Quiet, Types, loadVars, OfLayer
<1>4. CASE SkipEmptyLayer
  BY <1>4 DEF SkipEmptyLayer, Quiet, loadVars, probeVars, OfLayer
<1>5. CASE Collect
  <2>1. UNCHANGED <<opts, loadVars, probeVars>> /\ pc = "probe" /\ AllVerdicts /\ pc' # "scan"
    BY <1>5 DEF Collect, FinishWithRecord, Finish
  <2> QED
    BY <2>1 DEF Quiet, AllVerdicts, loadVars, probeVars
<1>6. CASE Succeed
  BY <1>6 DEF Succeed, FinishWithRecord, Finish, Quiet, loadVars, probeVars
<1>7. ASSUME NEW s \in Service, Scan(s) PROVE Quiet'
  BY <1>7 DEF Scan, Quiet, Types, probeVars, OfLayer
<1>8. ASSUME NEW s \in Service, ComposeUp(s) PROVE Quiet'
  BY <1>8 DEF ComposeUp, Quiet, loadVars, probeVars, OfLayer
<1>9. ASSUME NEW s \in Service, LoaderStep(s) PROVE Quiet'
  BY <1>9 DEF LoaderStep, Acquire, LoadOK, LoadFails, SendErr, Quiet, Types, mainVars, probeVars, OfLayer
<1>10. ASSUME NEW s \in Service, ProberStep(s) PROVE Quiet'
  BY <1>10 DEF ProberStep, Probe, CheckDeadline, Quiet, Types, mainVars, loadVars, OfLayer
<1>11. ASSUME NEW s \in Service, Expire(s) \/ Answer(s) \/ Die(s) PROVE Quiet'
  BY <1>11 DEF Expire, Answer, Die, Probed, Quiet, mainVars, loadVars, OfLayer
<1>12. CASE UNCHANGED deployVars
  BY <1>12 DEF deployVars, mainVars, loadVars, probeVars, Quiet, OfLayer
<1> QED
  BY <1>1, <1>2, <1>3, <1>4, <1>5, <1>6, <1>7, <1>8, <1>9, <1>10, <1>11, <1>12
     DEF Next, RunStep

LEMMA StepObserved == ASSUME Types, Quiet, Observed, [Next]_deployVars PROVE Observed'
<1> USE DEF Types
<1>1. CASE StartProbers
  BY <1>1 DEF StartProbers, Observed, OfLayer, containerVars
<1>2. ASSUME NEW s \in Service, ComposeUp(s) PROVE Observed'
  <2>1. pc = "up" /\ UNCHANGED probeVars
    BY <1>2 DEF ComposeUp
  <2> QED
    BY <2>1 DEF Quiet, Observed, probeVars
<1>3. ASSUME NEW s \in Service, ProberStep(s) PROVE Observed'
  BY <1>3 DEF ProberStep, Probe, CheckDeadline, Observed, containerVars
<1>5. ASSUME NEW s \in Service, Answer(s) \/ Die(s) PROVE Observed'
  BY <1>5 DEF Answer, Die, Probed, Observed
<1>6. ASSUME UNCHANGED <<prober, heard, silent, answering>> PROVE Observed'
  BY <1>6 DEF Observed
<1>7. ASSUME NEW s \in Service, Scan(s) \/ LoaderStep(s) \/ Expire(s)
      PROVE  UNCHANGED <<prober, heard, silent, answering>>
  BY <1>7 DEF Scan, LoaderStep, Acquire, LoadOK, LoadFails, SendErr, Expire, probeVars, containerVars
<1>8. ASSUME Render \/ Loaded \/ SkipEmptyLayer \/ Collect \/ Succeed \/ UNCHANGED deployVars
      PROVE  UNCHANGED <<prober, heard, silent, answering>>
  BY <1>8 DEF Render, Loaded, SkipEmptyLayer, Collect, Succeed, deployVars, probeVars, containerVars
<1> QED
  BY <1>1, <1>2, <1>3, <1>5, <1>6, <1>7, <1>8 DEF Next, RunStep

LEMMA GoroutineInv == Spec => [](Permits /\ Quiet /\ Observed)
<1>1. Init => Permits /\ Quiet /\ Observed
  <2> SUFFICES ASSUME Init PROVE Permits /\ Quiet /\ Observed
    OBVIOUS
  <2>1. Loading = {}
    BY DEF Init, Loading
  <2>2. Permits
    BY <2>1, FS_EmptySet, DeployAssumption DEF Permits
  <2> QED
    BY <2>2 DEF Init, Quiet, Observed
<1>2. DeployInv /\ (Permits /\ Quiet /\ Observed) /\ [Next]_deployVars
         => (Permits /\ Quiet /\ Observed)'
  BY StepPermits, StepQuiet, StepObserved DEF DeployInv
<1> QED
  BY <1>1, <1>2, Invariant, PTL DEF Spec

\* For any number of services, no more than Concurrency images load at a time
\* and every variable has its type.
THEOREM TypeCorrect == Spec => []TypeOK
<1>1. DeployInv /\ Permits => TypeOK
  BY DEF DeployInv, Types, Permits, TypeOK
<1> QED
  BY <1>1, Invariant, GoroutineInv, PTL

\* For any number of services, no goroutine is at work when Run has returned.
THEOREM NothingLeftBehind == Spec => []QuietAtEnd
<1>1. DeployInv /\ Quiet => QuietAtEnd
  BY DEF DeployInv, Types, Quiet, QuietAtEnd
<1> QED
  BY <1>1, Invariant, GoroutineInv, PTL

\* For any number of services, a verdict is something the port did while probed.
THEOREM VerdictsAreReal == Spec => []VerdictObserved
<1>1. Observed => VerdictObserved
  BY DEF Observed, VerdictObserved
<1> QED
  BY <1>1, GoroutineInv, PTL
=============================================================================
