------------------------------ MODULE NodePlan ------------------------------
(***************************************************************************)
(* The plan of machines and services of the wizard's first step            *)
(* (web/src/composables/createConsole.js, WizardSiteStep.vue) and the      *)
(* site.yaml it is written to and read from.                               *)
(*                                                                         *)
(* The form has a row per machine and, for every service, the number of    *)
(* the row it goes to.  site.yaml knows no numbers: each node lists its    *)
(* services and roles, and the form finds the numbers again when it is     *)
(* filled from the file (hydrateServiceAssignments).  The addresses of the *)
(* middleware are a third copy, which syncServiceAssignments renews.       *)
(*                                                                         *)
(* Rows count from 1, so that 0 stands for the -1 of the code: the service *)
(* is not deployed.  "" is a field that is not filled in.                  *)
(***************************************************************************)
EXTENDS Integers, Sequences, FiniteSets, SequencesExt

CONSTANTS
    Service,    \* the services of the instance
    IP,         \* addresses a user types
    Name,       \* names a user gives a machine
    NodeName,   \* the name of a new k-th machine
    MaxNodes,   \* bound: rows of the table
    MaxEdits,   \* bound: edits of the form, and removals of the file, in a behaviour
    ByHand,     \* site files somebody wrote by hand
    NoFile, Unset

Loopback == "127.0.0.1"

NODE_SERVICE_GROUPS ==
    [database   |-> {"mysql", "pgsql", "postgis", "mongodb"},
     middleware |-> {"redis", "kafka", "nacos", "minio", "influxdb", "emqx", "waterjob", "nginx"},
     platform   |-> {"public", "device", "alarm", "graph", "gis", "monitor", "report-center", "out-work"},
     standalone |-> {"waterwork", "intelligent-model"}]

ASSUME PlanAssumption ==
    /\ "nginx" \in Service /\ Service \subseteq UNION {NODE_SERVICE_GROUPS[g] : g \in DOMAIN NODE_SERVICE_GROUPS}
    /\ "pgsql" \in Service => "mysql" \in Service
    /\ "" \in IP /\ MaxNodes \in Nat \ {0, 1} /\ MaxEdits \in Nat
    /\ Name \subseteq STRING /\ NodeName \in [1..MaxNodes -> STRING]

serviceGroupFor(s) == CHOOSE g \in DOMAIN NODE_SERVICE_GROUPS : s \in NODE_SERVICE_GROUPS[g]
ALL_SINGLE_ROLES == {"database", "middleware", "platform", "waterwork", "monitor"}

\* The services with an address of their own under "middleware".
Addressed == Service \cap {"mysql", "pgsql", "redis", "nacos", "kafka"}

rolesForServices(ss) ==
    ({serviceGroupFor(s) : s \in ss} \ {"standalone"}) \cup (ss \cap {"monitor", "waterwork", "intelligent-model"})

\* Roles and names are any strings; those the form knows are spelt out.
Role == STRING \cup ALL_SINGLE_ROLES \cup {"intelligent-model"}
MachineName == STRING \cup {"app-node", "db-node", "node2"}
Address == IP \cup {Loopback}
Agents == {Unset} \cup SUBSET Address

\* What the form holds.
Plan ==
    {p \in [topology : {"single", "multi"}, nodes : Seq([name : MachineName, ip : Address]),
            assign : [Service -> 0..MaxNodes], host : [Addressed -> Address], off : BOOLEAN,
            agents : Agents, synced : Address] : Len(p.nodes) \in 1..MaxNodes}

\* What site.yaml holds.
SiteFile ==
    {f \in [nodes : Seq([name : MachineName, ip : Address, roles : SUBSET Role, services : SUBSET Service]),
            profiles : SUBSET (STRING \cup Service \cup {"platform"}), off : BOOLEAN,
            host : [Addressed -> Address], agents : Agents] :
        Len(f.nodes) \in 1..MaxNodes}

VARIABLES
    form,   \* the form: topology, nodes, assign, host, off (no MySQL), agents, synced
    file,   \* site.yaml, or NoFile
    by,     \* who wrote it
    exists, \* siteFileExists: the page takes it to be there
    edited, \* the form has gone its own way since it was written to, or filled from, the file
    edits

planVars == <<form, file, by, exists, edited, edits>>

Blank ==
    [topology |-> "multi", nodes |-> <<[name |-> "app-node", ip |-> Loopback]>>, assign |-> [s \in Service |-> 1],
     host |-> [m \in Addressed |-> Loopback], off |-> FALSE, agents |-> Unset, synced |-> ""]

-----------------------------------------------------------------------------
(* The functions of the form.                                               *)

isMultiNode(p) == p.topology = "multi" /\ Len(p.nodes) > 1
isServiceEnabled(p, s) == isMultiNode(p) => p.assign[s] # 0
assignedServicesForNode(p, i) == {s \in Service : p.assign[s] = i}
primaryNodeIP(p) == IF p.nodes[1].ip = "" THEN Loopback ELSE p.nodes[1].ip

serviceNode(p, s) ==
    IF p.assign[s] \in DOMAIN p.nodes THEN p.nodes[p.assign[s]] ELSE [name |-> "", ip |-> ""]

\* Fault: nginx goes where the others go.
LeaveNginx(p) == p

pinNginxToPrimary(p) ==
    IF isMultiNode(p) /\ p.assign["nginx"] # 0 THEN [p EXCEPT !.assign["nginx"] = 1] ELSE p

\* Fault: the addresses are not renewed.
SyncNothing(p) == pinNginxToPrimary(p)

syncServiceAssignments(p) ==
    LET q == pinNginxToPrimary(p)
        Keep(m) == serviceNode(q, m).ip = "" \/ (m = "mysql" /\ q.off)
    IN [q EXCEPT !.host = [m \in Addressed |-> IF Keep(m) THEN q.host[m] ELSE serviceNode(q, m).ip]]

assignAllToPrimary(p) == syncServiceAssignments([p EXCEPT !.assign = [s \in Service |-> 1]])

applyDualNodeTemplate(p) ==
    syncServiceAssignments([p EXCEPT
        !.topology = "multi",
        !.nodes = <<[name |-> "db-node", ip |-> primaryNodeIP(p)], [name |-> "node2", ip |-> ""]>>,
        !.assign = [s \in Service |-> IF serviceGroupFor(s) = "database" \/ s = "redis" THEN 1 ELSE 2]])

setDeployTopology(p, mode) ==
    LET q == [p EXCEPT !.topology = mode] IN
    CASE mode = "single" /\ Len(p.nodes) > 1 -> assignAllToPrimary([q EXCEPT !.nodes = <<Head(p.nodes)>>])
      [] mode = "multi" /\ Len(p.nodes) = 1 -> applyDualNodeTemplate(q)
      [] OTHER -> q

addNode(p) == [p EXCEPT !.nodes = Append(@, [name |-> NodeName[Len(@) + 1], ip |-> ""])]

\* Fault: the numbers of the rows behind the removed one stay.
RemoveRowOnly(p, idx) ==
    syncServiceAssignments([p EXCEPT
        !.nodes = RemoveAt(@, idx),
        !.assign = [s \in Service |-> IF p.assign[s] = idx THEN 1 ELSE p.assign[s]]])

removeNode(p, idx) ==
    syncServiceAssignments([p EXCEPT
        !.nodes = RemoveAt(@, idx),
        !.assign = [s \in Service |-> CASE p.assign[s] = idx -> 1
                                        [] p.assign[s] > idx -> p.assign[s] - 1
                                        [] OTHER -> p.assign[s]]])

applyHostToForm(p, ip) ==
    LET q == [p EXCEPT !.nodes[1].ip = ip] IN
    IF isMultiNode(q) THEN syncServiceAssignments(q)
    ELSE [q EXCEPT !.host = [m \in Addressed |-> IF m = "mysql" /\ q.off THEN @[m] ELSE ip]]

\* Leaving the sub-step of the machines when there is one: an address that is
\* empty, local or the old one follows the machine.
syncSingleNodeHosts(p) ==
    [p EXCEPT !.host = [m \in Addressed |-> IF @[m] \in {"", Loopback, p.synced} THEN p.nodes[1].ip ELSE @[m]],
              !.synced = p.nodes[1].ip]

\* The rows, the addresses and MySQL of a blank form; the topology and the
\* numbers of the services stay as they are.
resetSiteFormBlank(p) == [p EXCEPT !.nodes = Blank.nodes, !.host = Blank.host, !.off = FALSE]

toggleMonitorAgent(p, ip, on) ==
    LET cur == IF p.agents \in {Unset, {}} THEN {p.nodes[i].ip : i \in DOMAIN p.nodes} ELSE p.agents
    IN [p EXCEPT !.agents = IF on THEN cur \cup {ip} ELSE cur \ {ip}]

\* Fault: only the names are compared.
NamesDiffer(p) ==
    isMultiNode(p) =>
        \A i, j \in DOMAIN p.nodes : p.nodes[i].ip # "" /\ (i # j => p.nodes[i].ip # p.nodes[j].ip)

validateNodePlan(p) ==
    isMultiNode(p) =>
        \A i, j \in DOMAIN p.nodes :
            /\ p.nodes[i].ip # ""
            /\ i # j => p.nodes[i].name # p.nodes[j].name /\ p.nodes[i].ip # p.nodes[j].ip

siteFormReadyToPersist(p) ==
    /\ validateNodePlan(p)
    /\ p.topology = "single" => p.nodes[1].ip # ""
    /\ \A m \in Addressed \ {"pgsql"} : (m = "mysql" /\ p.off) \/ p.host[m] # ""

-----------------------------------------------------------------------------
(* site.yaml.                                                               *)

\* Fault: a node is written without its services.
RolesOnly(p) ==
    [i \in DOMAIN p.nodes |->
        [name |-> p.nodes[i].name, ip |-> p.nodes[i].ip,
         roles |-> rolesForServices(assignedServicesForNode(p, i)), services |-> {}]]

buildFormNodes(p) ==
    IF p.topology = "single"
    THEN <<[name |-> p.nodes[1].name, ip |-> primaryNodeIP(p), roles |-> ALL_SINGLE_ROLES, services |-> Service]>>
    ELSE [i \in DOMAIN p.nodes |->
            [name |-> p.nodes[i].name, ip |-> p.nodes[i].ip,
             roles |-> rolesForServices(assignedServicesForNode(p, i)),
             services |-> assignedServicesForNode(p, i)]]

currentProfiles(p) ==
    {"platform"} \cup {s \in Service \cap {"device", "alarm", "graph", "gis", "monitor"} : isServiceEnabled(p, s)}

\* monitor.agents is written when it has an entry (omitempty).
buildFormPayload(p) ==
    [nodes |-> buildFormNodes(p), profiles |-> currentProfiles(p), off |-> p.off,
     host |-> [m \in Addressed |->
                IF m = "mysql" /\ p.off THEN ""
                ELSE IF m = "pgsql" /\ p.host[m] = "" THEN IF p.off THEN primaryNodeIP(p) ELSE p.host["mysql"]
                ELSE p.host[m]],
     agents |-> IF p.agents = {} THEN Unset ELSE p.agents]

\* What handleSiteForm accepts.
Validate(f) ==
    /\ \A i \in DOMAIN f.nodes : f.nodes[i].ip # "" /\ f.nodes[i].roles # {}
    /\ \A m \in Addressed : f.host[m] # "" \/ m = IF f.off THEN "mysql" ELSE "pgsql"

\* config.LoadSite passes nothing else on to the page.
ASSUME HandAssumption == \A f \in ByHand : f \in SiteFile /\ Validate(f)

\* Fault: one row too far, and from the last to the first.
HydrateNext(ns) ==
    [s \in Service |-> (SelectInSeq(ns, LAMBDA n : s \in n.services) % Len(ns)) + 1]

\* The row of a service: the first that lists it, else the first with the
\* role of its group, else the first.
hydrateServiceAssignments(ns) ==
    [s \in Service |->
        LET group == serviceGroupFor(s)
            role == IF group = "standalone" THEN s ELSE group
            listed == SelectInSeq(ns, LAMBDA n : s \in n.services)
            fallback == SelectInSeq(ns, LAMBDA n : role \in n.roles)
        IN IF listed # 0 THEN listed ELSE IF fallback # 0 THEN fallback ELSE 1]

fillSiteForm(f, p) ==
    LET ns == [i \in DOMAIN f.nodes |->
                 IF f.nodes[i].roles = {} THEN [f.nodes[i] EXCEPT !.roles = ALL_SINGLE_ROLES] ELSE f.nodes[i]]
        q == syncServiceAssignments([p EXCEPT
                !.topology = IF Len(ns) > 1 THEN "multi" ELSE "single",
                !.nodes = [i \in DOMAIN ns |-> [name |-> ns[i].name, ip |-> ns[i].ip]],
                !.assign = hydrateServiceAssignments(ns)])
        host == [m \in Addressed |-> IF f.host[m] = "" THEN q.host[m] ELSE f.host[m]]
    IN [q EXCEPT !.host = [m \in Addressed |-> IF m = "pgsql" /\ host[m] = "" THEN host["mysql"] ELSE host[m]],
                 !.off = f.off, !.agents = f.agents]

\* The machine the server takes for a name or an address: the first of either.
FindNode(f, key) == f.nodes[SelectInSeq(f.nodes, LAMBDA n : n.name = key \/ n.ip = key)]

\* The row of the machine a job is sent to, or 0: it runs here.
remoteTargetFor(p, s) ==
    IF isMultiNode(p) /\ p.assign[s] \in 2..Len(p.nodes) THEN p.assign[s] ELSE 0

-----------------------------------------------------------------------------
(* Steps.                                                                   *)

\* The page is opened for the first time; its request for the file may fail.
Init ==
    /\ file \in ByHand \cup {NoFile}
    /\ exists \in BOOLEAN /\ (exists => file # NoFile)
    /\ form = IF exists THEN fillSiteForm(file, Blank) ELSE Blank
    /\ by = "hand" /\ edited = ~exists /\ edits = 0

Edit(p) ==
    /\ edits < MaxEdits /\ edits' = edits + 1
    /\ form' = p /\ edited' = TRUE
    /\ UNCHANGED <<file, by, exists>>

SetTopology == \E mode \in {"single", "multi"} \ {form.topology} : Edit(setDeployTopology(form, mode))
DualTemplate == form.topology = "multi" /\ Edit(applyDualNodeTemplate(form))
AddRow == form.topology = "multi" /\ Len(form.nodes) < MaxNodes /\ Edit(addNode(form))
RemoveRow(idx) == form.topology = "multi" /\ idx \in 2..Len(form.nodes) /\ Edit(removeNode(form, idx))
Rows == IF form.topology = "multi" THEN DOMAIN form.nodes ELSE {1}
EditIP == \E i \in Rows, ip \in IP : Edit([form EXCEPT !.nodes[i].ip = ip])
EditName == \E i \in Rows, n \in Name : form.topology = "multi" /\ Edit([form EXCEPT !.nodes[i].name = n])
EditHost == \E m \in Addressed, ip \in IP : Edit([form EXCEPT !.host[m] = ip])
DropMysql == Edit([form EXCEPT !.off = ~@])

AssignService ==
    /\ form.topology = "multi"
    /\ \E s \in Service : \E k \in IF s = "nginx" THEN {0, 1} ELSE 0..Len(form.nodes) :
          Edit(syncServiceAssignments([form EXCEPT !.assign[s] = k]))

AssignAll == form.topology = "multi" /\ Edit(assignAllToPrimary(form))
FillHosts == \E ip \in IP \ {""} : Edit(applyHostToForm(form, ip))
TickAgent == \E i \in DOMAIN form.nodes, on \in BOOLEAN : Edit(toggleMonitorAgent(form, form.nodes[i].ip, on))

\* Next, on the sub-step of the machines.
LeaveMachines ==
    IF form.topology = "multi"
    THEN /\ validateNodePlan(form)
         /\ \A i \in DOMAIN form.nodes : assignedServicesForNode(form, i) # {}
         /\ Edit(syncServiceAssignments(form))
    ELSE form.nodes[1].ip # "" /\ Edit(syncSingleNodeHosts(form))

Write(p, who) ==
    /\ by' = who /\ exists' = TRUE /\ edited' = FALSE /\ UNCHANGED edits
    /\ file' = buildFormPayload(p) /\ Validate(file')

\* The request is refused, or fails: the form has changed all the same.
Refused(p) == form' = p /\ edited' = TRUE /\ UNCHANGED <<file, by, exists, edits>>

\* saveSite: written, and read back.
Saved == LET p == syncServiceAssignments(form) IN
    validateNodePlan(form) /\ Write(p, "save") /\ form' = fillSiteForm(file', p)
saveSite == Saved \/ (validateNodePlan(form) /\ Refused(syncServiceAssignments(form)))

\* persistSiteFormSoon, 800 ms after a change of the form: a load is one, too.
AutoSave == siteFormReadyToPersist(form) /\ Write(form, "auto") /\ UNCHANGED form

\* prepareSiteStep: the way on to the next step.
saveSiteFormOnly == Write(form, "step") /\ UNCHANGED form

\* A job that starts Kafka writes the address it will advertise.
persistKafkaAdvertiseHost ==
    /\ "kafka" \in Addressed
    /\ LET p == IF isMultiNode(form) THEN syncServiceAssignments(form)
                ELSE IF form.nodes[1].ip # "" THEN [form EXCEPT !.host["kafka"] = form.nodes[1].ip] ELSE form
       IN (p.host["kafka"] # "" /\ Write(p, "step") /\ form' = p) \/ Refused(p)

runMonitorDeploy ==
    /\ isServiceEnabled(form, "monitor")
    /\ LET agents == IF form.agents \in {Unset, {}} THEN {form.nodes[i].ip : i \in DOMAIN form.nodes} \ {""}
                     ELSE form.agents
           p == [form EXCEPT !.agents = agents]
       IN IF validateNodePlan(p)
          THEN LET q == syncServiceAssignments(p) IN (Write(q, "save") /\ form' = q) \/ Refused(q)
          ELSE Refused(p)

\* Somebody removes the file.
Removed ==
    /\ file # NoFile /\ file' = NoFile /\ by' = "hand"
    /\ edits < MaxEdits /\ edits' = edits + 1
    /\ UNCHANGED <<form, exists, edited>>

\* loadSite, or refreshSitePresence, finds the file.
LoadSite ==
    /\ file # NoFile
    /\ form' = fillSiteForm(file, form) /\ exists' = TRUE /\ edited' = FALSE
    /\ UNCHANGED <<file, by, edits>>

\* It finds none, or loadSite gets no answer at all, and the page had one.
LoseSite ==
    /\ exists /\ exists' = FALSE
    /\ form' = resetSiteFormBlank(form) /\ edited' = TRUE
    /\ UNCHANGED <<file, by, edits>>

\* The page is loaded again.  With a file, the form is filled from it and the
\* draft puts its topology and its numbers over it; without one, or without an
\* answer, the draft brings everything but the agents.
Reload ==
    /\ exists' \in {FALSE, file # NoFile}
    /\ LET draft == form
           p == IF exists'
                THEN [fillSiteForm(file, Blank) EXCEPT !.topology = draft.topology, !.assign = draft.assign]
                ELSE [draft EXCEPT !.agents = Unset, !.synced = ""]
       IN form' = pinNginxToPrimary(p)
    /\ edited' = ~exists'
    /\ UNCHANGED <<file, by, edits>>

Next ==
    \/ SetTopology \/ DualTemplate \/ AddRow \/ \E idx \in 2..MaxNodes : RemoveRow(idx)
    \/ EditIP \/ EditName \/ EditHost \/ DropMysql \/ AssignService \/ AssignAll \/ FillHosts
    \/ TickAgent \/ LeaveMachines
    \/ saveSite \/ AutoSave \/ saveSiteFormOnly \/ persistKafkaAdvertiseHost \/ runMonitorDeploy
    \/ Removed \/ LoadSite \/ LoseSite \/ Reload

Spec == Init /\ [][Next]_planVars
-----------------------------------------------------------------------------
(* Properties.                                                              *)

\* Types; and site.yaml is always one the server accepts.
TypeOK ==
    /\ form \in Plan
    /\ file # NoFile => file \in SiteFile /\ Validate(file)
    /\ by \in {"hand", "save", "auto", "step"} /\ exists \in BOOLEAN /\ edited \in BOOLEAN /\ edits \in 0..MaxEdits

\* A plan is sound when every number in it is that of a row.
PlanSound(p) == \A s \in Service : p.assign[s] \in 0..Len(p.nodes)

\* No edit, save or load of a file leaves a service on a row that is not there:
\* the numbers follow when a row goes, and a template, a file or another
\* topology brings numbers of its own.  Only two things may: a page loaded again
\* puts the numbers of its draft over the machines of the file, and a load that
\* finds no file cuts the machines to one and keeps the numbers.  And when a
\* machine is removed, every service of another machine stays where it is.
PlanStaysSound ==
    [][/\ PlanSound(form) => PlanSound(form)' \/ Reload \/ LoseSite
       /\ \A idx \in 2..MaxNodes : RemoveRow(idx) =>
             \A s \in Service \ {"nginx"} :
                form.assign[s] \notin {0, idx} => serviceNode(form, s) \in {serviceNode(form, s)', [name |-> "", ip |-> ""]}]_planVars

\* nginx and the frontend run on the first machine or nowhere, through every
\* template, file and draft ("Nginx / the frontend are deployed on this one").
NginxOnPrimary == form.assign["nginx"] \in {0, 1}

\* The types, what the server accepts, and the machine of nginx.
PlanOK == TypeOK /\ NginxOnPrimary

\* What saveSite writes, it reads back as it was: a service of a plan with
\* several machines is on its machine after the round trip through lists of
\* services and roles.  (One that is not deployed may come back.)
SaveKeepsPlan ==
    [][Saved /\ isMultiNode(form) =>
          \A s \in Service : form.assign[s] \in 1..Len(form.nodes) =>
             form'.assign[s] = pinNginxToPrimary(form).assign[s]]_planVars

\* A file that is loaded and written again may change once, where roles and
\* gaps are filled in; loaded and written once more it stays as it is.
LoadSettles ==
    LET Again(f) == buildFormPayload(fillSiteForm(f, form)) IN
    file # NoFile => Again(Again(file)) = Again(file)

\* The addresses of the middleware in a file of saveSite or of the monitoring
\* are those of the machines the file puts them on.
HostsFollowPlan ==
    by = "save" /\ Len(file.nodes) > 1 =>
        \A m \in Addressed, i \in DOMAIN file.nodes :
            m \in file.nodes[i].services /\ ~(m = "mysql" /\ file.off) => file.host[m] = file.nodes[i].ip

\* No machine is named after the address of another.
NamesAreNames(p) == \A i, j \in DOMAIN p.nodes : i # j => p.nodes[i].name # p.nodes[j].ip

\* While form and file agree, the server takes the name the page sends for
\* the machine the page shows, if the file was written by a way that
\* validates the plan and no machine has the address of another for a name,
\* which no way looks at.
JobsGoWhereShown ==
    by \in {"save", "auto"} /\ ~edited /\ NamesAreNames(form) =>
        \A s \in Service : remoteTargetFor(form, s) # 0 =>
            FindNode(file, serviceNode(form, s).name).ip = serviceNode(form, s).ip
=============================================================================
