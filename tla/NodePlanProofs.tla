--------------------------- MODULE NodePlanProofs ---------------------------
(***************************************************************************)
(* Proofs about the plan of machines and services and its way through      *)
(* site.yaml (NodePlan), for any services, addresses, number of machines   *)
(* and of edits, and any valid file somebody wrote by hand.                *)
(***************************************************************************)
EXTENDS NodePlan, SequenceTheorems, WellFoundedInduction, TLAPS

Machine == [name : MachineName, ip : Address]
Node == [name : MachineName, ip : Address, roles : SUBSET Role, services : SUBSET Service]
Assignment == [Service -> 0..MaxNodes]
Hosts == [Addressed -> Address]

Pinned(p) == p.assign["nginx"] \in {0, 1}

-----------------------------------------------------------------------------
(* Plans and files, field by field.                                         *)

LEMMA Constant == /\ MaxNodes \in Nat \ {0, 1} /\ "nginx" \in Service
                  /\ "" \in Address /\ Loopback \in Address
                  /\ Addressed \subseteq Service /\ 0 \in 0..MaxNodes /\ 1 \in 1..MaxNodes /\ 2 \in 1..MaxNodes
                  /\ 1 \in 0..MaxNodes /\ 2 \in 0..MaxNodes
<1>1. MaxNodes \in Nat \ {0, 1} /\ "nginx" \in Service /\ "" \in IP
  BY PlanAssumption
<1>2. Addressed \subseteq Service
  BY DEF Addressed
<1>3. "" \in Address /\ Loopback \in Address
  BY <1>1 DEF Address
<1>4. 0 \in 0..MaxNodes /\ 1 \in 1..MaxNodes /\ 2 \in 1..MaxNodes /\ 1 \in 0..MaxNodes /\ 2 \in 0..MaxNodes
  <2>1. MaxNodes \in Nat \ {0, 1}
    BY <1>1
  <2> QED
    BY <2>1
<1> QED
  BY <1>1, <1>2, <1>3, <1>4

LEMMA NamesGiven == /\ {"app-node", "db-node", "node2"} \subseteq MachineName
                    /\ Name \subseteq MachineName /\ \A k \in 1..MaxNodes : NodeName[k] \in MachineName
  BY PlanAssumption DEF MachineName

LEMMA MachineIs ==
    ASSUME NEW name \in MachineName, NEW ip \in Address
    PROVE  [name |-> name, ip |-> ip] \in Machine
  BY DEF Machine

LEMMA PlanFields ==
    ASSUME NEW p \in Plan
    PROVE  /\ p.topology \in {"single", "multi"} /\ p.nodes \in Seq(Machine) /\ p.assign \in Assignment
           /\ p.host \in Hosts /\ p.off \in BOOLEAN /\ p.agents \in Agents /\ p.synced \in Address
           /\ Len(p.nodes) \in 1..MaxNodes /\ Len(p.nodes) \in Nat /\ DOMAIN p.nodes = 1..Len(p.nodes)
<1>1. /\ p.topology \in {"single", "multi"} /\ p.nodes \in Seq(Machine) /\ p.assign \in Assignment
      /\ p.host \in Hosts /\ p.off \in BOOLEAN /\ p.agents \in Agents /\ p.synced \in Address
      /\ Len(p.nodes) \in 1..MaxNodes
  BY DEF Plan, Machine, Assignment, Hosts
<1>2. Len(p.nodes) \in Nat /\ DOMAIN p.nodes = 1..Len(p.nodes)
  BY <1>1, LenProperties
<1> QED
  BY <1>1, <1>2

LEMMA MachineOfRow ==
    ASSUME NEW p \in Plan, NEW i \in DOMAIN p.nodes
    PROVE  p.nodes[i] \in Machine
  BY PlanFields

LEMMA FileFields ==
    ASSUME NEW f \in SiteFile
    PROVE  /\ f.nodes \in Seq(Node) /\ f.off \in BOOLEAN /\ f.host \in Hosts /\ f.agents \in Agents
           /\ Len(f.nodes) \in 1..MaxNodes /\ Len(f.nodes) \in Nat /\ DOMAIN f.nodes = 1..Len(f.nodes)
<1>1. /\ f.nodes \in Seq(Node) /\ f.off \in BOOLEAN /\ f.host \in Hosts /\ f.agents \in Agents
      /\ Len(f.nodes) \in 1..MaxNodes
  BY DEF SiteFile, Node, Hosts
<1>2. Len(f.nodes) \in Nat /\ DOMAIN f.nodes = 1..Len(f.nodes)
  BY <1>1, LenProperties
<1> QED
  BY <1>1, <1>2

LEMMA WithAssign ==
    ASSUME NEW p \in Plan, NEW a \in Assignment
    PROVE  LET q == [p EXCEPT !.assign = a] IN
           /\ q \in Plan /\ q.assign = a
           /\ q.topology = p.topology /\ q.nodes = p.nodes /\ q.host = p.host
           /\ q.off = p.off /\ q.agents = p.agents /\ q.synced = p.synced
  BY DEF Plan, Assignment

LEMMA WithHost ==
    ASSUME NEW p \in Plan, NEW h \in Hosts
    PROVE  LET q == [p EXCEPT !.host = h] IN
           /\ q \in Plan /\ q.host = h
           /\ q.topology = p.topology /\ q.nodes = p.nodes /\ q.assign = p.assign
           /\ q.off = p.off /\ q.agents = p.agents /\ q.synced = p.synced
  BY DEF Plan, Hosts

LEMMA WithTopology ==
    ASSUME NEW p \in Plan, NEW t \in {"single", "multi"}
    PROVE  LET q == [p EXCEPT !.topology = t] IN
           /\ q \in Plan /\ q.topology = t /\ q.nodes = p.nodes /\ q.assign = p.assign /\ q.host = p.host /\ q.off = p.off
  BY DEF Plan

LEMMA WithNodes ==
    ASSUME NEW p \in Plan, NEW ns \in Seq(Machine), Len(ns) \in 1..MaxNodes
    PROVE  LET q == [p EXCEPT !.nodes = ns] IN
           /\ q \in Plan /\ q.nodes = ns /\ q.topology = p.topology /\ q.assign = p.assign /\ q.host = p.host
           /\ q.off = p.off
  BY DEF Plan, Machine

-----------------------------------------------------------------------------
(* pinNginxToPrimary and syncServiceAssignments.                            *)

LEMMA PinFacts ==
    ASSUME NEW p \in Plan
    PROVE  LET q == pinNginxToPrimary(p) IN
           /\ q \in Plan
           /\ q.topology = p.topology /\ q.nodes = p.nodes /\ q.host = p.host
           /\ q.off = p.off /\ q.agents = p.agents /\ q.synced = p.synced
           /\ \A s \in Service \ {"nginx"} : q.assign[s] = p.assign[s]
           /\ q.assign["nginx"] = IF isMultiNode(p) /\ p.assign["nginx"] # 0 THEN 1 ELSE p.assign["nginx"]
<1> DEFINE a == [p.assign EXCEPT !["nginx"] = 1]
<1>1. a \in Assignment /\ a["nginx"] = 1 /\ \A s \in Service \ {"nginx"} : a[s] = p.assign[s]
  BY PlanFields, Constant DEF Assignment
<1>2. [p EXCEPT !.assign["nginx"] = 1] = [p EXCEPT !.assign = a]
  OBVIOUS
<1> HIDE DEF a
<1>3. CASE isMultiNode(p) /\ p.assign["nginx"] # 0
  <2>1. pinNginxToPrimary(p) = [p EXCEPT !.assign = a]
    BY <1>2, <1>3 DEF pinNginxToPrimary
  <2> QED
    BY <1>1, <1>3, <2>1, WithAssign
<1>4. CASE ~(isMultiNode(p) /\ p.assign["nginx"] # 0)
  <2>1. pinNginxToPrimary(p) = p
    BY <1>4 DEF pinNginxToPrimary
  <2> QED
    BY <1>4, <2>1
<1> QED
  BY <1>3, <1>4

LEMMA ServiceNodeFacts ==
    ASSUME NEW p \in Plan, NEW s \in Service
    PROVE  /\ serviceNode(p, s).ip \in Address
           /\ p.assign[s] \in DOMAIN p.nodes => serviceNode(p, s) = p.nodes[p.assign[s]]
           /\ p.assign[s] \notin DOMAIN p.nodes => serviceNode(p, s) = [name |-> "", ip |-> ""]
<1>1. CASE p.assign[s] \in DOMAIN p.nodes
  BY <1>1, MachineOfRow DEF serviceNode, Machine
<1>2. CASE p.assign[s] \notin DOMAIN p.nodes
  BY <1>2, Constant DEF serviceNode
<1> QED
  BY <1>1, <1>2

\* Same rows and numbers, same machine.
LEMMA SameMachine ==
    ASSUME NEW p, NEW q, NEW s, p.nodes = q.nodes, p.assign[s] = q.assign[s]
    PROVE  serviceNode(p, s) = serviceNode(q, s)
  BY DEF serviceNode

LEMMA SyncFacts ==
    ASSUME NEW p \in Plan
    PROVE  LET q == syncServiceAssignments(p) IN
           /\ q \in Plan
           /\ q.topology = p.topology /\ q.nodes = p.nodes
           /\ q.off = p.off /\ q.agents = p.agents /\ q.synced = p.synced
           /\ q.assign = pinNginxToPrimary(p).assign
           /\ \A m \in Addressed : q.host[m] = IF serviceNode(q, m).ip = "" \/ (m = "mysql" /\ q.off) THEN p.host[m]
                                               ELSE serviceNode(q, m).ip
<1> DEFINE pinned == pinNginxToPrimary(p)
           Keep(m) == serviceNode(pinned, m).ip = "" \/ (m = "mysql" /\ pinned.off)
           h == [m \in Addressed |-> IF Keep(m) THEN pinned.host[m] ELSE serviceNode(pinned, m).ip]
           q == syncServiceAssignments(p)
<1>1. pinned \in Plan /\ pinned.topology = p.topology /\ pinned.nodes = p.nodes /\ pinned.host = p.host
      /\ pinned.off = p.off /\ pinned.agents = p.agents /\ pinned.synced = p.synced
  BY PinFacts
<1>2. q = [pinned EXCEPT !.host = h]
  BY DEF syncServiceAssignments
<1>3. h \in Hosts
  <2>1. ASSUME NEW m \in Addressed PROVE pinned.host[m] \in Address /\ serviceNode(pinned, m).ip \in Address
    BY <1>1, <2>1, PlanFields, ServiceNodeFacts, Constant DEF Hosts
  <2> QED
    BY <2>1 DEF Hosts
<1>4. \A m \in Addressed : h[m] = IF Keep(m) THEN pinned.host[m] ELSE serviceNode(pinned, m).ip
  OBVIOUS
<1> HIDE DEF pinned, h
<1>5. /\ q \in Plan /\ q.host = h /\ q.topology = pinned.topology /\ q.nodes = pinned.nodes /\ q.assign = pinned.assign
      /\ q.off = pinned.off /\ q.agents = pinned.agents /\ q.synced = pinned.synced
  BY <1>1, <1>2, <1>3, WithHost
<1>6. ASSUME NEW m \in Addressed PROVE serviceNode(pinned, m) = serviceNode(q, m)
  BY <1>5, SameMachine
<1> HIDE DEF q
<1>7. \A m \in Addressed : q.host[m] = IF serviceNode(q, m).ip = "" \/ (m = "mysql" /\ q.off) THEN p.host[m]
                                         ELSE serviceNode(q, m).ip
  BY <1>1, <1>4, <1>5, <1>6
<1>8. q.assign = pinNginxToPrimary(p).assign
  BY <1>5 DEF pinned
<1> QED
  BY <1>1, <1>5, <1>7, <1>8 DEF q

\* What no edit may break.
Keeps(p, q) == q \in Plan /\ (Pinned(p) => Pinned(q)) /\ (PlanSound(p) => PlanSound(q))

\* The numbers after pinNginxToPrimary.
LEMMA PinKeeps ==
    ASSUME NEW p \in Plan, NEW q \in Plan, q.nodes = p.nodes, q.assign = pinNginxToPrimary(p).assign
    PROVE  Keeps(p, q) /\ (isMultiNode(p) => Pinned(q))
<1> DEFINE a == pinNginxToPrimary(p).assign
<1>1. /\ \A s \in Service \ {"nginx"} : a[s] = p.assign[s]
      /\ a["nginx"] = IF isMultiNode(p) /\ p.assign["nginx"] # 0 THEN 1 ELSE p.assign["nginx"]
  BY PinFacts
<1> HIDE DEF a
<1>2. q.assign = a
  BY DEF a
<1>3. Pinned(p) => Pinned(q)
  BY <1>1, <1>2 DEF Pinned
<1>4. isMultiNode(p) => Pinned(q)
  BY <1>1, <1>2 DEF Pinned
<1>5. ASSUME PlanSound(p) PROVE PlanSound(q)
  <2>1. 1 \in 0..Len(p.nodes)
    BY PlanFields
  <2>2. ASSUME NEW s \in Service PROVE q.assign[s] \in 0..Len(q.nodes)
    <3>1. p.assign[s] \in 0..Len(p.nodes)
      BY <1>5 DEF PlanSound
    <3>2. a[s] \in {1, p.assign[s]}
      BY <1>1
    <3> QED
      BY <1>2, <2>1, <3>1, <3>2
  <2> QED
    BY <2>2 DEF PlanSound
<1> QED
  BY <1>3, <1>4, <1>5 DEF Keeps

LEMMA SyncKeeps ==
    ASSUME NEW p \in Plan
    PROVE  Keeps(p, syncServiceAssignments(p)) /\ (isMultiNode(p) => Pinned(syncServiceAssignments(p)))
  BY SyncFacts, PinKeeps

LEMMA PinItKeeps ==
    ASSUME NEW p \in Plan
    PROVE  Keeps(p, pinNginxToPrimary(p)) /\ (isMultiNode(p) => Pinned(pinNginxToPrimary(p)))
  BY PinFacts, PinKeeps

-----------------------------------------------------------------------------
(* The edits of the form.                                                   *)

\* As many rows and the same numbers.
LEMMA SameRows ==
    ASSUME NEW p, NEW q \in Plan, q.assign = p.assign, Len(q.nodes) = Len(p.nodes)
    PROVE  Keeps(p, q)
  BY DEF Keeps, Pinned, PlanSound

LEMMA KeepsMore ==
    ASSUME NEW p, NEW q, NEW r, Keeps(p, q), Keeps(q, r)
    PROVE  Keeps(p, r)
  BY DEF Keeps

\* Everything on the first machine.
LEMMA AllOnFirst ==
    ASSUME NEW p \in Plan, NEW o
    PROVE  Keeps(o, assignAllToPrimary(p))
<1> DEFINE a == [s \in Service |-> 1]
           q == [p EXCEPT !.assign = a]
<1>1. a \in Assignment /\ \A s \in Service : a[s] = 1
  BY Constant DEF Assignment
<1> HIDE DEF a
<1>2. q \in Plan /\ q.assign = a /\ q.nodes = p.nodes
  BY <1>1, WithAssign
<1>3. assignAllToPrimary(p) = syncServiceAssignments(q)
  BY DEF assignAllToPrimary, a
<1> HIDE DEF q
<1>4. Pinned(q)
  BY <1>1, <1>2, Constant DEF Pinned
<1>5. PlanSound(q)
  <2>1. 1 \in 0..Len(q.nodes)
    BY <1>2, PlanFields
  <2> QED
    BY <1>1, <1>2, <2>1 DEF PlanSound
<1>6. Keeps(q, syncServiceAssignments(q))
  BY <1>2, SyncKeeps
<1> QED
  BY <1>3, <1>4, <1>5, <1>6 DEF Keeps

LEMMA TwoMachines ==
    ASSUME NEW m \in Machine, NEW n \in Machine
    PROVE  <<m, n>> \in Seq(Machine) /\ Len(<<m, n>>) = 2
  OBVIOUS

LEMMA PrimaryAddress ==
    ASSUME NEW p \in Plan
    PROVE  primaryNodeIP(p) \in Address
<1>1. 1 \in DOMAIN p.nodes
  BY PlanFields
<1>2. p.nodes[1].ip \in Address
  BY <1>1, MachineOfRow DEF Machine
<1> QED
  BY <1>2, Constant DEF primaryNodeIP

LEMMA TemplateKeeps ==
    ASSUME NEW p \in Plan, NEW o
    PROVE  Keeps(o, applyDualNodeTemplate(p))
<1> DEFINE ns == <<[name |-> "db-node", ip |-> primaryNodeIP(p)], [name |-> "node2", ip |-> ""]>>
           a == [s \in Service |-> IF serviceGroupFor(s) = "database" \/ s = "redis" THEN 1 ELSE 2]
           t == [p EXCEPT !.topology = "multi"]
           n == [t EXCEPT !.nodes = ns]
           q == [n EXCEPT !.assign = a]
<1>1. ns \in Seq(Machine) /\ Len(ns) = 2
  <2>1. [name |-> "db-node", ip |-> primaryNodeIP(p)] \in Machine /\ [name |-> "node2", ip |-> ""] \in Machine
    BY PrimaryAddress, Constant, NamesGiven, MachineIs
  <2> QED
    BY <2>1, TwoMachines
<1>2. a \in Assignment /\ \A s \in Service : a[s] \in {1, 2}
  BY Constant DEF Assignment
<1>3. Len(ns) \in 1..MaxNodes
  BY <1>1, Constant
<1>4. applyDualNodeTemplate(p) = syncServiceAssignments(q)
  BY DEF applyDualNodeTemplate
<1> HIDE DEF ns, a
<1>5. q \in Plan /\ q.assign = a /\ q.nodes = ns /\ q.topology = "multi" /\ Len(q.nodes) = 2
  <2>1. t \in Plan /\ t.topology = "multi"
    BY WithTopology
  <2> HIDE DEF t
  <2>2. n \in Plan /\ n.nodes = ns /\ n.topology = "multi"
    BY <1>1, <1>3, <2>1, WithNodes
  <2> HIDE DEF n
  <2>3. q \in Plan /\ q.assign = a /\ q.nodes = n.nodes /\ q.topology = n.topology
    BY <1>2, <2>2, WithAssign
  <2> QED
    BY <1>1, <2>2, <2>3
<1> HIDE DEF q
<1>6. isMultiNode(q)
  BY <1>5 DEF isMultiNode
<1>7. PlanSound(q)
  <2>1. ASSUME NEW s \in Service PROVE q.assign[s] \in 0..Len(q.nodes)
    BY <1>2, <1>5
  <2> QED
    BY <2>1 DEF PlanSound
<1>8. Keeps(q, syncServiceAssignments(q)) /\ Pinned(syncServiceAssignments(q))
  BY <1>5, <1>6, SyncKeeps
<1> QED
  BY <1>4, <1>7, <1>8 DEF Keeps

LEMMA TopologyKeeps ==
    ASSUME NEW p \in Plan, NEW mode \in {"single", "multi"}
    PROVE  Keeps(p, setDeployTopology(p, mode))
<1> DEFINE q == [p EXCEPT !.topology = mode]
<1>1. q \in Plan /\ q.nodes = p.nodes /\ q.assign = p.assign
  BY WithTopology
<1>2. CASE mode = "single" /\ Len(p.nodes) > 1
  <2> DEFINE ns == <<Head(p.nodes)>>
             r == [q EXCEPT !.nodes = ns]
  <2>1. ns \in Seq(Machine) /\ Len(ns) = 1
    <3>1. Head(p.nodes) = p.nodes[1] /\ 1 \in DOMAIN p.nodes
      BY PlanFields
    <3>2. Head(p.nodes) \in Machine
      BY <3>1, MachineOfRow
    <3> QED
      BY <3>2
  <2>2. Len(ns) \in 1..MaxNodes
    BY <2>1, Constant
  <2>3. setDeployTopology(p, mode) = assignAllToPrimary(r)
    BY <1>2 DEF setDeployTopology
  <2> HIDE DEF ns, q
  <2>4. r \in Plan
    BY <1>1, <2>1, <2>2, WithNodes
  <2> QED
    BY <2>3, <2>4, AllOnFirst
<1>3. CASE mode = "multi" /\ Len(p.nodes) = 1
  <2>1. setDeployTopology(p, mode) = applyDualNodeTemplate(q)
    BY <1>3 DEF setDeployTopology
  <2> HIDE DEF q
  <2> QED
    BY <1>1, <2>1, TemplateKeeps
<1>4. CASE ~(mode = "single" /\ Len(p.nodes) > 1) /\ ~(mode = "multi" /\ Len(p.nodes) = 1)
  <2>1. setDeployTopology(p, mode) = q
    BY <1>4 DEF setDeployTopology
  <2> HIDE DEF q
  <2> QED
    BY <1>1, <2>1, SameRows
<1> QED
  BY <1>2, <1>3, <1>4

LEMMA AddKeeps ==
    ASSUME NEW p \in Plan, Len(p.nodes) < MaxNodes
    PROVE  Keeps(p, addNode(p))
<1> DEFINE n == [name |-> NodeName[Len(p.nodes) + 1], ip |-> ""]
           ns == Append(p.nodes, n)
<1>1. MaxNodes \in Nat /\ Len(p.nodes) \in 1..MaxNodes /\ p.nodes \in Seq(Machine)
  <2>1. MaxNodes \in Nat \ {0, 1}
    BY Constant
  <2> QED
    BY <2>1, PlanFields
<1>2. n \in Machine
  <2>1. Len(p.nodes) + 1 \in 1..MaxNodes
    BY <1>1
  <2>2. NodeName[Len(p.nodes) + 1] \in MachineName
    BY <2>1, NamesGiven
  <2> QED
    BY <2>2, Constant DEF Machine
<1>3. addNode(p) = [p EXCEPT !.nodes = ns]
  BY DEF addNode
<1> HIDE DEF n
<1>4. ns \in Seq(Machine) /\ Len(ns) = Len(p.nodes) + 1
  BY <1>1, <1>2, AppendProperties
<1> HIDE DEF ns
<1>5. Len(ns) \in 1..MaxNodes
  BY <1>1, <1>4
<1> DEFINE q == [p EXCEPT !.nodes = ns]
<1>6. q \in Plan /\ q.nodes = ns /\ q.assign = p.assign
  BY <1>4, <1>5, WithNodes
<1> HIDE DEF q
<1>7. PlanSound(p) => PlanSound(q)
  <2>1. ASSUME NEW k \in 0..Len(p.nodes) PROVE k \in 0..Len(q.nodes)
    BY <1>1, <1>4, <1>6
  <2> QED
    BY <1>6, <2>1 DEF PlanSound
<1>8. Pinned(p) => Pinned(q)
  BY <1>6 DEF Pinned
<1> QED
  BY <1>3, <1>6, <1>7, <1>8 DEF Keeps, q

\* What RemoveAt leaves.
LEMMA RemoveFacts ==
    ASSUME NEW ns \in Seq(Machine), NEW idx \in 1..Len(ns)
    PROVE  LET rest == RemoveAt(ns, idx) IN
           /\ rest \in Seq(Machine) /\ Len(rest) = Len(ns) - 1
           /\ \A i \in 1..(Len(ns) - 1) : rest[i] = IF i < idx THEN ns[i] ELSE ns[i + 1]
<1> DEFINE l == SubSeq(ns, 1, idx - 1)
           r == SubSeq(ns, idx + 1, Len(ns))
<1>1. Len(ns) \in Nat /\ \A i \in 1..Len(ns) : ns[i] \in Machine
  BY LenProperties, ElementOfSeq
<1>2. l \in Seq(Machine) /\ Len(l) = idx - 1 /\ \A i \in 1..(idx - 1) : l[i] = ns[i]
  <2>1. 1 \in Int /\ idx - 1 \in Int /\ \A i \in 1..(idx - 1) : ns[i] \in Machine
    BY <1>1
  <2>2. /\ l \in Seq(Machine) /\ Len(l) = IF 1 <= idx - 1 THEN (idx - 1) - 1 + 1 ELSE 0
        /\ \A i \in 1..((idx - 1) - 1 + 1) : l[i] = ns[1 + i - 1]
    BY <2>1, SubSeqProperties
  <2> HIDE DEF l
  <2>3. Len(l) = idx - 1
    BY <2>2
  <2>4. \A i \in 1..(idx - 1) : l[i] = ns[i]
    BY <2>2
  <2> QED
    BY <2>2, <2>3, <2>4
<1>3. r \in Seq(Machine) /\ Len(r) = Len(ns) - idx /\ \A i \in 1..(Len(ns) - idx) : r[i] = ns[idx + i]
  <2>1. idx + 1 \in Int /\ Len(ns) \in Int /\ \A i \in (idx + 1)..Len(ns) : ns[i] \in Machine
    BY <1>1
  <2>2. /\ r \in Seq(Machine) /\ Len(r) = IF idx + 1 <= Len(ns) THEN Len(ns) - (idx + 1) + 1 ELSE 0
        /\ \A i \in 1..(Len(ns) - (idx + 1) + 1) : r[i] = ns[(idx + 1) + i - 1]
    BY <2>1, SubSeqProperties
  <2> HIDE DEF r
  <2>3. Len(r) = Len(ns) - idx
    BY <1>1, <2>2
  <2>4. \A i \in 1..(Len(ns) - idx) : r[i] = ns[idx + i]
    BY <1>1, <2>2
  <2> QED
    BY <2>2, <2>3, <2>4
<1>4. RemoveAt(ns, idx) = l \o r
  BY DEF RemoveAt
<1> HIDE DEF l, r
<1>5. /\ l \o r \in Seq(Machine) /\ Len(l \o r) = Len(l) + Len(r)
      /\ \A i \in 1..(Len(l) + Len(r)) : (l \o r)[i] = IF i <= Len(l) THEN l[i] ELSE r[i - Len(l)]
  BY <1>2, <1>3, ConcatProperties
<1> DEFINE rest == RemoveAt(ns, idx)
<1> HIDE DEF rest
<1>6. /\ rest \in Seq(Machine) /\ Len(rest) = Len(ns) - 1
      /\ \A i \in 1..(Len(ns) - 1) : rest[i] = IF i <= idx - 1 THEN l[i] ELSE r[i - (idx - 1)]
  BY <1>1, <1>2, <1>3, <1>4, <1>5 DEF rest
<1>7. ASSUME NEW i \in 1..(Len(ns) - 1) PROVE rest[i] = IF i < idx THEN ns[i] ELSE ns[i + 1]
  <2>1. CASE i < idx
    BY <1>1, <1>2, <1>6, <2>1
  <2>2. CASE ~(i < idx)
    <3>1. i - (idx - 1) \in 1..(Len(ns) - idx) /\ idx + (i - (idx - 1)) = i + 1 /\ ~(i <= idx - 1)
      BY <1>1, <2>2
    <3>2. rest[i] = r[i - (idx - 1)]
      BY <1>6, <3>1
    <3> QED
      BY <1>3, <2>2, <3>1, <3>2
  <2> QED
    BY <2>1, <2>2
<1> QED
  BY <1>6, <1>7 DEF rest

\* The rows and the numbers after a row is removed.
LEMMA RemoveShape ==
    ASSUME NEW p \in Plan, NEW idx \in 2..Len(p.nodes)
    PROVE  LET q == removeNode(p, idx) IN
           /\ q \in Plan /\ Keeps(p, q) /\ q.nodes = RemoveAt(p.nodes, idx)
           /\ Len(q.nodes) = Len(p.nodes) - 1
           /\ \A i \in 1..(Len(p.nodes) - 1) : q.nodes[i] = IF i < idx THEN p.nodes[i] ELSE p.nodes[i + 1]
           /\ \A s \in Service \ {"nginx"} :
                 q.assign[s] = CASE p.assign[s] = idx -> 1 [] p.assign[s] > idx -> p.assign[s] - 1 [] OTHER -> p.assign[s]
<1> DEFINE ns == RemoveAt(p.nodes, idx)
           Moved(k) == CASE k = idx -> 1 [] k > idx -> k - 1 [] OTHER -> k
           a == [s \in Service |-> Moved(p.assign[s])]
           n == [p EXCEPT !.nodes = ns]
           r == [n EXCEPT !.assign = a]
<1>1. /\ Len(p.nodes) \in 1..MaxNodes /\ p.nodes \in Seq(Machine) /\ MaxNodes \in Nat
      /\ idx \in 1..Len(p.nodes) /\ 1 \in 0..MaxNodes
  <2>1. Len(p.nodes) \in 1..MaxNodes /\ p.nodes \in Seq(Machine) /\ MaxNodes \in Nat \ {0, 1} /\ 1 \in 0..MaxNodes
    BY PlanFields, Constant
  <2> QED
    BY <2>1
<1>2. /\ ns \in Seq(Machine) /\ Len(ns) = Len(p.nodes) - 1
      /\ \A i \in 1..(Len(p.nodes) - 1) : ns[i] = IF i < idx THEN p.nodes[i] ELSE p.nodes[i + 1]
  BY <1>1, RemoveFacts
<1>3. ASSUME NEW k \in 0..MaxNodes
      PROVE  /\ Moved(k) \in 0..MaxNodes
             /\ k \in 0..Len(p.nodes) => Moved(k) \in 0..(Len(p.nodes) - 1)
             /\ k \in {0, 1} => Moved(k) = k
  <2>1. k \in Int /\ idx \in Int /\ Len(p.nodes) \in Int /\ idx >= 2 /\ idx <= Len(p.nodes)
    BY <1>1
  <2>2. Moved(k) = IF k = idx THEN 1 ELSE IF k > idx THEN k - 1 ELSE k
    BY <2>1
  <2> HIDE DEF Moved
  <2> QED
    BY <1>1, <2>1, <2>2
<1>4. a \in Assignment /\ \A s \in Service : a[s] = Moved(p.assign[s])
  <2> HIDE DEF Moved
  <2>1. \A s \in Service : p.assign[s] \in 0..MaxNodes
    BY PlanFields DEF Assignment
  <2> QED
    BY <1>3, <2>1 DEF Assignment
<1>5. removeNode(p, idx) = syncServiceAssignments(r)
  BY DEF removeNode
<1>6. Len(ns) \in 1..MaxNodes
  <2> HIDE DEF ns
  <2> QED
    BY <1>1, <1>2
<1> HIDE DEF ns, a
<1>7. r \in Plan /\ r.nodes = ns /\ r.assign = a
  <2>1. n \in Plan /\ n.nodes = ns
    BY <1>2, <1>6, WithNodes
  <2> HIDE DEF n
  <2> QED
    BY <1>4, <2>1, WithAssign
<1> HIDE DEF r
<1>8. Keeps(p, r)
  <2> HIDE DEF Moved
  <2>1. \A s \in Service : p.assign[s] \in 0..MaxNodes
    BY PlanFields DEF Assignment
  <2>2. Pinned(p) => Pinned(r)
    BY <1>3, <1>4, <1>7, <2>1, Constant DEF Pinned
  <2>3. ASSUME PlanSound(p), NEW s \in Service PROVE r.assign[s] \in 0..Len(r.nodes)
    BY <1>2, <1>3, <1>4, <1>7, <2>1, <2>3 DEF PlanSound
  <2> QED
    BY <1>7, <2>2, <2>3 DEF Keeps, PlanSound
<1> DEFINE q == removeNode(p, idx)
<1> HIDE DEF q
<1>9. q \in Plan /\ q.nodes = ns /\ q.assign = pinNginxToPrimary(r).assign
  BY <1>5, <1>7, SyncFacts DEF q
<1>10. Keeps(p, q)
  BY <1>5, <1>7, <1>8, SyncKeeps, KeepsMore DEF q
<1>11. ASSUME NEW s \in Service \ {"nginx"} PROVE q.assign[s] = Moved(p.assign[s])
  <2> HIDE DEF Moved
  <2> QED
    BY <1>4, <1>7, <1>9, PinFacts
<1> QED
  BY <1>2, <1>9, <1>10, <1>11 DEF q, ns

LEMMA RowKeeps ==
    ASSUME NEW p \in Plan, NEW i \in DOMAIN p.nodes, NEW n \in Machine
    PROVE  LET q == [p EXCEPT !.nodes = [p.nodes EXCEPT ![i] = n]] IN Keeps(p, q) /\ q \in Plan
<1> DEFINE ns == [p.nodes EXCEPT ![i] = n]
           q == [p EXCEPT !.nodes = ns]
<1>1. i \in 1..Len(p.nodes) /\ p.nodes \in Seq(Machine) /\ Len(p.nodes) \in 1..MaxNodes
  BY PlanFields
<1>2. ns \in Seq(Machine) /\ Len(ns) = Len(p.nodes)
  BY <1>1, ExceptSeq
<1> HIDE DEF ns
<1>3. q \in Plan /\ q.nodes = ns /\ q.assign = p.assign
  BY <1>1, <1>2, WithNodes
<1> HIDE DEF q
<1>4. Keeps(p, q)
  BY <1>2, <1>3, SameRows
<1> QED
  BY <1>3, <1>4 DEF q, ns

LEMMA AddressKeeps ==
    ASSUME NEW p \in Plan, NEW i \in DOMAIN p.nodes, NEW ip \in Address
    PROVE  Keeps(p, [p EXCEPT !.nodes[i].ip = ip]) /\ [p EXCEPT !.nodes[i].ip = ip] \in Plan
<1> DEFINE n == [p.nodes[i] EXCEPT !.ip = ip]
<1>1. n \in Machine
  BY MachineOfRow DEF Machine
<1>2. [p EXCEPT !.nodes[i].ip = ip] = [p EXCEPT !.nodes = [p.nodes EXCEPT ![i] = n]]
  OBVIOUS
<1> HIDE DEF n
<1> QED
  BY <1>1, <1>2, RowKeeps

LEMMA NameKeeps ==
    ASSUME NEW p \in Plan, NEW i \in DOMAIN p.nodes, NEW k \in MachineName
    PROVE  Keeps(p, [p EXCEPT !.nodes[i].name = k])
<1> DEFINE n == [p.nodes[i] EXCEPT !.name = k]
<1>1. n \in Machine
  BY MachineOfRow DEF Machine
<1>2. [p EXCEPT !.nodes[i].name = k] = [p EXCEPT !.nodes = [p.nodes EXCEPT ![i] = n]]
  OBVIOUS
<1> HIDE DEF n
<1> QED
  BY <1>1, <1>2, RowKeeps

LEMMA HostKeeps ==
    ASSUME NEW p \in Plan, NEW h \in Hosts
    PROVE  Keeps(p, [p EXCEPT !.host = h])
<1> DEFINE q == [p EXCEPT !.host = h]
<1>1. q \in Plan /\ q.nodes = p.nodes /\ q.assign = p.assign
  BY WithHost
<1> HIDE DEF q
<1> QED
  BY <1>1, SameRows DEF q

LEMMA OneHostKeeps ==
    ASSUME NEW p \in Plan, NEW m \in Addressed, NEW ip \in Address
    PROVE  Keeps(p, [p EXCEPT !.host[m] = ip])
<1> DEFINE h == [p.host EXCEPT ![m] = ip]
<1>1. h \in Hosts
  BY PlanFields DEF Hosts
<1>2. [p EXCEPT !.host[m] = ip] = [p EXCEPT !.host = h]
  OBVIOUS
<1> HIDE DEF h
<1> QED
  BY <1>1, <1>2, HostKeeps

LEMMA OffKeeps ==
    ASSUME NEW p \in Plan, NEW off \in BOOLEAN
    PROVE  Keeps(p, [p EXCEPT !.off = off])
<1> DEFINE q == [p EXCEPT !.off = off]
<1>1. q \in Plan /\ q.nodes = p.nodes /\ q.assign = p.assign
  BY DEF Plan
<1> HIDE DEF q
<1> QED
  BY <1>1, SameRows DEF q

LEMMA AgentsKeep ==
    ASSUME NEW p \in Plan, NEW agents \in Agents
    PROVE  LET q == [p EXCEPT !.agents = agents] IN
           /\ Keeps(p, q) /\ q \in Plan /\ q.nodes = p.nodes /\ q.assign = p.assign /\ q.topology = p.topology
<1> DEFINE q == [p EXCEPT !.agents = agents]
<1>1. q \in Plan /\ q.nodes = p.nodes /\ q.assign = p.assign /\ q.topology = p.topology
  BY DEF Plan
<1> HIDE DEF q
<1>2. Keeps(p, q)
  BY <1>1, SameRows
<1> QED
  BY <1>1, <1>2 DEF q

LEMMA FirstRow == ASSUME NEW p \in Plan PROVE 1 \in DOMAIN p.nodes /\ p.nodes[1].ip \in Address
<1>1. 1 \in DOMAIN p.nodes
  BY PlanFields
<1> QED
  BY <1>1, MachineOfRow DEF Machine

LEMMA FillHostsKeeps ==
    ASSUME NEW p \in Plan, NEW ip \in Address
    PROVE  Keeps(p, applyHostToForm(p, ip))
<1> DEFINE q == [p EXCEPT !.nodes[1].ip = ip]
           h == [m \in Addressed |-> IF m = "mysql" /\ q.off THEN q.host[m] ELSE ip]
<1>1. Keeps(p, q) /\ q \in Plan
  BY FirstRow, AddressKeeps
<1>2. applyHostToForm(p, ip) = IF isMultiNode(q) THEN syncServiceAssignments(q) ELSE [q EXCEPT !.host = h]
  BY DEF applyHostToForm
<1> HIDE DEF q
<1>3. h \in Hosts
  BY <1>1, PlanFields DEF Hosts
<1> HIDE DEF h
<1>4. Keeps(q, syncServiceAssignments(q)) /\ Keeps(q, [q EXCEPT !.host = h])
  BY <1>1, <1>3, SyncKeeps, HostKeeps
<1> QED
  BY <1>1, <1>2, <1>4, KeepsMore

LEMMA SingleHostsKeep ==
    ASSUME NEW p \in Plan
    PROVE  Keeps(p, syncSingleNodeHosts(p))
<1> DEFINE h == [m \in Addressed |-> IF p.host[m] \in {"", Loopback, p.synced} THEN p.nodes[1].ip ELSE p.host[m]]
           q == syncSingleNodeHosts(p)
<1>1. h \in Hosts
  BY PlanFields, FirstRow DEF Hosts
<1>2. q = [p EXCEPT !.host = h, !.synced = p.nodes[1].ip]
  BY DEF syncSingleNodeHosts
<1> HIDE DEF h, q
<1>3. q \in Plan /\ q.nodes = p.nodes /\ q.assign = p.assign
  BY <1>1, <1>2, FirstRow DEF Plan, Hosts
<1> QED
  BY <1>3, SameRows DEF q

LEMMA TickKeeps ==
    ASSUME NEW p \in Plan, NEW ip \in Address, NEW on \in BOOLEAN
    PROVE  Keeps(p, toggleMonitorAgent(p, ip, on))
<1> DEFINE cur == IF p.agents \in {Unset, {}} THEN {p.nodes[i].ip : i \in DOMAIN p.nodes} ELSE p.agents
           agents == IF on THEN cur \cup {ip} ELSE cur \ {ip}
<1>1. cur \in SUBSET Address
  <2>1. \A i \in DOMAIN p.nodes : p.nodes[i].ip \in Address
    BY MachineOfRow DEF Machine
  <2>2. p.agents \in Agents
    BY PlanFields
  <2> QED
    BY <2>1, <2>2 DEF Agents
<1>2. toggleMonitorAgent(p, ip, on) = [p EXCEPT !.agents = agents]
  BY DEF toggleMonitorAgent
<1> HIDE DEF cur
<1>3. agents \in Agents
  BY <1>1 DEF Agents
<1> HIDE DEF agents
<1> QED
  BY <1>2, <1>3, AgentsKeep

LEMMA AssignKeeps ==
    ASSUME NEW p \in Plan, NEW s \in Service, NEW k \in 0..Len(p.nodes), s = "nginx" => k \in {0, 1}
    PROVE  Keeps(p, syncServiceAssignments([p EXCEPT !.assign[s] = k]))
<1> DEFINE a == [p.assign EXCEPT ![s] = k]
           q == [p EXCEPT !.assign = a]
<1>1. k \in 0..MaxNodes
  <2>1. Len(p.nodes) \in 1..MaxNodes /\ MaxNodes \in Nat \ {0, 1}
    BY PlanFields, Constant
  <2> QED
    BY <2>1
<1>2. a \in Assignment /\ \A t \in Service : a[t] = IF t = s THEN k ELSE p.assign[t]
  BY <1>1, PlanFields DEF Assignment
<1>3. [p EXCEPT !.assign[s] = k] = q
  OBVIOUS
<1> HIDE DEF a
<1>4. q \in Plan /\ q.nodes = p.nodes /\ q.assign = a
  BY <1>2, WithAssign
<1> HIDE DEF q
<1>5. Keeps(p, q)
  <2>1. Pinned(p) => Pinned(q)
    BY <1>2, <1>4, Constant DEF Pinned
  <2>2. PlanSound(p) => PlanSound(q)
    BY <1>2, <1>4 DEF PlanSound
  <2> QED
    BY <1>4, <2>1, <2>2 DEF Keeps
<1> QED
  BY <1>3, <1>4, <1>5, SyncKeeps, KeepsMore

-----------------------------------------------------------------------------
(* Reading site.yaml.                                                       *)

LEMMA FunctionIsSeq ==
    ASSUME NEW S, NEW n \in Nat, NEW f \in [1..n -> S]
    PROVE  f \in Seq(S) /\ Len(f) = n
  OBVIOUS

NatLess == {p \in Nat \X Nat : p[1] < p[2]}

\* A non-empty set of naturals has a least element.
LEMMA LeastNatural ==
    ASSUME NEW T \in SUBSET Nat, T # {}
    PROVE  \E x \in T : \A y \in T : x <= y
<1>1. IsWellFoundedOn(NatLess, Nat)
  BY NatLessThanWellFounded DEF NatLess, OpToRel
<1>2. PICK x \in T : \A y \in T : ~(<<y, x>> \in NatLess)
  BY <1>1, WFMin
<1>3. ASSUME NEW y \in T PROVE x <= y
  <2>1. x \in Nat /\ y \in Nat
    OBVIOUS
  <2>2. <<y, x>> \in Nat \X Nat /\ <<y, x>> \notin NatLess
    BY <1>2, <2>1
  <2>3. ~(y < x)
    BY <2>2 DEF NatLess
  <2> QED
    BY <2>1, <2>3
<1> QED
  BY <1>3

LEMMA MinIsIn ==
    ASSUME NEW I \in SUBSET Nat, I # {}
    PROVE  Min(I) \in I
<1>1. \E x \in I : \A y \in I : x <= y
  BY LeastNatural
<1> QED
  BY <1>1 DEF Min

\* The first of some rows, as SelectInSeq finds it.
FirstOf(I) == IF I # {} THEN Min(I) ELSE 0
Listing(ns, s) == {i \in 1..Len(ns) : s \in ns[i].services}
Serving(ns, role) == {i \in 1..Len(ns) : role \in ns[i].roles}

LEMMA FirstOfRows ==
    ASSUME NEW n \in Nat, NEW I \in SUBSET (1..n)
    PROVE  FirstOf(I) \in 0..n /\ (FirstOf(I) # 0 => FirstOf(I) \in I) /\ (\A i \in I : I = {i} => FirstOf(I) = i)
<1>1. CASE I # {}
  <2>1. I \in SUBSET Nat
    OBVIOUS
  <2>2. Min(I) \in I
    BY <1>1, <2>1, MinIsIn
  <2>3. FirstOf(I) \in I
    BY <1>1, <2>2 DEF FirstOf
  <2>4. \A i \in I : I = {i} => FirstOf(I) = i
    BY <2>3
  <2>5. FirstOf(I) \in 0..n
    <3>1. \A i \in I : i \in 0..n
      OBVIOUS
    <3> QED
      BY <2>3, <3>1
  <2> QED
    BY <2>3, <2>4, <2>5
<1>2. CASE I = {}
  BY <1>2 DEF FirstOf
<1> QED
  BY <1>1, <1>2

LEMMA HydrateIs ==
    ASSUME NEW ns, NEW s \in Service
    PROVE  \E role : hydrateServiceAssignments(ns)[s] =
              IF FirstOf(Listing(ns, s)) # 0 THEN FirstOf(Listing(ns, s))
              ELSE IF FirstOf(Serving(ns, role)) # 0 THEN FirstOf(Serving(ns, role)) ELSE 1
<1> DEFINE role == IF serviceGroupFor(s) = "standalone" THEN s ELSE serviceGroupFor(s)
<1>1. hydrateServiceAssignments(ns)[s] =
         IF FirstOf(Listing(ns, s)) # 0 THEN FirstOf(Listing(ns, s))
         ELSE IF FirstOf(Serving(ns, role)) # 0 THEN FirstOf(Serving(ns, role)) ELSE 1
  BY DEF hydrateServiceAssignments, SelectInSeq, FirstOf, Listing, Serving
<1> QED
  BY <1>1

\* Every service gets a row, and the one that lists it if only one does.
LEMMA HydrateFacts ==
    ASSUME NEW ns, Len(ns) \in 1..MaxNodes
    PROVE  /\ hydrateServiceAssignments(ns) \in Assignment
           /\ \A s \in Service :
                /\ hydrateServiceAssignments(ns)[s] \in 1..Len(ns)
                /\ \A i \in 1..Len(ns) : Listing(ns, s) = {i} => hydrateServiceAssignments(ns)[s] = i
<1> DEFINE a == hydrateServiceAssignments(ns)
<1>1. Len(ns) \in Nat /\ MaxNodes \in Nat /\ 1 \in 1..Len(ns)
  <2>1. MaxNodes \in Nat \ {0, 1}
    BY Constant
  <2> QED
    BY <2>1
<1>2. ASSUME NEW s \in Service
      PROVE  a[s] \in 1..Len(ns) /\ \A i \in 1..Len(ns) : Listing(ns, s) = {i} => a[s] = i
  <2>1. PICK role : a[s] = IF FirstOf(Listing(ns, s)) # 0 THEN FirstOf(Listing(ns, s))
                           ELSE IF FirstOf(Serving(ns, role)) # 0 THEN FirstOf(Serving(ns, role)) ELSE 1
    BY HydrateIs
  <2> DEFINE I == Listing(ns, s)
             J == Serving(ns, role)
  <2>2. I \in SUBSET (1..Len(ns)) /\ J \in SUBSET (1..Len(ns))
    BY DEF Listing, Serving
  <2> HIDE DEF a, I, J
  <2>3. FirstOf(I) \in 0..Len(ns) /\ \A i \in I : I = {i} => FirstOf(I) = i
    BY <1>1, <2>2, FirstOfRows
  <2>4. FirstOf(J) \in 0..Len(ns)
    BY <1>1, <2>2, FirstOfRows
  <2>5. a[s] = IF FirstOf(I) # 0 THEN FirstOf(I) ELSE IF FirstOf(J) # 0 THEN FirstOf(J) ELSE 1
    BY <2>1 DEF I, J
  <2>6. a[s] \in 1..Len(ns)
    BY <1>1, <2>3, <2>4, <2>5
  <2>7. ASSUME NEW i \in 1..Len(ns), I = {i} PROVE a[s] = i
    BY <2>3, <2>5, <2>7
  <2> QED
    BY <2>6, <2>7 DEF I
<1>3. a = [s \in Service |-> a[s]]
  BY DEF hydrateServiceAssignments
<1> HIDE DEF a
<1>4. a \in Assignment
  <2>1. \A k \in 1..Len(ns) : k \in 0..MaxNodes
    BY <1>1
  <2> QED
    BY <1>2, <1>3, <2>1 DEF Assignment
<1> QED
  BY <1>2, <1>4 DEF a

\* The nodes as fillSiteForm takes them, and the rows it makes of them.
Loaded(f) ==
    [i \in DOMAIN f.nodes |->
        IF f.nodes[i].roles = {} THEN [f.nodes[i] EXCEPT !.roles = ALL_SINGLE_ROLES] ELSE f.nodes[i]]
RowsOf(f) == [i \in DOMAIN f.nodes |-> [name |-> f.nodes[i].name, ip |-> f.nodes[i].ip]]

LEMMA LoadedFacts ==
    ASSUME NEW f \in SiteFile
    PROVE  /\ Len(Loaded(f)) = Len(f.nodes) /\ DOMAIN Loaded(f) = DOMAIN f.nodes
           /\ \A s : Listing(Loaded(f), s) = Listing(f.nodes, s)
           /\ RowsOf(f) = [i \in DOMAIN Loaded(f) |-> [name |-> Loaded(f)[i].name, ip |-> Loaded(f)[i].ip]]
           /\ RowsOf(f) \in Seq(Machine) /\ Len(RowsOf(f)) = Len(f.nodes)
<1> DEFINE n == Len(f.nodes)
<1>1. n \in Nat /\ DOMAIN f.nodes = 1..n /\ \A i \in 1..n : f.nodes[i] \in Node
  <2>1. f.nodes \in Seq(Node) /\ n \in Nat /\ DOMAIN f.nodes = 1..n
    BY FileFields
  <2> QED
    BY <2>1, ElementOfSeq
<1> HIDE DEF n
<1>2. ASSUME NEW i \in 1..n
      PROVE  /\ Loaded(f)[i].name = f.nodes[i].name /\ Loaded(f)[i].ip = f.nodes[i].ip
             /\ Loaded(f)[i].services = f.nodes[i].services /\ Loaded(f)[i] \in Node
             /\ RowsOf(f)[i] = [name |-> Loaded(f)[i].name, ip |-> Loaded(f)[i].ip] /\ RowsOf(f)[i] \in Machine
  <2>1. f.nodes[i] \in Node /\ i \in DOMAIN f.nodes
    BY <1>1
  <2>2. ALL_SINGLE_ROLES \in SUBSET Role
    BY DEF Role
  <2>3. Loaded(f)[i] = IF f.nodes[i].roles = {} THEN [f.nodes[i] EXCEPT !.roles = ALL_SINGLE_ROLES] ELSE f.nodes[i]
    BY <2>1 DEF Loaded
  <2>4. RowsOf(f)[i] = [name |-> f.nodes[i].name, ip |-> f.nodes[i].ip]
    BY <2>1 DEF RowsOf
  <2> QED
    BY <2>1, <2>2, <2>3, <2>4 DEF Node, Machine
<1>3. Loaded(f) \in [1..n -> Node] /\ RowsOf(f) \in [1..n -> Machine]
  <2>1. Loaded(f) = [i \in 1..n |-> Loaded(f)[i]] /\ RowsOf(f) = [i \in 1..n |-> RowsOf(f)[i]]
    BY <1>1 DEF Loaded, RowsOf
  <2> QED
    BY <1>2, <2>1
<1>4. Len(Loaded(f)) = n /\ RowsOf(f) \in Seq(Machine) /\ Len(RowsOf(f)) = n
  BY <1>1, <1>3, FunctionIsSeq
<1>5. ASSUME NEW s PROVE Listing(Loaded(f), s) = Listing(f.nodes, s)
  BY <1>2, <1>4 DEF Listing, n
<1>6. DOMAIN Loaded(f) = 1..n
  BY <1>3
<1>7. RowsOf(f) = [i \in DOMAIN Loaded(f) |-> [name |-> Loaded(f)[i].name, ip |-> Loaded(f)[i].ip]]
  <2>1. RowsOf(f) = [i \in 1..n |-> RowsOf(f)[i]]
    BY <1>3
  <2> QED
    BY <1>2, <1>6, <2>1
<1> QED
  BY <1>1, <1>4, <1>5, <1>6, <1>7 DEF n

LEMMA PgNeedsMysql == "pgsql" \in Addressed => "mysql" \in Addressed
  BY PlanAssumption DEF Addressed

\* What the form is after a file was read.
LEMMA FillFacts ==
    ASSUME NEW f \in SiteFile, NEW p \in Plan
    PROVE  LET q == fillSiteForm(f, p) IN
           /\ q \in Plan /\ PlanSound(q) /\ Pinned(q)
           /\ q.topology = IF Len(f.nodes) > 1 THEN "multi" ELSE "single"
           /\ q.nodes = RowsOf(f) /\ Len(q.nodes) = Len(f.nodes)
           /\ q.off = f.off /\ q.agents = f.agents
           /\ \A s \in Service : \A i \in 1..Len(f.nodes) :
                 Listing(f.nodes, s) = {i} /\ (s = "nginx" => i = 1) => q.assign[s] = i
           /\ \A s \in Service : q.assign[s] \in 1..Len(f.nodes) /\ (s = "nginx" => q.assign[s] = 1)
           /\ \A m \in Addressed : f.host[m] # "" => q.host[m] = f.host[m]
<1> DEFINE t == [p EXCEPT !.topology = IF Len(f.nodes) > 1 THEN "multi" ELSE "single"]
           n == [t EXCEPT !.nodes = RowsOf(f)]
           filled == [n EXCEPT !.assign = hydrateServiceAssignments(Loaded(f))]
           synced == syncServiceAssignments(filled)
           kept == [m \in Addressed |-> IF f.host[m] = "" THEN synced.host[m] ELSE f.host[m]]
           host == [m \in Addressed |-> IF m = "pgsql" /\ kept[m] = "" THEN kept["mysql"] ELSE kept[m]]
           q == fillSiteForm(f, p)
<1>1. q = [synced EXCEPT !.host = host, !.off = f.off, !.agents = f.agents]
  <2> DEFINE rows == [i \in DOMAIN Loaded(f) |-> [name |-> Loaded(f)[i].name, ip |-> Loaded(f)[i].ip]]
             r == [p EXCEPT !.topology = IF Len(Loaded(f)) > 1 THEN "multi" ELSE "single",
                            !.nodes = rows, !.assign = hydrateServiceAssignments(Loaded(f))]
             s == syncServiceAssignments(r)
             k == [m \in Addressed |-> IF f.host[m] = "" THEN s.host[m] ELSE f.host[m]]
             h == [m \in Addressed |-> IF m = "pgsql" /\ k[m] = "" THEN k["mysql"] ELSE k[m]]
  <2>1. q = [s EXCEPT !.host = h, !.off = f.off, !.agents = f.agents]
    BY DEF fillSiteForm, Loaded
  <2>2. RowsOf(f) = rows /\ Len(Loaded(f)) = Len(f.nodes)
    BY LoadedFacts
  <2>3. s = synced
    <3> HIDE DEF rows
    <3>1. r = filled
      BY <2>2
    <3> QED
      BY <3>1
  <2> HIDE DEF s, synced
  <2>4. h = host
    BY <2>3
  <2> HIDE DEF h, host, q
  <2> QED
    BY <2>1, <2>3, <2>4
<1>2. /\ filled \in Plan /\ filled.nodes = RowsOf(f) /\ filled.assign = hydrateServiceAssignments(Loaded(f))
      /\ filled.topology = IF Len(f.nodes) > 1 THEN "multi" ELSE "single"
  <2>1. Len(f.nodes) \in 1..MaxNodes /\ RowsOf(f) \in Seq(Machine) /\ Len(RowsOf(f)) = Len(f.nodes)
        /\ Len(Loaded(f)) = Len(f.nodes)
    BY FileFields, LoadedFacts
  <2>2. hydrateServiceAssignments(Loaded(f)) \in Assignment
    BY <2>1, HydrateFacts
  <2>3. t \in Plan /\ t.topology = IF Len(f.nodes) > 1 THEN "multi" ELSE "single"
    BY WithTopology
  <2> HIDE DEF t
  <2>4. n \in Plan /\ n.nodes = RowsOf(f) /\ n.topology = t.topology
    BY <2>1, <2>3, WithNodes
  <2> HIDE DEF n
  <2>5. filled \in Plan /\ filled.assign = hydrateServiceAssignments(Loaded(f)) /\ filled.nodes = n.nodes
        /\ filled.topology = n.topology
    BY <2>2, <2>4, WithAssign
  <2> QED
    BY <2>3, <2>4, <2>5
<1> HIDE DEF filled
<1>3. /\ synced \in Plan /\ synced.nodes = RowsOf(f) /\ synced.topology = filled.topology
      /\ synced.assign = pinNginxToPrimary(filled).assign
  BY <1>2, SyncFacts
<1> HIDE DEF synced
<1>4. kept \in Hosts /\ \A m \in Addressed : f.host[m] # "" => kept[m] = f.host[m]
  BY <1>3, FileFields, PlanFields DEF Hosts
<1> HIDE DEF kept
<1>5. host \in Hosts /\ \A m \in Addressed : f.host[m] # "" => host[m] = f.host[m]
  BY <1>4, PgNeedsMysql DEF Hosts
<1> HIDE DEF host, q
<1>6. /\ q \in Plan /\ q.nodes = RowsOf(f) /\ q.topology = filled.topology /\ q.assign = synced.assign
      /\ q.off = f.off /\ q.agents = f.agents /\ q.host = host
  <2>1. f.off \in BOOLEAN /\ f.agents \in Agents
    BY FileFields
  <2> QED
    BY <1>1, <1>3, <1>5, <2>1 DEF Plan, Hosts
<1>7. Len(f.nodes) \in 1..MaxNodes /\ Len(f.nodes) \in Nat /\ Len(RowsOf(f)) = Len(f.nodes) /\ Len(Loaded(f)) = Len(f.nodes)
  BY FileFields, LoadedFacts
<1> DEFINE a == hydrateServiceAssignments(Loaded(f))
<1> HIDE DEF a
<1>8. /\ filled.assign = a
      /\ \A s \in Service : a[s] \in 1..Len(f.nodes)
      /\ \A s \in Service : \A i \in 1..Len(f.nodes) : Listing(f.nodes, s) = {i} => a[s] = i
  <2>1. Len(Loaded(f)) \in 1..MaxNodes /\ \A s : Listing(Loaded(f), s) = Listing(f.nodes, s)
    BY <1>7, LoadedFacts
  <2>2. \A s \in Service :
           /\ a[s] \in 1..Len(Loaded(f))
           /\ \A i \in 1..Len(Loaded(f)) : Listing(Loaded(f), s) = {i} => a[s] = i
    BY <2>1, HydrateFacts DEF a
  <2>3. filled.assign = a
    BY <1>2 DEF a
  <2> QED
    BY <1>7, <2>1, <2>2, <2>3
<1>9. isMultiNode(filled) <=> Len(f.nodes) > 1
  BY <1>2, <1>7 DEF isMultiNode
<1>10. /\ \A s \in Service \ {"nginx"} : q.assign[s] = a[s]
       /\ q.assign["nginx"] = 1
  <2>1. /\ \A s \in Service \ {"nginx"} : q.assign[s] = a[s]
        /\ q.assign["nginx"] = IF isMultiNode(filled) /\ a["nginx"] # 0 THEN 1 ELSE a["nginx"]
    BY <1>2, <1>3, <1>6, <1>8, PinFacts
  <2>2. a["nginx"] \in 1..Len(f.nodes)
    BY <1>8, Constant
  <2>3. CASE Len(f.nodes) > 1
    BY <1>9, <2>1, <2>2, <2>3
  <2>4. CASE ~(Len(f.nodes) > 1)
    <3>1. a["nginx"] = 1
      BY <1>7, <2>2, <2>4
    <3> QED
      BY <1>9, <2>1, <3>1
  <2> QED
    BY <2>1, <2>3, <2>4
<1>11. \A s \in Service : q.assign[s] \in 1..Len(f.nodes) /\ (s = "nginx" => q.assign[s] = 1)
  <2>1. 1 \in 1..Len(f.nodes)
    BY <1>7
  <2> QED
    BY <1>8, <1>10, <2>1
<1>12. \A s \in Service : \A i \in 1..Len(f.nodes) :
          Listing(f.nodes, s) = {i} /\ (s = "nginx" => i = 1) => q.assign[s] = i
  BY <1>8, <1>10
<1>13. Len(q.nodes) = Len(f.nodes)
  BY <1>6, <1>7
<1>14. PlanSound(q)
  <2>1. \A i \in 1..Len(f.nodes) : i \in 0..Len(f.nodes)
    BY <1>7
  <2> QED
    BY <1>11, <1>13, <2>1 DEF PlanSound
<1>15. Pinned(q)
  BY <1>10 DEF Pinned
<1> QED
  BY <1>2, <1>5, <1>6, <1>11, <1>12, <1>13, <1>14, <1>15 DEF q

-----------------------------------------------------------------------------
(* Writing site.yaml.                                                       *)

LEMMA GroupFacts ==
    ASSUME NEW s \in Service
    PROVE  serviceGroupFor(s) \in {"database", "middleware", "platform", "standalone"}
<1>1. DOMAIN NODE_SERVICE_GROUPS = {"database", "middleware", "platform", "standalone"}
  BY DEF NODE_SERVICE_GROUPS
<1>2. \E g \in DOMAIN NODE_SERVICE_GROUPS : s \in NODE_SERVICE_GROUPS[g]
  BY PlanAssumption
<1>3. serviceGroupFor(s) \in DOMAIN NODE_SERVICE_GROUPS
  BY <1>2 DEF serviceGroupFor
<1> QED
  BY <1>1, <1>3

LEMMA RolesAreRoles ==
    ASSUME NEW ss \in SUBSET Service
    PROVE  rolesForServices(ss) \in SUBSET Role
<1>1. \A s \in ss : serviceGroupFor(s) \in {"database", "middleware", "platform", "standalone"}
  BY GroupFacts
<1> QED
  BY <1>1 DEF rolesForServices, Role, ALL_SINGLE_ROLES

ServicesAt(p, i) == {s \in Service : p.assign[s] = i}

LEMMA NodesFacts ==
    ASSUME NEW p \in Plan
    PROVE  LET ns == buildFormNodes(p) IN
           /\ ns \in Seq(Node)
           /\ p.topology = "single" =>
                 /\ Len(ns) = 1
                 /\ ns[1] = [name |-> p.nodes[1].name, ip |-> primaryNodeIP(p), roles |-> ALL_SINGLE_ROLES, services |-> Service]
           /\ p.topology = "multi" =>
                 /\ Len(ns) = Len(p.nodes)
                 /\ \A i \in 1..Len(p.nodes) :
                       ns[i] = [name |-> p.nodes[i].name, ip |-> p.nodes[i].ip,
                                roles |-> rolesForServices(ServicesAt(p, i)), services |-> ServicesAt(p, i)]
<1> DEFINE ns == buildFormNodes(p)
<1>1. CASE p.topology = "single"
  <2> DEFINE n == [name |-> p.nodes[1].name, ip |-> primaryNodeIP(p), roles |-> ALL_SINGLE_ROLES, services |-> Service]
  <2>1. p.nodes[1].name \in MachineName /\ primaryNodeIP(p) \in Address
    BY PrimaryAddress, FirstRow, MachineOfRow DEF Machine
  <2>2. ALL_SINGLE_ROLES \in SUBSET Role
    BY DEF Role
  <2>3. n \in Node
    BY <2>1, <2>2 DEF Node
  <2>4. ns = <<n>>
    BY <1>1 DEF buildFormNodes
  <2> HIDE DEF n, ns
  <2>5. ns \in Seq(Node) /\ Len(ns) = 1 /\ ns[1] = n
    BY <2>3, <2>4
  <2> QED
    BY <1>1, <2>5 DEF n, ns
<1>2. CASE p.topology = "multi"
  <2> DEFINE N(i) == [name |-> p.nodes[i].name, ip |-> p.nodes[i].ip,
                      roles |-> rolesForServices(ServicesAt(p, i)), services |-> ServicesAt(p, i)]
  <2>1. ns = [i \in 1..Len(p.nodes) |-> N(i)]
    BY <1>2, PlanFields DEF buildFormNodes, assignedServicesForNode, ServicesAt
  <2>2. ASSUME NEW i \in 1..Len(p.nodes) PROVE N(i) \in Node
    <3>1. p.nodes[i] \in Machine
      BY PlanFields, MachineOfRow
    <3>2. ServicesAt(p, i) \in SUBSET Service
      BY DEF ServicesAt
    <3>3. rolesForServices(ServicesAt(p, i)) \in SUBSET Role
      BY <3>2, RolesAreRoles
    <3> QED
      BY <3>1, <3>2, <3>3 DEF Node, Machine
  <2> HIDE DEF N, ns
  <2>3. ns \in [1..Len(p.nodes) -> Node] /\ \A i \in 1..Len(p.nodes) : ns[i] = N(i)
    BY <2>1, <2>2
  <2>4. Len(p.nodes) \in Nat
    BY PlanFields
  <2>5. ns \in Seq(Node) /\ Len(ns) = Len(p.nodes)
    BY <2>3, <2>4, FunctionIsSeq
  <2> QED
    BY <1>2, <2>3, <2>5 DEF N, ns
<1> QED
  BY <1>1, <1>2, PlanFields

LEMMA PayloadFacts ==
    ASSUME NEW p \in Plan
    PROVE  LET f == buildFormPayload(p) IN
           /\ f \in SiteFile /\ f.nodes = buildFormNodes(p) /\ f.off = p.off /\ f.profiles = currentProfiles(p)
           /\ f.agents = IF p.agents = {} THEN Unset ELSE p.agents
           /\ \A m \in Addressed :
                 f.host[m] = IF m = "mysql" /\ p.off THEN ""
                             ELSE IF m = "pgsql" /\ p.host[m] = "" THEN IF p.off THEN primaryNodeIP(p) ELSE p.host["mysql"]
                             ELSE p.host[m]
<1> DEFINE host == [m \in Addressed |->
                      IF m = "mysql" /\ p.off THEN ""
                      ELSE IF m = "pgsql" /\ p.host[m] = "" THEN IF p.off THEN primaryNodeIP(p) ELSE p.host["mysql"]
                      ELSE p.host[m]]
           agents == IF p.agents = {} THEN Unset ELSE p.agents
           f == buildFormPayload(p)
<1>1. host \in Hosts /\ agents \in Agents /\ p.off \in BOOLEAN
  <2>1. p.host \in Hosts /\ p.agents \in Agents /\ p.off \in BOOLEAN
    BY PlanFields
  <2> QED
    BY <2>1, PrimaryAddress, PgNeedsMysql, Constant DEF Hosts, Agents
<1>2. currentProfiles(p) \in SUBSET (STRING \cup Service \cup {"platform"})
  BY DEF currentProfiles
<1>3. buildFormNodes(p) \in Seq(Node) /\ Len(buildFormNodes(p)) \in 1..MaxNodes
  BY NodesFacts, PlanFields, Constant
<1>4. f = [nodes |-> buildFormNodes(p), profiles |-> currentProfiles(p), off |-> p.off, host |-> host, agents |-> agents]
  BY DEF buildFormPayload
<1>5. \A m \in Addressed :
         host[m] = IF m = "mysql" /\ p.off THEN ""
                   ELSE IF m = "pgsql" /\ p.host[m] = "" THEN IF p.off THEN primaryNodeIP(p) ELSE p.host["mysql"]
                   ELSE p.host[m]
  OBVIOUS
<1> HIDE DEF host, agents, f
<1>6. f \in SiteFile
  BY <1>1, <1>2, <1>3, <1>4 DEF SiteFile, Node, Hosts
<1>7. f.nodes = buildFormNodes(p) /\ f.off = p.off /\ f.host = host /\ f.profiles = currentProfiles(p)
      /\ f.agents = agents
  BY <1>4
<1>8. f.agents = IF p.agents = {} THEN Unset ELSE p.agents
  BY <1>7 DEF agents
<1> QED
  BY <1>5, <1>6, <1>7, <1>8 DEF f

-----------------------------------------------------------------------------
(* Steps keep the types and the machine of nginx, and numbers in the table. *)

LEMMA EditStep ==
    ASSUME PlanOK, NEW p, Keeps(form, p), Edit(p)
    PROVE  PlanOK' /\ (PlanSound(form) => PlanSound(form)')
<1>1. form' = p /\ UNCHANGED <<file, by, exists>> /\ edited' \in BOOLEAN
  BY DEF Edit
<1>2. edits' \in 0..MaxEdits
  <2>1. edits \in 0..MaxEdits /\ MaxEdits \in Nat /\ edits < MaxEdits /\ edits' = edits + 1
    BY PlanAssumption DEF PlanOK, TypeOK, Edit
  <2> QED
    BY <2>1
<1>3. p \in Plan /\ p.assign["nginx"] \in {0, 1} /\ (PlanSound(form) => PlanSound(p))
  BY DEF Keeps, Pinned, PlanOK, NginxOnPrimary
<1>4. TypeOK'
  BY <1>1, <1>2, <1>3 DEF PlanOK, TypeOK
<1>5. NginxOnPrimary'
  BY <1>1, <1>3 DEF NginxOnPrimary
<1> QED
  BY <1>1, <1>3, <1>4, <1>5 DEF PlanOK, PlanSound

LEMMA WriteStep ==
    ASSUME PlanOK, NEW p \in Plan, NEW who \in {"save", "auto", "step"}, Write(p, who), Keeps(form, form')
    PROVE  PlanOK' /\ (PlanSound(form) => PlanSound(form)')
<1>1. Validate(buildFormPayload(p)) /\ file' = buildFormPayload(p) /\ by' = who /\ exists' = TRUE /\ edited' = FALSE /\ edits' = edits
  BY DEF Write
<1>2. file' \in SiteFile
  BY <1>1, PayloadFacts
<1>3. Validate(file)'
  BY <1>1 DEF Validate
<1>4. form' \in Plan /\ form'.assign["nginx"] \in {0, 1} /\ (PlanSound(form) => PlanSound(form'))
  BY DEF Keeps, Pinned, PlanOK, NginxOnPrimary
<1>5. TypeOK'
  BY <1>1, <1>2, <1>3, <1>4 DEF PlanOK, TypeOK
<1> QED
  BY <1>4, <1>5 DEF PlanOK, NginxOnPrimary, PlanSound

LEMMA RefusedStep ==
    ASSUME PlanOK, NEW p, Keeps(form, p), Refused(p)
    PROVE  PlanOK' /\ (PlanSound(form) => PlanSound(form)')
<1>1. form' = p /\ edited' = TRUE /\ UNCHANGED <<file, by, exists, edits>>
  BY DEF Refused
<1>2. p \in Plan /\ p.assign["nginx"] \in {0, 1} /\ (PlanSound(form) => PlanSound(p))
  BY DEF Keeps, Pinned, PlanOK, NginxOnPrimary
<1>3. TypeOK'
  BY <1>1, <1>2 DEF PlanOK, TypeOK
<1> QED
  BY <1>1, <1>2, <1>3 DEF PlanOK, NginxOnPrimary, PlanSound

LEMMA ItKeeps == ASSUME NEW p \in Plan PROVE Keeps(p, p)
  BY DEF Keeps

Controls ==
    \/ SetTopology \/ DualTemplate \/ AddRow \/ EditIP \/ EditName \/ EditHost \/ DropMysql \/ AssignService
    \/ AssignAll \/ FillHosts \/ TickAgent \/ LeaveMachines

LEMMA RowsAreRows == ASSUME NEW i \in Rows, form \in Plan PROVE i \in DOMAIN form.nodes
  BY FirstRow DEF Rows

\* Every control of the table is an edit that keeps what edits keep.
LEMMA ControlsKeep ==
    ASSUME PlanOK, Controls
    PROVE  \E p : Keeps(form, p) /\ Edit(p)
<1>1. form \in Plan /\ IP \subseteq Address
  BY DEF PlanOK, TypeOK, Address
<1>2. CASE SetTopology
  BY <1>1, <1>2, TopologyKeeps DEF SetTopology
<1>3. CASE DualTemplate
  BY <1>1, <1>3, TemplateKeeps DEF DualTemplate
<1>4. CASE AddRow
  BY <1>1, <1>4, AddKeeps DEF AddRow
<1>5. CASE EditIP
  <2>1. PICK i \in Rows, ip \in IP : Edit([form EXCEPT !.nodes[i].ip = ip])
    BY <1>5 DEF EditIP
  <2>2. i \in DOMAIN form.nodes
    BY <1>1, RowsAreRows
  <2>3. Keeps(form, [form EXCEPT !.nodes[i].ip = ip])
    BY <1>1, <2>2, AddressKeeps
  <2> QED
    BY <2>1, <2>3
<1>6. CASE EditName
  <2>1. PICK i \in Rows, n \in MachineName : Edit([form EXCEPT !.nodes[i].name = n])
    BY <1>6, NamesGiven DEF EditName
  <2>2. i \in DOMAIN form.nodes
    BY <1>1, RowsAreRows
  <2>3. Keeps(form, [form EXCEPT !.nodes[i].name = n])
    BY <1>1, <2>2, NameKeeps
  <2> QED
    BY <2>1, <2>3
<1>7. CASE EditHost
  <2>1. PICK m \in Addressed, ip \in IP : Edit([form EXCEPT !.host[m] = ip])
    BY <1>7 DEF EditHost
  <2>2. Keeps(form, [form EXCEPT !.host[m] = ip])
    BY <1>1, OneHostKeeps
  <2> QED
    BY <2>1, <2>2
<1>8. CASE DropMysql
  <2>1. Edit([form EXCEPT !.off = ~form.off])
    BY <1>8 DEF DropMysql
  <2>2. Keeps(form, [form EXCEPT !.off = ~form.off])
    BY <1>1, OffKeeps
  <2> QED
    BY <2>1, <2>2
<1>9. CASE AssignService
  <2>1. PICK s \in Service : \E k \in IF s = "nginx" THEN {0, 1} ELSE 0..Len(form.nodes) :
            Edit(syncServiceAssignments([form EXCEPT !.assign[s] = k]))
    BY <1>9 DEF AssignService
  <2>2. PICK k \in IF s = "nginx" THEN {0, 1} ELSE 0..Len(form.nodes) :
            Edit(syncServiceAssignments([form EXCEPT !.assign[s] = k]))
    BY <2>1
  <2>3. k \in 0..Len(form.nodes) /\ (s = "nginx" => k \in {0, 1})
    BY <1>1, PlanFields
  <2>4. Keeps(form, syncServiceAssignments([form EXCEPT !.assign[s] = k]))
    BY <1>1, <2>3, AssignKeeps
  <2> QED
    BY <2>2, <2>4
<1>10. CASE AssignAll
  BY <1>1, <1>10, AllOnFirst DEF AssignAll
<1>11. CASE FillHosts
  <2>1. PICK ip \in IP \ {""} : Edit(applyHostToForm(form, ip))
    BY <1>11 DEF FillHosts
  <2>2. Keeps(form, applyHostToForm(form, ip))
    BY <1>1, FillHostsKeeps
  <2> QED
    BY <2>1, <2>2
<1>12. CASE TickAgent
  <2>1. PICK i \in DOMAIN form.nodes, on \in BOOLEAN : Edit(toggleMonitorAgent(form, form.nodes[i].ip, on))
    BY <1>12 DEF TickAgent
  <2>2. form.nodes[i].ip \in Address
    BY <1>1, MachineOfRow DEF Machine
  <2>3. Keeps(form, toggleMonitorAgent(form, form.nodes[i].ip, on))
    BY <1>1, <2>2, TickKeeps
  <2> QED
    BY <2>1, <2>3
<1>13. CASE LeaveMachines
  <2>1. Keeps(form, syncServiceAssignments(form)) /\ Keeps(form, syncSingleNodeHosts(form))
    BY <1>1, SyncKeeps, SingleHostsKeep
  <2> QED
    BY <1>13, <2>1 DEF LeaveMachines
<1> QED
  BY <1>2, <1>3, <1>4, <1>5, <1>6, <1>7, <1>8, <1>9, <1>10, <1>11, <1>12, <1>13 DEF Controls

\* What a save writes, and what it leaves in the form.
Writing(p, who) ==
    /\ Write(p, who) /\ Keeps(form, form')
    /\ \/ /\ who = "save" /\ validateNodePlan(p) /\ (\E o \in Plan : p = syncServiceAssignments(o))
          /\ form' = p \/ form' = fillSiteForm(file', p)
       \/ who = "auto" /\ validateNodePlan(p) /\ form' = p
       \/ who = "step"

Saves == saveSite \/ AutoSave \/ saveSiteFormOnly \/ persistKafkaAdvertiseHost \/ runMonitorDeploy

LEMMA SyncValid ==
    ASSUME NEW p \in Plan, validateNodePlan(p)
    PROVE  validateNodePlan(syncServiceAssignments(p))
<1> DEFINE q == syncServiceAssignments(p)
<1>1. q.topology = p.topology /\ q.nodes = p.nodes
  BY SyncFacts
<1> HIDE DEF q
<1>2. validateNodePlan(q)
  BY <1>1 DEF validateNodePlan, isMultiNode
<1> QED
  BY <1>2 DEF q

LEMMA FillKeeps ==
    ASSUME NEW f \in SiteFile, NEW p \in Plan, NEW o
    PROVE  Keeps(o, fillSiteForm(f, p))
  BY FillFacts DEF Keeps

LEMMA SavesWrite ==
    ASSUME PlanOK, Saves
    PROVE  (\E p : Keeps(form, p) /\ Refused(p)) \/ (\E p \in Plan, who \in {"save", "auto", "step"} : Writing(p, who))
<1>1. form \in Plan
  BY DEF PlanOK, TypeOK
<1> DEFINE q == syncServiceAssignments(form)
<1>2. q \in Plan /\ Keeps(form, q) /\ Keeps(form, form)
  BY <1>1, SyncKeeps, ItKeeps DEF Keeps
<1>3. CASE saveSite
  <2>1. CASE Saved
    <3>1. validateNodePlan(form) /\ Write(q, "save") /\ form' = fillSiteForm(file', q)
      BY <2>1 DEF Saved
    <3>2. validateNodePlan(q)
      BY <1>1, <3>1, SyncValid
    <3>3. file' \in SiteFile
      BY <1>2, <3>1, PayloadFacts DEF Write
    <3>4. Keeps(form, form')
      BY <1>2, <3>1, <3>3, FillKeeps
    <3>5. \E o \in Plan : q = syncServiceAssignments(o)
      BY <1>1
    <3> HIDE DEF q
    <3> QED
      BY <1>2, <3>1, <3>2, <3>4, <3>5 DEF Writing
  <2>2. CASE validateNodePlan(form) /\ Refused(q)
    BY <1>2, <2>2
  <2> QED
    BY <1>3, <2>1, <2>2 DEF saveSite
<1>4. CASE AutoSave
  <2>1. Write(form, "auto") /\ form' = form /\ validateNodePlan(form)
    BY <1>4 DEF AutoSave, siteFormReadyToPersist
  <2>2. Writing(form, "auto")
    BY <1>2, <2>1 DEF Writing
  <2> QED
    BY <1>1, <2>2
<1>5. CASE saveSiteFormOnly
  <2>1. Write(form, "step") /\ form' = form
    BY <1>5 DEF saveSiteFormOnly
  <2>2. Writing(form, "step")
    BY <1>2, <2>1 DEF Writing
  <2> QED
    BY <1>1, <2>2
<1>6. CASE persistKafkaAdvertiseHost
  <2> DEFINE h == [form EXCEPT !.host["kafka"] = form.nodes[1].ip]
             p == IF isMultiNode(form) THEN q ELSE IF form.nodes[1].ip # "" THEN h ELSE form
  <2>1. "kafka" \in Addressed /\ ((p.host["kafka"] # "" /\ Write(p, "step") /\ form' = p) \/ Refused(p))
    BY <1>6 DEF persistKafkaAdvertiseHost
  <2>2. Keeps(form, h)
    BY <1>1, <2>1, FirstRow, OneHostKeeps
  <2> HIDE DEF q, h
  <2>3. Keeps(form, p)
    BY <1>2, <2>2
  <2> HIDE DEF p
  <2>4. ASSUME Write(p, "step"), form' = p PROVE Writing(p, "step") /\ p \in Plan
    BY <2>3, <2>4 DEF Writing, Keeps
  <2> QED
    BY <2>1, <2>3, <2>4
<1>7. CASE runMonitorDeploy
  <2> DEFINE agents == IF form.agents \in {Unset, {}} THEN {form.nodes[i].ip : i \in DOMAIN form.nodes} \ {""}
                       ELSE form.agents
             p == [form EXCEPT !.agents = agents]
             r == syncServiceAssignments(p)
  <2>1. IF validateNodePlan(p) THEN (Write(r, "save") /\ form' = r) \/ Refused(r) ELSE Refused(p)
    BY <1>7 DEF runMonitorDeploy
  <2>2. agents \in Agents
    <3>1. \A i \in DOMAIN form.nodes : form.nodes[i].ip \in Address
      BY <1>1, MachineOfRow DEF Machine
    <3> QED
      BY <1>1, <3>1, PlanFields DEF Agents
  <2> HIDE DEF agents
  <2>3. Keeps(form, p) /\ p \in Plan
    BY <1>1, <2>2, AgentsKeep
  <2> HIDE DEF p
  <2>4. Keeps(p, r) /\ r \in Plan /\ (\E o \in Plan : r = syncServiceAssignments(o))
    BY <2>3, SyncKeeps DEF Keeps
  <2>5. validateNodePlan(p) => validateNodePlan(r)
    BY <2>3, SyncValid
  <2> HIDE DEF r
  <2>6. Keeps(form, r)
    BY <2>3, <2>4, KeepsMore
  <2>7. ASSUME validateNodePlan(p), Write(r, "save"), form' = r PROVE Writing(r, "save")
    BY <2>4, <2>5, <2>6, <2>7 DEF Writing
  <2> QED
    BY <2>1, <2>3, <2>4, <2>6, <2>7
<1> QED
  BY <1>3, <1>4, <1>5, <1>6, <1>7 DEF Saves

LEMMA OneMachine ==
    ASSUME NEW m \in Machine
    PROVE  <<m>> \in Seq(Machine) /\ Len(<<m>>) = 1
  OBVIOUS

LEMMA BlankIsPlan == Blank \in Plan
<1> DEFINE n == [name |-> "app-node", ip |-> Loopback]
           a == [s \in Service |-> 1]
           h == [m \in Addressed |-> Loopback]
<1>1. n \in Machine
  BY Constant, NamesGiven, MachineIs
<1>2. a \in Assignment /\ h \in Hosts /\ "" \in Address /\ Unset \in Agents
  BY Constant DEF Assignment, Hosts, Agents
<1>3. Blank = [topology |-> "multi", nodes |-> <<n>>, assign |-> a, host |-> h, off |-> FALSE, agents |-> Unset,
               synced |-> ""]
  BY DEF Blank
<1> HIDE DEF n, a, h
<1> DEFINE ns == <<n>>
<1>4. ns \in Seq(Machine) /\ Len(ns) = 1
  BY <1>1, OneMachine
<1>5. Len(ns) \in 1..MaxNodes
  BY <1>4, Constant
<1> HIDE DEF ns
<1>6. Blank = [topology |-> "multi", nodes |-> ns, assign |-> a, host |-> h, off |-> FALSE, agents |-> Unset,
               synced |-> ""]
  BY <1>3 DEF ns
<1> QED
  BY <1>2, <1>4, <1>5, <1>6 DEF Plan, Machine, Assignment, Hosts

\* A load without a file leaves a form, and keeps the number of nginx.
LEMMA BlankedForm ==
    ASSUME NEW p \in Plan
    PROVE  LET q == resetSiteFormBlank(p) IN q \in Plan /\ q.assign = p.assign
<1>1. Blank \in Plan
  BY BlankIsPlan
<1> DEFINE b == Blank.nodes
           h == Blank.host
           n == [p EXCEPT !.nodes = b]
           m == [n EXCEPT !.host = h]
<1>2. b \in Seq(Machine) /\ Len(b) \in 1..MaxNodes /\ h \in Hosts
  BY <1>1, PlanFields
<1>3. resetSiteFormBlank(p) = [m EXCEPT !.off = FALSE]
  BY DEF resetSiteFormBlank
<1> HIDE DEF b, h
<1>4. n \in Plan /\ n.assign = p.assign
  BY <1>2, WithNodes
<1> HIDE DEF n
<1>5. m \in Plan /\ m.assign = n.assign
  BY <1>2, <1>4, WithHost
<1> HIDE DEF m
<1>6. [m EXCEPT !.off = FALSE] \in Plan /\ [m EXCEPT !.off = FALSE].assign = m.assign
  BY <1>5 DEF Plan
<1> QED
  BY <1>3, <1>4, <1>5, <1>6

LEMMA ReloadKeeps ==
    ASSUME PlanOK, Reload
    PROVE  /\ form' \in Plan /\ Pinned(form') /\ exists' \in BOOLEAN /\ edited' = ~exists' /\ UNCHANGED <<file, by, edits>>
           /\ exists' => file # NoFile /\ \E q \in Plan : q = fillSiteForm(file, Blank) /\ form'.nodes = q.nodes
<1>1. form \in Plan /\ Pinned(form) /\ (file # NoFile => file \in SiteFile)
  BY DEF PlanOK, TypeOK, NginxOnPrimary, Pinned
<1>2. Blank \in Plan
  BY BlankIsPlan
<1>3. ASSUME NEW p \in Plan, Pinned(p), form' = pinNginxToPrimary(p)
      PROVE  form' \in Plan /\ Pinned(form') /\ form'.nodes = p.nodes
  BY <1>3, PinItKeeps, PinFacts DEF Keeps
<1>4. exists' \in BOOLEAN /\ (exists' => file # NoFile)
  BY DEF Reload
<1>5. CASE ~exists'
  <2> DEFINE r == [form EXCEPT !.agents = Unset]
             p == [r EXCEPT !.synced = ""]
  <2>1. form' = pinNginxToPrimary(p)
    BY <1>5 DEF Reload
  <2>2. Unset \in Agents /\ "" \in Address
    BY Constant DEF Agents
  <2>3. r \in Plan /\ Pinned(r)
    BY <1>1, <2>2, AgentsKeep DEF Keeps
  <2> HIDE DEF r
  <2>4. p \in Plan /\ p.assign = r.assign
    BY <2>2, <2>3 DEF Plan
  <2>5. Pinned(p)
    BY <2>3, <2>4 DEF Pinned
  <2> HIDE DEF p
  <2> QED
    BY <1>3, <1>4, <1>5, <2>1, <2>4, <2>5 DEF Reload
<1>6. CASE exists'
  <2> DEFINE q == fillSiteForm(file, Blank)
             r == [q EXCEPT !.topology = form.topology]
             p == [r EXCEPT !.assign = form.assign]
  <2>1. form' = pinNginxToPrimary(p)
    BY <1>6 DEF Reload
  <2>2. q \in Plan
    BY <1>1, <1>2, <1>4, <1>6, FillFacts
  <2> HIDE DEF q
  <2>3. r \in Plan /\ r.nodes = q.nodes
    BY <1>1, <2>2, PlanFields, WithTopology
  <2> HIDE DEF r
  <2>4. p \in Plan /\ p.nodes = r.nodes /\ p.assign = form.assign
    BY <1>1, <2>3, PlanFields, WithAssign
  <2> HIDE DEF p
  <2>5. Pinned(p)
    BY <1>1, <2>4 DEF Pinned
  <2>6. form' \in Plan /\ Pinned(form') /\ form'.nodes = q.nodes
    BY <1>3, <2>1, <2>3, <2>4, <2>5
  <2> QED
    BY <1>4, <1>6, <2>2, <2>6 DEF Reload, q
<1> QED
  BY <1>4, <1>5, <1>6

LEMMA InitIsOK == Init => PlanOK
<1> SUFFICES ASSUME Init PROVE PlanOK
  OBVIOUS
<1>1. /\ by = "hand" /\ exists \in BOOLEAN /\ edited \in BOOLEAN /\ edits = 0
      /\ file # NoFile => file \in SiteFile /\ Validate(file)
  BY HandAssumption DEF Init
<1>2. 0 \in 0..MaxEdits
  <2>1. MaxEdits \in Nat
    BY PlanAssumption
  <2> QED
    BY <2>1
<1>3. CASE ~exists
  <2>1. form = Blank
    BY <1>3 DEF Init
  <2>2. Blank.assign["nginx"] = 1
    BY Constant DEF Blank
  <2> QED
    BY <1>1, <1>2, <1>3, <2>1, <2>2, BlankIsPlan DEF PlanOK, TypeOK, NginxOnPrimary
<1>4. CASE exists
  <2>1. file \in SiteFile /\ form = fillSiteForm(file, Blank)
    BY <1>1, <1>4 DEF Init
  <2>2. form \in Plan /\ Pinned(form)
    BY <2>1, BlankIsPlan, FillFacts
  <2> QED
    BY <1>1, <1>2, <2>1, <2>2 DEF PlanOK, TypeOK, NginxOnPrimary, Pinned
<1> QED
  BY <1>3, <1>4

LEMMA NextKeeps ==
    ASSUME PlanOK, [Next]_planVars
    PROVE  PlanOK' /\ (PlanSound(form) => PlanSound(form)' \/ Reload \/ LoseSite)
<1>1. form \in Plan /\ (file # NoFile => file \in SiteFile)
  BY DEF PlanOK, TypeOK
<1>2. CASE Controls
  <2>1. PICK p : Keeps(form, p) /\ Edit(p)
    BY <1>2, ControlsKeep
  <2> QED
    BY <2>1, EditStep
<1>3. ASSUME NEW idx \in 2..MaxNodes, RemoveRow(idx) PROVE PlanOK' /\ (PlanSound(form) => PlanSound(form)')
  <2>1. idx \in 2..Len(form.nodes) /\ Edit(removeNode(form, idx))
    BY <1>3 DEF RemoveRow
  <2>2. Keeps(form, removeNode(form, idx))
    BY <1>1, <2>1, RemoveShape
  <2> QED
    BY <2>1, <2>2, EditStep
<1>4. CASE Saves
  <2>1. CASE \E p : Keeps(form, p) /\ Refused(p)
    BY <2>1, RefusedStep
  <2>2. CASE \E p \in Plan, who \in {"save", "auto", "step"} : Writing(p, who)
    <3>1. PICK p \in Plan, who \in {"save", "auto", "step"} : Writing(p, who)
      BY <2>2
    <3>2. Write(p, who) /\ Keeps(form, form')
      BY <3>1 DEF Writing
    <3> QED
      BY <3>2, WriteStep
  <2> QED
    BY <1>4, <2>1, <2>2, SavesWrite
<1>5. CASE LoadSite
  <2>1. form' = fillSiteForm(file, form) /\ exists' = TRUE /\ edited' = FALSE /\ UNCHANGED <<file, by, edits>> /\ file # NoFile
    BY <1>5 DEF LoadSite
  <2>2. form' \in Plan /\ Pinned(form') /\ PlanSound(form')
    BY <1>1, <2>1, FillFacts
  <2> QED
    BY <2>1, <2>2 DEF PlanOK, TypeOK, NginxOnPrimary, Pinned, PlanSound, Validate
<1>6. CASE Reload
  <2>1. form' \in Plan /\ Pinned(form') /\ exists' \in BOOLEAN /\ edited' \in BOOLEAN /\ UNCHANGED <<file, by, edits>>
    BY <1>6, ReloadKeeps
  <2> QED
    BY <1>6, <2>1 DEF PlanOK, TypeOK, NginxOnPrimary, Pinned, Validate
<1>7. CASE LoseSite
  <2>1. form' = resetSiteFormBlank(form) /\ exists' = FALSE /\ edited' = TRUE /\ UNCHANGED <<file, by, edits>>
    BY <1>7 DEF LoseSite
  <2>2. form' \in Plan /\ form'.assign = form.assign
    BY <1>1, <2>1, BlankedForm
  <2> QED
    BY <1>7, <2>1, <2>2 DEF PlanOK, TypeOK, NginxOnPrimary, Validate
<1>8. CASE Removed
  <2>1. file' = NoFile /\ by' = "hand" /\ UNCHANGED <<form, exists, edited>>
    BY <1>8 DEF Removed
  <2>2. edits' \in 0..MaxEdits
    <3>1. edits \in 0..MaxEdits /\ MaxEdits \in Nat /\ edits < MaxEdits /\ edits' = edits + 1
      BY <1>8, PlanAssumption DEF PlanOK, TypeOK, Removed
    <3> QED
      BY <3>1
  <2> QED
    BY <2>1, <2>2 DEF PlanOK, TypeOK, NginxOnPrimary, PlanSound
<1>9. CASE UNCHANGED planVars
  BY <1>9 DEF planVars, PlanOK, TypeOK, NginxOnPrimary, PlanSound, Validate
<1> QED
  BY <1>2, <1>3, <1>4, <1>5, <1>6, <1>7, <1>8, <1>9 DEF Next, Controls, Saves

-----------------------------------------------------------------------------
(* A machine is removed, and what a save leaves in the form.                *)

LEMMA OthersStay ==
    ASSUME NEW p \in Plan, NEW idx \in 2..Len(p.nodes), NEW s \in Service \ {"nginx"}, p.assign[s] \notin {0, idx}
    PROVE  serviceNode(p, s) \in {serviceNode(removeNode(p, idx), s), [name |-> "", ip |-> ""]}
<1> DEFINE q == removeNode(p, idx)
           k == p.assign[s]
           n == Len(p.nodes)
<1>1. /\ q \in Plan /\ Len(q.nodes) = n - 1
      /\ \A i \in 1..(n - 1) : q.nodes[i] = IF i < idx THEN p.nodes[i] ELSE p.nodes[i + 1]
      /\ q.assign[s] = CASE k = idx -> 1 [] k > idx -> k - 1 [] OTHER -> k
  BY RemoveShape
<1>2. n \in Nat /\ DOMAIN p.nodes = 1..n
  BY PlanFields
<1>3. DOMAIN q.nodes = 1..(n - 1)
  BY <1>1, PlanFields
<1>4. CASE k \notin DOMAIN p.nodes
  BY <1>4, ServiceNodeFacts
<1>5. CASE k \in DOMAIN p.nodes
  <2>1. serviceNode(p, s) = p.nodes[k]
    BY <1>5, ServiceNodeFacts
  <2> DEFINE j == q.assign[s]
  <2>2. k \in 1..n /\ k # idx /\ idx \in 2..n
    BY <1>2, <1>5
  <2> HIDE DEF q, k, n
  <2>3. j = IF k > idx THEN k - 1 ELSE k
    BY <1>1, <2>2
  <2> HIDE DEF j
  <2>4. j \in 1..(n - 1) /\ (IF j < idx THEN j ELSE j + 1) = k
    BY <1>2, <2>2, <2>3
  <2>5. q.nodes[j] = p.nodes[k]
    BY <1>1, <2>4
  <2>6. serviceNode(q, s) = q.nodes[j]
    BY <1>1, <1>3, <2>4, ServiceNodeFacts DEF j
  <2> QED
    BY <2>1, <2>5, <2>6 DEF q
<1> QED
  BY <1>4, <1>5

\* The rows a written plan has, each with the services that go to it.
LEMMA WrittenRows ==
    ASSUME NEW p \in Plan, Validate(buildFormPayload(p))
    PROVE  LET f == buildFormPayload(p) IN
           /\ f \in SiteFile /\ \A i \in 1..Len(f.nodes) : f.nodes[i].ip # ""
           /\ Len(f.nodes) > 1 => isMultiNode(p)
           /\ isMultiNode(p) =>
                 /\ Len(f.nodes) = Len(p.nodes) /\ p.nodes = RowsOf(f)
                 /\ \A i \in 1..Len(p.nodes) :
                       /\ f.nodes[i].name = p.nodes[i].name /\ f.nodes[i].ip = p.nodes[i].ip
                       /\ f.nodes[i].services = ServicesAt(p, i)
<1> DEFINE f == buildFormPayload(p)
           ns == buildFormNodes(p)
<1>1. f \in SiteFile /\ f.nodes = ns
  BY PayloadFacts
<1>2. Len(f.nodes) \in Nat /\ DOMAIN f.nodes = 1..Len(f.nodes)
  BY <1>1, FileFields
<1>3. \A i \in 1..Len(f.nodes) : f.nodes[i].ip # ""
  BY <1>2 DEF Validate
<1>4. p.topology \in {"single", "multi"} /\ Len(p.nodes) \in Nat /\ DOMAIN p.nodes = 1..Len(p.nodes)
  BY PlanFields
<1>5. p.topology = "single" => Len(ns) = 1
  BY NodesFacts
<1>6. p.topology = "multi" => Len(ns) = Len(p.nodes)
  BY NodesFacts
<1>7. p.topology = "multi" =>
        \A i \in 1..Len(p.nodes) :
              ns[i] = [name |-> p.nodes[i].name, ip |-> p.nodes[i].ip,
                       roles |-> rolesForServices(ServicesAt(p, i)), services |-> ServicesAt(p, i)]
  BY NodesFacts
<1> HIDE DEF f, ns
<1>8. ASSUME Len(f.nodes) > 1 PROVE isMultiNode(p)
  <2>1. Len(f.nodes) = Len(ns)
    BY <1>1
  <2>2. ASSUME p.topology = "single" PROVE FALSE
    <3>1. Len(ns) = 1
      BY <1>5, <2>2
    <3>2. Len(f.nodes) > 1
      BY <1>8
    <3> QED
      BY <2>1, <3>1, <3>2
  <2>3. p.topology = "multi"
    BY <1>4, <2>2
  <2> QED
    BY <1>6, <1>8, <2>1, <2>3 DEF isMultiNode
<1>9. ASSUME isMultiNode(p)
      PROVE  /\ Len(f.nodes) = Len(p.nodes) /\ p.nodes = RowsOf(f)
             /\ \A i \in 1..Len(p.nodes) :
                   /\ f.nodes[i].name = p.nodes[i].name /\ f.nodes[i].ip = p.nodes[i].ip
                   /\ f.nodes[i].services = ServicesAt(p, i)
  <2>1. p.topology = "multi"
    BY <1>9 DEF isMultiNode
  <2>2. ASSUME NEW i \in 1..Len(p.nodes)
        PROVE  /\ f.nodes[i].name = p.nodes[i].name /\ f.nodes[i].ip = p.nodes[i].ip
               /\ f.nodes[i].services = ServicesAt(p, i)
    <3>1. ns[i] = [name |-> p.nodes[i].name, ip |-> p.nodes[i].ip,
                   roles |-> rolesForServices(ServicesAt(p, i)), services |-> ServicesAt(p, i)]
      BY <1>7, <2>1
    <3> QED
      BY <1>1, <3>1
  <2>3. /\ Len(f.nodes) = Len(p.nodes)
        /\ \A i \in 1..Len(p.nodes) :
              /\ f.nodes[i].name = p.nodes[i].name /\ f.nodes[i].ip = p.nodes[i].ip
              /\ f.nodes[i].services = ServicesAt(p, i)
    BY <1>1, <1>6, <2>1, <2>2
  <2>4. p.nodes = [i \in 1..Len(p.nodes) |-> p.nodes[i]]
    BY <1>4, PlanFields
  <2>5. ASSUME NEW i \in 1..Len(p.nodes) PROVE p.nodes[i] = [name |-> p.nodes[i].name, ip |-> p.nodes[i].ip]
    BY <1>4, MachineOfRow DEF Machine
  <2>6. RowsOf(f) = [i \in 1..Len(p.nodes) |-> [name |-> p.nodes[i].name, ip |-> p.nodes[i].ip]]
    BY <1>2, <2>3 DEF RowsOf
  <2>7. p.nodes = RowsOf(f)
    BY <2>4, <2>5, <2>6
  <2> QED
    BY <2>3, <2>7
<1> QED
  BY <1>1, <1>3, <1>8, <1>9 DEF f

LEMMA SaveReadsBack ==
    ASSUME PlanOK, Saved, isMultiNode(form), NEW s \in Service, form.assign[s] \in 1..Len(form.nodes)
    PROVE  form'.assign[s] = pinNginxToPrimary(form).assign[s]
<1> DEFINE p == syncServiceAssignments(form)
           a == pinNginxToPrimary(form).assign
           f == buildFormPayload(p)
<1>1. form \in Plan
  BY DEF PlanOK, TypeOK
<1>2. p \in Plan /\ p.nodes = form.nodes /\ p.topology = form.topology /\ p.assign = a
  BY <1>1, SyncFacts
<1>3. /\ \A t \in Service \ {"nginx"} : a[t] = form.assign[t]
      /\ a["nginx"] = IF isMultiNode(form) /\ form.assign["nginx"] # 0 THEN 1 ELSE form.assign["nginx"]
  BY <1>1, PinFacts
<1>4. Validate(f) /\ file' = f /\ form' = fillSiteForm(file', p)
  BY DEF Saved, Write
<1>5. Len(form.nodes) \in Nat /\ Len(form.nodes) \in 1..MaxNodes
  BY <1>1, PlanFields
<1> HIDE DEF p, a
<1>6. isMultiNode(p)
  BY <1>2 DEF isMultiNode
<1>7. a[s] \in 1..Len(form.nodes) /\ (s = "nginx" => a[s] = 1)
  <2>1. CASE s = "nginx"
    <3>1. form.assign[s] # 0
      BY <1>5
    <3> QED
      BY <1>3, <1>5, <2>1, <3>1
  <2>2. CASE s # "nginx"
    BY <1>3, <2>2
  <2> QED
    BY <2>1, <2>2
<1>8. /\ f \in SiteFile /\ Len(f.nodes) = Len(p.nodes)
      /\ \A i \in 1..Len(p.nodes) : f.nodes[i].services = ServicesAt(p, i)
  BY <1>2, <1>4, <1>6, WrittenRows
<1> HIDE DEF f
<1>9. Listing(f.nodes, s) = {a[s]}
  BY <1>2, <1>7, <1>8 DEF Listing, ServicesAt
<1>10. fillSiteForm(f, p).assign[s] = a[s]
  <2>1. p \in Plan /\ f \in SiteFile /\ a[s] \in 1..Len(f.nodes)
    BY <1>2, <1>7, <1>8
  <2>2. \A t \in Service : \A i \in 1..Len(f.nodes) :
           Listing(f.nodes, t) = {i} /\ (t = "nginx" => i = 1) => fillSiteForm(f, p).assign[t] = i
    BY <2>1, FillFacts
  <2> QED
    BY <1>7, <1>9, <2>1, <2>2
<1> QED
  BY <1>4, <1>10 DEF a

\* The addresses of a plan that was synchronised are those of its machines.
LEMMA HostsAreThere ==
    ASSUME NEW o \in Plan, NEW p \in Plan, p = syncServiceAssignments(o), Validate(buildFormPayload(p)),
           NEW m \in Addressed, NEW i \in DOMAIN buildFormPayload(p).nodes, Len(buildFormPayload(p).nodes) > 1,
           m \in buildFormPayload(p).nodes[i].services, ~(m = "mysql" /\ buildFormPayload(p).off)
    PROVE  buildFormPayload(p).host[m] = buildFormPayload(p).nodes[i].ip
<1> DEFINE f == buildFormPayload(p)
<1>1. f \in SiteFile /\ isMultiNode(p) /\ f.off = p.off
  BY WrittenRows, PayloadFacts
<1>2. i \in 1..Len(f.nodes)
  BY <1>1, FileFields
<1>3. /\ Len(f.nodes) = Len(p.nodes) /\ f.nodes[i].ip # "" /\ f.nodes[i].ip = p.nodes[i].ip
      /\ f.nodes[i].services = ServicesAt(p, i)
  BY <1>1, <1>2, WrittenRows
<1>4. f.host[m] = IF m = "mysql" /\ p.off THEN ""
                  ELSE IF m = "pgsql" /\ p.host[m] = "" THEN IF p.off THEN primaryNodeIP(p) ELSE p.host["mysql"]
                  ELSE p.host[m]
  BY PayloadFacts
<1>5. p.host[m] = IF serviceNode(p, m).ip = "" \/ (m = "mysql" /\ p.off) THEN o.host[m] ELSE serviceNode(p, m).ip
  BY SyncFacts
<1>6. m \in f.nodes[i].services /\ ~(m = "mysql" /\ f.off)
  OBVIOUS
<1> HIDE DEF f
<1>7. p.assign[m] = i
  BY <1>3, <1>6 DEF ServicesAt
<1>8. i \in DOMAIN p.nodes /\ m \in Service
  BY <1>2, <1>3, PlanFields, Constant
<1>9. serviceNode(p, m) = p.nodes[i]
  BY <1>7, <1>8, ServiceNodeFacts
<1>10. p.host[m] = f.nodes[i].ip
  BY <1>1, <1>3, <1>5, <1>6, <1>9
<1>11. f.host[m] = p.host[m]
  BY <1>1, <1>3, <1>4, <1>6, <1>10
<1> QED
  BY <1>10, <1>11 DEF f

\* The server finds a machine by its name when no other has it for a name or
\* an address.
LEMMA FoundByName ==
    ASSUME NEW f, Len(f.nodes) \in Nat, NEW i \in 1..Len(f.nodes),
           \A j \in 1..Len(f.nodes) : j # i => f.nodes[j].name # f.nodes[i].name /\ f.nodes[j].ip # f.nodes[i].name
    PROVE  FindNode(f, f.nodes[i].name) = f.nodes[i]
<1> DEFINE I == {j \in 1..Len(f.nodes) : f.nodes[j].name = f.nodes[i].name \/ f.nodes[j].ip = f.nodes[i].name}
<1>1. I = {i} /\ I \in SUBSET (1..Len(f.nodes))
  OBVIOUS
<1>2. FindNode(f, f.nodes[i].name) = f.nodes[FirstOf(I)]
  BY DEF FindNode, SelectInSeq, FirstOf
<1> HIDE DEF I
<1>3. FirstOf(I) = i
  BY <1>1, FirstOfRows
<1> QED
  BY <1>2, <1>3

\* A file written by a way that validates the plan names each of several
\* machines differently; and while nothing was edited since, the rows of a
\* form with several machines are those of the file.
JobsInv ==
    /\ by # "hand" => file \in SiteFile
    /\ by \in {"save", "auto"} =>
        /\ Len(file.nodes) > 1 => \A i, j \in DOMAIN file.nodes : i # j => file.nodes[i].name # file.nodes[j].name
        /\ ~edited /\ isMultiNode(form) => form.nodes = RowsOf(file)

LEMMA JobsFound ==
    ASSUME PlanOK, JobsInv
    PROVE  JobsGoWhereShown
<1> SUFFICES ASSUME by \in {"save", "auto"}, ~edited, NamesAreNames(form), NEW s \in Service, remoteTargetFor(form, s) # 0
             PROVE  FindNode(file, serviceNode(form, s).name).ip = serviceNode(form, s).ip
  BY DEF JobsGoWhereShown
<1> DEFINE k == form.assign[s]
<1>1. form \in Plan /\ file \in SiteFile
  BY DEF PlanOK, TypeOK, JobsInv
<1>2. isMultiNode(form) /\ k \in 2..Len(form.nodes)
  BY DEF remoteTargetFor
<1>3. form.nodes = RowsOf(file)
  BY <1>2 DEF JobsInv
<1>4. Len(file.nodes) \in Nat /\ DOMAIN file.nodes = 1..Len(file.nodes) /\ Len(form.nodes) = Len(file.nodes)
  BY <1>1, <1>3, FileFields, LoadedFacts
<1>5. DOMAIN form.nodes = 1..Len(form.nodes)
  BY <1>1, PlanFields
<1> HIDE DEF k
<1>6. k \in 1..Len(file.nodes) /\ Len(file.nodes) > 1
  BY <1>2, <1>4
<1>7. serviceNode(form, s) = form.nodes[k]
  BY <1>1, <1>4, <1>5, <1>6, ServiceNodeFacts DEF k
<1>8. form.nodes[k] = [name |-> file.nodes[k].name, ip |-> file.nodes[k].ip]
  BY <1>3, <1>4, <1>6 DEF RowsOf
<1>9. \A j \in 1..Len(file.nodes) : j # k => file.nodes[j].name # file.nodes[k].name
  BY <1>4, <1>6 DEF JobsInv
<1>10. ASSUME NEW j \in 1..Len(file.nodes), j # k PROVE file.nodes[j].ip # file.nodes[k].name
  <2>1. form.nodes[j] = [name |-> file.nodes[j].name, ip |-> file.nodes[j].ip]
    BY <1>3, <1>4 DEF RowsOf
  <2>2. form.nodes[k].name # form.nodes[j].ip
    BY <1>4, <1>5, <1>6, <1>10 DEF NamesAreNames
  <2> QED
    BY <1>8, <2>1, <2>2
<1>11. FindNode(file, file.nodes[k].name) = file.nodes[k]
  BY <1>4, <1>6, <1>9, <1>10, FoundByName
<1> QED
  BY <1>7, <1>8, <1>11

\* The invariant after a file was written.
LEMMA WritingJobs ==
    ASSUME NEW p \in Plan, NEW who \in {"save", "auto", "step"}, Writing(p, who)
    PROVE  JobsInv'
<1> DEFINE f == buildFormPayload(p)
<1>1. Validate(f) /\ file' = f /\ by' = who /\ edited' = FALSE
  BY DEF Writing, Write
<1>2. /\ f \in SiteFile /\ (Len(f.nodes) > 1 => isMultiNode(p))
      /\ isMultiNode(p) =>
            /\ Len(f.nodes) = Len(p.nodes) /\ p.nodes = RowsOf(f)
            /\ \A i \in 1..Len(p.nodes) : f.nodes[i].name = p.nodes[i].name
  BY <1>1, WrittenRows
<1>3. DOMAIN f.nodes = 1..Len(f.nodes)
  BY <1>2, FileFields
<1>4. DOMAIN p.nodes = 1..Len(p.nodes)
  BY PlanFields
<1>5. ASSUME who \in {"save", "auto"}, Len(f.nodes) > 1, NEW i \in DOMAIN f.nodes, NEW j \in DOMAIN f.nodes, i # j
      PROVE  f.nodes[i].name # f.nodes[j].name
  <2>1. isMultiNode(p) /\ validateNodePlan(p)
    BY <1>2, <1>5 DEF Writing
  <2>2. i \in DOMAIN p.nodes /\ j \in DOMAIN p.nodes
    BY <1>2, <1>3, <1>4, <1>5, <2>1
  <2>3. p.nodes[i].name # p.nodes[j].name
    BY <1>5, <2>1, <2>2 DEF validateNodePlan
  <2> QED
    BY <1>2, <1>4, <2>1, <2>2, <2>3
<1>6. ASSUME who \in {"save", "auto"}, isMultiNode(form') PROVE form'.nodes = RowsOf(f)
  <2>1. CASE form' = p
    BY <1>2, <1>6, <2>1
  <2>2. CASE form' = fillSiteForm(f, p)
    BY <1>2, <2>2, FillFacts
  <2> QED
    BY <1>1, <1>6, <2>1, <2>2 DEF Writing
<1> HIDE DEF f
<1>7. JobsInv'
  BY <1>1, <1>2, <1>5, <1>6 DEF JobsInv, isMultiNode
<1> QED
  BY <1>7

\* Nothing else writes the file, and what makes the form agree with it again
\* takes its rows.
LEMMA JobsStep ==
    ASSUME PlanOK, JobsInv, [Next]_planVars
    PROVE  JobsInv'
<1>1. CASE UNCHANGED <<file, by>> /\ edited' = TRUE
  BY <1>1 DEF JobsInv
<1>2. CASE Controls \/ \E idx \in 2..MaxNodes : RemoveRow(idx)
  <2>1. \E p : Edit(p)
    BY <1>2, ControlsKeep DEF RemoveRow
  <2> QED
    BY <1>1, <2>1 DEF Edit
<1>3. CASE Saves
  <2>1. CASE \E p : Keeps(form, p) /\ Refused(p)
    BY <1>1, <2>1 DEF Refused
  <2>2. CASE \E p \in Plan, who \in {"save", "auto", "step"} : Writing(p, who)
    BY <2>2, WritingJobs
  <2> QED
    BY <1>3, <2>1, <2>2, SavesWrite
<1>4. ASSUME file # NoFile, UNCHANGED <<file, by>>, NEW q \in Plan, q = fillSiteForm(file, form) \/ q = fillSiteForm(file, Blank),
             form'.nodes = q.nodes
      PROVE  JobsInv'
  <2>1. file \in SiteFile /\ form \in Plan
    BY <1>4 DEF PlanOK, TypeOK
  <2>2. q.nodes = RowsOf(file)
    <3>1. fillSiteForm(file, form).nodes = RowsOf(file)
      BY <2>1, FillFacts
    <3>2. fillSiteForm(file, Blank).nodes = RowsOf(file)
      BY <2>1, BlankIsPlan, FillFacts
    <3> QED
      BY <1>4, <3>1, <3>2
  <2> QED
    BY <1>4, <2>2 DEF JobsInv
<1>5. CASE LoadSite
  <2>1. file # NoFile /\ form' = fillSiteForm(file, form) /\ UNCHANGED <<file, by>>
    BY <1>5 DEF LoadSite
  <2>2. file \in SiteFile /\ form \in Plan
    BY <2>1 DEF PlanOK, TypeOK
  <2>3. fillSiteForm(file, form) \in Plan
    BY <2>2, FillFacts
  <2> QED
    BY <1>4, <2>1, <2>3
<1>6. CASE Reload
  <2>1. exists' \in BOOLEAN /\ edited' = ~exists' /\ UNCHANGED <<file, by>>
    BY <1>6, ReloadKeeps
  <2>2. CASE ~exists'
    BY <1>1, <2>1, <2>2
  <2>3. CASE exists'
    <3>1. file # NoFile
      BY <1>6, <2>3, ReloadKeeps
    <3>2. PICK q \in Plan : q = fillSiteForm(file, Blank) /\ form'.nodes = q.nodes
      BY <1>6, <2>3, ReloadKeeps
    <3> QED
      BY <1>4, <2>1, <3>1, <3>2
  <2> QED
    BY <2>1, <2>2, <2>3
<1>7. CASE LoseSite
  BY <1>1, <1>7 DEF LoseSite
<1>8. CASE Removed
  BY <1>8 DEF Removed, JobsInv
<1>9. CASE UNCHANGED planVars
  BY <1>9 DEF planVars, JobsInv, isMultiNode
<1> QED
  BY <1>2, <1>3, <1>5, <1>6, <1>7, <1>8, <1>9 DEF Next, Controls, Saves

-----------------------------------------------------------------------------
(* Loading and writing a file changes it at most once.                      *)

LEMMA SameFile ==
    ASSUME NEW f \in SiteFile, NEW g \in SiteFile, f.nodes = g.nodes, f.profiles = g.profiles, f.off = g.off,
           f.agents = g.agents, \A m \in Addressed : f.host[m] = g.host[m]
    PROVE  f = g
<1>1. f.host = g.host
  BY FileFields DEF Hosts
<1> QED
  BY <1>1 DEF SiteFile

\* Every service of a form that was filled from a file is deployed.
LEMMA AllEnabled ==
    ASSUME NEW q \in Plan, \A s \in Service : q.assign[s] \in 1..Len(q.nodes)
    PROVE  currentProfiles(q) = {"platform"} \cup (Service \cap {"device", "alarm", "graph", "gis", "monitor"})
<1>1. ASSUME NEW s \in Service PROVE isServiceEnabled(q, s)
  <2>1. q.assign[s] # 0
    BY PlanFields
  <2> QED
    BY <2>1 DEF isServiceEnabled
<1> QED
  BY <1>1 DEF currentProfiles

\* No address of a service that is deployed goes missing.
LEMMA NoHostMissing ==
    ASSUME NEW f \in SiteFile, Validate(f), NEW p \in Plan, NEW m \in Addressed, ~(m = "mysql" /\ f.off)
    PROVE  buildFormPayload(fillSiteForm(f, p)).host[m] # ""
<1> DEFINE q == fillSiteForm(f, p)
           g == buildFormPayload(q)
<1>1. q \in Plan /\ q.off = f.off /\ \A n \in Addressed : f.host[n] # "" => q.host[n] = f.host[n]
  BY FillFacts
<1> HIDE DEF q
<1>2. g.host[m] = IF m = "mysql" /\ q.off THEN ""
                  ELSE IF m = "pgsql" /\ q.host[m] = "" THEN IF q.off THEN primaryNodeIP(q) ELSE q.host["mysql"]
                  ELSE q.host[m]
  BY <1>1, PayloadFacts
<1>3. \A n \in Addressed : f.host[n] # "" \/ n = IF f.off THEN "mysql" ELSE "pgsql"
  BY DEF Validate
<1> HIDE DEF g
<1>4. ~(m = "mysql" /\ q.off)
  BY <1>1
<1>5. ASSUME f.host[m] # "" PROVE g.host[m] # ""
  <2>1. q.host[m] # ""
    BY <1>1, <1>5
  <2> QED
    BY <1>2, <1>4, <2>1
<1>6. ASSUME f.host[m] = "" PROVE g.host[m] # ""
  <2>1. m = IF f.off THEN "mysql" ELSE "pgsql"
    BY <1>3, <1>6
  <2>2. m = "pgsql" /\ ~f.off
    BY <2>1
  <2>3. "mysql" \in Addressed
    BY <2>2, PgNeedsMysql
  <2>4. f.host["mysql"] # ""
    BY <1>3, <2>2, <2>3
  <2>5. q.host["mysql"] # ""
    BY <1>1, <2>3, <2>4
  <2>6. ~q.off
    BY <1>1, <2>2
  <2> QED
    BY <1>2, <2>2, <2>5, <2>6
<1> QED
  BY <1>5, <1>6 DEF q, g

\* The rows a filled form writes, for one machine and for several.
LEMMA FilledRows ==
    ASSUME NEW f \in SiteFile, NEW p \in Plan
    PROVE  LET q == fillSiteForm(f, p)
               ns == buildFormPayload(q).nodes
           IN /\ Len(ns) = Len(f.nodes)
              /\ Len(f.nodes) = 1 =>
                    ns = <<[name |-> f.nodes[1].name, ip |-> IF f.nodes[1].ip = "" THEN Loopback ELSE f.nodes[1].ip,
                            roles |-> ALL_SINGLE_ROLES, services |-> Service]>>
              /\ Len(f.nodes) > 1 =>
                    ns = [i \in 1..Len(f.nodes) |->
                            [name |-> f.nodes[i].name, ip |-> f.nodes[i].ip,
                             roles |-> rolesForServices(ServicesAt(q, i)), services |-> ServicesAt(q, i)]]
<1> DEFINE q == fillSiteForm(f, p)
           n == Len(f.nodes)
<1>1. q \in Plan /\ q.nodes = RowsOf(f) /\ Len(q.nodes) = n /\ q.topology = IF n > 1 THEN "multi" ELSE "single"
  BY FillFacts
<1>2. n \in Nat /\ n \in 1..MaxNodes /\ DOMAIN f.nodes = 1..n
  BY FileFields
<1>3. ASSUME NEW i \in 1..n PROVE q.nodes[i].name = f.nodes[i].name /\ q.nodes[i].ip = f.nodes[i].ip
  <2>1. RowsOf(f)[i] = [name |-> f.nodes[i].name, ip |-> f.nodes[i].ip]
    BY <1>2 DEF RowsOf
  <2> QED
    BY <1>1, <2>1
<1>4. DOMAIN q.nodes = 1..n
  BY <1>1, PlanFields
<1> DEFINE ns == buildFormPayload(q).nodes
           r == [name |-> f.nodes[1].name, ip |-> IF f.nodes[1].ip = "" THEN Loopback ELSE f.nodes[1].ip,
                 roles |-> ALL_SINGLE_ROLES, services |-> Service]
           N(i) == [name |-> f.nodes[i].name, ip |-> f.nodes[i].ip,
                    roles |-> rolesForServices(ServicesAt(q, i)), services |-> ServicesAt(q, i)]
<1> HIDE DEF q, n
<1>5. ns = buildFormNodes(q)
  BY <1>1, PayloadFacts
<1>6. ASSUME n = 1 PROVE ns = <<r>> /\ Len(ns) = n
  <2>1. q.topology = "single" /\ 1 \in 1..n
    BY <1>1, <1>6
  <2>2. q.nodes[1].name = f.nodes[1].name /\ q.nodes[1].ip = f.nodes[1].ip
    BY <1>3, <2>1
  <2>3. buildFormNodes(q) = <<r>>
    BY <2>1, <2>2 DEF buildFormNodes, primaryNodeIP
  <2> HIDE DEF r
  <2>4. Len(<<r>>) = 1
    OBVIOUS
  <2> QED
    BY <1>5, <1>6, <2>3, <2>4
<1>7. ASSUME n > 1 PROVE ns = [i \in 1..n |-> N(i)] /\ Len(ns) = n
  <2>1. q.topology = "multi"
    BY <1>1, <1>7
  <2>2. buildFormNodes(q) = [i \in 1..n |->
           [name |-> q.nodes[i].name, ip |-> q.nodes[i].ip,
            roles |-> rolesForServices(ServicesAt(q, i)), services |-> ServicesAt(q, i)]]
    BY <1>4, <2>1 DEF buildFormNodes, assignedServicesForNode, ServicesAt
  <2>3. buildFormNodes(q) = [i \in 1..n |-> N(i)]
    BY <1>3, <2>2
  <2>4. Len(buildFormNodes(q)) = Len(q.nodes)
    BY <1>1, <2>1, NodesFacts
  <2> QED
    BY <1>1, <1>5, <2>3, <2>4
<1>8. n = 1 \/ n > 1
  BY <1>2
<1>9. Len(ns) = n
  BY <1>6, <1>7, <1>8
<1> QED
  BY <1>6, <1>7, <1>9 DEF q, n

LEMMA SettledAtOnce ==
    ASSUME NEW f \in SiteFile, Validate(f), NEW p \in Plan
    PROVE  LET Again(x) == buildFormPayload(fillSiteForm(x, p)) IN Again(Again(f)) = Again(f)
<1> DEFINE q == fillSiteForm(f, p)
           g == buildFormPayload(q)
           r == fillSiteForm(g, p)
           h == buildFormPayload(r)
           n == Len(f.nodes)
           Row(x, i) == [name |-> f.nodes[i].name, ip |-> f.nodes[i].ip,
                         roles |-> rolesForServices(ServicesAt(x, i)), services |-> ServicesAt(x, i)]
           One == [name |-> f.nodes[1].name, ip |-> IF f.nodes[1].ip = "" THEN Loopback ELSE f.nodes[1].ip,
                   roles |-> ALL_SINGLE_ROLES, services |-> Service]
           RowAgain(x, i) == [name |-> g.nodes[i].name, ip |-> g.nodes[i].ip,
                              roles |-> rolesForServices(ServicesAt(x, i)), services |-> ServicesAt(x, i)]
           OneAgain == [name |-> g.nodes[1].name, ip |-> IF g.nodes[1].ip = "" THEN Loopback ELSE g.nodes[1].ip,
                        roles |-> ALL_SINGLE_ROLES, services |-> Service]
<1>1. /\ q \in Plan /\ Len(q.nodes) = n /\ q.off = f.off
      /\ \A s \in Service : q.assign[s] \in 1..n /\ (s = "nginx" => q.assign[s] = 1)
  BY FillFacts
<1>2. /\ Len(g.nodes) = n
      /\ n = 1 => g.nodes = <<One>>
      /\ n > 1 => g.nodes = [i \in 1..n |-> Row(q, i)]
  BY FilledRows
<1>3. n \in Nat /\ n \in 1..MaxNodes
  BY FileFields
<1>4. \A m \in Addressed : ~(m = "mysql" /\ f.off) => g.host[m] # ""
  BY NoHostMissing
<1> HIDE DEF q
<1>5. /\ g \in SiteFile /\ g.off = q.off /\ g.profiles = currentProfiles(q)
      /\ g.agents = IF q.agents = {} THEN Unset ELSE q.agents
      /\ \A m \in Addressed : m = "mysql" /\ q.off => g.host[m] = ""
  BY <1>1, PayloadFacts
<1>6. currentProfiles(q) = {"platform"} \cup (Service \cap {"device", "alarm", "graph", "gis", "monitor"})
  BY <1>1, AllEnabled
<1> HIDE DEF g
<1>7. /\ r \in Plan /\ Len(r.nodes) = Len(g.nodes) /\ r.off = g.off /\ r.agents = g.agents
      /\ \A s \in Service : r.assign[s] \in 1..Len(g.nodes)
      /\ \A s \in Service : \A i \in 1..Len(g.nodes) :
            Listing(g.nodes, s) = {i} /\ (s = "nginx" => i = 1) => r.assign[s] = i
      /\ \A m \in Addressed : g.host[m] # "" => r.host[m] = g.host[m]
  BY <1>5, FillFacts
<1>8. /\ Len(g.nodes) = 1 => h.nodes = <<OneAgain>>
      /\ Len(g.nodes) > 1 => h.nodes = [i \in 1..Len(g.nodes) |-> RowAgain(r, i)]
  BY <1>5, FilledRows
<1> HIDE DEF r
<1>9. /\ h \in SiteFile /\ h.off = r.off /\ h.profiles = currentProfiles(r)
      /\ h.agents = IF r.agents = {} THEN Unset ELSE r.agents
      /\ \A m \in Addressed : h.host[m] = IF m = "mysql" /\ r.off THEN ""
                                          ELSE IF m = "pgsql" /\ r.host[m] = ""
                                               THEN IF r.off THEN primaryNodeIP(r) ELSE r.host["mysql"]
                                          ELSE r.host[m]
  BY <1>7, PayloadFacts
<1>10. currentProfiles(r) = {"platform"} \cup (Service \cap {"device", "alarm", "graph", "gis", "monitor"})
  BY <1>7, AllEnabled
<1> HIDE DEF h, n
<1>11. ASSUME n = 1 PROVE h.nodes = g.nodes
  <2>1. g.nodes = <<One>> /\ Len(g.nodes) = 1
    BY <1>2, <1>11
  <2>2. g.nodes[1] = One
    <3> HIDE DEF One
    <3> QED
      BY <2>1
  <2>3. g.nodes[1].name = f.nodes[1].name /\ g.nodes[1].ip = IF f.nodes[1].ip = "" THEN Loopback ELSE f.nodes[1].ip
    <3>1. One.name = f.nodes[1].name /\ One.ip = IF f.nodes[1].ip = "" THEN Loopback ELSE f.nodes[1].ip
      OBVIOUS
    <3> HIDE DEF One
    <3> QED
      BY <2>2, <3>1
  <2>4. g.nodes[1].ip # ""
    BY <2>3 DEF Loopback
  <2>5. OneAgain = One
    BY <2>3, <2>4
  <2> QED
    BY <1>8, <2>1, <2>5
<1>12. ASSUME n > 1 PROVE h.nodes = g.nodes
  <2>1. g.nodes = [i \in 1..n |-> Row(q, i)] /\ Len(g.nodes) = n
    BY <1>2, <1>12
  <2>2. ASSUME NEW i \in 1..n
        PROVE  g.nodes[i].name = f.nodes[i].name /\ g.nodes[i].ip = f.nodes[i].ip /\ g.nodes[i].services = ServicesAt(q, i)
    <3>1. g.nodes[i] = Row(q, i)
      BY <2>1
    <3> QED
      BY <3>1
  <2>3. ASSUME NEW s \in Service PROVE r.assign[s] = q.assign[s]
    <3>1. q.assign[s] \in 1..n /\ (s = "nginx" => q.assign[s] = 1)
      BY <1>1
    <3>2. \A i \in 1..n : s \in g.nodes[i].services <=> q.assign[s] = i
      BY <2>2 DEF ServicesAt
    <3>3. Listing(g.nodes, s) = {q.assign[s]}
      BY <2>1, <3>1, <3>2 DEF Listing
    <3> QED
      BY <1>7, <2>1, <3>1, <3>3
  <2>4. ASSUME NEW i \in 1..n PROVE RowAgain(r, i) = Row(q, i)
    <3>1. ServicesAt(r, i) = ServicesAt(q, i)
      BY <2>3 DEF ServicesAt
    <3> QED
      BY <2>2, <3>1
  <2>5. h.nodes = [i \in 1..n |-> RowAgain(r, i)]
    BY <1>8, <1>12, <2>1
  <2> HIDE DEF Row, RowAgain
  <2> QED
    BY <2>1, <2>4, <2>5
<1>13. h.nodes = g.nodes /\ h.profiles = g.profiles /\ h.off = g.off
  <2>1. n = 1 \/ n > 1
    BY <1>3
  <2> QED
    BY <2>1, <1>5, <1>6, <1>7, <1>9, <1>10, <1>11, <1>12
<1>14. h.agents = g.agents
  BY <1>5, <1>7, <1>9
<1>15. ASSUME NEW m \in Addressed PROVE h.host[m] = g.host[m]
  <2>1. r.off = q.off /\ q.off = f.off
    BY <1>1, <1>5, <1>7
  <2>2. CASE m = "mysql" /\ q.off
    BY <1>5, <1>9, <2>1, <2>2
  <2>3. CASE ~(m = "mysql" /\ q.off)
    <3>1. g.host[m] # ""
      BY <1>4, <2>1, <2>3
    <3>2. r.host[m] = g.host[m]
      BY <1>7, <3>1
    <3> QED
      BY <1>9, <2>1, <2>3, <3>1, <3>2
  <2> QED
    BY <2>2, <2>3
<1>16. h = g
  BY <1>5, <1>9, <1>13, <1>14, <1>15, SameFile
<1> QED
  BY <1>16 DEF h, r, g, q

-----------------------------------------------------------------------------
(* Theorems.                                                                *)

\* The types, a site.yaml the server accepts, and nginx on the first machine
\* or nowhere, through every edit, save, load and reload of the page.
THEOREM PlanIsOK == Spec => []PlanOK
<1>1. PlanOK /\ [Next]_planVars => PlanOK'
  BY NextKeeps
<1> QED
  BY InitIsOK, <1>1, PTL DEF Spec

\* No edit, save or load of a file leaves a service on a row that is not there,
\* and a machine that is removed takes no service of another one with it.
THEOREM PlanSoundKept == Spec => PlanStaysSound
<1> DEFINE Stays == /\ PlanSound(form) => PlanSound(form)' \/ Reload \/ LoseSite
                    /\ \A idx \in 2..MaxNodes : RemoveRow(idx) =>
                          \A s \in Service \ {"nginx"} :
                             form.assign[s] \notin {0, idx} =>
                                serviceNode(form, s) \in {serviceNode(form, s)', [name |-> "", ip |-> ""]}
<1>1. ASSUME PlanOK, [Next]_planVars PROVE Stays
  <2>1. form \in Plan
    BY <1>1 DEF PlanOK, TypeOK
  <2>2. ASSUME NEW idx \in 2..MaxNodes, RemoveRow(idx), NEW s \in Service \ {"nginx"}, form.assign[s] \notin {0, idx}
        PROVE  serviceNode(form, s) \in {serviceNode(form, s)', [name |-> "", ip |-> ""]}
    <3>1. idx \in 2..Len(form.nodes) /\ form' = removeNode(form, idx)
      BY <2>2 DEF RemoveRow, Edit
    <3>2. serviceNode(form, s) \in {serviceNode(form', s), [name |-> "", ip |-> ""]}
      BY <2>1, <2>2, <3>1, OthersStay
    <3>3. serviceNode(form, s)' = serviceNode(form', s)
      BY DEF serviceNode
    <3> QED
      BY <3>2, <3>3
  <2> QED
    BY <1>1, <2>2, NextKeeps
<1>2. PlanOK /\ [Next]_planVars => [Stays]_planVars
  BY <1>1
<1> HIDE DEF Stays
<1>3. Spec => [][Stays]_planVars
  BY PlanIsOK, <1>2, PTL DEF Spec
<1> QED
  BY <1>3 DEF PlanStaysSound, Stays

\* What saveSite writes it reads back: a service of a plan with several
\* machines is on its machine afterwards.
THEOREM SaveKept == Spec => SaveKeepsPlan
<1> DEFINE Kept == Saved /\ isMultiNode(form) =>
                      \A s \in Service : form.assign[s] \in 1..Len(form.nodes) =>
                         form'.assign[s] = pinNginxToPrimary(form).assign[s]
<1>1. PlanOK /\ [Next]_planVars => [Kept]_planVars
  BY SaveReadsBack
<1> HIDE DEF Kept
<1>2. Spec => [][Kept]_planVars
  BY PlanIsOK, <1>1, PTL DEF Spec
<1> QED
  BY <1>2 DEF SaveKeepsPlan, Kept

\* Loading site.yaml and writing it changes it at most once.
THEOREM LoadsSettle == Spec => []LoadSettles
<1>1. PlanOK => LoadSettles
  BY SettledAtOnce DEF PlanOK, TypeOK, LoadSettles
<1> QED
  BY PlanIsOK, <1>1, PTL

\* The addresses of the middleware in a file of saveSite, or of the
\* monitoring, are those of the machines the file puts them on.
THEOREM HostsAreTheirs == Spec => []HostsFollowPlan
<1>1. Init => HostsFollowPlan
  BY DEF Init, HostsFollowPlan
<1>2. ASSUME PlanOK, HostsFollowPlan, [Next]_planVars PROVE HostsFollowPlan'
  <2>1. CASE UNCHANGED <<file, by>>
    BY <1>2, <2>1 DEF HostsFollowPlan
  <2>2. CASE Saves
    <3>1. CASE \E p : Keeps(form, p) /\ Refused(p)
      BY <2>1, <3>1 DEF Refused
    <3>2. CASE \E p \in Plan, who \in {"save", "auto", "step"} : Writing(p, who)
      <4>1. PICK p \in Plan, who \in {"save", "auto", "step"} : Writing(p, who)
        BY <3>2
      <4>2. CASE who # "save"
        BY <4>1, <4>2 DEF Writing, Write, HostsFollowPlan
      <4>3. CASE who = "save"
        <5>1. PICK o \in Plan : p = syncServiceAssignments(o)
          BY <4>1, <4>3 DEF Writing
        <5>2. Validate(buildFormPayload(p)) /\ file' = buildFormPayload(p)
          BY <4>1 DEF Writing, Write
        <5>3. ASSUME NEW m \in Addressed, NEW i \in DOMAIN file'.nodes, Len(file'.nodes) > 1,
                     m \in file'.nodes[i].services, ~(m = "mysql" /\ file'.off)
              PROVE  file'.host[m] = file'.nodes[i].ip
          BY <5>1, <5>2, <5>3, HostsAreThere
        <5> QED
          BY <5>3 DEF HostsFollowPlan
      <4> QED
        BY <4>2, <4>3
    <3> QED
      BY <1>2, <2>2, <3>1, <3>2, SavesWrite
  <2>3. CASE Controls \/ \E idx \in 2..MaxNodes : RemoveRow(idx)
    <3>1. \E p : Edit(p)
      BY <1>2, <2>3, ControlsKeep DEF RemoveRow
    <3> QED
      BY <2>1, <3>1 DEF Edit
  <2>4. CASE LoadSite \/ LoseSite \/ Reload \/ UNCHANGED planVars
    BY <2>1, <2>4 DEF LoadSite, LoseSite, Reload, planVars
  <2>5. CASE Removed
    BY <2>5 DEF Removed, HostsFollowPlan
  <2> QED
    BY <1>2, <2>2, <2>3, <2>4, <2>5 DEF Next, Controls, Saves
<1>3. PlanOK /\ HostsFollowPlan /\ [Next]_planVars => HostsFollowPlan'
  BY <1>2
<1> QED
  BY PlanIsOK, <1>1, <1>3, PTL DEF Spec

\* While form and file agree, a job goes to the machine the page shows, if no
\* machine has the address of another for a name.
THEOREM JobsGoThere == Spec => []JobsGoWhereShown
<1>1. Init => JobsInv
  BY DEF Init, JobsInv
<1>2. PlanOK /\ JobsInv /\ [Next]_planVars => JobsInv'
  BY JobsStep
<1>3. PlanOK /\ JobsInv => JobsGoWhereShown
  BY JobsFound
<1> QED
  BY PlanIsOK, <1>1, <1>2, <1>3, PTL DEF Spec

=============================================================================
