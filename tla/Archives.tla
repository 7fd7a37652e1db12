---- MODULE Archives ----
(***************************************************************************)
(* internal/fetch/expand.go: a directory of archives expanded where it     *)
(* lies.  A zip becomes a directory of its entries, some of which are      *)
(* archives again; a tar.zip becomes the .tar of the same name.            *)
(*                                                                         *)
(* Every entry is written to a file named <target>.part, which is renamed  *)
(* to its target when it is complete.  The name of that file is the same   *)
(* for everybody who expands the directory, and nothing keeps two jobs     *)
(* from doing so at once: whoever opens it empties it, also under the      *)
(* hands of another, and the first to finish renames the file that the     *)
(* other still writes.  exp[j].on says what the descriptor of job j leads  *)
(* to by now: the file named .part, the one at the target, or one without  *)
(* a name.                                                                 *)
(*                                                                         *)
(* Left out: progress, the names of directories under html (html_name.go), *)
(* and single entries larger than one write (a file that is not complete   *)
(* is torn, however much of it there is).                                  *)
(***************************************************************************)
EXTENDS Naturals, Sequences

CONSTANTS
  Jobs,        \* whoever expands this directory at one time
  Zips,        \* the zips, at whatever depth they come to light
  TarZips,     \* the .tar.zip archives
  Inside,      \* for each zip, its entries in their order
  TarOf,       \* for each .tar.zip, the .tar it is unwrapped to
  Order,       \* all archives in the order in which a walk meets them
  MaxPass      \* 12

Archive == Zips \cup TarZips
Entries(a) == IF a \in Zips THEN Inside[a] ELSE <<TarOf[a]>>
Held(z) == {Inside[z][i] : i \in DOMAIN Inside[z]}
Name == Archive \cup (UNION {Held(z) : z \in Zips}) \cup {TarOf[t] : t \in TarZips}

ASSUME ArchivesAssumption ==
  /\ Jobs \subseteq Nat /\ Zips \cap TarZips = {}
  /\ \A z \in Zips : Inside[z] \in Seq(Held(z)) /\ Len(Inside[z]) > 0
  /\ \A t \in TarZips : TarOf[t] \notin Archive
  /\ Order \in Seq(Archive) /\ Archive = {Order[i] : i \in DOMAIN Order}
  /\ MaxPass \in Nat \ {0}

\* No zip lies within itself, and archives are nested less than MaxPass deep.
Nested(depth) == \A z \in Zips : \A a \in Held(z) \cap Archive : depth[z] < depth[a]
ASSUME NestingAssumption == \E depth \in [Archive -> 0 .. MaxPass - 1] : Nested(depth)

VARIABLES
  file,   \* what is found under a name: none, torn or whole
  part,   \* what is found under that name followed by .part
  dirs,   \* the zips whose directory has an entry
  exp     \* for each job, where its expansion stands

treeVars == <<file, part, dirs, exp>>

Content == {"none", "torn", "whole"}
Off == [at |-> "off", scope |-> {}, seen |-> {}, i |-> 0, pass |-> 0,
        changed |-> FALSE, did |-> FALSE, e |-> 0, on |-> "closed"]

Expansion ==
  [at : {"off", "walk", "open", "write", "rename", "done"}, scope : SUBSET Archive,
   seen : SUBSET Archive, i : 0 .. Len(Order), pass : 0 .. MaxPass, changed : BOOLEAN,
   did : BOOLEAN, e : Nat, on : {"closed", "part", "target", "unnamed"}]

TreeTypeOK ==
  /\ file \in [Name -> Content]
  /\ part \in [Name -> Content]
  /\ dirs \subseteq Zips
  /\ exp \in [Jobs -> Expansion]

TreeInit(shipped, damaged) ==
  /\ file = [f \in Name |-> IF f \notin shipped THEN "none"
                          ELSE IF f \in damaged THEN "torn" ELSE "whole"]
  /\ part = [f \in Name |-> "none"]
  /\ dirs = {}
  /\ exp = [j \in Jobs |-> Off]

Visible(f) == file[f] # "none"
Expanded(a) == IF a \in Zips THEN a \in dirs ELSE Visible(TarOf[a])

\* The archive that job j is at, and the entry of it that it writes.
Current(j) == Order[exp[j].i]
Target(j) == Entries(Current(j))[exp[j].e]
Writes(j, f) == exp[j].at \in {"write", "rename"} /\ Target(j) = f

-----------------------------------------------------------------------------
(* Walks.  A pass reads directories as it comes to them: what was there    *)
(* when it began is met, what appears later may be met or not.             *)

PassBegins(j, x) ==
  [x EXCEPT !.at = "walk", !.i = 0, !.pass = @ + 1, !.changed = FALSE,
            !.seen = {a \in exp[j].scope : Visible(a)}]

ExpandTree(j, scope) ==
  exp' = [exp EXCEPT ![j] =
    [Off EXCEPT !.at = "walk", !.pass = 1, !.scope = scope,
                !.seen = {a \in scope : Visible(a)}]]

\* expandOne and the walk of findBaseImageTars: no further passes.
ExpandOnce(j, scope) ==
  exp' = [exp EXCEPT ![j] =
    [Off EXCEPT !.at = "walk", !.pass = MaxPass, !.scope = scope,
                !.seen = {a \in scope : Visible(a)}]]

MayPassOver(j, a) == a \notin exp[j].seen \/ Expanded(a)
PassedOver(j, i) == \A k \in exp[j].i + 1 .. i - 1 : MayPassOver(j, Order[k])

\* An archive that is torn cannot be opened: it is logged and passed over.
Meet(j) ==
  /\ exp[j].at = "walk"
  /\ \E i \in exp[j].i + 1 .. Len(Order) :
       /\ PassedOver(j, i)
       /\ Order[i] \in exp[j].scope
       /\ Visible(Order[i])
       /\ ~Expanded(Order[i])
       /\ exp' = [exp EXCEPT ![j].i = i,
                             ![j].e = IF file[Order[i]] = "whole" THEN 1 ELSE 0,
                             ![j].at = IF file[Order[i]] = "whole" THEN "open" ELSE "walk"]
  /\ UNCHANGED <<file, part, dirs>>

\* Fault: a single pass.
OnePass(x) == FALSE
AnotherPass(x) == x.changed /\ x.pass < MaxPass
AfterPass(j) ==
  IF AnotherPass(exp[j]) THEN PassBegins(j, exp[j])
  ELSE [exp[j] EXCEPT !.at = "done", !.seen = {}, !.i = 0]

EndPass(j) ==
  /\ exp[j].at = "walk"
  /\ PassedOver(j, Len(Order) + 1)
  /\ exp' = [exp EXCEPT ![j] = AfterPass(j)]
  /\ UNCHANGED <<file, part, dirs>>

-----------------------------------------------------------------------------
(* Entries.                                                                *)

\* What the others' descriptors of f lead to after the name of a file moved.
Others(j, f, moved) ==
  [k \in Jobs |->
    IF k # j /\ Writes(k, f) THEN [exp[k] EXCEPT !.on = moved[@]] ELSE exp[k]]
Descriptor == {"part", "target", "unnamed"}
Renamed == [on \in Descriptor |-> IF on = "part" THEN "target" ELSE "unnamed"]
Removed == [on \in Descriptor |-> IF on = "part" THEN "unnamed" ELSE on]

\* Fault: entries are written to their targets.
OpenTarget(j) ==
  /\ exp[j].at = "open"
  /\ file' = [file EXCEPT ![Target(j)] = "torn"]
  /\ dirs' = dirs \cup ({Current(j)} \cap Zips)
  /\ exp' = [exp EXCEPT ![j].at = "write", ![j].on = "target"]
  /\ UNCHANGED part

OnPart(j) == [exp[j] EXCEPT !.at = "write", !.on = "part"]
Open(j) ==
  /\ exp[j].at = "open"
  /\ part' = [part EXCEPT ![Target(j)] = "torn"]
  /\ dirs' = dirs \cup ({Current(j)} \cap Zips)
  /\ exp' = [exp EXCEPT ![j] = OnPart(j)]
  /\ UNCHANGED file

Write(j) ==
  /\ exp[j].at = "write"
  /\ part' = IF exp[j].on = "part" THEN [part EXCEPT ![Target(j)] = "whole"] ELSE part
  /\ file' = IF exp[j].on = "target" THEN [file EXCEPT ![Target(j)] = "whole"] ELSE file
  /\ exp' = [exp EXCEPT ![j].at = "rename"]
  /\ UNCHANGED dirs

GoOn(x) == [x EXCEPT !.at = "walk", !.e = 0, !.on = "closed"]
AfterEntry(j) ==
  IF exp[j].e < Len(Entries(Current(j)))
  THEN [exp[j] EXCEPT !.at = "open", !.e = @ + 1, !.on = "closed"]
  ELSE [GoOn(exp[j]) EXCEPT !.changed = TRUE, !.did = TRUE]

Rename(j) ==
  LET f == Target(j) IN
  /\ exp[j].at = "rename"
  /\ part[f] # "none"
  /\ file' = [file EXCEPT ![f] = part[f]]
  /\ part' = [part EXCEPT ![f] = "none"]
  /\ exp' = [Others(j, f, Renamed) EXCEPT ![j] = AfterEntry(j)]
  /\ UNCHANGED dirs

\* Another job has renamed or removed the file: the archive is passed over.
NothingToRename(j) ==
  /\ exp[j].at = "rename"
  /\ part[Target(j)] = "none"
  /\ exp' = [exp EXCEPT ![j] = GoOn(exp[j])]
  /\ UNCHANGED <<file, part, dirs>>

\* An entry cannot be opened or written: what was written is removed, and the
\* archive is logged and passed over.  A zip of which this was the first entry
\* may be left with an empty directory, and counts as not expanded.
EntryFails(j) ==
  LET f == Target(j) IN
  /\ exp[j].at \in {"open", "write"}
  /\ part' = IF exp[j].at = "write" THEN [part EXCEPT ![f] = "none"] ELSE part
  /\ \/ UNCHANGED dirs
     \/ /\ exp[j].e = 1
        /\ \A g \in {Entries(Current(j))[i] : i \in DOMAIN Entries(Current(j))} :
             ~Visible(g) /\ part'[g] = "none"
        /\ dirs' = dirs \ {Current(j)}
  /\ exp' = [(IF exp[j].at = "write" THEN Others(j, f, Removed) ELSE exp)
               EXCEPT ![j] = GoOn(exp[j])]
  /\ UNCHANGED file

ExpandStep(j) ==
  Meet(j) \/ EndPass(j) \/ Open(j) \/ Write(j) \/ Rename(j) \/ NothingToRename(j)

\* ErrNoArchivesFound.
NothingFound(j) ==
  ~exp[j].did /\ \A t \in TarZips : ~Visible(TarOf[t])
====
