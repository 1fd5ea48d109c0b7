------------------------------ MODULE Backfill ------------------------------
(***************************************************************************)
(* The migration every server runs before it serves                        *)
(* (internal/backfill/skills.go, called from cmd/skillbox-server/main.go): *)
(* a skill at the legacy version 0.0.0 moves to 1.0.0, its archive first,  *)
(* then its row with the approvals that name it, then the old archive goes;*)
(* at the end every skill without an active version gets one.  Servers     *)
(* start side by side (the deployment has two replicas) and may die at any *)
(* step; the next start runs the pass again.                               *)
(***************************************************************************)
EXTENDS Naturals, FiniteSets

CONSTANTS Skill, Server,
          Stored,        \* the rows there may be at a version, see Row
          Table,         \* the tables of approvals that name a version
          Faults,        \* the services that may fail: a subset of {"db", "s3"}
          MaxCrashes,    \* bound: deaths of servers
          None

Legacy == "0.0.0"
Target == "1.0.0"
Version == {Legacy, Target}
Approvable == Version \cup {"latest"}

(* A row of sandbox.skills; `at' orders the rows of one skill by upload.   *)
Row == [status : {"available", "review", "declined"}, at : Nat, active : BOOLEAN]

ASSUME BackfillAssumption ==
  /\ Faults \subseteq {"db", "s3"}
  /\ MaxCrashes \in Nat
  /\ Stored \subseteq Row
  /\ None \notin Skill

VARIABLES rows,       \* sandbox.skills: <<skill, version>> -> Row
          approvals,  \* <<table, skill, version>>; nothing ties one to a row
          archives,   \* the promoted prefix of the object store
          waiting,    \* the pending prefix
          pc, todo, skill,  \* the pass of a server: its step, the skills listed, the one in hand
          smooth,     \* history: the pass has met no fault
          mixed,      \* history: skills whose legacy row waits for review beside a
                      \* promoted archive of an earlier upload
          crashes

vars == <<rows, approvals, archives, waiting, pc, todo, skill, smooth, mixed, crashes>>
data == <<rows, approvals, archives, waiting>>

Fails(service) == service \in Faults
Versions(s) == {v \in Version : <<s, v>> \in DOMAIN rows}

(* An available version has a promoted archive, possibly with a pending    *)
(* one Promote could not remove.  One in review has a pending archive,     *)
(* possibly with the promoted one of a declined upload it replaced.  An    *)
(* approval is of any version, "latest" among them, and need not have a    *)
(* row: one of another tenant's skill has none under its own tenant.       *)
Init ==
  /\ \E keys \in SUBSET (Skill \X Version) :
       /\ rows \in [keys -> Stored]
       /\ \A s \in Skill : Cardinality({k \in keys : k[1] = s /\ rows[k].active}) <= 1
       /\ \A k, l \in keys : k # l /\ k[1] = l[1] => rows[k].at # rows[l].at
       /\ archives \in SUBSET keys
       /\ waiting \in SUBSET keys
       /\ \A k \in keys : /\ rows[k].status = "available" => k \in archives
                          /\ rows[k].status = "review" => k \in waiting
  /\ approvals \in SUBSET (Table \X Skill \X Approvable)
  /\ pc = [m \in Server |-> "down"]
  /\ todo = [m \in Server |-> {}]
  /\ skill = [m \in Server |-> None]
  /\ smooth = [m \in Server |-> TRUE]
  /\ mixed = {s \in Skill : /\ <<s, Legacy>> \in archives \cap waiting
                            /\ rows[<<s, Legacy>>].status = "review"}
  /\ crashes = 0

Goto(m, label) == pc' = [pc EXCEPT ![m] = label]
Unsmooth(m) == smooth' = [smooth EXCEPT ![m] = FALSE]

Start(m) ==
  /\ pc[m] = "down"
  /\ Goto(m, "list")
  /\ smooth' = [smooth EXCEPT ![m] = TRUE]
  /\ UNCHANGED <<data, todo, skill, mixed, crashes>>

(* ListSkillsAtVersion; an error leaves nothing to move.                   *)
List(m) ==
  /\ pc[m] = "list"
  /\ \/ todo' = [todo EXCEPT ![m] = {s \in Skill : Legacy \in Versions(s)}] /\ UNCHANGED smooth
     \/ Fails("db") /\ Unsmooth(m) /\ UNCHANGED todo
  /\ Goto(m, "next")
  /\ UNCHANGED <<data, skill, mixed, crashes>>

(* Mutant: a skill that has 1.0.0 already ends the loop.                   *)
CheckStopsEarly(m) ==
  /\ pc[m] = "next"
  /\ \E s \in todo[m] :
       LET there == Target \in Versions(s) IN
       /\ skill' = [skill EXCEPT ![m] = s]
       /\ todo' = [todo EXCEPT ![m] = IF there THEN {} ELSE @ \ {s}]
       /\ Goto(m, IF there THEN "next" ELSE "copy")
  /\ UNCHANGED <<data, smooth, mixed, crashes>>

(* SkillVersionExists: a skill that has 1.0.0 already is left as it is.    *)
Check(m) ==
  /\ pc[m] = "next"
  /\ \E s \in todo[m] :
       /\ skill' = [skill EXCEPT ![m] = s]
       /\ todo' = [todo EXCEPT ![m] = @ \ {s}]
       /\ \/ Goto(m, IF Target \in Versions(s) THEN "next" ELSE "copy") /\ UNCHANGED smooth
          \/ Fails("db") /\ Goto(m, "next") /\ Unsmooth(m)
  /\ UNCHANGED <<data, mixed, crashes>>

(* CopyVersion within the promoted prefix; a failed call may have copied.  *)
Copy(m) ==
  LET s == skill[m] IN
  /\ pc[m] = "copy"
  /\ \/ /\ <<s, Legacy>> \in archives
        /\ archives' = archives \cup {<<s, Target>>}
        /\ \/ Goto(m, "rename") /\ UNCHANGED smooth
           \/ Fails("s3") /\ Goto(m, "next") /\ Unsmooth(m)
     \/ /\ <<s, Legacy>> \notin archives \/ Fails("s3")
        /\ Goto(m, "next") /\ Unsmooth(m)
        /\ UNCHANGED archives
  /\ UNCHANGED <<rows, approvals, waiting, todo, skill, mixed, crashes>>

Moved(k, s) == IF k = <<s, Legacy>> THEN <<s, Target>> ELSE k
Renamed(s) ==
  [k \in {Moved(l, s) : l \in DOMAIN rows} |->
     IF k = <<s, Target>> /\ k \notin DOMAIN rows THEN rows[<<s, Legacy>>] ELSE rows[k]]

Repointed(s) == {<<a[1], a[2], Moved(<<a[2], a[3]>>, s)[2]>> : a \in approvals}

(* The keys of the three tables are unique: a row in the way fails the     *)
(* whole transaction.                                                      *)
Collides(s) ==
  \/ Version \subseteq Versions(s)
  \/ \E t \in Table : {<<t, s, v>> : v \in Version} \subseteq approvals

(* Mutant: the approvals keep naming the version that is no more.          *)
RenameRowsOnly(m) ==
  LET s == skill[m] IN
  /\ pc[m] = "rename"
  /\ \/ ~Collides(s) /\ rows' = Renamed(s) /\ Goto(m, "erase") /\ UNCHANGED smooth
     \/ (Collides(s) \/ Fails("db")) /\ Goto(m, "next") /\ Unsmooth(m) /\ UNCHANGED rows
  /\ UNCHANGED <<approvals, archives, waiting, todo, skill, mixed, crashes>>

(* Mutant: the old archive is removed although the rename failed.          *)
RenameOrErase(m) ==
  LET s == skill[m] IN
  /\ pc[m] = "rename"
  /\ \/ /\ ~Collides(s)
        /\ rows' = Renamed(s)
        /\ approvals' = Repointed(s)
     \/ (Collides(s) \/ Fails("db")) /\ UNCHANGED <<rows, approvals>>
  /\ Goto(m, "erase")
  /\ UNCHANGED <<archives, waiting, todo, skill, smooth, mixed, crashes>>

(* RenameSkillVersion, one transaction; a row another server has renamed   *)
(* meanwhile is no error.                                                  *)
Rename(m) ==
  LET s == skill[m] IN
  /\ pc[m] = "rename"
  /\ \/ /\ ~Collides(s)
        /\ rows' = Renamed(s)
        /\ approvals' = Repointed(s)
        /\ \/ Goto(m, "erase") /\ UNCHANGED smooth
           \/ Fails("db") /\ Goto(m, "next") /\ Unsmooth(m)
     \/ /\ Collides(s) \/ Fails("db")
        /\ Goto(m, "next") /\ Unsmooth(m)
        /\ UNCHANGED <<rows, approvals>>
  /\ UNCHANGED <<archives, waiting, todo, skill, mixed, crashes>>

(* Delete: the promoted archive, then the pending one.  A missing one is   *)
(* passed over, an error ends it with a warning.                           *)
Erase(m) ==
  LET k == <<skill[m], Legacy>> IN
  /\ pc[m] = "erase"
  /\ \/ archives' = archives \ {k} /\ Goto(m, "erase pending") /\ UNCHANGED smooth
     \/ Fails("s3") /\ Goto(m, "next") /\ Unsmooth(m) /\ UNCHANGED archives
  /\ UNCHANGED <<rows, approvals, waiting, todo, skill, mixed, crashes>>

ErasePending(m) ==
  LET k == <<skill[m], Legacy>> IN
  /\ pc[m] = "erase pending"
  /\ \/ waiting' = waiting \ {k} /\ UNCHANGED smooth
     \/ Fails("s3") /\ Unsmooth(m) /\ UNCHANGED waiting
  /\ Goto(m, "next")
  /\ UNCHANGED <<rows, approvals, archives, todo, skill, mixed, crashes>>

(* The version ResolveActiveVersion would answer: the newest available,    *)
(* else the newest.                                                        *)
Ranked(s) ==
  LET usable == {v \in Versions(s) : rows[<<s, v>>].status = "available"}
      candidates == IF usable = {} THEN Versions(s) ELSE usable
  IN CHOOSE v \in candidates : \A w \in candidates : rows[<<s, w>>].at <= rows[<<s, v>>].at

Inactive(s) == Versions(s) # {} /\ \A v \in Versions(s) : ~rows[<<s, v>>].active

(* BackfillActiveVersions, one statement; then the server serves.          *)
Activate(m) ==
  /\ pc[m] = "next" /\ todo[m] = {}
  /\ \/ /\ rows' = [k \in DOMAIN rows |->
                      [rows[k] EXCEPT !.active = @ \/ (Inactive(k[1]) /\ k[2] = Ranked(k[1]))]]
        /\ UNCHANGED smooth
     \/ Fails("db") /\ Unsmooth(m) /\ UNCHANGED rows
  /\ Goto(m, "serving")
  /\ UNCHANGED <<approvals, archives, waiting, todo, skill, mixed, crashes>>

Crash(m) ==
  /\ pc[m] # "down"
  /\ crashes < MaxCrashes
  /\ crashes' = crashes + 1
  /\ Goto(m, "down")
  /\ todo' = [todo EXCEPT ![m] = {}]
  /\ skill' = [skill EXCEPT ![m] = None]
  /\ UNCHANGED <<data, smooth, mixed>>

AllServe == (\A m \in Server : pc[m] = "serving") /\ UNCHANGED vars

Boot(m) ==
  \/ Start(m) \/ List(m) \/ Check(m) \/ Copy(m) \/ Rename(m)
  \/ Erase(m) \/ ErasePending(m) \/ Activate(m)

Next == (\E m \in Server : Boot(m) \/ Crash(m)) \/ AllServe

Spec == Init /\ [][Next]_vars
-----------------------------------------------------------------------------
(* At every step of every pass, and whoever dies when: an available version*)
(* has its promoted archive, and a version in review the pending one an    *)
(* approval will promote -- unless both archives lay at the legacy version,*)
(* of which the pass moves the promoted one and deletes the other.         *)
RowsKeepTheirArchive ==
  \A k \in DOMAIN rows :
    /\ rows[k].status = "available" => k \in archives
    /\ rows[k].status = "review" => k \in waiting \/ k[1] \in mixed

(* An approval that names a row names the same row after every step: it    *)
(* follows the row to its new version, and is not moved to another one.    *)
ApprovalsFollowRows ==
  [][\A a \in approvals : <<a[2], a[3]>> \in DOMAIN rows =>
       \E b \in approvals' :
         /\ b[1] = a[1] /\ b[2] = a[2] /\ <<b[2], b[3]>> \in DOMAIN rows'
         /\ rows'[<<b[2], b[3]>>].at = rows[<<a[2], a[3]>>].at]_vars

(* After a pass that met no fault, whatever the others did meanwhile, a    *)
(* skill is at the legacy version only if it has 1.0.0 too, and every skill*)
(* has an active version.                                                  *)
SmoothPassMigrates ==
  \A m \in Server : pc[m] = "serving" /\ smooth[m] =>
    \A s \in Skill : /\ Legacy \in Versions(s) => Target \in Versions(s)
                     /\ ~Inactive(s)
=============================================================================
