-------------------------- MODULE Backfill_proofs --------------------------
(***************************************************************************)
(* Proofs about Backfill, for any skills, servers, faults and crashes; and *)
(* about the two calculations its run checks beside it, for every input:   *)
(* the version arithmetic (Versions) and the line difference (LineDiff).   *)
(***************************************************************************)
EXTENDS MCBackfill, FiniteSetTheorems, SequenceTheorems, WellFoundedInduction, TLAPS

-----------------------------------------------------------------------------
(***************************************************************************)
(* Types, and what the rename does to the rows of one skill.               *)
(***************************************************************************)
Labels == {"down", "list", "next", "copy", "rename", "erase", "erase pending", "serving"}
Holding == {"copy", "rename", "erase", "erase pending"}

RowsTyped ==
  /\ DOMAIN rows \subseteq Skill \X Version
  /\ rows \in [DOMAIN rows -> Row]

Typed ==
  /\ RowsTyped
  /\ approvals \subseteq Table \X Skill \X Approvable
  /\ pc \in [Server -> Labels]
  /\ todo \in [Server -> SUBSET Skill]
  /\ skill \in [Server -> Skill \cup {None}]
  /\ smooth \in [Server -> BOOLEAN]
  /\ \A m \in Server : pc[m] \in Holding => skill[m] \in Skill

\* What the rename makes of the rows: the legacy row of the skill becomes its
\* row at the target version, and nothing else moves.
LEMMA RenamedRows ==
  ASSUME RowsTyped, NEW s \in Skill, ~Collides(s), rows' = Renamed(s)
  PROVE  /\ RowsTyped'
         /\ <<s, Legacy>> \notin DOMAIN rows'
         /\ \A k \in Skill \X Version : k[1] # s =>
              /\ k \in DOMAIN rows' <=> k \in DOMAIN rows
              /\ k \in DOMAIN rows => rows'[k] = rows[k]
         /\ <<s, Legacy>> \in DOMAIN rows =>
              /\ <<s, Target>> \in DOMAIN rows'
              /\ rows'[<<s, Target>>] = rows[<<s, Legacy>>]
         /\ <<s, Legacy>> \notin DOMAIN rows =>
              /\ <<s, Target>> \in DOMAIN rows' <=> <<s, Target>> \in DOMAIN rows
              /\ <<s, Target>> \in DOMAIN rows => rows'[<<s, Target>>] = rows[<<s, Target>>]
<1>1. Legacy # Target /\ Legacy \in Version /\ Target \in Version
  BY DEF Legacy, Target, Version
<1>2. ~(<<s, Legacy>> \in DOMAIN rows /\ <<s, Target>> \in DOMAIN rows)
  BY <1>1 DEF Collides, Versions, Version
<1>3. DOMAIN rows' = {Moved(l, s) : l \in DOMAIN rows}
  BY DEF Renamed
<1>4. \A k \in DOMAIN rows' : rows'[k] =
        IF k = <<s, Target>> /\ k \notin DOMAIN rows THEN rows[<<s, Legacy>>] ELSE rows[k]
  BY DEF Renamed
<1>5. \A k \in Skill \X Version : k \notin {<<s, Legacy>>, <<s, Target>>} =>
        /\ k \in DOMAIN rows' <=> k \in DOMAIN rows
        /\ k \in DOMAIN rows => rows'[k] = rows[k]
  BY <1>3, <1>4 DEF Moved, RowsTyped
<1>6. <<s, Legacy>> \notin DOMAIN rows'
  BY <1>1, <1>3 DEF Moved
<1>7. <<s, Target>> \in DOMAIN rows' <=>
        <<s, Legacy>> \in DOMAIN rows \/ <<s, Target>> \in DOMAIN rows
  BY <1>1, <1>3 DEF Moved
<1>8. \A k \in Skill \X Version : k[1] # s => k \notin {<<s, Legacy>>, <<s, Target>>}
  OBVIOUS
<1>9. DOMAIN rows' \subseteq Skill \X Version
  BY <1>1, <1>3 DEF Moved, RowsTyped
<1>10. \A k \in DOMAIN rows' : rows'[k] \in Row
  BY <1>1, <1>3, <1>4 DEF Moved, RowsTyped
<1>11. rows' \in [DOMAIN rows' -> Row]
  BY <1>10 DEF Renamed
<1>12. RowsTyped'
  BY <1>9, <1>11 DEF RowsTyped
<1>13. QED
  BY <1>2, <1>4, <1>5, <1>6, <1>7, <1>8, <1>12

\* What the last step of a pass does to the rows: it only marks some active.
LEMMA ActivatedRows ==
  ASSUME RowsTyped,
         rows' = [k \in DOMAIN rows |->
                    [rows[k] EXCEPT !.active = @ \/ (Inactive(k[1]) /\ k[2] = Ranked(k[1]))]]
  PROVE  /\ RowsTyped'
         /\ DOMAIN rows' = DOMAIN rows
         /\ \A k \in DOMAIN rows :
              /\ rows'[k].status = rows[k].status
              /\ rows[k].active => rows'[k].active
              /\ Inactive(k[1]) /\ k[2] = Ranked(k[1]) => rows'[k].active
<1>1. DOMAIN rows' = DOMAIN rows
  OBVIOUS
<1>2. ASSUME NEW k \in DOMAIN rows
      PROVE  /\ rows'[k] \in Row
             /\ rows'[k].status = rows[k].status
             /\ rows[k].active => rows'[k].active
             /\ Inactive(k[1]) /\ k[2] = Ranked(k[1]) => rows'[k].active
  <2>1. PICK b : b = (Inactive(k[1]) /\ k[2] = Ranked(k[1])) /\ b \in BOOLEAN
    OBVIOUS
  <2>2. rows'[k] = [rows[k] EXCEPT !.active = @ \/ b] /\ rows[k] \in Row
    BY <2>1 DEF RowsTyped
  <2>3. QED
    BY <2>1, <2>2 DEF Row
<1>3. rows' \in [DOMAIN rows' -> Row]
  BY <1>2
<1>4. QED
  BY <1>1, <1>2, <1>3 DEF RowsTyped

\* A step of one server leaves the passes of the others where they are.
LEMMA OthersStay ==
  ASSUME Typed, NEW m \in Server, Boot(m) \/ Crash(m), NEW q \in Server \ {m}
  PROVE  pc'[q] = pc[q] /\ todo'[q] = todo[q] /\ skill'[q] = skill[q] /\ smooth'[q] = smooth[q]
BY DEF Typed, Boot, Start, List, Check, Copy, Rename, Erase, ErasePending, Activate, Crash,
       Goto, Unsmooth

\* The passes of the servers keep their types.
LEMMA PassTyped ==
  ASSUME Typed, NEW m \in Server, Boot(m) \/ Crash(m)
  PROVE  /\ pc' \in [Server -> Labels]
         /\ todo' \in [Server -> SUBSET Skill]
         /\ skill' \in [Server -> Skill \cup {None}]
         /\ smooth' \in [Server -> BOOLEAN]
         /\ pc'[m] \in Holding => skill'[m] \in Skill
<1>1. CASE Start(m) \/ List(m) \/ Crash(m)
  <2>1. CASE Start(m)
    BY <2>1 DEF Start, Goto, Typed, Labels, Holding
  <2>2. CASE List(m)
    BY <2>2 DEF List, Goto, Unsmooth, Typed, Labels, Holding
  <2>3. CASE Crash(m)
    BY <2>3 DEF Crash, Goto, Typed, Labels, Holding
  <2>4. QED
    BY <1>1, <2>1, <2>2, <2>3
<1>2. CASE Check(m)
  <2>1. PICK s \in todo[m], label \in {"next", "copy"} :
          /\ pc' = [pc EXCEPT ![m] = label]
          /\ skill' = [skill EXCEPT ![m] = s]
          /\ todo' = [todo EXCEPT ![m] = @ \ {s}]
    BY <1>2 DEF Check, Goto
  <2>2. UNCHANGED smooth \/ smooth' = [smooth EXCEPT ![m] = FALSE]
    BY <1>2 DEF Check, Unsmooth
  <2>3. QED
    BY <2>1, <2>2 DEF Typed, Labels
<1>3. CASE Copy(m) \/ Rename(m)
  <2>1. PICK label \in {"rename", "erase", "next"} : pc' = [pc EXCEPT ![m] = label]
    BY <1>3 DEF Copy, Rename, Goto
  <2>2. pc[m] \in Holding /\ UNCHANGED <<todo, skill>>
    BY <1>3 DEF Copy, Rename, Holding
  <2>3. UNCHANGED smooth \/ smooth' = [smooth EXCEPT ![m] = FALSE]
    BY <1>3 DEF Copy, Rename, Unsmooth
  <2>4. QED
    BY <2>1, <2>2, <2>3 DEF Typed, Labels
<1>4. CASE Erase(m) \/ ErasePending(m) \/ Activate(m)
  BY <1>4 DEF Erase, ErasePending, Activate, Goto, Unsmooth, Typed, Labels, Holding
<1>5. QED
  BY <1>1, <1>2, <1>3, <1>4 DEF Boot

\* The ways a step changes the rows: not at all, by a rename, or by marking
\* versions active.
Renames(m) ==
  /\ pc[m] = "rename"
  /\ ~Collides(skill[m])
  /\ rows' = Renamed(skill[m])
  /\ approvals' = Repointed(skill[m])
  /\ UNCHANGED <<archives, waiting, mixed>>
  /\ pc' = [pc EXCEPT ![m] = "erase"] \/ pc' = [pc EXCEPT ![m] = "next"]
  /\ UNCHANGED <<todo, skill>>

Activates(m) ==
  /\ rows' = [k \in DOMAIN rows |->
                [rows[k] EXCEPT !.active = @ \/ (Inactive(k[1]) /\ k[2] = Ranked(k[1]))]]
  /\ UNCHANGED <<approvals, archives, waiting, mixed>>
  /\ pc' = [pc EXCEPT ![m] = "serving"]

\* A step that changes a row or an approval is one of the two.
LEMMA RowsChange ==
  ASSUME NEW m \in Server, Boot(m) \/ Crash(m)
  PROVE  Renames(m) \/ Activates(m) \/ UNCHANGED <<rows, approvals>>
<1>1. CASE Rename(m)
  BY <1>1 DEF Rename, Renames, Goto
<1>2. CASE Activate(m)
  BY <1>2 DEF Activate, Activates, Goto
<1>3. QED
  BY <1>1, <1>2 DEF Boot, Start, List, Check, Copy, Erase, ErasePending, Crash, data

\* Every step keeps the types.
LEMMA TypedStep ==
  ASSUME Typed, NEW m \in Server, Boot(m) \/ Crash(m)
  PROVE  Typed'
<1>1. CASE Renames(m)
  <2>1. skill[m] \in Skill
    BY <1>1 DEF Renames, Typed, Holding
  <2>2. RowsTyped'
    BY <1>1, <2>1, RenamedRows DEF Renames, Typed
  <2>3. approvals' \subseteq Table \X Skill \X Approvable
    BY <1>1, <2>1 DEF Renames, Typed, Repointed, Moved, Approvable, Version, Target
  <2>4. QED
    BY <2>2, <2>3, PassTyped, OthersStay DEF Typed
<1>2. CASE Activates(m)
  <2>1. RowsTyped'
    BY <1>2, ActivatedRows DEF Activates, Typed
  <2>2. QED
    BY <1>2, <2>1, PassTyped, OthersStay DEF Typed, Activates
<1>3. CASE UNCHANGED <<rows, approvals>>
  BY <1>3, PassTyped, OthersStay DEF Typed, RowsTyped
<1>4. QED
  BY <1>1, <1>2, <1>3, RowsChange

-----------------------------------------------------------------------------
(***************************************************************************)
(* Rows, archives and approvals.  A server that is about to rename has     *)
(* copied the archive, and one that erases has no legacy row before it;    *)
(* the other servers and their deaths cannot take that away, because       *)
(* nothing removes an archive of the target version and nothing brings a   *)
(* legacy row or archive back.                                             *)
(***************************************************************************)
OldKey(s) == <<s, Legacy>>
NewKey(s) == <<s, Target>>

Copied == \A m \in Server : pc[m] = "rename" =>
  /\ NewKey(skill[m]) \in archives
  /\ OldKey(skill[m]) \in DOMAIN rows => OldKey(skill[m]) \in archives

ErasesAfterRename == \A m \in Server :
  pc[m] \in {"erase", "erase pending"} => OldKey(skill[m]) \notin DOMAIN rows

\* A legacy row in review with a promoted archive is one of the named skills.
MixedKnown == \A s \in Skill :
  OldKey(s) \in DOMAIN rows /\ OldKey(s) \in archives =>
    (rows[OldKey(s)].status = "review" => s \in mixed)

ArchivesInv == Copied /\ ErasesAfterRename /\ MixedKnown /\ RowsKeepTheirArchive

\* What a step other than a rename or an activation does to the archives.
LEMMA ArchivesChange ==
  ASSUME NEW m \in Server, Boot(m) \/ Crash(m)
  PROVE  /\ UNCHANGED mixed
         /\ \/ UNCHANGED <<archives, waiting>>
            \/ /\ pc[m] = "copy" /\ archives' = archives \cup {NewKey(skill[m])}
               /\ OldKey(skill[m]) \in archives
               /\ UNCHANGED <<rows, approvals, waiting, skill>>
            \/ /\ pc[m] = "erase" /\ archives' = archives \ {OldKey(skill[m])}
               /\ UNCHANGED <<rows, approvals, waiting, skill>>
            \/ /\ pc[m] = "erase pending" /\ waiting' = waiting \ {OldKey(skill[m])}
               /\ UNCHANGED <<rows, approvals, archives, skill>>
BY DEF Boot, Start, List, Check, Copy, Rename, Erase, ErasePending, Activate, Crash, data,
       OldKey, NewKey

\* How a server comes to the rename and to the deletion.
LEMMA ToRename ==
  ASSUME Typed, NEW m \in Server, Boot(m) \/ Crash(m), pc'[m] = "rename"
  PROVE  /\ pc[m] = "copy" /\ UNCHANGED <<skill, rows>>
         /\ archives' = archives \cup {NewKey(skill[m])} /\ OldKey(skill[m]) \in archives
BY DEF Typed, Boot, Start, List, Check, Copy, Rename, Erase, ErasePending, Activate, Crash, Goto,
       OldKey, NewKey

\* A server erases what it has renamed.
LEMMA ToErase ==
  ASSUME Typed, NEW m \in Server, Boot(m) \/ Crash(m), pc'[m] \in {"erase", "erase pending"}
  PROVE  /\ UNCHANGED skill
         /\ Renames(m) \/ (pc[m] = "erase" /\ UNCHANGED rows)
<1>1. CASE Rename(m)
  BY <1>1 DEF Rename, Renames, Goto, Typed
<1>2. CASE ~Rename(m)
  BY <1>2 DEF Typed, Boot, Start, List, Check, Copy, Erase, ErasePending, Activate, Crash, Goto
<1>3. QED
  BY <1>1, <1>2

\* A legacy row only goes, by a rename of its skill.
LEMMA LegacyRows ==
  ASSUME Typed, NEW m \in Server, Boot(m) \/ Crash(m), NEW s \in Skill
  PROVE  /\ OldKey(s) \in DOMAIN rows' =>
              /\ OldKey(s) \in DOMAIN rows
              /\ rows'[OldKey(s)].status = rows[OldKey(s)].status
         /\ NewKey(s) \in DOMAIN rows => NewKey(s) \in DOMAIN rows'
<1>1. OldKey(s) \in Skill \X Version /\ NewKey(s) \in Skill \X Version
  BY DEF OldKey, NewKey, Version
<1>2. CASE Renames(m)
  <2>1. skill[m] \in Skill
    BY <1>2 DEF Renames, Typed, Holding
  <2>2. CASE skill[m] = s
    BY <1>2, <2>1, <2>2, RenamedRows DEF Renames, Typed, OldKey, NewKey
  <2>3. CASE skill[m] # s
    <3>1. OldKey(s)[1] # skill[m] /\ NewKey(s)[1] # skill[m]
      BY <2>3 DEF OldKey, NewKey
    <3>2. QED
      BY <1>1, <1>2, <2>1, <3>1, RenamedRows DEF Renames, Typed
  <2>4. QED
    BY <2>2, <2>3
<1>3. CASE Activates(m)
  BY <1>3, ActivatedRows DEF Activates, Typed
<1>4. CASE UNCHANGED rows
  BY <1>4
<1>5. QED
  BY <1>2, <1>3, <1>4, RowsChange

\* What was copied for a rename stays until it.
LEMMA CopiedStep ==
  ASSUME Typed, Copied, ErasesAfterRename, NEW m \in Server, Boot(m) \/ Crash(m)
  PROVE  Copied'
<1> SUFFICES ASSUME NEW q \in Server, pc'[q] = "rename"
             PROVE  /\ NewKey(skill'[q]) \in archives'
                    /\ OldKey(skill'[q]) \in DOMAIN rows' => OldKey(skill'[q]) \in archives'
  BY DEF Copied
<1>1. CASE q = m
  BY <1>1, ToRename
<1>2. CASE q # m
  <2>1. PICK s \in Skill : s = skill[q] /\ s = skill'[q] /\ pc[q] = "rename"
    BY <1>2, OthersStay DEF Typed, Holding
  <2>2. /\ NewKey(s) \in archives
        /\ OldKey(s) \in DOMAIN rows' => OldKey(s) \in archives /\ OldKey(s) \in DOMAIN rows
    BY <2>1, LegacyRows DEF Copied
  <2>3. pc[m] = "erase" => OldKey(skill[m]) \notin DOMAIN rows
    BY DEF ErasesAfterRename
  <2>4. \A x : OldKey(x) # NewKey(s)
    BY DEF OldKey, NewKey, Legacy, Target
  <2>5. \A k \in archives : k \in archives' \/ (pc[m] = "erase" /\ k = OldKey(skill[m]))
    BY ArchivesChange
  <2>6. QED
    BY <2>1, <2>2, <2>3, <2>4, <2>5
<1>3. QED
  BY <1>1, <1>2

\* What is erased has no row any more.
LEMMA EraseStep ==
  ASSUME Typed, ErasesAfterRename, NEW m \in Server, Boot(m) \/ Crash(m)
  PROVE  ErasesAfterRename'
<1> SUFFICES ASSUME NEW q \in Server, pc'[q] \in {"erase", "erase pending"}
             PROVE  OldKey(skill'[q]) \notin DOMAIN rows'
  BY DEF ErasesAfterRename
<1>1. CASE q = m /\ Renames(m)
  BY <1>1, ToErase, RenamedRows DEF Renames, Typed, Holding, OldKey
<1>2. CASE q = m /\ ~Renames(m)
  BY <1>2, ToErase DEF ErasesAfterRename
<1>3. CASE q # m
  <2>1. PICK s \in Skill : s = skill[q] /\ s = skill'[q] /\ pc[q] \in {"erase", "erase pending"}
    BY <1>3, OthersStay DEF Typed, Holding
  <2>2. QED
    BY <2>1, LegacyRows DEF ErasesAfterRename
<1>4. QED
  BY <1>1, <1>2, <1>3

\* No step puts a promoted archive beside a row in review.
LEMMA MixedStep ==
  ASSUME Typed, MixedKnown, NEW m \in Server, Boot(m) \/ Crash(m)
  PROVE  MixedKnown'
<1> SUFFICES ASSUME NEW s \in Skill, OldKey(s) \in DOMAIN rows', OldKey(s) \in archives',
                    rows'[OldKey(s)].status = "review"
             PROVE  s \in mixed'
  BY DEF MixedKnown
<1>1. OldKey(s) \in DOMAIN rows /\ rows[OldKey(s)].status = "review"
  BY LegacyRows
<1>2. \A x : NewKey(x) # OldKey(s)
  BY DEF OldKey, NewKey, Legacy, Target
<1>3. OldKey(s) \in archives
  BY <1>2, ArchivesChange
<1>4. QED
  BY <1>1, <1>3, ArchivesChange DEF MixedKnown

\* The rename takes a row to where its archive has been copied.
LEMMA KeepArchiveRename ==
  ASSUME Typed, ArchivesInv, NEW m \in Server, Renames(m)
  PROVE  RowsKeepTheirArchive'
<1>1. PICK s \in Skill : s = skill[m]
  BY DEF Renames, Typed, Holding
<1>2. UNCHANGED <<archives, waiting, mixed>>
  BY DEF Renames
<1>3. ASSUME NEW k \in DOMAIN rows'
      PROVE  /\ rows'[k].status = "available" => k \in archives
             /\ rows'[k].status = "review" => k \in waiting \/ k[1] \in mixed
  <2>1. k \in Skill \X Version /\ k # OldKey(s)
    <3>1. RowsTyped' /\ OldKey(s) \notin DOMAIN rows'
      BY <1>1, RenamedRows DEF Renames, Typed, OldKey
    <3>2. QED
      BY <1>3, <3>1 DEF RowsTyped
  <2>2. CASE k[1] # s \/ (k = NewKey(s) /\ OldKey(s) \notin DOMAIN rows)
    <3>1. k \in DOMAIN rows /\ rows'[k] = rows[k]
      <4>1. CASE k[1] # s
        BY <1>1, <1>3, <2>1, <4>1, RenamedRows DEF Renames, Typed
      <4>2. CASE k = NewKey(s) /\ OldKey(s) \notin DOMAIN rows
        BY <1>1, <1>3, <4>2, RenamedRows DEF Renames, Typed, OldKey, NewKey
      <4>3. QED
        BY <2>2, <4>1, <4>2
    <3>2. QED
      BY <3>1 DEF ArchivesInv, RowsKeepTheirArchive
  <2>3. CASE k = NewKey(s) /\ OldKey(s) \in DOMAIN rows
    <3>1. rows'[k] = rows[OldKey(s)]
      BY <1>1, <2>3, RenamedRows DEF Renames, Typed, OldKey, NewKey
    <3>2. k \in archives /\ OldKey(s) \in archives
      BY <1>1, <2>3 DEF ArchivesInv, Copied, Renames
    <3>3. rows[OldKey(s)].status = "review" => s \in mixed
      BY <2>3, <3>2 DEF ArchivesInv, MixedKnown
    <3>4. k[1] = s
      BY <2>3 DEF NewKey
    <3>5. QED
      BY <3>1, <3>2, <3>3, <3>4
  <2>4. k[1] = s => k = NewKey(s)
    BY <2>1 DEF NewKey, OldKey, Version
  <2>5. QED
    BY <2>2, <2>3, <2>4
<1>4. QED
  BY <1>2, <1>3 DEF RowsKeepTheirArchive

\* Every step leaves a row its archive.
LEMMA KeepArchiveStep ==
  ASSUME Typed, ArchivesInv, NEW m \in Server, Boot(m) \/ Crash(m)
  PROVE  RowsKeepTheirArchive'
<1>1. CASE Renames(m)
  BY <1>1, KeepArchiveRename
<1>2. CASE Activates(m)
  BY <1>2, ActivatedRows DEF Activates, Typed, ArchivesInv, RowsKeepTheirArchive
<1>3. CASE UNCHANGED rows
  <2>1. pc[m] \in {"erase", "erase pending"} => OldKey(skill[m]) \notin DOMAIN rows
    BY DEF ArchivesInv, ErasesAfterRename
  <2>2. ASSUME NEW k \in DOMAIN rows
        PROVE  /\ k \in archives => k \in archives'
               /\ k \in waiting => k \in waiting'
    BY <2>1, <2>2, ArchivesChange
  <2>3. UNCHANGED mixed
    BY ArchivesChange
  <2>4. QED
    BY <1>3, <2>2, <2>3 DEF ArchivesInv, RowsKeepTheirArchive
<1>4. QED
  BY <1>1, <1>2, <1>3, RowsChange

\* What ApprovalsFollowRows says of one step.
Followed ==
  \A a \in approvals : <<a[2], a[3]>> \in DOMAIN rows =>
    \E b \in approvals' :
      /\ b[1] = a[1] /\ b[2] = a[2] /\ <<b[2], b[3]>> \in DOMAIN rows'
      /\ rows'[<<b[2], b[3]>>].at = rows[<<a[2], a[3]>>].at

\* The approvals of a skill go where its row goes.
LEMMA ApprovalsStep ==
  ASSUME Typed, NEW m \in Server, Boot(m) \/ Crash(m)
  PROVE  Followed
<1> SUFFICES ASSUME NEW a \in approvals, <<a[2], a[3]>> \in DOMAIN rows
             PROVE  \E b \in approvals' :
                      /\ b[1] = a[1] /\ b[2] = a[2] /\ <<b[2], b[3]>> \in DOMAIN rows'
                      /\ rows'[<<b[2], b[3]>>].at = rows[<<a[2], a[3]>>].at
  BY DEF Followed
<1>0. <<a[2], a[3]>> \in Skill \X Version /\ a[2] \in Skill /\ a[3] \in Version
  BY DEF Typed, RowsTyped
<1>1. CASE Renames(m)
  <2>1. PICK s \in Skill : s = skill[m]
    BY <1>1 DEF Renames, Typed, Holding
  <2>2. DEFINE b == <<a[1], a[2], Moved(<<a[2], a[3]>>, s)[2]>>
  <2>3. b \in approvals'
    BY <1>1, <2>1 DEF Renames, Repointed
  <2>4. CASE a[2] = s /\ a[3] = Legacy
    <3>1. b = <<a[1], s, Target>>
      BY <2>4 DEF Moved
    <3>2. <<s, Target>> \in DOMAIN rows' /\ rows'[<<s, Target>>] = rows[<<a[2], a[3]>>]
      BY <1>1, <2>1, <2>4, RenamedRows DEF Renames, Typed
    <3>3. QED
      BY <2>3, <2>4, <3>1, <3>2
  <2>5. CASE ~(a[2] = s /\ a[3] = Legacy)
    <3>1. b = <<a[1], a[2], a[3]>>
      BY <2>5 DEF Moved
    <3>2. <<a[2], a[3]>> \in DOMAIN rows' /\ rows'[<<a[2], a[3]>>] = rows[<<a[2], a[3]>>]
      <4>1. CASE a[2] # s
        <5>1. PICK k \in Skill \X Version : k = <<a[2], a[3]>> /\ k[1] = a[2]
          BY <1>0
        <5>2. QED
          BY <1>1, <2>1, <4>1, <5>1, RenamedRows DEF Renames, Typed
      <4>2. CASE a[2] = s
        <5>1. a[3] = Target
          BY <1>0, <2>5, <4>2 DEF Version
        <5>2. <<s, Legacy>> \notin DOMAIN rows
          BY <1>1, <2>1, <4>2, <5>1 DEF Renames, Collides, Versions, Version
        <5>3. QED
          BY <1>1, <2>1, <4>2, <5>1, <5>2, RenamedRows DEF Renames, Typed
      <4>3. QED
        BY <4>1, <4>2
    <3>3. QED
      BY <2>3, <3>1, <3>2
  <2>6. QED
    BY <2>4, <2>5
<1>2. CASE Activates(m)
  <2>1. rows'[<<a[2], a[3]>>].at = rows[<<a[2], a[3]>>].at /\ <<a[2], a[3]>> \in DOMAIN rows'
    <3>1. rows[<<a[2], a[3]>>] \in Row
      BY DEF Typed, RowsTyped
    <3>2. QED
      BY <1>2, <3>1 DEF Activates, Row
  <2>2. QED
    BY <1>2, <2>1 DEF Activates
<1>3. CASE UNCHANGED <<rows, approvals>>
  BY <1>3
<1>4. QED
  BY <1>1, <1>2, <1>3, RowsChange

\* Rows and archives stay together.
LEMMA ArchivesStep ==
  ASSUME Typed, ArchivesInv, NEW m \in Server, Boot(m) \/ Crash(m)
  PROVE  ArchivesInv'
BY CopiedStep, EraseStep, MixedStep, KeepArchiveStep DEF ArchivesInv

-----------------------------------------------------------------------------
(***************************************************************************)
(* A pass that met no fault leaves nothing behind.                         *)
(***************************************************************************)
\* Past the listing, a skill that is still at the legacy version alone is
\* listed or in hand.
Remaining == \A m \in Server, s \in Skill :
  /\ smooth[m] /\ pc[m] \notin {"down", "list"}
  /\ OldKey(s) \in DOMAIN rows /\ NewKey(s) \notin DOMAIN rows
  => \/ s \in todo[m] /\ pc[m] # "serving"
     \/ s = skill[m] /\ pc[m] \in {"copy", "rename"}

ActiveAtServing == \A m \in Server, s \in Skill :
  smooth[m] /\ pc[m] = "serving" => ~Inactive(s)

\* A server passes over no skill but one that has the target version.
LEMMA RemainingOwn ==
  ASSUME Typed, Remaining, NEW m \in Server, Boot(m) \/ Crash(m), NEW s \in Skill,
         smooth'[m], pc'[m] \notin {"down", "list"},
         OldKey(s) \in DOMAIN rows', NewKey(s) \notin DOMAIN rows'
  PROVE  \/ s \in todo'[m] /\ pc'[m] # "serving"
         \/ s = skill'[m] /\ pc'[m] \in {"copy", "rename"}
<1>1. OldKey(s) \in DOMAIN rows /\ NewKey(s) \notin DOMAIN rows
  BY LegacyRows
<1>2. Legacy \in Versions(s) /\ Target \notin Versions(s)
  BY <1>1 DEF OldKey, NewKey, Versions, Version
<1>3. CASE Start(m) \/ Crash(m)
  BY <1>3 DEF Start, Crash, Goto, Typed
<1>4. CASE List(m)
  BY <1>2, <1>4 DEF List, Goto, Unsmooth, Typed
<1>5. CASE Check(m)
  <2>1. PICK x \in todo[m] :
          /\ skill' = [skill EXCEPT ![m] = x]
          /\ todo' = [todo EXCEPT ![m] = @ \ {x}]
          /\ \/ /\ pc' = [pc EXCEPT ![m] = IF Target \in Versions(x) THEN "next" ELSE "copy"]
                /\ UNCHANGED smooth
             \/ smooth' = [smooth EXCEPT ![m] = FALSE]
    BY <1>5 DEF Check, Goto, Unsmooth
  <2>2. pc[m] = "next"
    BY <1>5 DEF Check
  <2>3. smooth[m] /\ s \in todo[m]
    BY <1>1, <2>1, <2>2 DEF Remaining, Typed
  <2>4. QED
    BY <1>2, <2>1, <2>3 DEF Typed
<1>6. CASE Copy(m)
  <2>1. /\ pc[m] = "copy" /\ smooth[m] /\ pc'[m] = "rename"
        /\ UNCHANGED <<todo, skill>>
    BY <1>6 DEF Copy, Goto, Unsmooth, Typed
  <2>2. QED
    BY <1>1, <2>1 DEF Remaining
<1>7. CASE Rename(m)
  <2>1. /\ pc[m] = "rename" /\ smooth[m] /\ pc'[m] = "erase"
        /\ UNCHANGED <<todo, skill>>
        /\ Renames(m)
    BY <1>7 DEF Rename, Renames, Goto, Unsmooth, Typed
  <2>2. s # skill[m]
    BY <2>1, RenamedRows DEF Renames, Typed, OldKey
  <2>3. s \in todo[m]
    BY <1>1, <2>1, <2>2 DEF Remaining
  <2>4. QED
    BY <2>1, <2>3
<1>8. CASE Erase(m) \/ ErasePending(m)
  BY <1>1, <1>8 DEF Erase, ErasePending, Goto, Unsmooth, Typed, Remaining
<1>9. CASE Activate(m)
  BY <1>1, <1>9 DEF Activate, Goto, Unsmooth, Typed, Remaining
<1>10. QED
  BY <1>3, <1>4, <1>5, <1>6, <1>7, <1>8, <1>9 DEF Boot

\* Nor do the other servers bring one back.
LEMMA RemainingStep ==
  ASSUME Typed, Remaining, NEW m \in Server, Boot(m) \/ Crash(m)
  PROVE  Remaining'
<1> SUFFICES ASSUME NEW q \in Server, NEW s \in Skill,
                    smooth'[q], pc'[q] \notin {"down", "list"},
                    OldKey(s) \in DOMAIN rows', NewKey(s) \notin DOMAIN rows'
             PROVE  \/ s \in todo'[q] /\ pc'[q] # "serving"
                    \/ s = skill'[q] /\ pc'[q] \in {"copy", "rename"}
  BY DEF Remaining, OldKey, NewKey
<1>1. CASE q = m
  BY <1>1, RemainingOwn
<1>2. CASE q # m
  <2>1. OldKey(s) \in DOMAIN rows /\ NewKey(s) \notin DOMAIN rows
    BY LegacyRows
  <2>2. QED
    BY <1>2, <2>1, OthersStay DEF Remaining
<1>3. QED
  BY <1>1, <1>2

\* The newest of a skill's candidates exists: it has one or two.
LEMMA RankedIsVersion ==
  ASSUME RowsTyped, NEW s \in Skill, Versions(s) # {}
  PROVE  Ranked(s) \in Versions(s)
<1>1. \A v \in Versions(s) : rows[<<s, v>>].at \in Nat
  BY DEF Versions, RowsTyped, Row
<1>2. PICK usable : usable = {v \in Versions(s) : rows[<<s, v>>].status = "available"}
  OBVIOUS
<1>3. PICK candidates : candidates = IF usable = {} THEN Versions(s) ELSE usable
  OBVIOUS
<1>4. /\ candidates \subseteq Versions(s) /\ candidates # {}
      /\ candidates \subseteq {Legacy, Target}
  BY <1>2, <1>3 DEF Versions, Version
<1>5. \E v \in candidates : \A w \in candidates : rows[<<s, w>>].at <= rows[<<s, v>>].at
  <2>1. CASE Legacy \in candidates /\ Target \in candidates
    <3>1. rows[<<s, Legacy>>].at \in Nat /\ rows[<<s, Target>>].at \in Nat
      BY <1>1, <1>4, <2>1
    <3>2. CASE rows[<<s, Legacy>>].at <= rows[<<s, Target>>].at
      BY <1>4, <2>1, <3>1, <3>2
    <3>3. CASE rows[<<s, Target>>].at <= rows[<<s, Legacy>>].at
      BY <1>4, <2>1, <3>1, <3>3
    <3>4. QED
      BY <3>1, <3>2, <3>3
  <2>2. CASE ~(Legacy \in candidates /\ Target \in candidates)
    BY <1>1, <1>4, <2>2
  <2>3. QED
    BY <2>1, <2>2
<1>6. Ranked(s) =
        CHOOSE v \in candidates : \A w \in candidates : rows[<<s, w>>].at <= rows[<<s, v>>].at
  BY <1>2, <1>3 DEF Ranked
<1>7. QED
  BY <1>4, <1>5, <1>6

\* A skill with an active version keeps one.
LEMMA ActiveKept ==
  ASSUME Typed, NEW m \in Server, Boot(m) \/ Crash(m), NEW s \in Skill,
         NEW v \in Versions(s), rows[<<s, v>>].active
  PROVE  \E w \in Version : <<s, w>> \in DOMAIN rows' /\ rows'[<<s, w>>].active
<1>1. v \in Version /\ <<s, v>> \in DOMAIN rows /\ <<s, v>> \in Skill \X Version
  BY DEF Versions
<1>2. CASE Renames(m)
  <2>1. skill[m] \in Skill
    BY <1>2 DEF Renames, Typed, Holding
  <2>2. CASE skill[m] # s
    <3>1. <<s, v>> \in DOMAIN rows' /\ rows'[<<s, v>>] = rows[<<s, v>>]
      <4>1. PICK k \in Skill \X Version : k = <<s, v>> /\ k[1] # skill[m] /\ k \in DOMAIN rows
        BY <1>1, <2>2
      <4>2. RowsTyped /\ ~Collides(skill[m]) /\ rows' = Renamed(skill[m])
        BY <1>2 DEF Renames, Typed
      <4>3. QED
        BY ONLY <2>1, <4>1, <4>2, RenamedRows
    <3>2. QED
      BY <1>1, <3>1
  <2>3. CASE skill[m] = s
    <3>1. CASE v = Legacy
      BY <1>1, <1>2, <2>1, <2>3, <3>1, RenamedRows DEF Renames, Typed, Version
    <3>2. CASE v # Legacy
      <4>1. v = Target
        BY <1>1, <3>2 DEF Version
      <4>2. <<s, Legacy>> \notin DOMAIN rows
        BY <1>1, <1>2, <2>3, <4>1 DEF Renames, Collides, Versions, Version
      <4>3. QED
        BY <1>1, <1>2, <2>1, <2>3, <4>1, <4>2, RenamedRows DEF Renames, Typed
    <3>3. QED
      BY <3>1, <3>2
  <2>4. QED
    BY <2>2, <2>3
<1>3. CASE Activates(m)
  BY <1>1, <1>3, ActivatedRows DEF Activates, Typed
<1>4. CASE UNCHANGED rows
  BY <1>1, <1>4
<1>5. QED
  BY <1>2, <1>3, <1>4, RowsChange

\* No step makes versions of a skill that has none.
LEMMA NoVersionsKept ==
  ASSUME Typed, NEW m \in Server, Boot(m) \/ Crash(m), NEW s \in Skill, Versions(s) = {}
  PROVE  Versions(s)' = {}
<1>1. CASE Renames(m)
  <2>1. skill[m] \in Skill
    BY <1>1 DEF Renames, Typed, Holding
  <2>2. <<s, Legacy>> \notin DOMAIN rows /\ <<s, Target>> \notin DOMAIN rows
    BY DEF Versions, Version
  <2>3. CASE skill[m] = s
    BY <1>1, <2>1, <2>2, <2>3, RenamedRows DEF Renames, Typed, Versions, Version
  <2>4. CASE skill[m] # s
    <3>1. \A v \in Version : <<s, v>> \in Skill \X Version /\ <<s, v>>[1] # skill[m]
      BY <2>4
    <3>2. QED
      BY <1>1, <2>1, <2>2, <3>1, RenamedRows DEF Renames, Typed, Versions, Version
  <2>5. QED
    BY <2>3, <2>4
<1>2. CASE Activates(m)
  BY <1>2, ActivatedRows DEF Activates, Typed, Versions
<1>3. CASE UNCHANGED rows
  BY <1>3 DEF Versions
<1>4. QED
  BY <1>1, <1>2, <1>3, RowsChange

\* A pass ends with an active version of every skill.
LEMMA ActiveStep ==
  ASSUME Typed, ActiveAtServing, NEW m \in Server, Boot(m) \/ Crash(m)
  PROVE  ActiveAtServing'
<1> SUFFICES ASSUME NEW q \in Server, NEW s \in Skill, smooth'[q], pc'[q] = "serving"
             PROVE  ~Inactive(s)'
  BY DEF ActiveAtServing, Inactive, Versions
<1>1. ASSUME ~Inactive(s)
      PROVE  ~Inactive(s)'
  BY <1>1, ActiveKept, NoVersionsKept DEF Inactive, Versions
<1>2. CASE q # m
  BY <1>1, <1>2, OthersStay DEF ActiveAtServing
<1>3. CASE q = m
  <2>1. Activate(m) /\ Activates(m)
    <3>1. Activate(m)
      BY <1>3 DEF Typed, Boot, Start, List, Check, Copy, Rename, Erase, ErasePending, Crash, Goto
    <3>2. Activates(m)
      BY <1>3, <3>1 DEF Activate, Activates, Goto, Unsmooth, Typed
    <3>3. QED
      BY <3>1, <3>2
  <2>2. CASE Inactive(s)
    <3>1. Ranked(s) \in Versions(s)
      BY <2>2, RankedIsVersion DEF Inactive, Typed
    <3>2. <<s, Ranked(s)>> \in DOMAIN rows /\ Ranked(s) \in Version
      BY <3>1 DEF Versions
    <3>3. rows'[<<s, Ranked(s)>>].active /\ DOMAIN rows' = DOMAIN rows
      BY <2>1, <2>2, <3>2, ActivatedRows DEF Activates, Typed
    <3>4. QED
      BY <3>2, <3>3 DEF Inactive, Versions
  <2>3. QED
    BY <1>1, <2>2
<1>4. QED
  BY <1>2, <1>3

-----------------------------------------------------------------------------
(***************************************************************************)
(* The invariant and what follows from it.                                 *)
(***************************************************************************)
BackfillInv == Typed /\ ArchivesInv /\ Remaining /\ ActiveAtServing

\* The invariant holds of every database the migration may find.
LEMMA InvInit == Init => BackfillInv
<1> SUFFICES ASSUME Init PROVE BackfillInv
  OBVIOUS
<1>1. PICK keys \in SUBSET (Skill \X Version) :
        /\ rows \in [keys -> Stored]
        /\ archives \in SUBSET keys
        /\ waiting \in SUBSET keys
        /\ \A k \in keys : /\ rows[k].status = "available" => k \in archives
                           /\ rows[k].status = "review" => k \in waiting
  BY DEF Init
<1>2. DOMAIN rows = keys /\ RowsTyped
  BY <1>1, BackfillAssumption DEF RowsTyped
<1>3. /\ pc = [m \in Server |-> "down"]
      /\ todo = [m \in Server |-> {}]
      /\ skill = [m \in Server |-> None]
      /\ smooth = [m \in Server |-> TRUE]
      /\ approvals \subseteq Table \X Skill \X Approvable
      /\ mixed = {s \in Skill : /\ <<s, Legacy>> \in archives \cap waiting
                                /\ rows[<<s, Legacy>>].status = "review"}
  BY DEF Init
<1>4. Typed
  BY <1>1, <1>2, <1>3 DEF Typed, Labels, Holding
<1>5. MixedKnown
  BY <1>1, <1>2, <1>3 DEF MixedKnown, OldKey
<1>6. RowsKeepTheirArchive
  BY <1>1, <1>2 DEF RowsKeepTheirArchive
<1>7. Copied /\ ErasesAfterRename /\ Remaining /\ ActiveAtServing
  BY <1>3 DEF Copied, ErasesAfterRename, Remaining, ActiveAtServing
<1>8. QED
  BY <1>4, <1>5, <1>6, <1>7 DEF BackfillInv, ArchivesInv

\* Every step preserves the invariant.
LEMMA InvStep == BackfillInv /\ [Next]_vars => BackfillInv'
<1> SUFFICES ASSUME BackfillInv, [Next]_vars PROVE BackfillInv'
  OBVIOUS
<1>1. CASE UNCHANGED vars
  <2>1. Typed' /\ ArchivesInv'
    BY <1>1 DEF vars, BackfillInv, Typed, RowsTyped, ArchivesInv, Copied, ErasesAfterRename,
                MixedKnown, RowsKeepTheirArchive
  <2>2. Remaining' /\ ActiveAtServing'
    BY <1>1 DEF vars, BackfillInv, Remaining, ActiveAtServing, Inactive, Versions
  <2>3. QED
    BY <2>1, <2>2 DEF BackfillInv
<1>2. ASSUME NEW m \in Server, Boot(m) \/ Crash(m)
      PROVE  BackfillInv'
  BY <1>2, TypedStep, ArchivesStep, RemainingStep, ActiveStep DEF BackfillInv
<1>3. QED
  BY <1>1, <1>2 DEF Next, AllServe

\* The invariant holds of every behaviour.
LEMMA Invariance == Spec => []BackfillInv
BY InvInit, InvStep, PTL DEF Spec

\* However many servers migrate at once and wherever they die, a row has the
\* archive its status asks for.
THEOREM NoArchiveLost == Spec => []RowsKeepTheirArchive
<1>1. BackfillInv => RowsKeepTheirArchive
  BY DEF BackfillInv, ArchivesInv
<1>2. QED
  BY Invariance, <1>1, PTL

\* Whatever approvals the database holds -- of "latest", of a version without
\* a row -- one that names a row names it after every step, at the version the
\* rename has moved it to.
THEOREM ApprovalsFollow == Spec => ApprovalsFollowRows
<1>1. BackfillInv /\ [Next]_vars => [Followed]_vars
  BY ApprovalsStep DEF BackfillInv, Next, AllServe
<1>2. QED
  BY Invariance, <1>1, PTL DEF Spec, ApprovalsFollowRows, Followed

\* A server that serves after a pass without a fault has left no skill at the
\* legacy version alone, and none without an active version.
THEOREM SmoothPassesMigrate == Spec => []SmoothPassMigrates
<1>1. BackfillInv => SmoothPassMigrates
  BY DEF BackfillInv, Remaining, ActiveAtServing, SmoothPassMigrates, Versions, Version,
         OldKey, NewKey
<1>2. QED
  BY Invariance, <1>1, PTL

-----------------------------------------------------------------------------
(***************************************************************************)
(* Induction up to a number, and recursion.  The property proved by        *)
(* induction is given as the set of the numbers that have it.              *)
(***************************************************************************)
\* Every set of numbers that is not empty has a least one.
LEMMA LeastOf ==
  ASSUME NEW S \in SUBSET Nat, S # {}
  PROVE  \E n \in S : \A m \in S : n <= m
<1>1. PICK n \in S : \A m \in S : <<m, n>> \notin OpToRel(<, Nat)
  BY WFMin, NatLessThanWellFounded
<1>2. \A m \in S : ~(m < n)
  BY <1>1 DEF OpToRel
<1>3. QED
  BY <1>2

\* Induction up to a number, the property being a set.
LEMMA Upwards ==
  ASSUME NEW n \in Nat, NEW T, 0 \in T, \A i \in 1..n : i - 1 \in T => i \in T
  PROVE  \A i \in 0..n : i \in T
<1> DEFINE Bad == {i \in 0..n : i \notin T}
<1>1. SUFFICES ASSUME Bad # {} PROVE FALSE
  OBVIOUS
<1>2. PICK i \in Bad : \A k \in Bad : i <= k
  <2>1. Bad \in SUBSET Nat
    OBVIOUS
  <2> HIDE DEF Bad
  <2>2. QED
    BY <1>1, <2>1, LeastOf
<1>3. i \in 1..n /\ i - 1 \in 0..n /\ i - 1 \notin Bad
  BY <1>2
<1>4. QED
  BY <1>2, <1>3

\* A sequence of n steps on X, and the values it runs through.
Steps(step, n, X) == step \in [1..n -> [X -> X]]
RunOf(f, step, n, X, x0) ==
  f \in [0..n -> X] /\ f[0] = x0 /\ \A i \in 1..n : f[i] = step[i][f[i - 1]]

\* Recursion up to a number: the steps have a sequence of values.
LEMMA StepByStep ==
  ASSUME NEW n \in Nat, NEW X, NEW x0 \in X, NEW step, Steps(step, n, X)
  PROVE  \E f : RunOf(f, step, n, X, x0)
<1> USE DEF Steps, RunOf
<1> DEFINE Upto(f, k) == f[0] = x0 /\ \A i \in 1..k : f[i] = step[i][f[i - 1]]
           T == {k \in 0..n : \E f \in [0..n -> X] : Upto(f, k)}
<1>1. 0 \in T
  <2>1. PICK f \in [0..n -> X] : f = [i \in 0..n |-> x0]
    OBVIOUS
  <2>2. Upto(f, 0)
    BY <2>1
  <2>3. QED
    BY <2>2
<1>2. ASSUME NEW k \in 1..n, k - 1 \in T
      PROVE  k \in T
  <2>1. PICK f \in [0..n -> X] : Upto(f, k - 1)
    BY <1>2
  <2> DEFINE g == [f EXCEPT ![k] = step[k][f[k - 1]]]
  <2>2. k - 1 \in 0..n /\ k \in 0..n /\ f[k - 1] \in X /\ step[k] \in [X -> X]
    OBVIOUS
  <2>3. g \in [0..n -> X]
    BY <2>2
  <2>4. \A i \in 0..n : g[i] = IF i = k THEN step[k][f[k - 1]] ELSE f[i]
    OBVIOUS
  <2> HIDE DEF g
  <2>5. g[0] = x0
    BY <2>1, <2>4
  <2>6. \A i \in 1..k : g[i] = step[i][g[i - 1]]
    BY <2>1, <2>2, <2>4
  <2>7. QED
    BY <2>2, <2>3, <2>5, <2>6
<1>3. n \in T
  <2> HIDE DEF T
  <2>1. \A i \in 1..n : i - 1 \in T => i \in T
    BY <1>2
  <2>2. \A i \in 0..n : i \in T
    BY <1>1, <2>1, Upwards
  <2>3. QED
    BY <2>2
<1>4. QED
  BY <1>3

-----------------------------------------------------------------------------
(***************************************************************************)
(* The version arithmetic.                                                 *)
(***************************************************************************)
AnyVersion == Parsed \cup {Malformed}

\* The k-th bump of a version.
Bump(v, k) == Plain(v.nums[1], v.nums[2], v.nums[3] + k)

\* A bump that stays below the greatest int adds one to the patch number.
LEMMA NextIsBump ==
  ASSUME NEW v \in Parsed, NEW k \in Nat, v.nums[3] + k < MaxInt
  PROVE  /\ NextEditVersion(v) = Bump(v, 1) \/ k > 0
         /\ NextEditVersion(Bump(v, k)) = Bump(v, k + 1)
         /\ Bump(v, k) \in Parsed /\ Bump(v, k + 1) \in Parsed
<1>1. /\ v.nums \in [1..3 -> 0..Beyond] /\ v.nums[1] \in 0..Beyond /\ v.nums[2] \in 0..Beyond
      /\ v.nums[3] \in Nat
  BY VersionAssumption DEF Parsed, Beyond
<1>2. Bump(v, k) \in Parsed /\ Bump(v, k + 1) \in Parsed
  <2>1. v.nums[3] + k \in 0..Beyond /\ v.nums[3] + (k + 1) \in 0..Beyond
    BY <1>1, VersionAssumption DEF Beyond
  <2>2. QED
    BY <1>1, <2>1 DEF Bump, Plain, Parsed
<1>3. v # Malformed /\ Bump(v, k) # Malformed
  BY <1>2, MalformedAssumption
<1>4. v.nums[3] + k # Beyond /\ v.nums[3] + k # MaxInt
  BY <1>1, VersionAssumption DEF Beyond
<1>5. NextEditVersion(Bump(v, k)) = Bump(v, k + 1)
  <2>1. /\ Bump(v, k).nums[1] = v.nums[1] /\ Bump(v, k).nums[2] = v.nums[2]
        /\ Bump(v, k).nums[3] = v.nums[3] + k
    BY DEF Bump, Plain
  <2>2. (v.nums[3] + k) + 1 = v.nums[3] + (k + 1)
    BY <1>1
  <2> DEFINE b == Bump(v, k)
  <2> HIDE DEF b
  <2>3. NextEditVersion(b) = Plain(b.nums[1], b.nums[2], b.nums[3] + 1)
    BY <1>3, <1>4, <2>1 DEF NextEditVersion, b
  <2>4. QED
    BY <2>1, <2>2, <2>3 DEF b, Bump
<1>6. CASE k = 0
  <2>1. v.nums[3] # Beyond /\ v.nums[3] # MaxInt
    BY <1>1, <1>4, <1>6
  <2>2. NextEditVersion(v) = Bump(v, 1)
    BY <1>3, <2>1 DEF NextEditVersion, Bump
  <2>3. QED
    BY <1>2, <1>5, <2>2
<1>7. QED
  BY <1>2, <1>5, <1>6

\* An edit of any version gives a version, or none.
LEMMA NextTyped ==
  ASSUME NEW v \in AnyVersion
  PROVE  NextEditVersion(v) \in AnyVersion
<1>1. DefaultVersion \in Parsed
  BY VersionAssumption DEF DefaultVersion, Plain, Parsed, Beyond
<1>2. CASE v = Malformed
  BY <1>1, <1>2 DEF NextEditVersion, AnyVersion
<1>3. CASE v \in Parsed /\ v # Malformed
  <2>1. /\ v.nums[1] \in 0..Beyond /\ v.nums[2] \in 0..Beyond /\ v.nums[3] \in 0..Beyond
    BY <1>3 DEF Parsed
  <2>2. CASE v.nums[3] = Beyond \/ v.nums[3] = MaxInt
    BY <1>1, <1>3, <2>2 DEF NextEditVersion, AnyVersion
  <2>3. CASE v.nums[3] # Beyond /\ v.nums[3] # MaxInt
    <3>1. v.nums[3] + 1 \in 0..Beyond
      BY <2>1, <2>3, VersionAssumption DEF Beyond
    <3>2. Plain(v.nums[1], v.nums[2], v.nums[3] + 1) \in Parsed
      BY <2>1, <3>1 DEF Plain, Parsed
    <3>3. QED
      BY <1>3, <2>3, <3>2 DEF NextEditVersion, AnyVersion
  <2>4. QED
    BY <2>2, <2>3
<1>4. QED
  BY <1>2, <1>3 DEF AnyVersion

\* The loop of NextFreeVersion, round by round.
Round(n, last, taken) == IF n > 1 /\ last \notin taken THEN last ELSE NextEditVersion(last)
IsLoop(f, active, taken, n) ==
  /\ f \in [0..n -> AnyVersion] /\ f[0] = active
  /\ \A i \in 1..n : f[i] = Round(i, f[i - 1], taken)

LEMMA LoopDefined ==
  ASSUME NEW active \in AnyVersion, NEW taken, NEW n \in Nat, n = Cardinality(taken) + 1
  PROVE  \E f : IsLoop(f, active, taken, n) /\ NextFreeVersion(active, taken) = f[n]
<1>0. \A i \in 1..n : i \in 0..n /\ i - 1 \in 0..n
  OBVIOUS
<1>1. PICK f : IsLoop(f, active, taken, n)
  <2> DEFINE step == [i \in 1..n |-> [last \in AnyVersion |-> Round(i, last, taken)]]
  <2>1. Steps(step, n, AnyVersion)
    BY NextTyped DEF Steps, Round
  <2>2. \A i \in 1..n, last \in AnyVersion : step[i][last] = Round(i, last, taken)
    OBVIOUS
  <2> HIDE DEF step
  <2>3. PICK f : RunOf(f, step, n, AnyVersion, active)
    BY <2>1, StepByStep
  <2>4. \A i \in 1..n : f[i - 1] \in AnyVersion
    BY <1>0, <2>3 DEF RunOf
  <2>5. QED
    BY <2>2, <2>3, <2>4 DEF RunOf, IsLoop
<1> DEFINE Rec(g, i) == IF i = 0 THEN active ELSE Round(i, g[i - 1], taken)
<1>2. f = [i \in 0..n |-> Rec(f, i)]
  BY <1>0, <1>1 DEF IsLoop
<1>3. PICK g : g = [i \in 0..n |-> Rec(g, i)] /\ NextFreeVersion(active, taken) = g[n]
  <2> DEFINE g == CHOOSE h : h = [i \in 0..n |-> Rec(h, i)]
  <2>1. NextFreeVersion(active, taken) = g[n]
    BY DEF NextFreeVersion, Round
  <2>2. g = [i \in 0..n |-> Rec(g, i)]
    <3> HIDE DEF Rec
    <3>1. QED
      BY <1>2
  <2> HIDE DEF g
  <2>3. QED
    BY <2>1, <2>2
<1>4. \A i \in 0..n : g[i] = f[i]
  <2> DEFINE T == {i \in 0..n : g[i] = f[i]}
  <2>1. 0 \in T
    BY <1>2, <1>3
  <2>2. \A i \in 1..n : i - 1 \in T => i \in T
    BY <1>0, <1>2, <1>3
  <2> HIDE DEF T
  <2>3. \A i \in 0..n : i \in T
    BY <2>1, <2>2, Upwards
  <2>4. QED
    BY <2>3 DEF T
<1>5. n \in 0..n
  OBVIOUS
<1>6. QED
  BY <1>1, <1>3, <1>4, <1>5

\* NextFreeVersion is a bump, and the bumps cannot all be taken.
LEMMA FreeIsBump ==
  ASSUME NEW active \in Parsed, NEW taken, IsFiniteSet(taken),
         active.nums[3] + Cardinality(taken) < MaxInt
  PROVE  \E k \in 1..Cardinality(taken) + 1 :
           /\ NextFreeVersion(active, taken) = Bump(active, k)
           /\ Bump(active, k) \notin taken
<1>0. PICK n \in Nat : n = Cardinality(taken) + 1 /\ n > 0 /\ Cardinality(taken) = n - 1
  BY FS_CardinalityType
<1>1. active \in AnyVersion /\ active.nums[3] \in Nat
  BY VersionAssumption DEF AnyVersion, Parsed, Beyond
<1>2. PICK f : IsLoop(f, active, taken, n) /\ NextFreeVersion(active, taken) = f[n]
  BY <1>0, <1>1, LoopDefined
<1>3. \A k \in 0..n - 1 : active.nums[3] + k < MaxInt /\ k \in Nat
  BY <1>0, <1>1, VersionAssumption
<1> DEFINE At(i, k) == /\ f[i] = Bump(active, k)
                       /\ f[i] \notin taken \/ k = i
                       /\ \A j \in 1..k - 1 : Bump(active, j) \in taken
           T == {i \in 0..n : i > 0 => \E k \in 1..i : At(i, k)}
<1>4. \A i \in 0..n : i \in T
  <2>1. 0 \in T
    OBVIOUS
  <2>2. ASSUME NEW i \in 1..n, i - 1 \in T
        PROVE  \E k \in 1..i : At(i, k)
    <3>1. f[i] = Round(i, f[i - 1], taken)
      BY <1>2 DEF IsLoop
    <3>2. CASE i = 1
      <4>1. f[1] = NextEditVersion(active)
        BY <1>2, <3>1, <3>2 DEF IsLoop, Round
      <4>2. NextEditVersion(active) = Bump(active, 1)
        <5>1. active.nums[3] + 0 < MaxInt /\ 0 \in Nat
          BY <1>0, <1>3
        <5>2. QED
          BY <5>1, NextIsBump
      <4>3. At(i, 1) /\ 1 \in 1..i
        BY <3>2, <4>1, <4>2
      <4>4. QED
        BY <4>3
    <3>3. CASE i > 1
      <4>1. PICK k \in 1..i - 1 : At(i - 1, k)
        BY <2>2, <3>3
      <4>2. CASE f[i - 1] \notin taken
        <5>1. f[i] = f[i - 1]
          BY <3>1, <3>3, <4>2 DEF Round
        <5>2. k \in 1..i /\ At(i, k)
          BY <4>1, <4>2, <5>1
        <5>3. QED
          BY <5>2
      <4>3. CASE f[i - 1] \in taken
        <5>1. k = i - 1 /\ f[i - 1] = Bump(active, i - 1) /\ i - 1 \in 0..n - 1
          BY <3>3, <4>1, <4>3
        <5>2. f[i] = NextEditVersion(Bump(active, i - 1))
          BY <3>1, <4>3, <5>1 DEF Round
        <5>3. NextEditVersion(Bump(active, i - 1)) = Bump(active, i)
          <6>1. (i - 1) + 1 = i
            OBVIOUS
          <6>2. i - 1 \in Nat /\ active.nums[3] + (i - 1) < MaxInt
            BY <1>3, <5>1
          <6>3. NextEditVersion(Bump(active, i - 1)) = Bump(active, (i - 1) + 1)
            BY <6>2, NextIsBump
          <6>4. QED
            BY <6>1, <6>3
        <5>4. \A j \in 1..i - 1 : Bump(active, j) \in taken
          <6>1. \A j \in 1..i - 1 : j \in 1..k - 1 \/ j = i - 1
            BY <5>1
          <6>2. QED
            BY <4>1, <4>3, <5>1, <6>1
        <5>5. At(i, i) /\ i \in 1..i
          BY <5>2, <5>3, <5>4
        <5>6. QED
          BY <5>5
      <4>4. QED
        BY <4>2, <4>3
    <3>4. QED
      BY <3>2, <3>3
  <2>3. \A i \in 1..n : i - 1 \in T => i \in T
    BY <2>2
  <2> HIDE DEF T
  <2>4. QED
    BY <2>1, <2>3, Upwards
<1>5. PICK k \in 1..n : At(n, k)
  <2>1. n \in 0..n
    OBVIOUS
  <2>2. n \in T
    BY <1>4, <2>1
  <2>3. QED
    BY <1>0, <2>2
<1>6. f[n] \notin taken
  <2>1. SUFFICES ASSUME f[n] \in taken PROVE FALSE
    OBVIOUS
  <2>2. \A j \in 1..n : Bump(active, j) \in taken
    <3>1. k = n
      BY <1>5, <2>1
    <3>2. \A j \in 1..n : j \in 1..k - 1 \/ j = n
      BY <3>1
    <3>3. QED
      BY <1>5, <2>1, <3>1, <3>2
  <2> DEFINE g == [j \in 1..n |-> Bump(active, j)]
  <2>3. g \in [1..n -> taken]
    BY <2>2
  <2>4. IsFiniteSet(1..n) /\ Cardinality(1..n) = n /\ Cardinality(taken) < n
    <3>1. 1 \in Int /\ n \in Int /\ n \in Nat /\ Cardinality(taken) \in Nat
      BY <1>0, FS_CardinalityType
    <3>2. IsFiniteSet(1..n) /\ Cardinality(1..n) = IF 1 > n THEN 0 ELSE n - 1 + 1
      BY <3>1, FS_Interval, Zenon
    <3>3. QED
      BY <1>0, <3>1, <3>2
  <2>5. \E i, j \in 1..n : i # j /\ g[i] = g[j]
    <3> HIDE DEF g
    <3>1. QED
      BY <2>3, <2>4, FS_PigeonHole
  <2>6. PICK i \in 1..n, j \in 1..n : i # j /\ Bump(active, i) = Bump(active, j)
    BY <2>5
  <2>7. active.nums[3] + i = active.nums[3] + j
    <3>1. Bump(active, i).nums[3] = Bump(active, j).nums[3]
      BY <2>6
    <3>2. QED
      BY <3>1 DEF Bump, Plain
  <2>8. QED
    BY <1>1, <2>6, <2>7
<1>7. QED
  BY <1>0, <1>2, <1>5, <1>6

-----------------------------------------------------------------------------
\* Comparison.
Nums(v, i) == versionNums(v)[i]

LEMMA NumsTyped ==
  ASSUME NEW v \in AnyVersion
  PROVE  \A i \in 1..3 : Nums(v, i) \in 0..MaxInt
<1>1. SUFFICES ASSUME NEW i \in 1..3 PROVE Nums(v, i) \in 0..MaxInt
  OBVIOUS
<1>2. v # Malformed => v.nums[i] \in 0..Beyond
  BY DEF AnyVersion, Parsed
<1>3. QED
  BY <1>2, VersionAssumption DEF Nums, versionNums, Beyond

\* The order of CompareVersions is that of the three numbers.
Under(a, b) ==
  \/ Nums(a, 1) < Nums(b, 1)
  \/ Nums(a, 1) = Nums(b, 1) /\ Nums(a, 2) < Nums(b, 2)
  \/ Nums(a, 1) = Nums(b, 1) /\ Nums(a, 2) = Nums(b, 2) /\ Nums(a, 3) < Nums(b, 3)
Level(a, b) == \A i \in 1..3 : Nums(a, i) = Nums(b, i)

LEMMA Compared ==
  ASSUME NEW a \in AnyVersion, NEW b \in AnyVersion
  PROVE  /\ CompareVersions(a, b) = -1 <=> Under(a, b)
         /\ CompareVersions(a, b) = 0 <=> Level(a, b)
         /\ CompareVersions(a, b) = 1 <=> Under(b, a)
         /\ CompareVersions(a, b) \in {-1, 0, 1}
<1> DEFINE differ == {i \in 1..3 : Nums(a, i) # Nums(b, i)}
           first == CHOOSE i \in differ : \A j \in differ : i <= j
<1>1. CompareVersions(a, b) = IF differ = {} THEN 0 ELSE IF Nums(a, first) < Nums(b, first) THEN -1 ELSE 1
  BY DEF CompareVersions, Nums
<1>2. /\ Nums(a, 1) \in Int /\ Nums(a, 2) \in Int /\ Nums(a, 3) \in Int
      /\ Nums(b, 1) \in Int /\ Nums(b, 2) \in Int /\ Nums(b, 3) \in Int
  BY NumsTyped, VersionAssumption
<1>3. CASE differ = {}
  <2>1. Level(a, b)
    BY <1>3 DEF Level
  <2>2. ~Under(a, b) /\ ~Under(b, a)
    BY <1>2, <2>1 DEF Level, Under
  <2>3. CompareVersions(a, b) = 0
    BY <1>1, <1>3
  <2>4. QED
    BY <2>1, <2>2, <2>3
<1>4. CASE differ # {}
  <2>1. differ \subseteq {1, 2, 3}
    OBVIOUS
  <2>2. \E i \in differ : \A j \in differ : i <= j
    <3>1. differ \in SUBSET Nat
      OBVIOUS
    <3> HIDE DEF differ
    <3>2. QED
      BY <1>4, <3>1, LeastOf
  <2>3. first \in differ /\ \A j \in differ : first <= j
    <3> HIDE DEF differ
    <3>1. QED
      BY <2>2
  <2> HIDE DEF first
  <2>4. /\ first \in 1..3 /\ Nums(a, first) # Nums(b, first)
        /\ \A j \in 1..3 : j < first => Nums(a, j) = Nums(b, j)
    BY <2>3
  <2>5. ~Level(a, b)
    BY <2>4 DEF Level
  <2>6. CompareVersions(a, b) = IF Nums(a, first) < Nums(b, first) THEN -1 ELSE 1
    BY <1>1, <1>4
  <2>7. Under(a, b) <=> Nums(a, first) < Nums(b, first)
    BY <1>2, <2>4 DEF Under
  <2>8. Under(b, a) <=> Nums(b, first) < Nums(a, first)
    BY <1>2, <2>4 DEF Under
  <2>9. Nums(a, first) \in Int /\ Nums(b, first) \in Int
    BY <1>2, <2>4
  <2>10. QED
    BY <2>4, <2>5, <2>6, <2>7, <2>8, <2>9
<1>5. QED
  BY <1>3, <1>4

\* What is above a version that is not below another is not below it either.
LEMMA AboveFrozen ==
  ASSUME NEW a \in AnyVersion, NEW b \in AnyVersion, NEW c \in AnyVersion,
         CompareVersions(b, a) = 1, CompareVersions(a, c) >= 0
  PROVE  CompareVersions(b, c) >= 0
<1>1. Under(a, b)
  BY Compared
<1>2. ~Under(a, c)
  BY Compared
<1>3. /\ Nums(a, 1) \in Int /\ Nums(a, 2) \in Int /\ Nums(a, 3) \in Int
      /\ Nums(b, 1) \in Int /\ Nums(b, 2) \in Int /\ Nums(b, 3) \in Int
      /\ Nums(c, 1) \in Int /\ Nums(c, 2) \in Int /\ Nums(c, 3) \in Int
  BY NumsTyped, VersionAssumption
<1>4. ~Under(b, c)
  BY <1>1, <1>2, <1>3 DEF Under
<1>5. QED
  BY <1>4, Compared

\* A bump below the greatest int is above what it starts from.
LEMMA BumpAbove ==
  ASSUME NEW v \in Parsed, NEW k \in Nat \ {0}, v.nums[3] + k <= MaxInt, Bump(v, k) \in Parsed
  PROVE  CompareVersions(Bump(v, k), v) = 1
<1>1. v # Malformed /\ Bump(v, k) # Malformed
  BY MalformedAssumption
<1>2. v.nums[3] \in Nat
  BY VersionAssumption DEF Parsed, Beyond
<1>3. Nums(Bump(v, k), 1) = Nums(v, 1) /\ Nums(Bump(v, k), 2) = Nums(v, 2)
  BY <1>1 DEF Nums, versionNums, Bump, Plain
<1>4. Nums(Bump(v, k), 3) = v.nums[3] + k /\ Nums(v, 3) = v.nums[3]
  BY <1>1, <1>2, VersionAssumption DEF Nums, versionNums, Bump, Plain
<1>5. Under(v, Bump(v, k))
  BY <1>2, <1>3, <1>4 DEF Under
<1>6. QED
  BY <1>5, Compared DEF AnyVersion

\* An edit gets a version nobody has, above the one it starts from, and
\* frozen when that one is.
THEOREM EditsMoveUpAlways ==
  ASSUME NEW active \in Parsed, NEW taken, IsFiniteSet(taken), NEW blocked \in SUBSET AnyVersion
  PROVE  EditsMoveUpFrom(active, taken, blocked)
<1>1. SUFFICES ASSUME active.nums[3] + Cardinality(taken) < MaxInt
               PROVE  /\ NextFreeVersion(active, taken) \notin taken
                      /\ CompareVersions(NextFreeVersion(active, taken), active) = 1
                      /\ versionFrozen(active, blocked) => versionFrozen(NextFreeVersion(active, taken), blocked)
  BY DEF EditsMoveUpFrom
<1>2. PICK k \in 1..Cardinality(taken) + 1 :
        NextFreeVersion(active, taken) = Bump(active, k) /\ Bump(active, k) \notin taken
  BY <1>1, FreeIsBump
<1>3. active.nums[3] \in Nat /\ Cardinality(taken) \in Nat
  BY FS_CardinalityType, VersionAssumption DEF Parsed, Beyond
<1>4. k \in Nat \ {0} /\ k - 1 \in Nat /\ active.nums[3] + (k - 1) < MaxInt /\ active.nums[3] + k <= MaxInt
      /\ (k - 1) + 1 = k
  BY <1>1, <1>3, VersionAssumption
<1>5. Bump(active, k) \in Parsed
  <2>1. Bump(active, (k - 1) + 1) \in Parsed
    BY <1>4, NextIsBump
  <2>2. QED
    BY <1>4, <2>1
<1>6. CompareVersions(Bump(active, k), active) = 1
  BY <1>4, <1>5, BumpAbove
<1>7. ASSUME versionFrozen(active, blocked)
      PROVE  versionFrozen(Bump(active, k), blocked)
  <2>1. PICK b \in blocked : CompareVersions(active, b) >= 0
    BY <1>7 DEF versionFrozen
  <2>2. CompareVersions(Bump(active, k), b) >= 0
    BY <1>5, <1>6, <2>1, AboveFrozen DEF AnyVersion
  <2>3. QED
    BY <2>2 DEF versionFrozen
<1>8. QED
  BY <1>2, <1>6, <1>7

-----------------------------------------------------------------------------
(***************************************************************************)
(* The line difference: its table, from the end of both texts.             *)
(***************************************************************************)
\* Induction from a number down.
LEMMA Downwards ==
  ASSUME NEW n \in Nat, NEW T, n + 1 \in T, \A i \in 1..n : i + 1 \in T => i \in T
  PROVE  \A i \in 1..n + 1 : i \in T
<1> DEFINE U == {k \in 0..n : n + 1 - k \in T}
<1>1. 0 \in U
  OBVIOUS
<1>2. ASSUME NEW k \in 1..n, k - 1 \in U
      PROVE  k \in U
  <2>1. n + 1 - k \in 1..n /\ (n + 1 - k) + 1 = n + 1 - (k - 1)
    OBVIOUS
  <2>2. QED
    BY <1>2, <2>1
<1>3. \A k \in 1..n : k - 1 \in U => k \in U
  BY <1>2
<1>4. \A k \in 0..n : k \in U
  <2> HIDE DEF U
  <2>1. QED
    BY <1>1, <1>3, Upwards
<1>5. ASSUME NEW i \in 1..n + 1 PROVE i \in T
  <2>1. n + 1 - i \in 0..n /\ n + 1 - (n + 1 - i) = i
    OBVIOUS
  <2>2. QED
    BY <1>4, <2>1
<1>6. QED
  BY <1>5

RunDown(f, step, n, X, x0) ==
  f \in [1..n + 1 -> X] /\ f[n + 1] = x0 /\ \A i \in 1..n : f[i] = step[i][f[i + 1]]

\* Recursion from a number down.
LEMMA StepByStepDown ==
  ASSUME NEW n \in Nat, NEW X, NEW x0 \in X, NEW step, Steps(step, n, X)
  PROVE  \E f : RunDown(f, step, n, X, x0)
<1> DEFINE back == [k \in 1..n |-> step[n + 1 - k]]
<1>1. \A k \in 1..n : n + 1 - k \in 1..n
  OBVIOUS
<1>2. Steps(back, n, X)
  BY <1>1 DEF Steps
<1>3. \A k \in 1..n : back[k] = step[n + 1 - k]
  OBVIOUS
<1> HIDE DEF back
<1>4. PICK g : RunOf(g, back, n, X, x0)
  BY <1>2, StepByStep
<1> DEFINE f == [i \in 1..n + 1 |-> g[n + 1 - i]]
<1>5. \A i \in 1..n + 1 : n + 1 - i \in 0..n
  OBVIOUS
<1>6. f \in [1..n + 1 -> X]
  BY <1>4, <1>5 DEF RunOf
<1>7. f[n + 1] = x0
  <2>1. n + 1 \in 1..n + 1 /\ n + 1 - (n + 1) = 0
    OBVIOUS
  <2>2. QED
    BY <1>4, <2>1 DEF RunOf
<1>8. ASSUME NEW i \in 1..n PROVE f[i] = step[i][f[i + 1]]
  <2>1. /\ i \in 1..n + 1 /\ i + 1 \in 1..n + 1 /\ n + 1 - i \in 1..n
        /\ n + 1 - (i + 1) = (n + 1 - i) - 1 /\ n + 1 - (n + 1 - i) = i
    OBVIOUS
  <2>2. f[i] = g[n + 1 - i] /\ f[i + 1] = g[(n + 1 - i) - 1]
    BY <2>1
  <2>3. g[n + 1 - i] = back[n + 1 - i][g[(n + 1 - i) - 1]]
    BY <1>4, <2>1 DEF RunOf
  <2>4. QED
    BY <1>3, <2>1, <2>2, <2>3
<1>9. QED
  BY <1>6, <1>7, <1>8 DEF RunDown

\* One entry of the table, from the row below and the entry to the right.
Entry(a, b, below, i, j, right) ==
  IF a[i] = b[j] THEN below[j + 1] + 1
  ELSE IF below[j] >= right THEN below[j] ELSE right

RowsTo(n) == [1..n + 1 -> Nat]
IsCommonRow(row, a, b, n, below, i) ==
  /\ row \in RowsTo(n) /\ row[n + 1] = 0
  /\ \A j \in 1..n : row[j] = Entry(a, b, below, i, j, row[j + 1])

\* The recursion of a row is one over the second text, from its end.
LEMMA CommonRowDefined ==
  ASSUME NEW a, NEW b, NEW n \in Nat, n = Len(b), NEW i, NEW below \in RowsTo(n)
  PROVE  IsCommonRow(CommonRow(a, b, below, i), a, b, n, below, i)
<1> DEFINE row == CommonRow(a, b, below, i)
<1> USE DEF RowsTo
<1>1. \A j \in 1..n : j \in 1..n + 1 /\ j + 1 \in 1..n + 1 /\ ~(j > n)
  OBVIOUS
<1>2. \A j \in 1..n, x \in Nat : Entry(a, b, below, i, j, x) \in Nat
  <2>1. SUFFICES ASSUME NEW j \in 1..n, NEW x \in Nat
                 PROVE  Entry(a, b, below, i, j, x) \in Nat
    OBVIOUS
  <2>2. below[j] \in Nat /\ below[j + 1] \in Nat
    BY <1>1
  <2>3. QED
    BY <2>2 DEF Entry
<1>3. PICK f \in [1..n + 1 -> Nat] :
        f[n + 1] = 0 /\ \A j \in 1..n : f[j] = Entry(a, b, below, i, j, f[j + 1])
  <2> DEFINE step == [j \in 1..n |-> [x \in Nat |-> Entry(a, b, below, i, j, x)]]
  <2>1. Steps(step, n, Nat)
    BY <1>2 DEF Steps
  <2>2. \A j \in 1..n, x \in Nat : step[j][x] = Entry(a, b, below, i, j, x)
    OBVIOUS
  <2> HIDE DEF step
  <2>3. PICK f : RunDown(f, step, n, Nat, 0)
    BY <2>1, StepByStepDown
  <2>4. \A j \in 1..n : f[j + 1] \in Nat
    BY <1>1, <2>3 DEF RunDown
  <2>5. f \in [1..n + 1 -> Nat] /\ f[n + 1] = 0
    BY <2>3 DEF RunDown
  <2>6. \A j \in 1..n : f[j] = Entry(a, b, below, i, j, f[j + 1])
    BY <2>2, <2>3, <2>4 DEF RunDown
  <2>7. QED
    BY <2>5, <2>6
<1>4. f = [j \in 1..n + 1 |-> IF j > n THEN 0 ELSE Entry(a, b, below, i, j, f[j + 1])]
  BY <1>1, <1>3
<1>5. row = [j \in 1..n + 1 |-> IF j > n THEN 0 ELSE Entry(a, b, below, i, j, row[j + 1])]
  <2>1. row = CHOOSE r : r = [j \in 1..n + 1 |-> IF j > n THEN 0 ELSE Entry(a, b, below, i, j, r[j + 1])]
    BY DEF CommonRow, Entry
  <2> HIDE DEF row
  <2>2. QED
    BY <1>4, <2>1
<1> HIDE DEF row
<1>6. row = f
  <2> DEFINE T == {j \in 1..n + 1 : row[j] = f[j]}
  <2>1. n + 1 \in T
    BY <1>4, <1>5
  <2>2. ASSUME NEW j \in 1..n, j + 1 \in T
        PROVE  j \in T
    BY <1>1, <1>4, <1>5, <2>2
  <2> HIDE DEF T
  <2>3. \A j \in 1..n + 1 : j \in T
    BY <2>1, <2>2, Downwards
  <2>4. QED
    BY <1>3, <1>5, <2>3 DEF T
<1>7. QED
  BY <1>3, <1>6 DEF IsCommonRow, row

\* The table of two texts: t[i][j] is about a[i..] and b[j..].
IsCommon(t, a, b, m, n) ==
  /\ t \in [1..m + 1 -> RowsTo(n)]
  /\ \A j \in 1..n + 1 : t[m + 1][j] = 0
  /\ \A i \in 1..m : IsCommonRow(t[i], a, b, n, t[i + 1], i)

LastRow(n) == [j \in 1..n + 1 |-> 0]

LEMMA CommonDefined ==
  ASSUME NEW a, NEW b, NEW m \in Nat, m = Len(a), NEW n \in Nat, n = Len(b)
  PROVE  IsCommon(Common(a, b), a, b, m, n)
<1>1. \A i \in 1..m : i \in 1..m + 1 /\ i + 1 \in 1..m + 1 /\ ~(i > m)
  OBVIOUS
<1>2. \A i \in 1..m, below \in RowsTo(n) :
        IsCommonRow(CommonRow(a, b, below, i), a, b, n, below, i)
  BY CommonRowDefined
<1>3. LastRow(n) \in RowsTo(n)
  BY DEF LastRow, RowsTo
<1>4. PICK f : /\ f \in [1..m + 1 -> RowsTo(n)] /\ f[m + 1] = LastRow(n)
               /\ \A i \in 1..m : f[i] = CommonRow(a, b, f[i + 1], i)
  <2> DEFINE step == [i \in 1..m |-> [below \in RowsTo(n) |-> CommonRow(a, b, below, i)]]
  <2>1. Steps(step, m, RowsTo(n))
    BY <1>2 DEF Steps, IsCommonRow
  <2>2. \A i \in 1..m, below \in RowsTo(n) : step[i][below] = CommonRow(a, b, below, i)
    OBVIOUS
  <2> HIDE DEF step
  <2>3. PICK f : RunDown(f, step, m, RowsTo(n), LastRow(n))
    BY <1>3, <2>1, StepByStepDown
  <2>4. \A i \in 1..m : f[i + 1] \in RowsTo(n)
    BY <1>1, <2>3 DEF RunDown
  <2>5. QED
    BY <2>2, <2>3, <2>4 DEF RunDown
<1> DEFINE Rec(h, i) == IF i > m THEN LastRow(n) ELSE CommonRow(a, b, h[i + 1], i)
<1>5. f = [i \in 1..m + 1 |-> Rec(f, i)]
  BY <1>1, <1>4
<1> DEFINE t == Common(a, b)
<1>6. t = [i \in 1..m + 1 |-> Rec(t, i)]
  <2>1. t = CHOOSE h : h = [i \in 1..m + 1 |-> Rec(h, i)]
    BY DEF Common, LastRow
  <2> HIDE DEF Rec, t
  <2>2. QED
    BY <1>5, <2>1
<1> HIDE DEF t
<1>7. \A i \in 1..m + 1 : t[i] = f[i]
  <2> DEFINE T == {i \in 1..m + 1 : t[i] = f[i]}
  <2>1. m + 1 \in T
    BY <1>5, <1>6
  <2>2. \A i \in 1..m : i + 1 \in T => i \in T
    BY <1>1, <1>5, <1>6
  <2> HIDE DEF T
  <2>3. \A i \in 1..m + 1 : i \in T
    BY <2>1, <2>2, Downwards
  <2>4. QED
    BY <2>3 DEF T
<1>8. t = f
  BY <1>4, <1>6, <1>7
<1>9. \A i \in 1..m : f[i + 1] \in RowsTo(n)
  BY <1>1, <1>4
<1>10. \A i \in 1..m : IsCommonRow(f[i], a, b, n, f[i + 1], i)
  BY <1>2, <1>4, <1>9
<1>11. \A j \in 1..n + 1 : f[m + 1][j] = 0
  BY <1>4 DEF LastRow
<1>12. IsCommon(f, a, b, m, n)
  BY <1>4, <1>10, <1>11 DEF IsCommon
<1>13. QED
  BY <1>8, <1>12 DEF t

\* Induction over the places of the table, from the end of both texts.
LEMMA OverTexts ==
  ASSUME NEW m \in Nat, NEW n \in Nat, NEW P,
         \A i \in 1..m + 1, j \in 1..n + 1 :
           /\ i <= m => <<i + 1, j>> \in P
           /\ j <= n => <<i, j + 1>> \in P
           /\ i <= m /\ j <= n => <<i + 1, j + 1>> \in P
           => <<i, j>> \in P
  PROVE  \A i \in 1..m + 1, j \in 1..n + 1 : <<i, j>> \in P
<1> DEFINE T == {s \in 0..m + n : \A i \in 1..m + 1, j \in 1..n + 1 :
                                    m + n + 2 <= s + i + j => <<i, j>> \in P}
<1>1. 0 \in T
  <2>1. ASSUME NEW i \in 1..m + 1, NEW j \in 1..n + 1, m + n + 2 <= 0 + i + j
        PROVE  <<i, j>> \in P
    <3>1. ~(i <= m) /\ ~(j <= n)
      BY <2>1
    <3>2. QED
      BY <3>1
  <2>2. QED
    BY <2>1
<1>2. ASSUME NEW s \in 1..m + n, s - 1 \in T
      PROVE  s \in T
  <2>1. ASSUME NEW i \in 1..m + 1, NEW j \in 1..n + 1, m + n + 2 <= s + i + j
        PROVE  <<i, j>> \in P
    <3>1. i <= m => i + 1 \in 1..m + 1 /\ m + n + 2 <= (s - 1) + (i + 1) + j
      BY <2>1
    <3>2. j <= n => /\ j + 1 \in 1..n + 1 /\ m + n + 2 <= (s - 1) + i + (j + 1)
                    /\ (i <= m => m + n + 2 <= (s - 1) + (i + 1) + (j + 1))
      BY <2>1
    <3>3. /\ i <= m => <<i + 1, j>> \in P
          /\ j <= n => <<i, j + 1>> \in P
          /\ i <= m /\ j <= n => <<i + 1, j + 1>> \in P
      BY <1>2, <3>1, <3>2
    <3>4. QED
      BY <3>3
  <2>2. QED
    BY <2>1
<1>3. m + n \in T
  <2> HIDE DEF T
  <2>1. \A s \in 1..m + n : s - 1 \in T => s \in T
    BY <1>2
  <2>2. \A s \in 0..m + n : s \in T
    BY <1>1, <2>1, Upwards
  <2>3. QED
    BY <2>2
<1>4. SUFFICES ASSUME NEW i \in 1..m + 1, NEW j \in 1..n + 1 PROVE <<i, j>> \in P
  OBVIOUS
<1>5. m + n + 2 <= (m + n) + i + j
  OBVIOUS
<1>6. QED
  BY <1>3, <1>5

\* A place of the table within both texts, and the three it is computed from.
Between(t, a, b, i, j) ==
  /\ t[i][j] \in Nat /\ t[i + 1][j] \in Nat /\ t[i][j + 1] \in Nat /\ t[i + 1][j + 1] \in Nat
  /\ a[i] = b[j] => t[i][j] = t[i + 1][j + 1] + 1
  /\ a[i] # b[j] /\ t[i + 1][j] >= t[i][j + 1] => t[i][j] = t[i + 1][j]
  /\ a[i] # b[j] /\ t[i + 1][j] < t[i][j + 1] => t[i][j] = t[i][j + 1]

LEMMA PlaceBetween ==
  ASSUME NEW a, NEW b, NEW m \in Nat, NEW n \in Nat, NEW t, IsCommon(t, a, b, m, n),
         NEW i \in 1..m, NEW j \in 1..n
  PROVE  Between(t, a, b, i, j)
<1>1. i \in 1..m + 1 /\ i + 1 \in 1..m + 1 /\ j \in 1..n + 1 /\ j + 1 \in 1..n + 1
  OBVIOUS
<1>2. t[i] \in RowsTo(n) /\ t[i + 1] \in RowsTo(n)
  BY <1>1 DEF IsCommon
<1>3. t[i][j] \in Nat /\ t[i + 1][j] \in Nat /\ t[i][j + 1] \in Nat /\ t[i + 1][j + 1] \in Nat
  BY <1>1, <1>2 DEF RowsTo
<1>4. t[i][j] = Entry(a, b, t[i + 1], i, j, t[i][j + 1])
  BY DEF IsCommon, IsCommonRow
<1>5. QED
  BY <1>3, <1>4 DEF Entry, Between

Bordered(t, m, n) ==
  /\ \A i \in 1..m + 1, j \in 1..n + 1 : t[i][j] \in Nat
  /\ \A j \in 1..n + 1 : t[m + 1][j] = 0
  /\ \A i \in 1..m + 1 : t[i][n + 1] = 0

LEMMA CommonBordered ==
  ASSUME NEW a, NEW b, NEW m \in Nat, NEW n \in Nat, NEW t, IsCommon(t, a, b, m, n)
  PROVE  Bordered(t, m, n)
<1>1. \A i \in 1..m + 1 : t[i] \in RowsTo(n)
  BY DEF IsCommon
<1>2. \A i \in 1..m + 1, j \in 1..n + 1 : t[i][j] \in Nat
  BY <1>1 DEF RowsTo
<1>3. \A j \in 1..n + 1 : t[m + 1][j] = 0
  BY DEF IsCommon
<1>4. \A i \in 1..m : t[i][n + 1] = 0
  BY DEF IsCommon, IsCommonRow
<1>5. \A i \in 1..m + 1 : i \in 1..m \/ i = m + 1
  OBVIOUS
<1>6. n + 1 \in 1..n + 1
  OBVIOUS
<1>7. \A i \in 1..m + 1 : t[i][n + 1] = 0
  BY <1>3, <1>4, <1>5, <1>6
<1>8. QED
  BY <1>2, <1>3, <1>7 DEF Bordered

\* k lines of a[i..m] and of b[j..n] that are the same, in order.
Climbs(f, k) == \A x, y \in 1..k : x < y => f[x] < f[y]
Match(f, g, k, a, b, i, j, m, n) ==
  /\ f \in [1..k -> i..m] /\ g \in [1..k -> j..n]
  /\ Climbs(f, k) /\ Climbs(g, k)
  /\ \A x \in 1..k : a[f[x]] = b[g[x]]

\* The first pair taken away.
LEMMA DropFirst ==
  ASSUME NEW a, NEW b, NEW m \in Nat, NEW n \in Nat, NEW i \in 1..m, NEW j \in 1..n,
         NEW k \in Nat, k > 0, NEW f, NEW g, Match(f, g, k, a, b, i, j, m, n)
  PROVE  \E f2, g2 : Match(f2, g2, k - 1, a, b, i + 1, j + 1, m, n)
<1> DEFINE f2 == [x \in 1..k - 1 |-> f[x + 1]]
           g2 == [x \in 1..k - 1 |-> g[x + 1]]
<1>1. \A x \in 1..k - 1 : x + 1 \in 1..k /\ 1 \in 1..k /\ 1 < x + 1
  OBVIOUS
<1>2. /\ \A x \in 1..k : f[x] \in i..m /\ g[x] \in j..n
      /\ \A x, y \in 1..k : x < y => f[x] < f[y] /\ g[x] < g[y]
      /\ \A x \in 1..k : a[f[x]] = b[g[x]]
  BY DEF Match, Climbs
<1>3. \A x \in 1..k - 1 : f[x + 1] \in i + 1..m /\ g[x + 1] \in j + 1..n
  BY <1>1, <1>2
<1>4. f2 \in [1..k - 1 -> i + 1..m] /\ g2 \in [1..k - 1 -> j + 1..n]
  BY <1>3
<1>5. \A x \in 1..k - 1 : f2[x] = f[x + 1] /\ g2[x] = g[x + 1]
  OBVIOUS
<1> HIDE DEF f2, g2
<1>6. Climbs(f2, k - 1) /\ Climbs(g2, k - 1)
  BY <1>1, <1>2, <1>5 DEF Climbs
<1>7. \A x \in 1..k - 1 : a[f2[x]] = b[g2[x]]
  BY <1>1, <1>2, <1>5
<1>8. Match(f2, g2, k - 1, a, b, i + 1, j + 1, m, n)
  BY <1>4, <1>6, <1>7 DEF Match
<1>9. QED
  BY <1>8

\* A pair put before the others.
LEMMA PutFirst ==
  ASSUME NEW a, NEW b, NEW m \in Nat, NEW n \in Nat, NEW i \in 1..m, NEW j \in 1..n,
         a[i] = b[j],
         NEW k \in Nat, NEW f, NEW g, Match(f, g, k, a, b, i + 1, j + 1, m, n)
  PROVE  \E f2, g2 : Match(f2, g2, k + 1, a, b, i, j, m, n)
<1> DEFINE f2 == [x \in 1..k + 1 |-> IF x = 1 THEN i ELSE f[x - 1]]
           g2 == [x \in 1..k + 1 |-> IF x = 1 THEN j ELSE g[x - 1]]
<1>1. \A x \in 1..k + 1 : x # 1 => x - 1 \in 1..k
  OBVIOUS
<1>2. /\ \A x \in 1..k : f[x] \in i + 1..m /\ g[x] \in j + 1..n
      /\ \A x, y \in 1..k : x < y => f[x] < f[y] /\ g[x] < g[y]
      /\ \A x \in 1..k : a[f[x]] = b[g[x]]
  BY DEF Match, Climbs
<1>3. \A x \in 1..k + 1 : x # 1 => /\ f[x - 1] \in i..m /\ g[x - 1] \in j..n
                                   /\ i < f[x - 1] /\ j < g[x - 1]
  BY <1>1, <1>2
<1>4. f2 \in [1..k + 1 -> i..m] /\ g2 \in [1..k + 1 -> j..n]
  BY <1>3
<1>5. \A x \in 1..k + 1 : /\ f2[x] = (IF x = 1 THEN i ELSE f[x - 1])
                          /\ g2[x] = (IF x = 1 THEN j ELSE g[x - 1])
  OBVIOUS
<1> HIDE DEF f2, g2
<1>6. ASSUME NEW x \in 1..k + 1, NEW y \in 1..k + 1, x < y
      PROVE  f2[x] < f2[y] /\ g2[x] < g2[y]
  <2>1. y # 1 /\ y - 1 \in 1..k /\ f2[y] = f[y - 1] /\ g2[y] = g[y - 1]
    BY <1>1, <1>5, <1>6
  <2>2. CASE x = 1
    BY <1>3, <1>5, <2>1, <2>2
  <2>3. CASE x # 1
    <3>1. x - 1 \in 1..k /\ x - 1 < y - 1 /\ f2[x] = f[x - 1] /\ g2[x] = g[x - 1]
      BY <1>1, <1>5, <1>6, <2>3
    <3>2. QED
      BY <1>2, <2>1, <3>1
  <2>4. QED
    BY <2>2, <2>3
<1>7. Climbs(f2, k + 1) /\ Climbs(g2, k + 1)
  BY <1>6 DEF Climbs
<1>8. \A x \in 1..k + 1 : a[f2[x]] = b[g2[x]]
  BY <1>1, <1>2, <1>5
<1>9. Match(f2, g2, k + 1, a, b, i, j, m, n)
  BY <1>4, <1>7, <1>8 DEF Match
<1>10. QED
  BY <1>9

\* A match that starts later in one of the texts is one that starts here, and
\* one that does not use the first line of a text starts later in it.
LEMMA MatchWider ==
  ASSUME NEW a, NEW b, NEW m \in Nat, NEW n \in Nat, NEW i \in Nat, NEW j \in Nat,
         NEW k \in Nat, NEW f, NEW g,
         \/ Match(f, g, k, a, b, i + 1, j, m, n) \/ Match(f, g, k, a, b, i, j + 1, m, n)
  PROVE  Match(f, g, k, a, b, i, j, m, n)
<1>1. i + 1..m \subseteq i..m /\ j + 1..n \subseteq j..n
  OBVIOUS
<1>2. QED
  BY <1>1 DEF Match

LEMMA MatchLater ==
  ASSUME NEW a, NEW b, NEW m \in Nat, NEW n \in Nat, NEW i \in 1..m, NEW j \in 1..n,
         a[i] # b[j],
         NEW k \in Nat, k > 0, NEW f, NEW g, Match(f, g, k, a, b, i, j, m, n)
  PROVE  \/ Match(f, g, k, a, b, i + 1, j, m, n) \/ Match(f, g, k, a, b, i, j + 1, m, n)
<1>1. 1 \in 1..k /\ \A x \in 1..k : x = 1 \/ 1 < x
  OBVIOUS
<1>2. /\ \A x \in 1..k : f[x] \in i..m /\ g[x] \in j..n
      /\ \A x, y \in 1..k : x < y => f[x] < f[y] /\ g[x] < g[y]
      /\ \A x \in 1..k : a[f[x]] = b[g[x]]
  BY DEF Match, Climbs
<1>3. f[1] # i \/ g[1] # j
  BY <1>1, <1>2
<1>4. CASE f[1] # i
  <2>1. f[1] > i /\ f[1] \in Int
    BY <1>1, <1>2, <1>4
  <2>2. \A x \in 1..k : f[x] \in i + 1..m
    BY <1>1, <1>2, <2>1
  <2>3. QED
    BY <2>2 DEF Match
<1>5. CASE g[1] # j
  <2>1. g[1] > j /\ g[1] \in Int
    BY <1>1, <1>2, <1>5
  <2>2. \A x \in 1..k : g[x] \in j + 1..n
    BY <1>1, <1>2, <2>1
  <2>3. QED
    BY <2>2 DEF Match
<1>6. QED
  BY <1>3, <1>4, <1>5

\* The table counts the longest match from a place on: no match is longer ...
LEMMA NoLongerMatch ==
  ASSUME NEW a, NEW b, NEW m \in Nat, NEW n \in Nat, NEW t, IsCommon(t, a, b, m, n)
  PROVE  \A i \in 1..m + 1, j \in 1..n + 1 : \A k \in Nat :
           (\E f, g : Match(f, g, k, a, b, i, j, m, n)) => k <= t[i][j]
<1>0. Bordered(t, m, n)
  BY CommonBordered
<1> DEFINE P == {p \in (1..m + 1) \X (1..n + 1) :
                   \A k \in Nat : (\E f, g : Match(f, g, k, a, b, p[1], p[2], m, n))
                                    => k <= t[p[1]][p[2]]}
<1>1. ASSUME NEW i \in 1..m + 1, NEW j \in 1..n + 1,
             i <= m => <<i + 1, j>> \in P,
             j <= n => <<i, j + 1>> \in P,
             i <= m /\ j <= n => <<i + 1, j + 1>> \in P
      PROVE  <<i, j>> \in P
  <2>1. SUFFICES ASSUME NEW k \in Nat, NEW f, NEW g, Match(f, g, k, a, b, i, j, m, n)
                 PROVE  k <= t[i][j]
    OBVIOUS
  <2>2. t[i][j] \in Nat
    BY <1>0 DEF Bordered
  <2>3. CASE k = 0
    BY <2>2, <2>3
  <2>4. CASE k > 0 /\ ~(i <= m /\ j <= n)
    <3>1. 1 \in 1..k
      BY <2>4
    <3>2. f[1] \in i..m /\ g[1] \in j..n
      BY <2>1, <3>1 DEF Match
    <3>3. QED
      BY <2>4, <3>2
  <2>5. CASE k > 0 /\ i <= m /\ j <= n
    <3>1. i \in 1..m /\ j \in 1..n
      BY <2>5
    <3>2. Between(t, a, b, i, j)
      BY <3>1, PlaceBetween
    <3>3. k - 1 \in Nat
      BY <2>5
    <3>4. CASE a[i] = b[j]
      <4>1. \E f2, g2 : Match(f2, g2, k - 1, a, b, i + 1, j + 1, m, n)
        BY <2>1, <2>5, <3>1, DropFirst
      <4>2. k - 1 <= t[i + 1][j + 1]
        BY <1>1, <3>1, <3>3, <4>1
      <4>3. QED
        BY <3>2, <3>4, <4>2 DEF Between
    <3>5. CASE a[i] # b[j]
      <4>1. \/ Match(f, g, k, a, b, i + 1, j, m, n) \/ Match(f, g, k, a, b, i, j + 1, m, n)
        BY <2>1, <2>5, <3>1, <3>5, MatchLater
      <4>2. k <= t[i + 1][j] \/ k <= t[i][j + 1]
        BY <1>1, <3>1, <4>1
      <4>3. QED
        BY <3>2, <3>5, <4>2 DEF Between
    <3>6. QED
      BY <3>4, <3>5
  <2>6. QED
    BY <2>3, <2>4, <2>5
<1>2. \A i \in 1..m + 1, j \in 1..n + 1 : <<i, j>> \in P
  <2> HIDE DEF P
  <2>1. \A i \in 1..m + 1, j \in 1..n + 1 :
          /\ i <= m => <<i + 1, j>> \in P
          /\ j <= n => <<i, j + 1>> \in P
          /\ i <= m /\ j <= n => <<i + 1, j + 1>> \in P
          => <<i, j>> \in P
    BY <1>1
  <2>2. QED
    BY <2>1, OverTexts
<1>3. QED
  BY <1>2

\* ... and there is one as long as it says.
LEMMA MatchAsLong ==
  ASSUME NEW a, NEW b, NEW m \in Nat, NEW n \in Nat, NEW t, IsCommon(t, a, b, m, n)
  PROVE  \A i \in 1..m + 1, j \in 1..n + 1 :
           \E f, g : Match(f, g, t[i][j], a, b, i, j, m, n)
<1>0. Bordered(t, m, n)
  BY CommonBordered
<1> DEFINE P == {p \in (1..m + 1) \X (1..n + 1) :
                   \E f, g : Match(f, g, t[p[1]][p[2]], a, b, p[1], p[2], m, n)}
<1>1. ASSUME NEW i \in 1..m + 1, NEW j \in 1..n + 1,
             i <= m => <<i + 1, j>> \in P,
             j <= n => <<i, j + 1>> \in P,
             i <= m /\ j <= n => <<i + 1, j + 1>> \in P
      PROVE  <<i, j>> \in P
  <2>1. SUFFICES \E f, g : Match(f, g, t[i][j], a, b, i, j, m, n)
    OBVIOUS
  <2>2. CASE ~(i <= m /\ j <= n)
    <3>1. i = m + 1 \/ j = n + 1
      BY <2>2
    <3>2. t[i][j] = 0
      <4>1. CASE i = m + 1
        BY <1>0, <4>1 DEF Bordered
      <4>2. CASE j = n + 1
        BY <1>0, <4>2 DEF Bordered
      <4>3. QED
        BY <3>1, <4>1, <4>2
    <3> DEFINE f == [x \in 1..0 |-> x]
    <3>3. f \in [1..0 -> i..m] /\ f \in [1..0 -> j..n]
      OBVIOUS
    <3>4. \A x \in 1..0 : FALSE
      OBVIOUS
    <3> HIDE DEF f
    <3>5. Match(f, f, 0, a, b, i, j, m, n)
      BY <3>3, <3>4 DEF Match, Climbs
    <3>6. QED
      BY <3>2, <3>5
  <2>3. CASE i <= m /\ j <= n
    <3>1. i \in 1..m /\ j \in 1..n /\ i \in Nat /\ j \in Nat
      BY <2>3
    <3>2. Between(t, a, b, i, j)
      BY <3>1, PlaceBetween
    <3>3. CASE a[i] = b[j]
      <4>1. PICK k \in Nat : k = t[i + 1][j + 1] /\ t[i][j] = k + 1
        BY <3>2, <3>3 DEF Between
      <4>2. PICK f, g : Match(f, g, k, a, b, i + 1, j + 1, m, n)
        BY <1>1, <3>1, <4>1
      <4>3. \E f2, g2 : Match(f2, g2, k + 1, a, b, i, j, m, n)
        BY <3>1, <3>3, <4>2, PutFirst
      <4>4. QED
        BY <4>1, <4>3
    <3>4. CASE a[i] # b[j]
      <4>1. PICK k \in Nat : k = t[i][j] /\ (k = t[i + 1][j] \/ k = t[i][j + 1])
        BY <3>2, <3>4 DEF Between
      <4>2. \/ \E f, g : Match(f, g, k, a, b, i + 1, j, m, n)
            \/ \E f, g : Match(f, g, k, a, b, i, j + 1, m, n)
        BY <1>1, <3>1, <4>1
      <4>3. \E f, g : Match(f, g, k, a, b, i, j, m, n)
        BY <3>1, <4>2, MatchWider
      <4>4. QED
        BY <4>1, <4>3
    <3>5. QED
      BY <3>3, <3>4
  <2>4. QED
    BY <2>2, <2>3
<1>2. \A i \in 1..m + 1, j \in 1..n + 1 : <<i, j>> \in P
  <2> HIDE DEF P
  <2>1. \A i \in 1..m + 1, j \in 1..n + 1 :
          /\ i <= m => <<i + 1, j>> \in P
          /\ j <= n => <<i, j + 1>> \in P
          /\ i <= m /\ j <= n => <<i + 1, j + 1>> \in P
          => <<i, j>> \in P
    BY <1>1
  <2>2. QED
    BY <2>1, OverTexts
<1>3. QED
  BY <1>2

\* Numbers that climb are no more than there is room for.
LEMMA ClimbFits ==
  ASSUME NEW m \in Nat, NEW k \in Nat, NEW f \in [1..k -> 1..m], Climbs(f, k)
  PROVE  k <= m
<1> DEFINE T == {x \in 0..k : x = 0 \/ f[x] >= x}
<1>1. 0 \in T
  OBVIOUS
<1>2. ASSUME NEW x \in 1..k, x - 1 \in T
      PROVE  x \in T
  <2>1. x \in 1..k /\ f[x] \in 1..m
    OBVIOUS
  <2>2. CASE x - 1 = 0
    BY <2>1, <2>2
  <2>3. CASE x - 1 # 0
    <3>1. x - 1 \in 1..k /\ x - 1 < x /\ f[x - 1] \in 1..m
      BY <2>3
    <3>2. f[x - 1] < f[x] /\ f[x - 1] >= x - 1
      BY <1>2, <2>3, <3>1 DEF Climbs
    <3>3. QED
      BY <2>1, <3>1, <3>2
  <2>4. QED
    BY <2>2, <2>3
<1>3. \A x \in 1..k : x - 1 \in T => x \in T
  BY <1>2
<1>4. k \in T
  <2> HIDE DEF T
  <2>1. \A x \in 0..k : x \in T
    BY <1>1, <1>3, Upwards
  <2>2. QED
    BY <2>1
<1>5. CASE k = 0
  BY <1>5
<1>6. CASE k > 0
  <2>1. f[k] \in 1..m /\ f[k] >= k
    BY <1>4, <1>6
  <2>2. QED
    BY <2>1
<1>7. QED
  BY <1>5, <1>6

\* The texts picked from a sequence are those at places that climb.
PickedBy(w, a, f, k) == w = [x \in 1..k |-> a[f[x]]]

LEMMA PicksAre ==
  ASSUME NEW a, NEW m \in Nat, DOMAIN a = 1..m, Len(a) = m, NEW w
  PROVE  w \in Picks(a) <=>
           \E k \in Nat : \E f \in [1..k -> 1..m] : Climbs(f, k) /\ PickedBy(w, a, f, k)
<1> DEFINE
       Up(k) == {f \in [1..k -> DOMAIN a] : \A i, j \in 1..k : i < j => f[i] < f[j]}
       All(k) == {[i \in 1..k |-> a[f[i]]] : f \in Up(k)}
<1>0. w \in Picks(a) <=> \E k \in 0..Len(a) : \E f \in Up(k) : w = [i \in 1..k |-> a[f[i]]]
  <2>1. Picks(a) = UNION {All(k) : k \in 0..Len(a)}
    BY DEF Picks
  <2>2. \A k \in 0..Len(a) : w \in All(k) <=> \E f \in Up(k) : w = [i \in 1..k |-> a[f[i]]]
    OBVIOUS
  <2> HIDE DEF All, Up
  <2>3. w \in Picks(a) <=> \E k \in 0..Len(a) : w \in All(k)
    BY <2>1
  <2>4. QED
    BY <2>2, <2>3
<1>1. ASSUME w \in Picks(a)
      PROVE  \E k \in Nat : \E f \in [1..k -> 1..m] : Climbs(f, k) /\ PickedBy(w, a, f, k)
  <2>1. PICK k \in 0..Len(a) : \E f \in Up(k) : w = [i \in 1..k |-> a[f[i]]]
    BY <1>0, <1>1
  <2>2. PICK f \in Up(k) : w = [i \in 1..k |-> a[f[i]]]
    BY <2>1
  <2>3. k \in Nat /\ f \in [1..k -> 1..m] /\ Climbs(f, k)
    BY DEF Climbs
  <2>4. PickedBy(w, a, f, k)
    BY <2>2 DEF PickedBy
  <2>5. QED
    BY <2>3, <2>4
<1>2. ASSUME NEW k \in Nat, NEW f \in [1..k -> 1..m], Climbs(f, k), PickedBy(w, a, f, k)
      PROVE  w \in Picks(a)
  <2>1. k \in 0..m
    BY <1>2, ClimbFits
  <2>2. f \in Up(k)
    BY <1>2 DEF Climbs
  <2>3. w = [i \in 1..k |-> a[f[i]]]
    BY <1>2 DEF PickedBy
  <2>4. QED
    BY <1>0, <2>1, <2>2, <2>3
<1>3. QED
  BY <1>1, <1>2

\* The corner of the table is the length of a longest common subsequence.
LEMMA CornerIsLongest ==
  ASSUME NEW S, NEW a \in Seq(S), NEW b \in Seq(S), NEW m \in Nat, m = Len(a),
         NEW n \in Nat, n = Len(b), NEW t, IsCommon(t, a, b, m, n)
  PROVE  LongestCommon(a, b) = t[1][1]
<1>1. DOMAIN a = 1..m /\ DOMAIN b = 1..n /\ \A x \in 1..m : a[x] \in S
  BY LenProperties, ElementOfSeq
<1>2. 1 \in 1..m + 1 /\ 1 \in 1..n + 1
  OBVIOUS
<1> DEFINE L == t[1][1]
<1>3. L \in Nat
  <2>1. Bordered(t, m, n)
    BY CommonBordered
  <2>2. QED
    BY <1>2, <2>1 DEF Bordered
<1> HIDE DEF L
<1>4. \A k \in Nat : \A f, g : Match(f, g, k, a, b, 1, 1, m, n) => k <= L
  BY <1>2, NoLongerMatch DEF L
<1>5. PICK f, g : Match(f, g, L, a, b, 1, 1, m, n)
  BY <1>2, MatchAsLong DEF L
<1>6. \A k \in Nat : \A w : (DOMAIN w = 1..k /\ w \in Seq(S)) => Len(w) = k
  BY LenProperties
<1>7. ASSUME NEW k \in Nat, NEW h \in [1..k -> 1..m], NEW w, PickedBy(w, a, h, k)
      PROVE  DOMAIN w = 1..k /\ Len(w) = k /\ w \in [1..k -> S]
  <2>1. w \in [1..k -> S] /\ DOMAIN w = 1..k
    BY <1>1, <1>7 DEF PickedBy
  <2>2. w \in Seq(S)
    BY <2>1, SeqDef
  <2>3. QED
    BY <1>6, <2>1, <2>2
<1>8. ASSUME NEW w \in Picks(a) \cap Picks(b)
      PROVE  Len(w) \in Nat /\ Len(w) <= L
  <2>1. PICK k \in Nat : \E h \in [1..k -> 1..m] : Climbs(h, k) /\ PickedBy(w, a, h, k)
    BY <1>1, PicksAre
  <2>2. PICK h \in [1..k -> 1..m] : Climbs(h, k) /\ PickedBy(w, a, h, k)
    BY <2>1
  <2>3. PICK l \in Nat : \E q \in [1..l -> 1..n] : Climbs(q, l) /\ PickedBy(w, b, q, l)
    BY <1>1, PicksAre
  <2>4. PICK q \in [1..l -> 1..n] : Climbs(q, l) /\ PickedBy(w, b, q, l)
    BY <2>3
  <2>5. DOMAIN w = 1..k /\ Len(w) = k
    BY <1>7, <2>2
  <2>6. k = l
    BY <2>4, <2>5 DEF PickedBy
  <2>7. \A x \in 1..k : a[h[x]] = b[q[x]]
    BY <2>2, <2>4, <2>6 DEF PickedBy
  <2>8. Match(h, q, k, a, b, 1, 1, m, n)
    BY <2>2, <2>4, <2>6, <2>7 DEF Match
  <2>9. QED
    BY <1>4, <2>5, <2>8
<1>9. \E w \in Picks(a) \cap Picks(b) : Len(w) = L
  <2> DEFINE w == [x \in 1..L |-> a[f[x]]]
  <2>1. /\ f \in [1..L -> 1..m] /\ Climbs(f, L) /\ g \in [1..L -> 1..n] /\ Climbs(g, L)
        /\ \A x \in 1..L : a[f[x]] = b[g[x]]
    BY <1>5 DEF Match
  <2>2. PickedBy(w, a, f, L) /\ PickedBy(w, b, g, L)
    BY <2>1 DEF PickedBy
  <2> HIDE DEF w
  <2>3. Len(w) = L
    BY <1>3, <1>7, <2>1, <2>2
  <2>4. w \in Picks(a)
    BY <1>1, <1>3, <2>1, <2>2, PicksAre
  <2>5. w \in Picks(b)
    BY <1>1, <1>3, <2>1, <2>2, PicksAre
  <2>6. QED
    BY <2>3, <2>4, <2>5
<1>10. L \in 0..m
  <2>1. f \in [1..L -> 1..m] /\ Climbs(f, L)
    BY <1>5 DEF Match
  <2>2. L <= m
    BY <1>3, <2>1, ClimbFits
  <2>3. QED
    BY <1>3, <2>2
<1> DEFINE C == Picks(a) \cap Picks(b)
           Good(x) == (\E w \in C : Len(w) = x) /\ \A w \in C : Len(w) <= x
<1>11. LongestCommon(a, b) = CHOOSE x \in 0..m : Good(x)
  BY DEF LongestCommon
<1>12. Good(L)
  BY <1>8, <1>9
<1>13. ASSUME NEW x \in 0..m, Good(x) PROVE x = L
  <2>1. x <= L
    BY <1>8, <1>13
  <2>2. L <= x
    BY <1>9, <1>13
  <2>3. QED
    BY <1>3, <2>1, <2>2
<1> HIDE DEF Good
<1>14. QED
  BY <1>10, <1>11, <1>12, <1>13 DEF L

-----------------------------------------------------------------------------
(***************************************************************************)
(* The line difference: its walk from the start of both texts.             *)
(***************************************************************************)
Ops == {" ", "-", "+"}
LinesOf(S) == [op : Ops, text : S]
More(lines, x) == Append(lines, x)

\* What is read of a sequence of lines, line by line.
Read(x, drop, before) == IF x.op = drop THEN before ELSE Append(before, x.text)
IsReading(r, lines, drop, n, S) ==
  /\ r \in [0..n -> Seq(S)] /\ r[0] = <<>>
  /\ \A k \in 1..n : r[k] = Read(lines[k], drop, r[k - 1])
ReadsAs(lines, drop, n, S, r) == IsReading(r, lines, drop, n, S) /\ Side(lines, drop) = r[n]

LEMMA SideDefined ==
  ASSUME NEW S, NEW lines \in Seq(LinesOf(S)), NEW n \in Nat, n = Len(lines), NEW drop
  PROVE  \E r : ReadsAs(lines, drop, n, S, r)
<1>1. \A k \in 1..n : k \in 0..n /\ k - 1 \in 0..n /\ ~(k = 0)
  OBVIOUS
<1>2. \A k \in 1..n : lines[k] \in LinesOf(S)
  BY ElementOfSeq
<1>3. \A x \in LinesOf(S), w \in Seq(S) : Read(x, drop, w) \in Seq(S)
  <2>1. \A x \in LinesOf(S) : x.text \in S
    BY DEF LinesOf
  <2>2. \A y \in S, w \in Seq(S) : Append(w, y) \in Seq(S)
    OBVIOUS
  <2>3. QED
    BY <2>1, <2>2 DEF Read
<1>4. PICK f : IsReading(f, lines, drop, n, S)
  <2> DEFINE step == [k \in 1..n |-> [w \in Seq(S) |-> Read(lines[k], drop, w)]]
  <2>1. Steps(step, n, Seq(S))
    BY <1>2, <1>3 DEF Steps
  <2>2. \A k \in 1..n, w \in Seq(S) : step[k][w] = Read(lines[k], drop, w)
    OBVIOUS
  <2>3. <<>> \in Seq(S)
    OBVIOUS
  <2> HIDE DEF step
  <2>4. PICK f : RunOf(f, step, n, Seq(S), <<>>)
    BY <2>1, <2>3, StepByStep
  <2>5. \A k \in 1..n : f[k - 1] \in Seq(S)
    BY <1>1, <2>4 DEF RunOf
  <2>6. IsReading(f, lines, drop, n, S)
    BY <2>2, <2>4, <2>5 DEF RunOf, IsReading
  <2>7. QED
    BY <2>6
<1> DEFINE Rec(g, k) == IF k = 0 THEN <<>> ELSE Read(lines[k], drop, g[k - 1])
<1>5. f = [k \in 0..n |-> Rec(f, k)]
  BY <1>1, <1>4 DEF IsReading
<1>6. PICK g : g = [k \in 0..n |-> Rec(g, k)] /\ Side(lines, drop) = g[n]
  <2> DEFINE g == CHOOSE h : h = [k \in 0..n |-> Rec(h, k)]
  <2>1. Side(lines, drop) = g[n]
    BY DEF Side, Read
  <2>2. g = [k \in 0..n |-> Rec(g, k)]
    <3> HIDE DEF Rec
    <3>1. QED
      BY <1>5
  <2> HIDE DEF g
  <2>3. QED
    BY <2>1, <2>2
<1>7. \A k \in 0..n : g[k] = f[k]
  <2> DEFINE T == {k \in 0..n : g[k] = f[k]}
  <2>1. 0 \in T
    BY <1>5, <1>6
  <2>2. \A k \in 1..n : k - 1 \in T => k \in T
    BY <1>1, <1>5, <1>6
  <2> HIDE DEF T
  <2>3. \A k \in 0..n : k \in T
    BY <2>1, <2>2, Upwards
  <2>4. QED
    BY <2>3 DEF T
<1>8. ReadsAs(lines, drop, n, S, f)
  <2>1. n \in 0..n
    OBVIOUS
  <2>2. QED
    BY <1>4, <1>6, <1>7, <2>1 DEF ReadsAs
<1>9. QED
  BY <1>8

LEMMA SideEmpty ==
  ASSUME NEW S, NEW drop
  PROVE  Side(<<>>, drop) = <<>>
<1>1. <<>> \in Seq(LinesOf(S)) /\ Len(<<>>) = 0
  OBVIOUS
<1>2. PICK r : ReadsAs(<<>>, drop, 0, S, r)
  BY <1>1, SideDefined
<1>3. QED
  BY <1>2 DEF ReadsAs, IsReading

\* A line more is read after the others, or dropped.
LEMMA SideMore ==
  ASSUME NEW S, NEW lines \in Seq(LinesOf(S)), NEW x \in LinesOf(S), NEW drop
  PROVE  Side(More(lines, x), drop) = Read(x, drop, Side(lines, drop))
<1>1. PICK n \in Nat : n = Len(lines)
  BY LenProperties
<1> DEFINE longer == More(lines, x)
<1>2. /\ longer \in Seq(LinesOf(S)) /\ n + 1 = Len(longer) /\ n + 1 \in Nat
      /\ longer[n + 1] = x /\ \A k \in 1..n : longer[k] = lines[k]
  BY <1>1, AppendProperties DEF More
<1> HIDE DEF longer
<1>3. PICK r : ReadsAs(lines, drop, n, S, r)
  BY <1>1, SideDefined
<1>4. PICK q : ReadsAs(longer, drop, n + 1, S, q)
  BY <1>2, SideDefined
<1>5. \A k \in 0..n : q[k] = r[k]
  <2> DEFINE T == {k \in 0..n : q[k] = r[k]}
  <2>1. 0 \in T
    BY <1>3, <1>4 DEF ReadsAs, IsReading
  <2>2. ASSUME NEW k \in 1..n, k - 1 \in T PROVE k \in T
    <3>1. k \in 1..n + 1
      OBVIOUS
    <3>2. q[k] = Read(longer[k], drop, q[k - 1])
      BY <1>4, <3>1 DEF ReadsAs, IsReading
    <3>3. r[k] = Read(lines[k], drop, r[k - 1])
      BY <1>3 DEF ReadsAs, IsReading
    <3>4. QED
      BY <1>2, <2>2, <3>2, <3>3
  <2>3. \A k \in 1..n : k - 1 \in T => k \in T
    BY <2>2
  <2> HIDE DEF T
  <2>4. \A k \in 0..n : k \in T
    BY <2>1, <2>3, Upwards
  <2>5. QED
    BY <2>4 DEF T
<1>6. n + 1 \in 1..n + 1 /\ n \in 0..n /\ (n + 1) - 1 = n
  OBVIOUS
<1>7. q[n + 1] = Read(longer[n + 1], drop, q[(n + 1) - 1])
  BY <1>4, <1>6 DEF ReadsAs, IsReading
<1>8. q[n + 1] = Read(x, drop, r[n])
  BY <1>2, <1>5, <1>6, <1>7
<1>9. Side(longer, drop) = q[n + 1] /\ Side(lines, drop) = r[n]
  BY <1>3, <1>4 DEF ReadsAs
<1>10. QED
  BY <1>8, <1>9 DEF longer

\* What a line more adds to those kept.
LEMMA KeptMore ==
  ASSUME NEW S, NEW lines \in Seq(LinesOf(S)), NEW x \in LinesOf(S)
  PROVE  /\ Cardinality(Kept(lines)) \in Nat
         /\ Cardinality(Kept(More(lines, x)))
              = Cardinality(Kept(lines)) + IF x.op = " " THEN 1 ELSE 0
<1>1. PICK n \in Nat : n = Len(lines)
  BY LenProperties
<1> DEFINE longer == More(lines, x)
<1>2. /\ longer \in Seq(LinesOf(S)) /\ n + 1 = Len(longer) /\ n + 1 \in Nat
      /\ longer[n + 1] = x /\ \A k \in 1..n : longer[k] = lines[k]
  BY <1>1, AppendProperties DEF More
<1> HIDE DEF longer
<1>3. DOMAIN lines = 1..n /\ DOMAIN longer = 1..n + 1
  BY <1>1, <1>2, LenProperties
<1> DEFINE K == Kept(lines)
           M == Kept(longer)
<1>31. /\ \A k : k \in K <=> k \in 1..n /\ lines[k].op = " "
      /\ \A k : k \in M <=> k \in 1..n + 1 /\ longer[k].op = " "
  BY <1>3 DEF Kept
<1> HIDE DEF K, M
<1>4. IsFiniteSet(K)
  <2>1. K \subseteq 1..n
    BY <1>31
  <2>2. IsFiniteSet(1..n)
    BY FS_Interval
  <2>3. QED
    BY <2>1, <2>2, FS_Subset
<1>5. n + 1 \notin 1..n /\ \A k : k \in 1..n + 1 <=> k \in 1..n \/ k = n + 1
  OBVIOUS
<1>6. n + 1 \notin K
  BY <1>31, <1>5, Zenon
<1>7. CASE x.op = " "
  <2>1. M = K \cup {n + 1}
    BY <1>2, <1>31, <1>5, <1>7, Zenon
  <2>2. Cardinality(K \cup {n + 1}) = Cardinality(K) + 1
    BY <1>4, <1>6, FS_AddElement
  <2>3. Cardinality(K) \in Nat /\ Cardinality(M) = Cardinality(K) + 1
    BY <1>4, <2>1, <2>2, FS_CardinalityType
  <2>4. QED
    BY <1>7, <2>3 DEF K, M, longer
<1>8. CASE x.op # " "
  <2>1. M = K
    BY <1>2, <1>31, <1>5, <1>8, Zenon
  <2>2. Cardinality(K) \in Nat /\ Cardinality(M) = Cardinality(K) + 0
    BY <1>4, <2>1, FS_CardinalityType
  <2>3. QED
    BY <1>8, <2>2 DEF K, M, longer
<1>9. QED
  BY <1>7, <1>8

\* The lines of a text before one of them.
IsBefore(p, w, i, S) ==
  p \in Seq(S) /\ Len(p) = i - 1 /\ \A x \in 1..i - 1 : p[x] = w[x]

LEMMA BeforeMore ==
  ASSUME NEW S, NEW w, NEW i \in Nat \ {0}, w[i] \in S, NEW p, IsBefore(p, w, i, S)
  PROVE  IsBefore(More(p, w[i]), w, i + 1, S)
<1>1. p \in Seq(S) /\ Len(p) = i - 1 /\ \A x \in 1..i - 1 : p[x] = w[x]
  BY DEF IsBefore
<1> DEFINE q == More(p, w[i])
<1>2. q \in Seq(S) /\ Len(q) = (i - 1) + 1 /\ q[(i - 1) + 1] = w[i] /\ \A x \in 1..i - 1 : q[x] = p[x]
  BY <1>1, AppendProperties DEF More
<1> HIDE DEF q
<1>3. \A x \in 1..(i + 1) - 1 : x \in 1..i - 1 \/ x = i
  OBVIOUS
<1>4. (i - 1) + 1 = i /\ (i + 1) - 1 = i
  OBVIOUS
<1>5. \A x \in 1..(i + 1) - 1 : q[x] = w[x]
  BY <1>1, <1>2, <1>3, <1>4
<1>6. QED
  BY <1>2, <1>4, <1>5 DEF IsBefore, q

LEMMA BeforeEnd ==
  ASSUME NEW S, NEW w \in Seq(S), NEW m \in Nat, m = Len(w), NEW p, IsBefore(p, w, m + 1, S)
  PROVE  p = w
<1>1. p \in Seq(S) /\ Len(p) = Len(w) /\ \A x \in 1..Len(p) : p[x] = w[x]
  <2>1. (m + 1) - 1 = m
    OBVIOUS
  <2>2. QED
    BY <2>1 DEF IsBefore
<1>2. QED
  BY <1>1, SeqEqual

LEMMA BeforeStart ==
  ASSUME NEW S, NEW w
  PROVE  IsBefore(<<>>, w, 1, S)
<1>1. <<>> \in Seq(S) /\ Len(<<>>) = 0 /\ 1 - 1 = 0 /\ \A x \in 1..0 : FALSE
  OBVIOUS
<1>2. QED
  BY <1>1 DEF IsBefore

\* The places of the walk, and its four moves.
Walks(m, n, S) == [i : 1..m + 1, j : 1..n + 1, lines : Seq(LinesOf(S))]
KeepsLine(at, next, a, b, m, n) ==
  /\ at.i <= m /\ at.j <= n /\ a[at.i] = b[at.j]
  /\ next = Write(at, " ", a[at.i], at.i + 1, at.j + 1)
DropsLine(at, next, a, b, t, m, n) ==
  /\ at.i <= m
  /\ at.j <= n => a[at.i] # b[at.j] /\ t[at.i + 1][at.j] >= t[at.i][at.j + 1]
  /\ next = Write(at, "-", a[at.i], at.i + 1, at.j)
AddsLine(at, next, a, b, t, m, n) ==
  /\ at.j <= n
  /\ at.i <= m => a[at.i] # b[at.j] /\ t[at.i + 1][at.j] < t[at.i][at.j + 1]
  /\ next = Write(at, "+", b[at.j], at.i, at.j + 1)
AtEnd(at, next, m, n) == ~(at.i <= m) /\ ~(at.j <= n) /\ next = at

LEMMA AdvanceMoves ==
  ASSUME NEW S, NEW a \in Seq(S), NEW b \in Seq(S), NEW m \in Nat, m = Len(a),
         NEW n \in Nat, n = Len(b), NEW t, IsCommon(t, a, b, m, n), NEW at \in Walks(m, n, S),
         NEW next, next = Advance(a, b, t, at)
  PROVE  \/ KeepsLine(at, next, a, b, m, n) \/ DropsLine(at, next, a, b, t, m, n)
         \/ AddsLine(at, next, a, b, t, m, n) \/ AtEnd(at, next, m, n)
<1> DEFINE i == at.i
           j == at.j
           old == i <= m
           new == j <= n
           same == a[i] = b[j]
           down == t[i + 1][j] >= t[i][j + 1]
           right == t[i + 1][j] < t[i][j + 1]
<1>1. i \in 1..m + 1 /\ j \in 1..n + 1
  BY DEF Walks
<1>2. old /\ new => (right <=> ~down)
  <2>1. SUFFICES ASSUME old, new PROVE right <=> ~down
    OBVIOUS
  <2>2. i \in 1..m /\ j \in 1..n
    BY <1>1, <2>1
  <2>3. Between(t, a, b, i, j)
    BY <2>2, PlaceBetween
  <2> DEFINE x == t[i + 1][j]
             y == t[i][j + 1]
  <2>4. x \in Nat /\ y \in Nat
    BY <2>3 DEF Between
  <2> HIDE DEF x, y
  <2>5. x < y <=> ~(x >= y)
    BY <2>4
  <2>6. QED
    BY <2>5 DEF x, y
<1>3. next = CASE old /\ new /\ same -> Write(at, " ", a[i], i + 1, j + 1)
               [] old /\ (new => ~same /\ down) -> Write(at, "-", a[i], i + 1, j)
               [] new /\ (old => ~same /\ right) -> Write(at, "+", b[j], i, j + 1)
               [] ~old /\ ~new -> at
  BY DEF Advance
<1> HIDE DEF old, new, same, down, right
<1>4. CASE old /\ new /\ same
  <2>1. next = Write(at, " ", a[i], i + 1, j + 1)
    BY <1>3, <1>4
  <2>2. QED
    BY <1>4, <2>1 DEF KeepsLine, old, new, same
<1>5. CASE old /\ (new => ~same /\ down)
  <2>1. next = Write(at, "-", a[i], i + 1, j)
    BY <1>2, <1>3, <1>5
  <2>2. QED
    BY <1>5, <2>1 DEF DropsLine, old, new, same, down
<1>6. CASE new /\ (old => ~same /\ right)
  <2>1. next = Write(at, "+", b[j], i, j + 1)
    BY <1>2, <1>3, <1>6
  <2>2. QED
    BY <1>6, <2>1 DEF AddsLine, old, new, same, right
<1>7. CASE ~old /\ ~new
  <2>1. next = at
    BY <1>3, <1>7
  <2>2. QED
    BY <1>7, <2>1 DEF AtEnd, old, new
<1>8. QED
  BY <1>2, <1>4, <1>5, <1>6, <1>7

\* What holds after k lines of the walk.
Walking(at, k, a, b, t, m, n, S) ==
  /\ at \in Walks(m, n, S)
  /\ IsBefore(Side(at.lines, "+"), a, at.i, S)
  /\ IsBefore(Side(at.lines, "-"), b, at.j, S)
  /\ Cardinality(Kept(at.lines)) + t[at.i][at.j] = t[1][1]
  /\ at.i + at.j >= k + 2 \/ (at.i = m + 1 /\ at.j = n + 1)

WalkAt(x, y, lines) == [i |-> x, j |-> y, lines |-> lines]

LEMMA WalkAtParts ==
  ASSUME NEW x, NEW y, NEW lines
  PROVE  /\ WalkAt(x, y, lines).i = x /\ WalkAt(x, y, lines).j = y
         /\ WalkAt(x, y, lines).lines = lines
         /\ \A m, n, S : x \in 1..m + 1 /\ y \in 1..n + 1 /\ lines \in Seq(LinesOf(S))
                          => WalkAt(x, y, lines) \in Walks(m, n, S)
BY DEF WalkAt, Walks

\* The parts of what a move writes.
Writes(at, next, op, text, i, j, m, n, S) ==
  /\ next \in Walks(m, n, S) /\ next.i = i /\ next.j = j
  /\ Line(op, text) \in LinesOf(S)
  /\ next.lines = More(at.lines, Line(op, text))
  /\ at.lines \in Seq(LinesOf(S))

LEMMA Written ==
  ASSUME NEW S, NEW m \in Nat, NEW n \in Nat, NEW at \in Walks(m, n, S), NEW op \in Ops,
         NEW text \in S, NEW i \in 1..m + 1, NEW j \in 1..n + 1,
         NEW next, next = Write(at, op, text, i, j)
  PROVE  Writes(at, next, op, text, i, j, m, n, S)
<1>1. Line(op, text) \in LinesOf(S)
  BY DEF Line, LinesOf
<1>2. at.lines \in Seq(LinesOf(S))
  BY DEF Walks
<1>3. More(at.lines, Line(op, text)) \in Seq(LinesOf(S))
  BY <1>1, <1>2, AppendProperties DEF More
<1>4. next = WalkAt(i, j, More(at.lines, Line(op, text)))
  BY DEF Write, More, WalkAt
<1> DEFINE longer == More(at.lines, Line(op, text))
<1>5. longer \in Seq(LinesOf(S)) /\ next = WalkAt(i, j, longer)
  BY <1>3, <1>4
<1> HIDE DEF longer
<1>6. next.i = i /\ next.j = j /\ next.lines = longer
  BY <1>5, WalkAtParts
<1>7. next \in Walks(m, n, S)
  BY <1>5, WalkAtParts
<1>8. QED
  BY <1>1, <1>2, <1>6, <1>7 DEF longer, Writes

\* What a line written adds to the two texts and to the lines kept.
Reads(lines, after, op, text) ==
  /\ Side(after, "+") = IF op = "+" THEN Side(lines, "+") ELSE More(Side(lines, "+"), text)
  /\ Side(after, "-") = IF op = "-" THEN Side(lines, "-") ELSE More(Side(lines, "-"), text)
  /\ Cardinality(Kept(lines)) \in Nat
  /\ Cardinality(Kept(after)) = Cardinality(Kept(lines)) + IF op = " " THEN 1 ELSE 0

LEMMA WrittenReads ==
  ASSUME NEW S, NEW lines \in Seq(LinesOf(S)), NEW op \in Ops, NEW text \in S,
         NEW after, after = More(lines, Line(op, text)), Line(op, text) \in LinesOf(S)
  PROVE  Reads(lines, after, op, text)
<1> DEFINE x == Line(op, text)
<1>1. x.op = op /\ x.text = text /\ x \in LinesOf(S)
  BY DEF Line
<1> HIDE DEF x
<1>2. Side(after, "+") = Read(x, "+", Side(lines, "+"))
  BY <1>1, SideMore DEF x
<1>3. Side(after, "-") = Read(x, "-", Side(lines, "-"))
  BY <1>1, SideMore DEF x
<1>4. /\ Cardinality(Kept(lines)) \in Nat
      /\ Cardinality(Kept(after)) = Cardinality(Kept(lines)) + IF x.op = " " THEN 1 ELSE 0
  BY <1>1, KeptMore DEF x
<1>5. QED
  BY <1>1, <1>2, <1>3, <1>4 DEF Read, More, Reads

\* The table along the walk: a line kept is one less to keep, any other none.
Counted(t, a, b, i, j, m, n) ==
  /\ t[i][j] \in Nat
  /\ i <= m /\ j <= n /\ a[i] = b[j] =>
       t[i + 1][j + 1] \in Nat /\ t[i][j] = t[i + 1][j + 1] + 1
  /\ i <= m /\ (j <= n => a[i] # b[j] /\ t[i + 1][j] >= t[i][j + 1]) =>
       t[i][j] = t[i + 1][j]
  /\ j <= n /\ (i <= m => a[i] # b[j] /\ t[i + 1][j] < t[i][j + 1]) =>
       t[i][j] = t[i][j + 1]

LEMMA CountedAlong ==
  ASSUME NEW a, NEW b, NEW m \in Nat, NEW n \in Nat, NEW t, IsCommon(t, a, b, m, n),
         NEW i \in 1..m + 1, NEW j \in 1..n + 1
  PROVE  Counted(t, a, b, i, j, m, n)
<1>0. Bordered(t, m, n)
  BY CommonBordered
<1>1. t[i][j] \in Nat
  BY <1>0 DEF Bordered
<1>2. CASE i <= m /\ j <= n
  <2>1. i \in 1..m /\ j \in 1..n
    BY <1>2
  <2>2. Between(t, a, b, i, j)
    BY <2>1, PlaceBetween
  <2>3. QED
    BY <1>1, <1>2, <2>2 DEF Between, Counted
<1>3. CASE ~(j <= n)
  <2>1. j = n + 1
    BY <1>3
  <2>2. \A x \in 1..m + 1 : t[x][j] = 0
    BY <1>0, <2>1 DEF Bordered
  <2>3. i <= m => i + 1 \in 1..m + 1
    OBVIOUS
  <2>4. i <= m => t[i][j] = t[i + 1][j]
    BY <2>2, <2>3
  <2>5. QED
    BY <1>1, <1>3, <2>4 DEF Counted
<1>4. CASE ~(i <= m)
  <2>1. i = m + 1
    BY <1>4
  <2>2. \A y \in 1..n + 1 : t[i][y] = 0
    BY <1>0, <2>1 DEF Bordered
  <2>3. j <= n => j + 1 \in 1..n + 1
    OBVIOUS
  <2>4. j <= n => t[i][j] = t[i][j + 1]
    BY <2>2, <2>3
  <2>5. QED
    BY <1>1, <1>4, <2>4 DEF Counted
<1>5. QED
  BY <1>2, <1>3, <1>4

LEMMA WalkStep ==
  ASSUME NEW S, NEW a \in Seq(S), NEW b \in Seq(S), NEW m \in Nat, m = Len(a),
         NEW n \in Nat, n = Len(b), NEW t, IsCommon(t, a, b, m, n),
         NEW k \in Nat, NEW at, Walking(at, k, a, b, t, m, n, S),
         NEW next, next = Advance(a, b, t, at)
  PROVE  Walking(next, k + 1, a, b, t, m, n, S)
<1> DEFINE i == at.i
           j == at.j
           plus == Side(at.lines, "+")
           minus == Side(at.lines, "-")
           kept == Cardinality(Kept(at.lines))
<1>1. at \in Walks(m, n, S) /\ i \in 1..m + 1 /\ j \in 1..n + 1 /\ at.lines \in Seq(LinesOf(S))
  BY DEF Walking, Walks
<1>2. /\ IsBefore(plus, a, i, S) /\ IsBefore(minus, b, j, S)
      /\ kept + t[i][j] = t[1][1]
      /\ i + j >= k + 2 \/ (i = m + 1 /\ j = n + 1)
  BY DEF Walking
<1>3. /\ i <= m => i + 1 \in 1..m + 1 /\ a[i] \in S /\ i \in Nat \ {0}
      /\ j <= n => j + 1 \in 1..n + 1 /\ b[j] \in S /\ j \in Nat \ {0}
  <2>1. \A x \in 1..m : a[x] \in S
    BY ElementOfSeq
  <2>2. \A x \in 1..n : b[x] \in S
    BY ElementOfSeq
  <2>3. (i <= m => i \in 1..m) /\ (j <= n => j \in 1..n)
    BY <1>1
  <2> HIDE DEF i, j
  <2>4. QED
    BY <2>1, <2>2, <2>3
<1>4. Counted(t, a, b, i, j, m, n)
  <2> HIDE DEF i, j
  <2>1. QED
    BY <1>1, CountedAlong
<1>5. " " \in Ops /\ "-" \in Ops /\ "+" \in Ops
  BY DEF Ops
<1>6. \/ KeepsLine(at, next, a, b, m, n) \/ DropsLine(at, next, a, b, t, m, n)
      \/ AddsLine(at, next, a, b, t, m, n) \/ AtEnd(at, next, m, n)
  BY <1>1, AdvanceMoves
<1>7. CASE KeepsLine(at, next, a, b, m, n)
  <2>0. i <= m /\ j <= n /\ a[i] = b[j]
    BY <1>7 DEF KeepsLine
  <2>1. next = Write(at, " ", a[i], i + 1, j + 1)
    BY <1>7 DEF KeepsLine
  <2> HIDE DEF i, j
  <2>2. Writes(at, next, " ", a[i], i + 1, j + 1, m, n, S)
    BY <1>1, <1>3, <1>5, <2>0, <2>1, Written
  <2>21. /\ next \in Walks(m, n, S) /\ next.i = i + 1 /\ next.j = j + 1
         /\ Line(" ", a[i]) \in LinesOf(S) /\ next.lines = More(at.lines, Line(" ", a[i]))
    BY <2>2 DEF Writes
  <2>22. Reads(at.lines, next.lines, " ", a[i])
    BY <1>1, <1>3, <1>5, <2>0, <2>21, WrittenReads
  <2>3. /\ Side(next.lines, "+") = More(plus, a[i]) /\ Side(next.lines, "-") = More(minus, a[i])
        /\ kept \in Nat /\ Cardinality(Kept(next.lines)) = kept + 1
    BY <2>22 DEF Reads
  <2>31. kept \in Nat
    BY <2>3
  <2> HIDE DEF plus, minus, kept
  <2>4. IsBefore(More(plus, a[i]), a, i + 1, S)
    BY <1>2, <1>3, <2>0, BeforeMore
  <2>5. IsBefore(More(minus, b[j]), b, j + 1, S)
    BY <1>2, <1>3, <2>0, BeforeMore
  <2>6. (kept + 1) + t[i + 1][j + 1] = t[1][1]
    <3> DEFINE y == t[i + 1][j + 1]
    <3>1. y \in Nat /\ t[i][j] = y + 1
      BY <1>4, <2>0 DEF Counted
    <3> HIDE DEF y
    <3>2. (kept + 1) + y = kept + (y + 1)
      BY <2>31, <3>1
    <3>3. QED
      BY <1>2, <3>1, <3>2 DEF y
  <2>7. (i + 1) + (j + 1) >= (k + 1) + 2 \/ (i + 1 = m + 1 /\ j + 1 = n + 1)
    BY <1>1, <1>2, <2>0
  <2>8. QED
    BY <2>0, <2>21, <2>3, <2>4, <2>5, <2>6, <2>7 DEF Walking
<1>8. CASE DropsLine(at, next, a, b, t, m, n)
  <2>0. i <= m /\ (j <= n => a[i] # b[j] /\ t[i + 1][j] >= t[i][j + 1])
    BY <1>8 DEF DropsLine
  <2>1. next = Write(at, "-", a[i], i + 1, j)
    BY <1>8 DEF DropsLine
  <2> HIDE DEF i, j
  <2>2. Writes(at, next, "-", a[i], i + 1, j, m, n, S)
    BY <1>1, <1>3, <1>5, <2>0, <2>1, Written
  <2>21. /\ next \in Walks(m, n, S) /\ next.i = i + 1 /\ next.j = j
         /\ Line("-", a[i]) \in LinesOf(S) /\ next.lines = More(at.lines, Line("-", a[i]))
    BY <2>2 DEF Writes
  <2>22. Reads(at.lines, next.lines, "-", a[i])
    BY <1>1, <1>3, <1>5, <2>0, <2>21, WrittenReads
  <2>3. /\ Side(next.lines, "+") = More(plus, a[i]) /\ Side(next.lines, "-") = minus
        /\ kept \in Nat /\ Cardinality(Kept(next.lines)) = kept + 0
    BY <2>22 DEF Reads
  <2>31. kept \in Nat
    BY <2>3
  <2> HIDE DEF plus, minus, kept
  <2>4. IsBefore(More(plus, a[i]), a, i + 1, S)
    BY <1>2, <1>3, <2>0, BeforeMore
  <2>5. (kept + 0) + t[i + 1][j] = t[1][1]
    <3>1. t[i][j] = t[i + 1][j]
      BY <1>4, <2>0 DEF Counted
    <3>2. QED
      BY <1>2, <2>31, <3>1
  <2>6. (i + 1) + j >= (k + 1) + 2 \/ (i + 1 = m + 1 /\ j = n + 1)
    BY <1>1, <1>2, <2>0
  <2>7. QED
    BY <1>2, <2>21, <2>3, <2>4, <2>5, <2>6 DEF Walking
<1>9. CASE AddsLine(at, next, a, b, t, m, n)
  <2>0. j <= n /\ (i <= m => a[i] # b[j] /\ t[i + 1][j] < t[i][j + 1])
    BY <1>9 DEF AddsLine
  <2>1. next = Write(at, "+", b[j], i, j + 1)
    BY <1>9 DEF AddsLine
  <2> HIDE DEF i, j
  <2>2. Writes(at, next, "+", b[j], i, j + 1, m, n, S)
    BY <1>1, <1>3, <1>5, <2>0, <2>1, Written
  <2>21. /\ next \in Walks(m, n, S) /\ next.i = i /\ next.j = j + 1
         /\ Line("+", b[j]) \in LinesOf(S) /\ next.lines = More(at.lines, Line("+", b[j]))
    BY <2>2 DEF Writes
  <2>22. Reads(at.lines, next.lines, "+", b[j])
    BY <1>1, <1>3, <1>5, <2>0, <2>21, WrittenReads
  <2>3. /\ Side(next.lines, "+") = plus /\ Side(next.lines, "-") = More(minus, b[j])
        /\ kept \in Nat /\ Cardinality(Kept(next.lines)) = kept + 0
    BY <2>22 DEF Reads
  <2>31. kept \in Nat
    BY <2>3
  <2> HIDE DEF plus, minus, kept
  <2>4. IsBefore(More(minus, b[j]), b, j + 1, S)
    BY <1>2, <1>3, <2>0, BeforeMore
  <2>5. (kept + 0) + t[i][j + 1] = t[1][1]
    <3>1. t[i][j] = t[i][j + 1]
      BY <1>4, <2>0 DEF Counted
    <3>2. QED
      BY <1>2, <2>31, <3>1
  <2>6. i + (j + 1) >= (k + 1) + 2 \/ (i = m + 1 /\ j + 1 = n + 1)
    BY <1>1, <1>2, <2>0
  <2>7. QED
    BY <1>2, <2>21, <2>3, <2>4, <2>5, <2>6 DEF Walking
<1>10. CASE AtEnd(at, next, m, n)
  <2>1. next = at /\ i = m + 1 /\ j = n + 1
    BY <1>1, <1>10 DEF AtEnd
  <2>2. QED
    BY <2>1 DEF Walking
<1>11. QED
  BY <1>6, <1>7, <1>8, <1>9, <1>10

WalkStart == [i |-> 1, j |-> 1, lines |-> <<>>]

LEMMA WalkStarts ==
  ASSUME NEW S, NEW a \in Seq(S), NEW b \in Seq(S), NEW m \in Nat, m = Len(a),
         NEW n \in Nat, n = Len(b), NEW t, IsCommon(t, a, b, m, n)
  PROVE  Walking(WalkStart, 0, a, b, t, m, n, S)
<1>1. 1 \in 1..m + 1 /\ 1 \in 1..n + 1 /\ 1 + 1 >= 0 + 2 /\ <<>> \in Seq(LinesOf(S))
  OBVIOUS
<1>2. WalkStart.i = 1 /\ WalkStart.j = 1 /\ WalkStart.lines = <<>>
  BY DEF WalkStart
<1>3. WalkStart \in Walks(m, n, S)
  BY <1>1 DEF WalkStart, Walks
<1>4. Side(<<>>, "+") = <<>> /\ Side(<<>>, "-") = <<>>
  BY SideEmpty
<1>5. IsBefore(<<>>, a, 1, S) /\ IsBefore(<<>>, b, 1, S)
  BY BeforeStart
<1>6. Cardinality(Kept(<<>>)) = 0
  <2>1. Kept(<<>>) = {}
    BY DEF Kept
  <2>2. QED
    BY <2>1, FS_EmptySet
<1>7. 0 + t[1][1] = t[1][1]
  <2>1. Bordered(t, m, n)
    BY CommonBordered
  <2>2. t[1][1] \in Nat
    BY <1>1, <2>1 DEF Bordered
  <2>3. QED
    BY <2>2
<1>8. QED
  BY <1>1, <1>2, <1>3, <1>4, <1>5, <1>6, <1>7 DEF Walking

\* The walk of lineDiff is defined, and at its end both texts are.
WalksThrough(at, a, b, m, n, S) ==
  Walking(at, m + n, a, b, Common(a, b), m, n, S) /\ lineDiff(a, b) = at.lines

LEMMA WalkDefined ==
  ASSUME NEW S, NEW a \in Seq(S), NEW b \in Seq(S), NEW m \in Nat, m = Len(a),
         NEW n \in Nat, n = Len(b)
  PROVE  \E at : WalksThrough(at, a, b, m, n, S)
<1> DEFINE t == Common(a, b)
           p == m + n
           X == Walks(m, n, S)
<1>1. IsCommon(t, a, b, m, n)
  BY CommonDefined
<1>2. p \in Nat /\ \A k \in 1..p : k \in 0..p /\ k - 1 \in 0..p /\ k - 1 \in Nat /\ ~(k = 0)
                                   /\ (k - 1) + 1 = k
  OBVIOUS
<1> HIDE DEF t, p
<1> DEFINE Good(k) == {at \in X : Walking(at, k, a, b, t, m, n, S)}
<1>3. \A k \in Nat : \A at \in Good(k) : Advance(a, b, t, at) \in Good(k + 1)
  <2>1. ASSUME NEW k \in Nat, NEW at, Walking(at, k, a, b, t, m, n, S)
        PROVE  Walking(Advance(a, b, t, at), k + 1, a, b, t, m, n, S)
    BY <1>1, <2>1, WalkStep
  <2>2. \A at, k : Walking(at, k, a, b, t, m, n, S) => at \in X
    BY DEF Walking
  <2>3. QED
    BY <2>1, <2>2
<1>4. WalkStart \in Good(0)
  <2>1. Walking(WalkStart, 0, a, b, t, m, n, S)
    BY <1>1, WalkStarts
  <2>2. QED
    BY <2>1 DEF Walking
<1> DEFINE G == [k : 0..p, at : X]
           Follow(k, at) == IF at \in Good(k - 1) THEN Advance(a, b, t, at) ELSE WalkStart
<1>5. \A k \in 1..p, at \in X : Follow(k, at) \in X
  <2> DEFINE A(at) == Advance(a, b, t, at)
  <2> HIDE DEF A
  <2>1. \A k \in Nat : \A at \in Good(k) : A(at) \in X
    BY <1>3 DEF A
  <2>2. QED
    BY <1>2, <1>4, <2>1 DEF A
<1>6. PICK f : f \in [0..p -> X] /\ f[0] = WalkStart /\ \A k \in 1..p : f[k] = Follow(k, f[k - 1])
  <2> DEFINE step == [k \in 1..p |-> [at \in X |-> Follow(k, at)]]
  <2> HIDE DEF Good, X, Follow
  <2>1. Steps(step, p, X)
    BY <1>5 DEF Steps
  <2>2. \A k \in 1..p, at \in X : step[k][at] = Follow(k, at)
    OBVIOUS
  <2>3. WalkStart \in X
    BY <1>4 DEF Good
  <2> HIDE DEF step
  <2>4. PICK f : RunOf(f, step, p, X, WalkStart)
    BY <1>2, <2>1, <2>3, StepByStep
  <2>5. \A k \in 1..p : f[k - 1] \in X
    BY <1>2, <2>4 DEF RunOf
  <2>6. f \in [0..p -> X] /\ f[0] = WalkStart /\ \A k \in 1..p : f[k] = Follow(k, f[k - 1])
    BY <2>2, <2>4, <2>5 DEF RunOf
  <2>7. QED
    BY <2>6
<1>7. \A k \in 0..p : f[k] \in Good(k)
  <2> DEFINE T == {k \in 0..p : f[k] \in Good(k)}
  <2> HIDE DEF Good
  <2>1. 0 \in T
    BY <1>2, <1>4, <1>6
  <2>2. ASSUME NEW k \in 1..p, k - 1 \in T PROVE k \in T
    <3>1. f[k - 1] \in Good(k - 1) /\ f[k] = Advance(a, b, t, f[k - 1])
      BY <1>6, <2>2
    <3>2. Advance(a, b, t, f[k - 1]) \in Good((k - 1) + 1)
      BY <1>2, <1>3, <3>1
    <3>3. QED
      BY <1>2, <3>1, <3>2
  <2>3. \A k \in 1..p : k - 1 \in T => k \in T
    BY <2>2
  <2> HIDE DEF T
  <2>4. \A k \in 0..p : k \in T
    BY <1>2, <2>1, <2>3, Upwards
  <2>5. QED
    BY <2>4 DEF T
<1> DEFINE Rec(g, k) == IF k = 0 THEN WalkStart ELSE Advance(a, b, t, g[k - 1])
<1> HIDE DEF Good, X
<1>8. \A k \in 1..p : f[k] = Advance(a, b, t, f[k - 1])
  BY <1>2, <1>6, <1>7
<1>9. f = [k \in 0..p |-> Rec(f, k)]
  BY <1>2, <1>6, <1>8
<1>10. PICK g : g = [k \in 0..p |-> Rec(g, k)] /\ lineDiff(a, b) = g[p].lines
  <2> DEFINE g == CHOOSE h : h = [k \in 0..p |-> Rec(h, k)]
  <2>1. lineDiff(a, b) = g[p].lines
    BY DEF lineDiff, WalkStart, t, p
  <2>2. g = [k \in 0..p |-> Rec(g, k)]
    <3> HIDE DEF Rec
    <3>1. QED
      BY <1>9
  <2> HIDE DEF g
  <2>3. QED
    BY <2>1, <2>2
<1>11. \A k \in 0..p : g[k] = f[k]
  <2> DEFINE T == {k \in 0..p : g[k] = f[k]}
  <2>1. 0 \in T
    BY <1>2, <1>9, <1>10
  <2>2. \A k \in 1..p : k - 1 \in T => k \in T
    BY <1>2, <1>9, <1>10
  <2> HIDE DEF T
  <2>3. \A k \in 0..p : k \in T
    BY <1>2, <2>1, <2>2, Upwards
  <2>4. QED
    BY <2>3 DEF T
<1>12. p \in 0..p
  BY <1>2
<1>13. Walking(f[p], p, a, b, t, m, n, S) /\ lineDiff(a, b) = f[p].lines
  BY <1>7, <1>10, <1>11, <1>12 DEF Good
<1>14. WalksThrough(f[p], a, b, m, n, S)
  BY <1>13 DEF t, p, WalksThrough
<1>15. QED
  BY <1>14

\* A line difference reads as both texts, whatever they are, and keeps as many
\* lines as any difference can: lineDiff, its table and its walk.
THEOREM DiffAlwaysExact ==
  ASSUME NEW S, NEW a \in Seq(S), NEW b \in Seq(S)
  PROVE  DiffIsExact(a, b)
<1>1. PICK m \in Nat, n \in Nat : m = Len(a) /\ n = Len(b)
  BY LenProperties
<1> DEFINE t == Common(a, b)
           lines == lineDiff(a, b)
<1>2. IsCommon(t, a, b, m, n)
  BY <1>1, CommonDefined
<1>21. PICK at : WalksThrough(at, a, b, m, n, S)
  BY <1>1, WalkDefined
<1>3. Walking(at, m + n, a, b, t, m, n, S) /\ lines = at.lines
  BY <1>21 DEF WalksThrough
<1> HIDE DEF t
<1>4. /\ at.i \in 1..m + 1 /\ at.j \in 1..n + 1
      /\ at.i + at.j >= (m + n) + 2 \/ (at.i = m + 1 /\ at.j = n + 1)
  BY <1>3 DEF Walking, Walks
<1>5. at.i = m + 1 /\ at.j = n + 1
  BY <1>4
<1>6. IsBefore(Side(lines, "+"), a, m + 1, S) /\ IsBefore(Side(lines, "-"), b, n + 1, S)
  BY <1>3, <1>5 DEF Walking
<1>7. Side(lines, "+") = a /\ Side(lines, "-") = b
  <2> HIDE DEF lines
  <2>1. QED
    BY <1>1, <1>6, BeforeEnd
<1>8. Cardinality(Kept(lines)) = t[1][1]
  <2>1. Cardinality(Kept(lines)) + t[m + 1][n + 1] = t[1][1]
    BY <1>3, <1>5 DEF Walking
  <2>2. t[m + 1][n + 1] = 0
    <3>1. Bordered(t, m, n)
      BY <1>2, CommonBordered
    <3>2. n + 1 \in 1..n + 1
      OBVIOUS
    <3>3. QED
      BY <3>1, <3>2 DEF Bordered
  <2>3. Cardinality(Kept(lines)) \in Nat
    <3>1. at.lines \in Seq(LinesOf(S))
      BY <1>3 DEF Walking, Walks
    <3>2. IsFiniteSet(DOMAIN at.lines)
      <4>1. PICK l \in Nat : DOMAIN at.lines = 1..l
        BY <3>1, LenProperties
      <4>2. IsFiniteSet(1..l)
        BY FS_Interval
      <4>3. QED
        BY <4>1, <4>2
    <3>3. Kept(at.lines) \subseteq DOMAIN at.lines
      BY DEF Kept
    <3>4. IsFiniteSet(Kept(at.lines))
      BY <3>2, <3>3, FS_Subset
    <3>5. QED
      BY <1>3, <3>4, FS_CardinalityType
  <2>4. QED
    BY <2>1, <2>2, <2>3
<1>9. LongestCommon(a, b) = t[1][1]
  BY <1>1, <1>2, CornerIsLongest
<1>10. QED
  BY <1>7, <1>8, <1>9 DEF DiffIsExact

\* Whatever two archives hold, reading their difference over the old one gives
\* the new one: SkillDiff.
THEOREM PatchedAlways ==
  ASSUME NEW S, NEW F, NEW G, NEW old \in [F -> Seq(S)], NEW new \in [G -> Seq(S)]
  PROVE  Patched(old, SkillDiff(old, new)) = new
<1> DEFINE d == SkillDiff(old, new)
           E == {q \in DOMAIN d : d[q].status # "removed"}
<1>0. DOMAIN old = F /\ DOMAIN new = G
  OBVIOUS
<1>1. DOMAIN d = F \cup G
  BY <1>0 DEF SkillDiff
<1>2. \A p \in F \cup G :
        d[p] = CASE p \notin G -> [status |-> "removed", lines |-> lineDiff(old[p], <<>>)]
                 [] p \notin F -> [status |-> "added", lines |-> lineDiff(<<>>, new[p])]
                 [] OTHER -> IF old[p] = new[p] THEN [status |-> "unchanged", lines |-> <<>>]
                             ELSE [status |-> "modified", lines |-> lineDiff(old[p], new[p])]
  BY <1>0 DEF SkillDiff
<1>3. \A a, b \in Seq(S) : Side(lineDiff(a, b), "-") = b
  BY DiffAlwaysExact DEF DiffIsExact
<1> HIDE DEF d
<1>4. ASSUME NEW p \in F \cup G, p \notin G
      PROVE  d[p].status = "removed"
  <2>1. d[p] = [status |-> "removed", lines |-> lineDiff(old[p], <<>>)]
    BY <1>2, <1>4
  <2>2. QED
    BY <2>1
<1>5. ASSUME NEW p \in G
      PROVE  /\ d[p].status # "removed"
             /\ (IF d[p].status = "unchanged" THEN old[p] ELSE Side(d[p].lines, "-")) = new[p]
  <2>1. new[p] \in Seq(S) /\ <<>> \in Seq(S)
    OBVIOUS
  <2>2. CASE p \notin F
    <3>1. d[p] = [status |-> "added", lines |-> lineDiff(<<>>, new[p])]
      BY <1>2, <2>2
    <3>2. d[p].status = "added" /\ d[p].lines = lineDiff(<<>>, new[p])
      BY <3>1
    <3>3. Side(d[p].lines, "-") = new[p]
      BY <1>3, <2>1, <3>2
    <3>4. QED
      BY <3>2, <3>3
  <2>3. CASE p \in F /\ old[p] = new[p]
    <3>1. d[p] = [status |-> "unchanged", lines |-> <<>>]
      BY <1>2, <2>3
    <3>2. d[p].status = "unchanged"
      BY <3>1
    <3>3. QED
      BY <2>3, <3>2
  <2>4. CASE p \in F /\ old[p] # new[p]
    <3>1. d[p] = [status |-> "modified", lines |-> lineDiff(old[p], new[p])]
      BY <1>2, <2>4
    <3>2. d[p].status = "modified" /\ d[p].lines = lineDiff(old[p], new[p])
      BY <3>1
    <3>3. old[p] \in Seq(S)
      BY <2>4
    <3>4. Side(d[p].lines, "-") = new[p]
      BY <1>3, <2>1, <3>2, <3>3
    <3>5. QED
      BY <3>2, <3>4
  <2>5. QED
    BY <2>2, <2>3, <2>4
<1>6. E = G
  BY <1>1, <1>4, <1>5
<1>7. Patched(old, d) = [p \in E |-> IF d[p].status = "unchanged" THEN old[p] ELSE Side(d[p].lines, "-")]
  BY DEF Patched
<1> HIDE DEF E
<1>8. Patched(old, d) = [p \in G |-> new[p]]
  BY <1>5, <1>6, <1>7
<1>9. QED
  BY <1>8 DEF d

-----------------------------------------------------------------------------
(***************************************************************************)
(* The instance that TLC runs: its inputs, and the two calculations on     *)
(* each of them.                                                           *)
(***************************************************************************)
InputKnown == input = None \/ input \in Inputs

LEMMA InputStays == MCSpec => []InputKnown
<1>1. MCInit => InputKnown
  BY DEF MCInit, InputKnown
<1>2. ASSUME InputKnown, [MCNext]_<<vars, input>>
      PROVE  InputKnown'
  BY <1>2 DEF MCNext, Pick, InputKnown
<1>3. QED
  BY <1>1, <1>2, PTL DEF MCSpec

\* Picking an input is no step of the migration.
LEMMA InstanceMigrates == MCSpec => Spec
<1>1. MCInit => Init
  BY DEF MCInit
<1>2. [MCNext]_<<vars, input>> => [Next]_vars
  BY DEF MCNext, Pick, vars
<1>3. QED
  BY <1>1, <1>2, PTL DEF MCSpec, Spec

LEMMA NearParsed == Near \subseteq Parsed
<1>1. MaxInt \in Nat /\ 2 <= MaxInt /\ Beyond = MaxInt + 1
  BY VersionAssumption DEF Beyond
<1>2. \A a, b, c \in 0..2 : <<a, b, c>> \in [1..3 -> 0..Beyond]
  BY <1>1
<1>3. [nums : (0..1) \X (0..1) \X (0..2), pre : {FALSE}] \subseteq Parsed
  <2> DEFINE Triples == (0..1) \X (0..1) \X (0..2)
  <2>1. \A x \in Triples : x \in [1..3 -> 0..Beyond]
    <3>1. \A x \in Triples : x = <<x[1], x[2], x[3]>> /\ x[1] \in 0..2 /\ x[2] \in 0..2 /\ x[3] \in 0..2
      OBVIOUS
    <3>2. QED
      BY <1>2, <3>1
  <2> DEFINE Numbers == [1..3 -> 0..Beyond]
  <2>2. Parsed = [nums : Numbers, pre : BOOLEAN]
    BY DEF Parsed
  <2> HIDE DEF Numbers
  <2>3. ASSUME NEW r \in [nums : Triples, pre : {FALSE}]
        PROVE  r \in [nums : Numbers, pre : BOOLEAN]
    <3>1. PICK x \in Triples : r = [nums |-> x, pre |-> FALSE]
      OBVIOUS
    <3>2. x \in Numbers
      BY <2>1 DEF Numbers
    <3> HIDE DEF Triples
    <3>3. QED
      BY <3>1, <3>2
  <2>4. QED
    BY <2>2, <2>3
<1>4. [nums |-> <<1, 0, 1>>, pre |-> TRUE] \in Parsed
  BY <1>1 DEF Parsed
<1>5. Plain(Beyond, 0, 1) \in Parsed
  BY <1>1 DEF Plain, Parsed
<1>6. QED
  BY <1>3, <1>4, <1>5 DEF Near

LEMMA NearFinite == IsFiniteSet(Near)
<1>0. IsFiniteSet(0..1) /\ IsFiniteSet(0..2)
  <2>1. \A n \in Nat : IsFiniteSet(0..n)
    BY FS_Interval
  <2>2. QED
    BY <2>1
<1> DEFINE Pairs == (0..1) \X ((0..1) \X (0..2))
           Triples == (0..1) \X (0..1) \X (0..2)
           Some == [nums : Triples, pre : {FALSE}]
           g == [x \in Pairs |-> [nums |-> <<x[1], x[2][1], x[2][2]>>, pre |-> FALSE]]
<1>1. IsFiniteSet(Pairs)
  <2>2. IsFiniteSet((0..1) \X (0..2))
    BY <1>0, FS_Product
  <2>3. QED
    BY <1>0, <2>2, FS_Product
<1>2. g \in Surjection(Pairs, Some)
  <2>1. g \in [Pairs -> Some]
    OBVIOUS
  <2>2. \A y \in Some : \E x \in Pairs : g[x] = y
    <3>1. SUFFICES ASSUME NEW y \in Some PROVE \E x \in Pairs : g[x] = y
      OBVIOUS
    <3>2. PICK a \in 0..1, b \in 0..1, c \in 0..2 : y = [nums |-> <<a, b, c>>, pre |-> FALSE]
      <4>1. PICK x \in Triples : y = [nums |-> x, pre |-> FALSE]
        OBVIOUS
      <4>2. x = <<x[1], x[2], x[3]>> /\ x[1] \in 0..1 /\ x[2] \in 0..1 /\ x[3] \in 0..2
        OBVIOUS
      <4>3. QED
        BY <4>1, <4>2, Zenon
    <3>3. <<a, <<b, c>>>> \in Pairs /\ g[<<a, <<b, c>>>>] = y
      BY <3>2
    <3>4. QED
      BY <3>3
  <2> HIDE DEF g, Pairs, Some
  <2>3. QED
    BY <2>1, <2>2 DEF Surjection
<1>3. IsFiniteSet(Some)
  <2> HIDE DEF Some, Pairs, g
  <2>1. QED
    BY <1>1, <1>2, FS_Surjection
<1> DEFINE u == [nums |-> <<1, 0, 1>>, pre |-> TRUE]
           v == Plain(Beyond, 0, 1)
<1>4. Near = (Some \cup {u}) \cup {v}
  BY DEF Near
<1> HIDE DEF Some, u, v
<1>5. IsFiniteSet(Some \cup {u})
  BY <1>3, FS_AddElement
<1>6. QED
  BY <1>4, <1>5, FS_AddElement

\* The edits of every run move up, whatever version is blocked.
THEOREM EditsMoveUpHolds == MCSpec => []EditsMoveUp
<1>1. InputKnown => EditsMoveUp
  <2>1. SUFFICES ASSUME input \in Inputs, input.kind = "edit", NEW b \in Near
                 PROVE  EditsMoveUpFrom(input.active, input.taken, {b})
    BY DEF InputKnown, EditsMoveUp
  <2>2. input.active \in Near /\ \E n \in 0..3 : input.taken \in kSubset(n, Near)
    <3>1. "edit" # "diff"
      OBVIOUS
    <3>2. input \in [kind : {"edit"}, active : Near, taken : UNION {kSubset(n, Near) : n \in 0..3}]
      BY <2>1, <3>1 DEF Inputs
    <3>3. input.taken \in UNION {kSubset(n, Near) : n \in 0..3}
      BY <3>2
    <3>4. QED
      BY <3>2, <3>3
  <2>3. input.active \in Parsed
    BY <2>2, NearParsed
  <2>4. IsFiniteSet(input.taken)
    <3>1. input.taken \in SUBSET Near
      BY <2>2 DEF kSubset
    <3>2. QED
      BY <3>1, NearFinite, FS_Subset
  <2>5. {b} \in SUBSET AnyVersion
    BY NearParsed DEF AnyVersion
  <2>6. QED
    BY <2>3, <2>4, <2>5, EditsMoveUpAlways
<1>2. QED
  BY InputStays, <1>1, PTL

\* The differences of every run are exact, of two texts and of two archives.
THEOREM DiffsAreExactHolds == MCSpec => []DiffsAreExact
<1>1. InputKnown => DiffsAreExact
  <2>1. SUFFICES ASSUME input \in Inputs, input.kind = "diff"
                 PROVE  DiffsAreExact
    BY DEF InputKnown, DiffsAreExact
  <2> DEFINE S == {"x", "y"}
             F == {"changed", "removed"}
             G == {"changed", "added"}
             old == [p \in F |-> input.old]
             new == [p \in G |-> input.new]
  <2>2. input.old \in Seq(S) /\ input.new \in Seq(S)
    <3>1. "edit" # "diff"
      OBVIOUS
    <3>2. input \in [kind : {"diff"}, old : Text, new : Text]
      BY <2>1, <3>1 DEF Inputs
    <3>3. \A w \in Text : w \in Seq(S)
      <4> HIDE DEF S
      <4>1. \A n \in 0..3 : \A w \in [1..n -> S] : w \in Seq(S)
        BY SeqDef
      <4>2. Text = UNION {[1..n -> S] : n \in 0..3}
        BY DEF Text, S
      <4>3. \A w \in Text : \E n \in 0..3 : w \in [1..n -> S]
        BY <4>2
      <4>4. QED
        BY <4>1, <4>3
    <3>4. QED
      BY <3>2, <3>3
  <2>3. old \in [F -> Seq(S)] /\ new \in [G -> Seq(S)]
    BY <2>2
  <2>4. DiffIsExact(input.old, input.new)
    BY <2>2, DiffAlwaysExact
  <2> HIDE DEF S, F, G
  <2>5. Patched(old, SkillDiff(old, new)) = new
    <3> HIDE DEF old, new
    <3>1. QED
      BY <2>3, PatchedAlways, ZenonT(90)
  <2>6. QED
    BY <2>4, <2>5 DEF DiffsAreExact, F, G
<1>2. QED
  BY InputStays, <1>1, PTL
=============================================================================
