---------------------------- MODULE ScanPipeline ----------------------------
(***************************************************************************)
(* Scans and reloads of patterns in one server                             *)
(* (internal/scanner/scanner.go, stage_llm.go, and the handlers of         *)
(* internal/api/handlers/skill.go that call them).  The metrics are left   *)
(* out.                                                                    *)
(*                                                                         *)
(* A scan holds the read lock of the pipeline from beginning to end, a     *)
(* reload takes the write lock.  The lock is Go's RWMutex: a writer that   *)
(* waits keeps new readers out, and lets those that waited for it in       *)
(* before the next writer.  The last tier waits for a slot of the LLM      *)
(* semaphore; the timeout of the scan ends that wait and the call.         *)
(***************************************************************************)
EXTENDS ScanStages

CONSTANTS
  Scan,        \* goroutines that scan: the worker, the validate endpoint
  Reload,      \* goroutines of the endpoint that sets the patterns
  Archive,     \* the archives that are scanned
  Content,     \* the files of each
  Overlays,    \* the pattern files that are sent
  Defaults,    \* the embedded patterns
  StartFile,   \* the patterns file of the configuration, or None
  Feed,        \* the packages of the OSSF feed
  LLMEnabled,  \* whether there is a third tier
  MaxConcurrent, \* slots of the LLM stage
  None

ASSUME ScanAssumption ==
  /\ IsFiniteSet(Scan) /\ Scan \cap Reload = {} /\ None \notin Scan \cup Reload
  /\ MaxConcurrent \in Nat \ {0}
  /\ LLMEnabled \in BOOLEAN

ASSUME PatternsAssumption ==
  /\ DOMAIN Defaults = DOMAIN NoPatterns
  /\ \A p \in {Defaults} \cup ((Overlays \cup {StartFile}) \ {None}) : p.popular \subseteq PackageName
  /\ \A a \in Archive : \A f \in Content[a] : \A d \in f.deps : d.name \in PackageName

VARIABLES
  pc,        \* where each goroutine is
  archive,   \* the archive of a scan
  findings,  \* result.Findings
  tier,      \* result.Tier
  outcome,   \* how a scan ended: "pass", "block", "error"; "none" before
  judged,    \* what the LLM said, None when it was not asked
  expired,   \* the scans whose context is over
  readers,   \* the scans that hold the read lock
  queued,    \* the scans in RLock that wait for a writer
  writer,    \* the reload that holds or waits for the write lock, or None
  slots,     \* ls.semaphore
  overlay,   \* the overlay of a reload in progress
  custom,    \* p.customPatterns
  tier1,     \* the patterns of the stages of tier 1
  tier2,     \* and of tier 2
  reloaded   \* whether a reload has replaced what the server started with

scanVars == <<archive, findings, tier, outcome, judged>>
lockVars == <<readers, queued, writer>>
patternVars == <<overlay, custom, tier1, tier2, reloaded>>
vars == <<pc, scanVars, expired, lockVars, slots, patternVars>>

Outcomes == {"none", "pass", "block", "error"}
Verdicts == {"benign", "threat", "unsure"}

(* loadPatterns and SetCustomPatterns: the embedded patterns, what is laid *)
(* over them, and the feed.                                                *)
Compiled(over) ==
  LET base == IF over = None THEN Defaults ELSE mergePatternFiles(Defaults, OverlayLists(over))
  IN [base EXCEPT !.blocklist = @ \cup Feed]

Init ==
  /\ pc = [g \in Scan \cup Reload |-> "idle"]
  /\ archive = [s \in Scan |-> None]
  /\ findings = [s \in Scan |-> {}]
  /\ tier = [s \in Scan |-> 0]
  /\ outcome = [s \in Scan |-> "none"]
  /\ judged = [s \in Scan |-> None]
  /\ expired = {}
  /\ readers = {} /\ queued = {} /\ writer = None
  /\ slots = {}
  /\ overlay = [r \in Reload |-> None]
  /\ custom = None
  /\ tier1 = Compiled(StartFile) /\ tier2 = Compiled(StartFile)
  /\ reloaded = FALSE

-----------------------------------------------------------------------------
(* Scan *)

(* The locals of a goroutine that returned.                                *)
Forget(s) ==
  /\ archive' = [archive EXCEPT ![s] = None]
  /\ findings' = [findings EXCEPT ![s] = {}]
  /\ tier' = [tier EXCEPT ![s] = 0]
  /\ outcome' = [outcome EXCEPT ![s] = "none"]
  /\ judged' = [judged EXCEPT ![s] = None]

(* The endpoint or the worker checks the zip file, and only a safe one is  *)
(* given to the pipeline.                                                  *)
Arrive(s) ==
  /\ pc[s] = "idle"
  /\ \E a \in Archive :
       /\ CheckZIPSafety(Content[a])
       /\ archive' = [archive EXCEPT ![s] = a]
  /\ pc' = [pc EXCEPT ![s] = "rlock"]
  /\ UNCHANGED <<findings, tier, outcome, judged, expired, lockVars, slots, patternVars>>

(* p.mu.RLock: behind a writer, wait until it hands the lock over.         *)
RLock(s) ==
  /\ pc[s] = "rlock" /\ s \notin queued \cup readers
  /\ IF writer = None
     THEN readers' = readers \cup {s} /\ UNCHANGED queued
     ELSE queued' = queued \cup {s} /\ UNCHANGED readers
  /\ UNCHANGED <<pc, scanVars, expired, writer, slots, patternVars>>

(* context.WithTimeout starts once the lock is held.                       *)
Expire(s) ==
  /\ s \in readers /\ s \notin expired
  /\ expired' = expired \cup {s}
  /\ UNCHANGED <<pc, scanVars, lockVars, slots, patternVars>>

(* The scan ends; the lock is given back last.                             *)
End(s, o) ==
  /\ outcome' = [outcome EXCEPT ![s] = o]
  /\ pc' = [pc EXCEPT ![s] = "unlock"]

(* A tier found the set f: go on, or end when one of its findings blocks.  *)
AfterTier(s, f, next) ==
  /\ findings' = [findings EXCEPT ![s] = @ \cup f]
  /\ IF hasBlock(f) THEN End(s, "block")
     ELSE /\ pc' = [pc EXCEPT ![s] = next]
          /\ UNCHANGED outcome

Fail(s) == End(s, "error") /\ UNCHANGED findings

runTier1(s) ==
  /\ pc[s] = "rlock" /\ s \in readers
  /\ tier' = [tier EXCEPT ![s] = 1]
  /\ IF s \in expired \/ Tier1Fails(Content[archive[s]]) THEN Fail(s)
     ELSE AfterTier(s, Tier1(Content[archive[s]], tier1), "tier2")
  /\ UNCHANGED <<archive, judged, expired, lockVars, slots, patternVars>>

runTier2(s) ==
  /\ pc[s] = "tier2"
  /\ tier' = [tier EXCEPT ![s] = 2]
  /\ IF s \in expired \/ Tier2Fails(Content[archive[s]]) THEN Fail(s)
     ELSE AfterTier(s, Tier2(Content[archive[s]], tier2), "flags")
  /\ UNCHANGED <<archive, judged, expired, lockVars, slots, patternVars>>

(* Flags of either tier call for the third, when there is one.             *)
Escalate(s) ==
  /\ pc[s] = "flags"
  /\ IF collectFlags(findings[s]) # {} /\ LLMEnabled
     THEN /\ tier' = [tier EXCEPT ![s] = 3]
          /\ pc' = [pc EXCEPT ![s] = "slot"]
          /\ UNCHANGED outcome
     ELSE End(s, "pass") /\ UNCHANGED tier
  /\ UNCHANGED <<archive, findings, judged, expired, lockVars, slots, patternVars>>

(* The select of the LLM stage: a slot, or the end of the context.         *)
AcquireSlot(s) ==
  /\ pc[s] = "slot" /\ Cardinality(slots) < MaxConcurrent
  /\ slots' = slots \cup {s}
  /\ pc' = [pc EXCEPT ![s] = "llm"]
  /\ UNCHANGED <<scanVars, expired, lockVars, patternVars>>

(* Mutant: the stage waits for a slot regardless of the context.           *)
SlotTimeoutMissing(s) == FALSE /\ UNCHANGED vars

SlotTimeout(s) ==
  /\ pc[s] = "slot" /\ s \in expired
  /\ Fail(s)
  /\ UNCHANGED <<archive, tier, judged, expired, lockVars, slots, patternVars>>

(* Mutant: the slot is not given back when there is nothing to send.       *)
ReleaseSlotAfterCall(s) == slots' = IF collectContent(Content[archive[s]]) = {} THEN slots ELSE slots \ {s}

(* The stage returns and its deferred call gives the slot back.            *)
ReleaseSlot(s) == slots' = slots \ {s}

LLMFindings(v) ==
  CASE v = "benign" -> {}
    [] v = "threat" -> {[stage |-> "llm_analysis", severity |-> Block, file |-> ""]}
    [] v = "unsure" -> {[stage |-> "llm_analysis", severity |-> Flag, file |-> ""]}

(* callAPI and parseResponse: an answer that is validated, or an error     *)
(* (transport, status, JSON, canary, range of the confidence).             *)
LLMReturns(s) ==
  /\ pc[s] = "llm"
  /\ ReleaseSlot(s)
  /\ \/ /\ collectContent(Content[archive[s]]) = {}
        /\ End(s, "pass") /\ UNCHANGED <<findings, judged>>
     \/ /\ collectContent(Content[archive[s]]) # {} /\ s \notin expired
        /\ \E v \in Verdicts :
             /\ judged' = [judged EXCEPT ![s] = v]
             /\ findings' = [findings EXCEPT ![s] = @ \cup LLMFindings(v)]
             /\ End(s, IF hasBlock(LLMFindings(v)) THEN "block" ELSE "pass")
     \/ /\ collectContent(Content[archive[s]]) # {}
        /\ Fail(s) /\ UNCHANGED judged
  /\ UNCHANGED <<archive, tier, expired, lockVars, patternVars>>

(* The deferred calls: cancel, then RUnlock; the result is the caller's.   *)
RUnlock(s) ==
  /\ pc[s] = "unlock"
  /\ readers' = readers \ {s}
  /\ expired' = expired \ {s}
  /\ pc' = [pc EXCEPT ![s] = "idle"]
  /\ Forget(s)
  /\ UNCHANGED <<queued, writer, slots, patternVars>>

-----------------------------------------------------------------------------
(* ScannerSetPatterns, SetCustomPatterns *)

Send(r) ==
  /\ pc[r] = "idle"
  /\ \E o \in Overlays :
       /\ Accepted(o)
       /\ overlay' = [overlay EXCEPT ![r] = IF OverlayLists(o) = NoPatterns THEN None ELSE o]
  /\ pc' = [pc EXCEPT ![r] = "lock"]
  /\ UNCHANGED <<scanVars, expired, lockVars, slots, custom, tier1, tier2, reloaded>>

(* One that does not compile or is too long changes nothing.               *)
SendRejected(r) ==
  /\ pc[r] = "idle"
  /\ \E o \in Overlays : ~Accepted(o)
  /\ UNCHANGED vars

(* p.mu.Lock: first among writers, then wait for the readers to leave.     *)
Announce(r) ==
  /\ pc[r] = "lock" /\ writer = None
  /\ writer' = r
  /\ pc' = [pc EXCEPT ![r] = "drain"]
  /\ UNCHANGED <<scanVars, expired, readers, queued, slots, patternVars>>

(* Mutant: the write lock is announced but not waited for.                 *)
SwapTier1Early(r) ==
  /\ pc[r] = "drain"
  /\ custom' = overlay[r]
  /\ tier1' = Compiled(overlay[r])
  /\ pc' = [pc EXCEPT ![r] = "swap"]
  /\ UNCHANGED <<scanVars, expired, lockVars, slots, overlay, tier2, reloaded>>

SwapTier1(r) ==
  /\ pc[r] = "drain" /\ readers = {}
  /\ custom' = overlay[r]
  /\ tier1' = Compiled(overlay[r])
  /\ pc' = [pc EXCEPT ![r] = "swap"]
  /\ UNCHANGED <<scanVars, expired, lockVars, slots, overlay, tier2, reloaded>>

(* Mutant: the dependency stage keeps the lists it was built with.         *)
SwapTier2Forgotten(r) ==
  /\ pc[r] = "swap"
  /\ reloaded' = TRUE
  /\ readers' = readers \cup queued
  /\ queued' = {}
  /\ writer' = None
  /\ overlay' = [overlay EXCEPT ![r] = None]
  /\ pc' = [pc EXCEPT ![r] = "idle"]
  /\ UNCHANGED <<scanVars, expired, slots, custom, tier1, tier2>>

(* The second tier; then Unlock lets the readers in that waited.           *)
SwapTier2(r) ==
  /\ pc[r] = "swap"
  /\ tier2' = Compiled(overlay[r])
  /\ reloaded' = TRUE
  /\ readers' = readers \cup queued
  /\ queued' = {}
  /\ writer' = None
  /\ overlay' = [overlay EXCEPT ![r] = None]
  /\ pc' = [pc EXCEPT ![r] = "idle"]
  /\ UNCHANGED <<scanVars, expired, slots, custom, tier1>>

ScanStep(s) ==
  \/ RLock(s) \/ runTier1(s) \/ runTier2(s) \/ Escalate(s)
  \/ AcquireSlot(s) \/ SlotTimeout(s) \/ LLMReturns(s)
  \/ RUnlock(s)

ReloadStep(r) == SwapTier1(r) \/ SwapTier2(r)

Next ==
  \/ \E s \in Scan : Arrive(s) \/ Expire(s) \/ ScanStep(s)
  \/ \E r \in Reload : Send(r) \/ SendRejected(r) \/ Announce(r) \/ ReloadStep(r)

(* Every stage ends, the context has a deadline, and the lock of the       *)
(* writers is handed over in turn.                                         *)
Fairness ==
  /\ \A s \in Scan : WF_vars(ScanStep(s)) /\ WF_vars(Expire(s))
  /\ \A r \in Reload : SF_vars(Announce(r)) /\ WF_vars(ReloadStep(r))

Spec == Init /\ [][Next]_vars
FairSpec == Spec /\ Fairness

-----------------------------------------------------------------------------
(* Properties *)

Passed(s) == pc[s] = "unlock" /\ outcome[s] = "pass"

(* Types. *)
TypeOK ==
  /\ pc \in [Scan \cup Reload ->
       {"idle", "rlock", "tier2", "flags", "slot", "llm", "unlock",
        "lock", "drain", "swap"}]
  /\ tier \in [Scan -> 0..3] /\ outcome \in [Scan -> Outcomes]
  /\ judged \in [Scan -> Verdicts \cup {None}]
  /\ expired \subseteq readers /\ readers \subseteq Scan /\ queued \subseteq Scan
  /\ readers \cap queued = {}
  /\ writer \in Reload \cup {None} /\ slots \subseteq Scan
  /\ reloaded \in BOOLEAN

(* A scan fails closed: while one that has passed is being recorded, its   *)
(* archive has no blocking finding under the patterns in force, all of it  *)
(* could be read, and if it has a flag and there is a third tier, the LLM  *)
(* was asked and did not call it a threat (unless there was nothing to     *)
(* send).                                                                  *)
PassedIsClean ==
  \A s \in Scan : Passed(s) =>
    LET found == Tier1(Content[archive[s]], tier1) \cup Tier2(Content[archive[s]], tier2) IN
    /\ ~hasBlock(found)
    /\ ~Tier1Fails(Content[archive[s]])
    /\ (collectFlags(found) # {} /\ LLMEnabled /\ collectContent(Content[archive[s]]) # {})
         => judged[s] \in {"benign", "unsure"}

(* No archive passed that has a package of the list in force on a plain    *)
(* line of requirements.txt, or in quotes anywhere in package.json.        *)
BadPackagesBlocked ==
  \A s \in Scan : Passed(s) =>
    \A f \in Text(Content[archive[s]]) : \A d \in f.deps :
      \/ f.kind = "requirements" /\ d.form = "plain"
      \/ f.kind = "package_json" /\ d.form \in {"plain", "quoted"}
      => d.name \notin Compiled(IF reloaded THEN custom ELSE StartFile).blocklist

(* Whenever no reload holds the lock, both tiers use the patterns that     *)
(* GetCustomPatterns reports, over the defaults and the feed; before the   *)
(* first reload, those of the configured file.                             *)
OverlayInForce ==
  (\A r \in Reload : pc[r] # "swap") =>
    tier1 = tier2 /\ tier1 = Compiled(IF reloaded THEN custom ELSE StartFile)

(* What is within one and two edits of a name, by definition; an edit is   *)
(* one of a byte, so a letter with an accent is two away from its own.     *)
Misspelt == [q \in PackageName |-> [n \in 1..2 |-> Within(UTF8(q), n, Byte)]]

(* An archive that passed has no package one edit away from a popular one  *)
(* on a plain line of a manifest, or before a marker or a URL in           *)
(* requirements.txt, and none two edits away that was not reported.        *)
MisspeltReported ==
  \A s \in Scan : Passed(s) =>
    \A f \in {g \in Text(Content[archive[s]]) : g.kind \in Manifest} :
      \A d \in f.deps :
        /\ d.form = "plain" \/ (d.form = "marked" /\ f.kind = "requirements")
        /\ d.name \notin tier2.blocklist \cup tier2.popular
        =>
        /\ \A q \in tier2.popular : UTF8(d.name) \notin Misspelt[q][1]
        /\ (\E q \in tier2.popular : UTF8(d.name) \in Misspelt[q][2])
             => Finding("dependencies", Flag, f) \in findings[s]

(* No return path keeps a slot of the LLM stage or a lock.                 *)
NothingLeaks ==
  /\ slots = {s \in Scan : pc[s] = "llm"}
  /\ \A s \in readers : pc[s] # "idle"

(* Nobody waits for ever: every scan that was accepted returns and every   *)
(* reload gets the lock, however many of either there are.                 *)
EveryoneReturns ==
  /\ \A s \in Scan : (pc[s] = "rlock") ~> (pc[s] = "idle")
  /\ \A r \in Reload : (pc[r] = "lock") ~> (pc[r] = "idle")
=============================================================================
