------------------------ MODULE ScanPipeline_proofs ------------------------
(***************************************************************************)
(* Proofs about ScanPipeline, for any number of scans, reloads and slots,  *)
(* any archives and any patterns.  A tier is the set of findings it        *)
(* returns, and what the stages find is opened in the last section only,   *)
(* for the packages an archive declares.                                   *)
(***************************************************************************)
EXTENDS ScanPipeline, SequenceTheorems, WellFoundedInduction, TLAPS

-----------------------------------------------------------------------------
(***************************************************************************)
(* The lock.  A reload that holds it has it alone: readers come in while   *)
(* nobody waits to write, or when a reload is done.                        *)
(***************************************************************************)
ScanLabels   == {"idle", "rlock", "tier2", "flags", "slot", "llm", "unlock"}
ReloadLabels == {"idle", "lock", "drain", "swap"}
InTiers      == {"tier2", "flags", "slot", "llm", "unlock"}

PcTyped ==
  /\ pc \in [Scan \cup Reload -> ScanLabels \cup ReloadLabels]
  /\ \A s \in Scan : pc[s] \in ScanLabels
  /\ \A r \in Reload : pc[r] \in ReloadLabels

LocalsTyped ==
  /\ DOMAIN archive = Scan /\ DOMAIN findings = Scan /\ DOMAIN overlay = Reload
  /\ tier \in [Scan -> 0..3]
  /\ outcome \in [Scan -> Outcomes]
  /\ judged \in [Scan -> Verdicts \cup {None}]

LockInv ==
  /\ readers \subseteq Scan /\ queued \subseteq Scan /\ readers \cap queued = {}
  /\ \A s \in readers : pc[s] # "idle"
  /\ \A s \in queued : pc[s] = "rlock"
  /\ \A s \in Scan : pc[s] \in InTiers => s \in readers
  /\ writer \in Reload \cup {None}
  /\ \A r \in Reload : pc[r] \in {"drain", "swap"} => writer = r
  /\ \A r \in Reload : pc[r] = "swap" => readers = {}

SlotsInv == slots = {s \in Scan : pc[s] = "llm"}

SetsTyped == expired \subseteq readers /\ reloaded \in BOOLEAN

\* A scan and a reload are different goroutines.
LEMMA Apart ==
  /\ \A s \in Scan : s \notin Reload
  /\ \A r \in Reload : r # None
BY ScanAssumption

\* A goroutine goes to a label, the others staying where they are.
MovesTo(g, label) == pc' = [pc EXCEPT ![g] = label]

\* What a move of a scan leaves.
LEMMA ScanMoves ==
  ASSUME PcTyped, NEW s \in Scan, NEW label \in ScanLabels, MovesTo(s, label)
  PROVE  PcTyped' /\ pc'[s] = label /\ \A g \in (Scan \cup Reload) \ {s} : pc'[g] = pc[g]
BY Apart DEF PcTyped, MovesTo

\* What a move of a reload leaves.
LEMMA ReloadMoves ==
  ASSUME PcTyped, NEW r \in Reload, NEW label \in ReloadLabels, MovesTo(r, label)
  PROVE  PcTyped' /\ pc'[r] = label /\ \A g \in (Scan \cup Reload) \ {r} : pc'[g] = pc[g]
BY Apart DEF PcTyped, MovesTo

\* The steps of a scan and of a reload, as moves.
LEMMA ScanSteps ==
  ASSUME PcTyped, NEW s \in Scan, Arrive(s) \/ Expire(s) \/ ScanStep(s)
  PROVE  /\ \/ UNCHANGED pc
            \/ MovesTo(s, "rlock") /\ Arrive(s)
            \/ MovesTo(s, "tier2") /\ runTier1(s)
            \/ MovesTo(s, "flags") /\ runTier2(s)
            \/ MovesTo(s, "slot") /\ Escalate(s)
            \/ MovesTo(s, "llm") /\ AcquireSlot(s)
            \/ /\ MovesTo(s, "unlock")
               /\ runTier1(s) \/ runTier2(s) \/ Escalate(s) \/ SlotTimeout(s) \/ LLMReturns(s)
            \/ MovesTo(s, "idle") /\ RUnlock(s)
         /\ UNCHANGED <<writer, patternVars>>
<1>1. CASE Arrive(s) \/ Expire(s) \/ RLock(s)
  BY <1>1 DEF Arrive, Expire, RLock, lockVars, patternVars, MovesTo
<1>2. CASE runTier1(s)
  BY <1>2 DEF runTier1, Fail, End, AfterTier, lockVars, patternVars, MovesTo
<1>3. CASE runTier2(s)
  BY <1>3 DEF runTier2, Fail, End, AfterTier, lockVars, patternVars, MovesTo
<1>4. CASE Escalate(s)
  BY <1>4 DEF Escalate, End, lockVars, patternVars, MovesTo
<1>5. CASE AcquireSlot(s) \/ SlotTimeout(s)
  BY <1>5 DEF AcquireSlot, SlotTimeout, Fail, End, lockVars, patternVars, MovesTo
<1>6. CASE LLMReturns(s)
  BY <1>6 DEF LLMReturns, Fail, End, lockVars, patternVars, MovesTo
<1>7. CASE RUnlock(s)
  BY <1>7 DEF RUnlock, patternVars, MovesTo
<1>8. QED
  BY <1>1, <1>2, <1>3, <1>4, <1>5, <1>6, <1>7 DEF ScanStep

\* Every step keeps the labels of both kinds of goroutine.
LEMMA PcStep ==
  ASSUME PcTyped, [Next]_vars
  PROVE  PcTyped'
<1>1. CASE UNCHANGED pc
  BY <1>1 DEF PcTyped
<1>2. ASSUME NEW s \in Scan, Arrive(s) \/ Expire(s) \/ ScanStep(s)
      PROVE  PcTyped'
  BY <1>1, <1>2, ScanSteps, ScanMoves DEF ScanLabels
<1>3. ASSUME NEW r \in Reload, Send(r) \/ Announce(r) \/ ReloadStep(r)
      PROVE  PcTyped'
  BY <1>3, ReloadMoves
     DEF Send, Announce, ReloadStep, SwapTier1, SwapTier2, MovesTo, ReloadLabels
<1>4. QED
  BY <1>1, <1>2, <1>3 DEF Next, SendRejected, vars

\* Every step keeps the types of the locals.
LEMMA LocalsStep ==
  ASSUME LocalsTyped, [Next]_vars
  PROVE  LocalsTyped'
<1>1. CASE UNCHANGED <<scanVars, overlay>>
  BY <1>1 DEF LocalsTyped, scanVars
<1>2. ASSUME NEW s \in Scan, Arrive(s) \/ Expire(s) \/ ScanStep(s)
      PROVE  LocalsTyped'
  <2>1. CASE Arrive(s)
    BY <2>1 DEF Arrive, LocalsTyped, patternVars
  <2>2. CASE runTier1(s)
    BY <2>2 DEF runTier1, Fail, End, AfterTier, LocalsTyped, patternVars, Outcomes
  <2>3. CASE runTier2(s)
    BY <2>3 DEF runTier2, Fail, End, AfterTier, LocalsTyped, patternVars, Outcomes
  <2>4. CASE Escalate(s)
    BY <2>4 DEF Escalate, End, LocalsTyped, patternVars, Outcomes
  <2>5. CASE SlotTimeout(s)
    BY <2>5 DEF SlotTimeout, Fail, End, LocalsTyped, patternVars, Outcomes
  <2>6. CASE LLMReturns(s)
    BY <2>6 DEF LLMReturns, Fail, End, LocalsTyped, patternVars, Outcomes
  <2>7. CASE RUnlock(s)
    BY <2>7 DEF RUnlock, Forget, LocalsTyped, patternVars, Outcomes
  <2>8. QED
    BY <1>1, <1>2, <2>1, <2>2, <2>3, <2>4, <2>5, <2>6, <2>7
       DEF ScanStep, Expire, RLock, AcquireSlot, patternVars
<1>3. ASSUME NEW r \in Reload, Send(r) \/ Announce(r) \/ ReloadStep(r)
      PROVE  LocalsTyped'
  BY <1>3 DEF Send, Announce, ReloadStep, SwapTier1, SwapTier2, scanVars, patternVars,
              LocalsTyped
<1>4. QED
  BY <1>1, <1>2, <1>3 DEF Next, SendRejected, vars, patternVars

\* A step of a scan keeps the lock apart from the writers.
LEMMA LockScan ==
  ASSUME PcTyped, LockInv, NEW s \in Scan, Arrive(s) \/ Expire(s) \/ ScanStep(s)
  PROVE  LockInv'
<1>1. CASE UNCHANGED <<readers, queued>>
  <2>1. UNCHANGED writer
    BY ScanSteps
  <2>2. CASE UNCHANGED pc
    BY <1>1, <2>1, <2>2 DEF LockInv
  <2>3. CASE MovesTo(s, "rlock") /\ Arrive(s)
    BY <1>1, <2>1, <2>3, ScanMoves, Apart DEF LockInv, InTiers, ScanLabels
  <2>4. ASSUME NEW label \in InTiers, MovesTo(s, label), s \in readers
        PROVE  LockInv'
    BY <1>1, <2>1, <2>4, ScanMoves, Apart DEF LockInv, InTiers, ScanLabels
  <2>5. runTier1(s) \/ runTier2(s) \/ Escalate(s) \/ AcquireSlot(s) \/ SlotTimeout(s)
          \/ LLMReturns(s) => s \in readers
    BY DEF runTier1, runTier2, Escalate, AcquireSlot, SlotTimeout, LLMReturns, LockInv, InTiers
  <2>6. CASE RUnlock(s)
    BY <1>1, <2>6 DEF RUnlock, LockInv, InTiers
  <2>7. QED
    BY <2>2, <2>3, <2>4, <2>5, <2>6, ScanSteps DEF InTiers
<1>2. CASE RLock(s)
  <2>1. s \notin readers /\ pc[s] = "rlock" /\ UNCHANGED <<pc, writer>>
    BY <1>2 DEF RLock
  <2>2. CASE writer = None /\ readers' = readers \cup {s} /\ queued' = queued
    BY <1>2, <2>1, <2>2, Apart DEF LockInv, RLock
  <2>3. CASE readers' = readers /\ queued' = queued \cup {s}
    BY <2>1, <2>3 DEF LockInv
  <2>4. QED
    BY <1>2, <2>2, <2>3 DEF RLock
<1>3. CASE RUnlock(s)
  <2>1. /\ MovesTo(s, "idle") /\ readers' = readers \ {s} /\ UNCHANGED <<queued, writer>>
        /\ pc[s] = "unlock"
    BY <1>3 DEF RUnlock, MovesTo
  <2>2. QED
    BY <2>1, ScanMoves, Apart DEF LockInv, InTiers, ScanLabels
<1>4. QED
  BY <1>1, <1>2, <1>3
     DEF ScanStep, Arrive, Expire, runTier1, runTier2, Escalate, AcquireSlot, SlotTimeout,
         LLMReturns, lockVars

\* So does a step of a reload, which lets the readers in as it leaves.
LEMMA LockReload ==
  ASSUME PcTyped, LockInv, NEW r \in Reload, Send(r) \/ Announce(r) \/ ReloadStep(r)
  PROVE  LockInv'
<1>1. CASE Send(r)
  <2>1. MovesTo(r, "lock") /\ UNCHANGED <<readers, queued, writer>>
    BY <1>1 DEF Send, MovesTo, lockVars
  <2>2. QED
    BY <2>1, ReloadMoves, Apart DEF LockInv, ReloadLabels
<1>2. CASE Announce(r)
  <2>1. MovesTo(r, "drain") /\ writer = None /\ writer' = r /\ UNCHANGED <<readers, queued>>
    BY <1>2 DEF Announce, MovesTo
  <2>2. QED
    BY <2>1, ReloadMoves, Apart DEF LockInv, ReloadLabels
<1>3. CASE SwapTier1(r)
  <2>1. /\ MovesTo(r, "swap") /\ pc[r] = "drain" /\ readers = {}
        /\ UNCHANGED <<readers, queued, writer>>
    BY <1>3 DEF SwapTier1, MovesTo, lockVars
  <2>2. QED
    BY <2>1, ReloadMoves, Apart DEF LockInv, ReloadLabels
<1>4. CASE SwapTier2(r)
  <2>1. /\ MovesTo(r, "idle") /\ pc[r] = "swap" /\ writer' = None
        /\ readers' = readers \cup queued /\ queued' = {}
    BY <1>4 DEF SwapTier2, MovesTo
  <2>2. QED
    BY <2>1, ReloadMoves, Apart DEF LockInv, ReloadLabels
<1>5. QED
  BY <1>1, <1>2, <1>3, <1>4 DEF ReloadStep

\* Every step keeps the lock.
LEMMA LockStep ==
  ASSUME PcTyped, LockInv, [Next]_vars
  PROVE  LockInv'
<1>1. CASE UNCHANGED vars
  BY <1>1 DEF vars, lockVars, LockInv
<1>2. QED
  BY <1>1, LockScan, LockReload DEF Next, SendRejected

\* Every way out of the LLM stage gives its slot back.
LEMMA SlotsStep ==
  ASSUME PcTyped, SlotsInv, [Next]_vars
  PROVE  SlotsInv'
<1>1. CASE UNCHANGED vars
  BY <1>1 DEF vars, SlotsInv
<1>2. ASSUME NEW r \in Reload, Send(r) \/ Announce(r) \/ ReloadStep(r)
      PROVE  SlotsInv'
  <2>1. UNCHANGED slots
    BY <1>2 DEF Send, Announce, ReloadStep, SwapTier1, SwapTier2
  <2>2. PICK label \in ReloadLabels : MovesTo(r, label)
    BY <1>2 DEF Send, Announce, ReloadStep, SwapTier1, SwapTier2, MovesTo, ReloadLabels
  <2>3. QED
    BY <2>1, <2>2, ReloadMoves, Apart DEF SlotsInv
<1>3. ASSUME NEW s \in Scan, Arrive(s) \/ Expire(s) \/ ScanStep(s)
      PROVE  SlotsInv'
  <2>1. CASE AcquireSlot(s)
    <3>1. MovesTo(s, "llm") /\ slots' = slots \cup {s}
      BY <2>1 DEF AcquireSlot, MovesTo
    <3>2. QED
      BY <3>1, ScanMoves DEF SlotsInv, ScanLabels
  <2>2. CASE LLMReturns(s)
    <3>1. MovesTo(s, "unlock") /\ slots' = slots \ {s}
      BY <2>2 DEF LLMReturns, ReleaseSlot, Fail, End, MovesTo
    <3>2. QED
      BY <3>1, ScanMoves DEF SlotsInv, ScanLabels
  <2>3. CASE ~AcquireSlot(s) /\ ~LLMReturns(s)
    <3>1. \/ UNCHANGED slots /\ pc[s] # "llm"
          \/ UNCHANGED <<slots, pc>>
      BY <1>3, <2>3 DEF ScanStep, Arrive, Expire, RLock, runTier1, runTier2, Escalate,
                        SlotTimeout, RUnlock
    <3>2. UNCHANGED pc \/ \E label \in ScanLabels \ {"llm"} : MovesTo(s, label)
      BY <1>3, <2>3, ScanSteps DEF ScanLabels
    <3>3. QED
      BY <3>1, <3>2, ScanMoves DEF SlotsInv
  <2>4. QED
    BY <2>1, <2>2, <2>3
<1>4. QED
  BY <1>1, <1>2, <1>3 DEF Next, SendRejected

-----------------------------------------------------------------------------
(***************************************************************************)
(* The patterns.  Both tiers and what GetCustomPatterns reports are        *)
(* replaced together, under the lock.                                      *)
(***************************************************************************)
InForce == Compiled(IF reloaded THEN custom ELSE StartFile)

PatternsInv ==
  /\ \A r \in Reload : pc[r] = "swap" => custom = overlay[r] /\ tier1 = Compiled(overlay[r])
  /\ (\A r \in Reload : pc[r] # "swap") => tier1 = tier2 /\ tier1 = InForce
  /\ ~reloaded => custom = None \/ \E r \in Reload : pc[r] = "swap"

\* Every step keeps both tiers on one set of patterns, but for a reload between them.
LEMMA PatternsStep ==
  ASSUME PcTyped, LocalsTyped, LockInv, PatternsInv, [Next]_vars
  PROVE  PatternsInv'
<1>1. CASE UNCHANGED <<pc, patternVars>>
  BY <1>1 DEF patternVars, PatternsInv, InForce
<1>2. ASSUME NEW s \in Scan, Arrive(s) \/ Expire(s) \/ ScanStep(s)
      PROVE  PatternsInv'
  <2>1. UNCHANGED patternVars /\ \A r \in Reload : pc'[r] = pc[r]
    BY <1>2, ScanSteps, ScanMoves, Apart DEF ScanLabels
  <2>2. QED
    BY <2>1 DEF patternVars, PatternsInv, InForce
<1>3. ASSUME NEW r \in Reload, Send(r)
      PROVE  PatternsInv'
  <2>1. /\ MovesTo(r, "lock") /\ pc[r] = "idle"
        /\ \A q \in Reload \ {r} : overlay'[q] = overlay[q]
        /\ UNCHANGED <<custom, tier1, tier2, reloaded>>
    BY <1>3 DEF Send, MovesTo, LocalsTyped
  <2>2. QED
    BY <2>1, ReloadMoves DEF PatternsInv, InForce, ReloadLabels
<1>4. ASSUME NEW r \in Reload, Announce(r)
      PROVE  PatternsInv'
  <2>1. MovesTo(r, "drain") /\ pc[r] = "lock" /\ UNCHANGED patternVars
    BY <1>4 DEF Announce, MovesTo
  <2>2. QED
    BY <2>1, ReloadMoves DEF PatternsInv, InForce, ReloadLabels, patternVars
<1>5. ASSUME NEW r \in Reload, SwapTier1(r)
      PROVE  PatternsInv'
  <2>1. /\ MovesTo(r, "swap") /\ pc[r] = "drain"
        /\ custom' = overlay[r] /\ tier1' = Compiled(overlay[r])
        /\ UNCHANGED <<overlay, tier2, reloaded>>
    BY <1>5 DEF SwapTier1, MovesTo
  <2>2. \A q \in Reload \ {r} : pc[q] # "swap"
    BY <2>1 DEF LockInv
  <2>3. QED
    BY <2>1, <2>2, ReloadMoves DEF PatternsInv, InForce, ReloadLabels
<1>6. ASSUME NEW r \in Reload, SwapTier2(r)
      PROVE  PatternsInv'
  <2>1. /\ MovesTo(r, "idle") /\ pc[r] = "swap"
        /\ tier2' = Compiled(overlay[r]) /\ reloaded' = TRUE
        /\ UNCHANGED <<custom, tier1>>
    BY <1>6 DEF SwapTier2, MovesTo
  <2>2. \A q \in Reload \ {r} : pc[q] # "swap"
    BY <2>1 DEF LockInv
  <2>3. tier1 = Compiled(overlay[r]) /\ custom = overlay[r]
    BY <2>1 DEF PatternsInv
  <2>4. QED
    BY <2>1, <2>2, <2>3, ReloadMoves DEF PatternsInv, InForce, ReloadLabels
<1>7. QED
  BY <1>1, <1>2, <1>3, <1>4, <1>5, <1>6 DEF Next, SendRejected, ReloadStep, vars

-----------------------------------------------------------------------------
(***************************************************************************)
(* The verdict.  What a scan has found is what its tiers find under the    *)
(* patterns in force, because it holds the read lock while it looks.       *)
(***************************************************************************)
Files(s) == Content[archive[s]]
Found(s) == Tier1(Files(s), tier1) \cup Tier2(Files(s), tier2)

\* What is known of a scan between the tiers, before the LLM, and at the end.
Verdict(s) ==
  /\ pc[s] = "tier2" =>
       /\ ~Tier1Fails(Files(s)) /\ ~hasBlock(Tier1(Files(s), tier1))
       /\ Tier1(Files(s), tier1) \subseteq findings[s]
  /\ pc[s] \in {"flags", "slot", "llm"} =>
       /\ ~Tier1Fails(Files(s)) /\ ~hasBlock(Found(s))
       /\ Found(s) \subseteq findings[s]
  /\ Passed(s) =>
       /\ ~Tier1Fails(Files(s)) /\ ~hasBlock(Found(s)) /\ Found(s) \subseteq findings[s]
       /\ collectFlags(Found(s)) # {} /\ LLMEnabled /\ collectContent(Files(s)) # {} =>
            judged[s] \in {"benign", "unsure"}

VerdictInv == \A s \in Scan : Verdict(s)

\* A step of one scan touches the locals of no other.
LEMMA LocalsApart ==
  ASSUME LocalsTyped, NEW s \in Scan, Arrive(s) \/ Expire(s) \/ ScanStep(s),
         NEW q \in Scan \ {s}
  PROVE  /\ archive'[q] = archive[q] /\ findings'[q] = findings[q]
         /\ outcome'[q] = outcome[q] /\ judged'[q] = judged[q]
<1>1. CASE Arrive(s) \/ Expire(s) \/ RLock(s) \/ AcquireSlot(s) \/ SlotTimeout(s)
  BY <1>1 DEF Arrive, Expire, RLock, AcquireSlot, SlotTimeout, Fail, End, LocalsTyped, scanVars
<1>2. CASE runTier1(s) \/ runTier2(s)
  BY <1>2 DEF runTier1, runTier2, Fail, End, AfterTier, LocalsTyped
<1>3. CASE Escalate(s) \/ RUnlock(s)
  BY <1>3 DEF Escalate, RUnlock, Forget, End, LocalsTyped
<1>4. CASE LLMReturns(s)
  BY <1>4 DEF LLMReturns, Fail, End, LocalsTyped
<1>5. QED
  BY <1>1, <1>2, <1>3, <1>4 DEF ScanStep

\* Blocking findings of two sets, and flags of one within another.
LEMMA FindingSets ==
  ASSUME NEW A, NEW B
  PROVE  /\ hasBlock(A \cup B) <=> hasBlock(A) \/ hasBlock(B)
         /\ A \subseteq B => collectFlags(A) \subseteq collectFlags(B)
BY DEF hasBlock, collectFlags

\* The first tier.
LEMMA VerdictTier1 ==
  ASSUME PcTyped, LocalsTyped, NEW s \in Scan, runTier1(s)
  PROVE  Verdict(s)'
<1>1. UNCHANGED <<archive, tier1, tier2>>
  BY DEF runTier1, patternVars
<1>2. CASE Fail(s)
  BY <1>2 DEF Fail, End, Verdict, Passed, PcTyped, LocalsTyped
<1>3. CASE ~Fail(s)
  <2>1. /\ ~Tier1Fails(Files(s))
        /\ AfterTier(s, Tier1(Files(s), tier1), "tier2")
    BY <1>3 DEF runTier1, Files
  <2>2. CASE hasBlock(Tier1(Files(s), tier1))
    BY <2>1, <2>2 DEF AfterTier, End, Verdict, Passed, PcTyped, LocalsTyped
  <2>3. CASE ~hasBlock(Tier1(Files(s), tier1))
    <3>1. pc'[s] = "tier2" /\ findings'[s] = findings[s] \cup Tier1(Files(s), tier1)
      BY <2>1, <2>3 DEF AfterTier, PcTyped, LocalsTyped
    <3>2. Files(s)' = Files(s) /\ Tier1(Files(s), tier1)' = Tier1(Files(s), tier1)
      BY <1>1 DEF Files
    <3>3. Tier1Fails(Files(s))' = Tier1Fails(Files(s))
      BY <1>1 DEF Files
    <3>4. QED
      BY <1>1, <2>1, <2>3, <3>1 DEF Verdict, Passed, Files
  <2>4. QED
    BY <2>2, <2>3
<1>4. QED
  BY <1>2, <1>3

\* The second tier adds to what the first one found.
LEMMA VerdictTier2 ==
  ASSUME PcTyped, LocalsTyped, NEW s \in Scan, runTier2(s), Verdict(s)
  PROVE  Verdict(s)'
<1>1. UNCHANGED <<archive, tier1, tier2>> /\ pc[s] = "tier2"
  BY DEF runTier2, patternVars
<1>2. CASE Fail(s)
  BY <1>2 DEF Fail, End, Verdict, Passed, PcTyped, LocalsTyped
<1>3. CASE ~Fail(s)
  <2>1. AfterTier(s, Tier2(Files(s), tier2), "flags")
    BY <1>3 DEF runTier2, Files
  <2>2. CASE hasBlock(Tier2(Files(s), tier2))
    BY <2>1, <2>2 DEF AfterTier, End, Verdict, Passed, PcTyped, LocalsTyped
  <2>3. CASE ~hasBlock(Tier2(Files(s), tier2))
    <3>1. pc'[s] = "flags" /\ findings'[s] = findings[s] \cup Tier2(Files(s), tier2)
      BY <2>1, <2>3 DEF AfterTier, PcTyped, LocalsTyped
    <3>2. /\ ~Tier1Fails(Files(s)) /\ ~hasBlock(Tier1(Files(s), tier1))
          /\ Tier1(Files(s), tier1) \subseteq findings[s]
      BY <1>1 DEF Verdict
    <3>3. ~hasBlock(Found(s)) /\ Found(s) \subseteq findings'[s]
      BY <2>3, <3>1, <3>2, FindingSets DEF Found
    <3>4. Files(s)' = Files(s) /\ Found(s)' = Found(s)
      BY <1>1 DEF Files, Found
    <3>5. ~Tier1Fails(Files(s))' /\ ~hasBlock(Found(s))' /\ (Found(s) \subseteq findings[s])'
      BY <3>2, <3>3, <3>4
    <3>6. QED
      BY <3>1, <3>5 DEF Verdict, Passed
  <2>4. QED
    BY <2>2, <2>3
<1>4. QED
  BY <1>2, <1>3

\* What a scan found under patterns that stay is unchanged.
LEMMA FoundKept ==
  ASSUME NEW s \in Scan, archive'[s] = archive[s], UNCHANGED <<tier1, tier2>>
  PROVE  /\ Files(s)' = Files(s) /\ Found(s)' = Found(s)
         /\ Tier1(Files(s), tier1)' = Tier1(Files(s), tier1)
         /\ Tier1Fails(Files(s))' = Tier1Fails(Files(s))
BY DEF Files, Found

\* A scan passes without the LLM only when no flag calls for it.
LEMMA VerdictEscalate ==
  ASSUME PcTyped, LocalsTyped, NEW s \in Scan, Escalate(s), Verdict(s)
  PROVE  Verdict(s)'
<1>1. UNCHANGED <<archive, findings, judged, tier1, tier2>> /\ pc[s] = "flags"
  BY DEF Escalate, patternVars
<1>2. ~Tier1Fails(Files(s)) /\ ~hasBlock(Found(s)) /\ Found(s) \subseteq findings[s]
  BY <1>1 DEF Verdict
<1>3. ~Tier1Fails(Files(s))' /\ ~hasBlock(Found(s))' /\ (Found(s) \subseteq findings[s])'
      /\ Found(s)' = Found(s)
  BY <1>1, <1>2, FoundKept
<1>4. CASE collectFlags(findings[s]) # {} /\ LLMEnabled
  <2>1. pc'[s] = "slot"
    BY <1>4 DEF Escalate, PcTyped
  <2>2. QED
    BY <2>1, <1>3 DEF Verdict, Passed
<1>5. CASE ~(collectFlags(findings[s]) # {} /\ LLMEnabled)
  <2>1. pc'[s] = "unlock"
    BY <1>5 DEF Escalate, End, PcTyped
  <2>2. collectFlags(Found(s)) = {} \/ ~LLMEnabled
    BY <1>2, <1>5, FindingSets
  <2>3. (collectFlags(Found(s)) = {} \/ ~LLMEnabled)'
    BY <2>2, <1>3
  <2>4. QED
    BY <2>1, <2>3, <1>3 DEF Verdict, Passed
<1>6. QED
  BY <1>4, <1>5

\* The answer of the LLM: one that calls it a threat blocks.
LEMMA VerdictLLM ==
  ASSUME PcTyped, LocalsTyped, NEW s \in Scan, LLMReturns(s), Verdict(s)
  PROVE  Verdict(s)'
<1>1. UNCHANGED <<archive, tier1, tier2>> /\ pc[s] = "llm"
  BY DEF LLMReturns, patternVars
<1>2. ~Tier1Fails(Files(s)) /\ ~hasBlock(Found(s)) /\ Found(s) \subseteq findings[s]
  BY <1>1 DEF Verdict
<1>3. /\ ~Tier1Fails(Files(s))' /\ ~hasBlock(Found(s))' /\ Files(s)' = Files(s)
      /\ findings[s] \subseteq findings'[s] => (Found(s) \subseteq findings[s])'
  BY <1>1, <1>2, FoundKept
<1>4. pc'[s] = "unlock"
  BY DEF LLMReturns, Fail, End, PcTyped
<1>5. CASE collectContent(Files(s)) = {} /\ UNCHANGED findings
  <2>1. (collectContent(Files(s)) = {})' /\ (Found(s) \subseteq findings[s])'
    BY <1>3, <1>5
  <2>2. QED
    BY <2>1, <1>3, <1>4 DEF Verdict, Passed
<1>6. CASE Fail(s)
  BY <1>4, <1>6 DEF Fail, End, Verdict, Passed, LocalsTyped
<1>7. ASSUME NEW v \in Verdicts, judged' = [judged EXCEPT ![s] = v],
             findings' = [findings EXCEPT ![s] = @ \cup LLMFindings(v)],
             End(s, IF hasBlock(LLMFindings(v)) THEN "block" ELSE "pass")
      PROVE  Verdict(s)'
  <2>1. judged'[s] = v /\ findings[s] \subseteq findings'[s]
    BY <1>7 DEF LocalsTyped
  <2>2. CASE v = "threat"
    <3>1. hasBlock(LLMFindings(v))
      BY <2>2 DEF LLMFindings, hasBlock
    <3>2. outcome'[s] = "block"
      BY <1>7, <3>1 DEF End, LocalsTyped
    <3>3. QED
      BY <1>4, <3>2 DEF Verdict, Passed
  <2>3. CASE v \in {"benign", "unsure"}
    BY <1>3, <1>4, <2>1, <2>3 DEF Verdict, Passed
  <2>4. QED
    BY <2>2, <2>3 DEF Verdicts
<1>8. QED
  BY <1>5, <1>6, <1>7 DEF LLMReturns, Files

\* A scan that stays where it is, or enters a place of no promise.
LEMMA VerdictSame ==
  ASSUME NEW s \in Scan, Verdict(s), UNCHANGED <<tier1, tier2>>,
         pc'[s] = pc[s], archive'[s] = archive[s], findings'[s] = findings[s],
         outcome'[s] = outcome[s], judged'[s] = judged[s]
  PROVE  Verdict(s)'
<1>1. /\ Files(s)' = Files(s) /\ Found(s)' = Found(s)
      /\ Tier1(Files(s), tier1)' = Tier1(Files(s), tier1)
      /\ Tier1Fails(Files(s))' = Tier1Fails(Files(s))
  BY FoundKept
<1>2. Passed(s)' <=> Passed(s)
  BY DEF Passed
<1>3. QED
  BY <1>1, <1>2 DEF Verdict

\* A step of a scan keeps the verdict of every scan.
LEMMA VerdictScan ==
  ASSUME PcTyped, LocalsTyped, VerdictInv, NEW s \in Scan, Arrive(s) \/ Expire(s) \/ ScanStep(s)
  PROVE  VerdictInv'
<1>1. UNCHANGED <<tier1, tier2>>
  BY ScanSteps DEF patternVars
<1>2. ASSUME NEW q \in Scan \ {s}
      PROVE  Verdict(q)'
  <2>1. pc'[q] = pc[q]
    BY ScanSteps, ScanMoves DEF ScanLabels
  <2>2. QED
    BY <1>1, <2>1, LocalsApart, VerdictSame DEF VerdictInv
<1>3. Verdict(s)
  BY DEF VerdictInv
<1>4. CASE runTier1(s) \/ runTier2(s) \/ Escalate(s) \/ LLMReturns(s)
  BY <1>2, <1>3, <1>4, VerdictTier1, VerdictTier2, VerdictEscalate, VerdictLLM DEF VerdictInv
<1>5. CASE Expire(s) \/ RLock(s)
  <2>1. UNCHANGED <<pc, scanVars>>
    BY <1>5 DEF Expire, RLock
  <2>2. Verdict(s)'
    BY <1>1, <1>3, <2>1, VerdictSame DEF scanVars
  <2>3. QED
    BY <1>2, <2>2 DEF VerdictInv
<1>6. CASE Arrive(s) \/ RUnlock(s)
  <2>1. pc'[s] \in {"rlock", "idle"}
    BY <1>6 DEF Arrive, RUnlock, PcTyped
  <2>2. Verdict(s)'
    BY <2>1 DEF Verdict, Passed
  <2>3. QED
    BY <1>2, <2>2 DEF VerdictInv
<1>7. CASE SlotTimeout(s)
  <2>1. pc'[s] = "unlock" /\ outcome'[s] = "error"
    BY <1>7 DEF SlotTimeout, Fail, End, PcTyped, LocalsTyped
  <2>2. Verdict(s)'
    BY <2>1 DEF Verdict, Passed
  <2>3. QED
    BY <1>2, <2>2 DEF VerdictInv
<1>8. CASE AcquireSlot(s)
  <2>1. pc[s] = "slot" /\ pc'[s] = "llm" /\ UNCHANGED scanVars
    BY <1>8 DEF AcquireSlot, PcTyped
  <2>2. ~Tier1Fails(Files(s)) /\ ~hasBlock(Found(s)) /\ Found(s) \subseteq findings[s]
    BY <1>3, <2>1 DEF Verdict
  <2>3. ~Tier1Fails(Files(s))' /\ ~hasBlock(Found(s))' /\ (Found(s) \subseteq findings[s])'
    BY <1>1, <2>1, <2>2, FoundKept DEF scanVars
  <2>4. Verdict(s)'
    BY <2>1, <2>3 DEF Verdict, Passed
  <2>5. QED
    BY <1>2, <2>4 DEF VerdictInv
<1>9. QED
  BY <1>4, <1>5, <1>6, <1>7, <1>8 DEF ScanStep

\* The patterns change only while no scan looks.
LEMMA VerdictReload ==
  ASSUME PcTyped, LockInv, VerdictInv, NEW r \in Reload,
         Send(r) \/ Announce(r) \/ ReloadStep(r)
  PROVE  VerdictInv'
<1>1. UNCHANGED scanVars /\ \A s \in Scan : pc'[s] = pc[s]
  <2>1. UNCHANGED scanVars /\ \E label \in ReloadLabels : MovesTo(r, label)
    BY DEF Send, Announce, ReloadStep, SwapTier1, SwapTier2, MovesTo, ReloadLabels
  <2>2. QED
    BY <2>1, ReloadMoves, Apart
<1>2. CASE UNCHANGED <<tier1, tier2>>
  BY <1>1, <1>2, VerdictSame DEF VerdictInv, scanVars
<1>3. CASE readers = {}
  <2>1. \A s \in Scan : pc'[s] \notin InTiers
    BY <1>1, <1>3 DEF LockInv
  <2>2. QED
    BY <2>1 DEF VerdictInv, Verdict, Passed, InTiers
<1>4. QED
  BY <1>2, <1>3 DEF Send, Announce, ReloadStep, SwapTier1, SwapTier2, LockInv, patternVars

\* Every step keeps the verdicts.
LEMMA VerdictStep ==
  ASSUME PcTyped, LocalsTyped, LockInv, VerdictInv, [Next]_vars
  PROVE  VerdictInv'
<1>1. CASE UNCHANGED vars
  BY <1>1, VerdictSame DEF vars, scanVars, patternVars, VerdictInv
<1>2. QED
  BY <1>1, VerdictScan, VerdictReload DEF Next, SendRejected

-----------------------------------------------------------------------------
(***************************************************************************)
(* Induction up to a number.  A recursive function is shown to exist by    *)
(* building its values one after another, and what holds of them all by    *)
(* the least counterexample.                                               *)
(***************************************************************************)

\* Every set of numbers that is not empty has a least one.
LEMMA LeastOf ==
  ASSUME NEW S \in SUBSET Nat, S # {}
  PROVE  \E n \in S : \A m \in S : n <= m
<1>1. PICK n \in S : \A m \in S : <<m, n>> \notin OpToRel(<, Nat)
  BY WFMin, NatLessThanWellFounded
<1>2. \A m \in S : ~(m < n)
  BY <1>1 DEF OpToRel
<1>3. QED
  BY <1>2

\* Induction up to a number, the property being a set.
LEMMA Upwards ==
  ASSUME NEW n \in Nat, NEW T, 0 \in T, \A i \in 1..n : i - 1 \in T => i \in T
  PROVE  \A i \in 0..n : i \in T
<1> DEFINE Bad == {i \in 0..n : i \notin T}
<1>1. SUFFICES ASSUME Bad # {} PROVE FALSE
  OBVIOUS
<1>2. PICK i \in Bad : \A k \in Bad : i <= k
  <2>1. Bad \in SUBSET Nat
    OBVIOUS
  <2> HIDE DEF Bad
  <2>2. QED
    BY <1>1, <2>1, LeastOf
<1>3. i \in 1..n /\ i - 1 \in 0..n /\ i - 1 \notin Bad
  BY <1>2
<1>4. QED
  BY <1>2, <1>3

\* A sequence of n steps on X, and the values it runs through.
Steps(step, n, X) == step \in [1..n -> [X -> X]]
RunOf(f, step, n, X, x0) ==
  f \in [0..n -> X] /\ f[0] = x0 /\ \A i \in 1..n : f[i] = step[i][f[i - 1]]

\* Recursion up to a number: the steps have a sequence of values.
LEMMA StepByStep ==
  ASSUME NEW n \in Nat, NEW X, NEW x0 \in X, NEW step, Steps(step, n, X)
  PROVE  \E f : RunOf(f, step, n, X, x0)
<1> USE DEF Steps, RunOf
<1> DEFINE Upto(f, k) == f[0] = x0 /\ \A i \in 1..k : f[i] = step[i][f[i - 1]]
           T == {k \in 0..n : \E f \in [0..n -> X] : Upto(f, k)}
<1>1. 0 \in T
  <2>1. PICK f \in [0..n -> X] : f = [i \in 0..n |-> x0]
    OBVIOUS
  <2>2. Upto(f, 0)
    BY <2>1
  <2>3. QED
    BY <2>2
<1>2. ASSUME NEW k \in 1..n, k - 1 \in T
      PROVE  k \in T
  <2>1. PICK f \in [0..n -> X] : Upto(f, k - 1)
    BY <1>2
  <2> DEFINE g == [f EXCEPT ![k] = step[k][f[k - 1]]]
  <2>2. k - 1 \in 0..n /\ k \in 0..n /\ f[k - 1] \in X /\ step[k] \in [X -> X]
    OBVIOUS
  <2>3. g \in [0..n -> X]
    BY <2>2
  <2>4. \A i \in 0..n : g[i] = IF i = k THEN step[k][f[k - 1]] ELSE f[i]
    OBVIOUS
  <2> HIDE DEF g
  <2>5. g[0] = x0
    BY <2>1, <2>4
  <2>6. \A i \in 1..k : g[i] = step[i][g[i - 1]]
    BY <2>1, <2>2, <2>4
  <2>7. QED
    BY <2>2, <2>3, <2>5, <2>6
<1>3. n \in T
  <2> HIDE DEF T
  <2>1. \A i \in 1..n : i - 1 \in T => i \in T
    BY <1>2
  <2>2. \A i \in 0..n : i \in T
    BY <1>1, <2>1, Upwards
  <2>3. QED
    BY <2>2
<1>4. QED
  BY <1>3

-----------------------------------------------------------------------------
(***************************************************************************)
(* The edit distance.  The two rows that levenshtein keeps run through the *)
(* table of all prefixes; an edit of one name changes its corner by one at *)
(* most, and the corner is 0 for equal names only.  The other way round,   *)
(* what the table says of two prefixes can be done, place by place.        *)
(***************************************************************************)

Cost(a, b, i, j) == IF a[i] = b[j] THEN 0 ELSE 1

RowsOn(m) == [0..m -> Nat]

RowValue(a, b, prev, j, i, x) == Least({prev[i] + 1, x + 1, prev[i - 1] + Cost(a, b, i, j)})

\* The least of three numbers.
LEMMA LeastOfThree ==
  ASSUME NEW x \in Nat, NEW y \in Nat, NEW z \in Nat
  PROVE  /\ Least({x, y, z}) \in {x, y, z} /\ Least({x, y, z}) \in Nat
         /\ Least({x, y, z}) <= x /\ Least({x, y, z}) <= y /\ Least({x, y, z}) <= z
<1>1. PICK n \in {x, y, z} : \A m \in {x, y, z} : n <= m
  BY LeastOf
<1>2. QED
  BY <1>1 DEF Least

IsRow(row, a, b, m, prev, j) ==
  /\ row \in RowsOn(m) /\ row[0] = j
  /\ \A i \in 1..m : row[i] = RowValue(a, b, prev, j, i, row[i - 1])

\* The recursion of a row is one over the prefixes of the shorter name.
LEMMA RowDefined ==
  ASSUME NEW a, NEW b, NEW m \in Nat, m = Len(a), NEW j \in Nat,
         NEW prev \in RowsOn(m)
  PROVE  IsRow(NextRow(a, b, prev, j), a, b, m, prev, j)
<1> DEFINE row == NextRow(a, b, prev, j)
<1> USE DEF RowsOn
<1>1. \A i \in 1..m : i \in 0..m /\ i - 1 \in 0..m
  OBVIOUS
<1>2. \A i \in 1..m, x \in Nat : RowValue(a, b, prev, j, i, x) \in Nat
  <2>1. SUFFICES ASSUME NEW i \in 1..m, NEW x \in Nat
                 PROVE  RowValue(a, b, prev, j, i, x) \in Nat
    OBVIOUS
  <2>2. i \in 0..m /\ i - 1 \in 0..m /\ Cost(a, b, i, j) \in Nat
    BY <1>1 DEF Cost
  <2>3. prev[i] + 1 \in Nat /\ x + 1 \in Nat /\ prev[i - 1] + Cost(a, b, i, j) \in Nat
    BY <2>2
  <2>4. QED
    BY <2>3, LeastOfThree DEF RowValue
<1>3. PICK f \in [0..m -> Nat] :
        f[0] = j /\ \A i \in 1..m : f[i] = RowValue(a, b, prev, j, i, f[i - 1])
  <2> DEFINE step == [i \in 1..m |-> [x \in Nat |-> RowValue(a, b, prev, j, i, x)]]
  <2>1. Steps(step, m, Nat)
    BY <1>2 DEF Steps
  <2>2. \A i \in 1..m, x \in Nat : step[i][x] = RowValue(a, b, prev, j, i, x)
    OBVIOUS
  <2> HIDE DEF step
  <2>3. PICK f : RunOf(f, step, m, Nat, j)
    BY <2>1, StepByStep
  <2>4. \A i \in 1..m : f[i - 1] \in Nat
    BY <1>1, <2>3 DEF RunOf
  <2>5. f \in [0..m -> Nat] /\ f[0] = j
    BY <2>3 DEF RunOf
  <2>6. \A i \in 1..m : f[i] = RowValue(a, b, prev, j, i, f[i - 1])
    BY <2>2, <2>3, <2>4 DEF RunOf
  <2>7. QED
    BY <2>5, <2>6
<1>4. f = [i \in 0..m |-> IF i = 0 THEN j ELSE RowValue(a, b, prev, j, i, f[i - 1])]
  BY <1>1, <1>3
<1>5. row = [i \in 0..m |-> IF i = 0 THEN j ELSE RowValue(a, b, prev, j, i, row[i - 1])]
  <2>1. row = CHOOSE curr : curr = [i \in 0..m |-> IF i = 0 THEN j ELSE RowValue(a, b, prev, j, i, curr[i - 1])]
    BY DEF NextRow, RowValue, Cost
  <2> HIDE DEF row
  <2>2. QED
    BY <1>4, <2>1
<1> HIDE DEF row
<1>6. row = f
  <2> DEFINE T == {i \in 0..m : row[i] = f[i]}
  <2>1. 0 \in T
    BY <1>1, <1>4, <1>5
  <2>2. ASSUME NEW i \in 1..m, i - 1 \in T
        PROVE  i \in T
    BY <1>1, <1>4, <1>5, <2>2
  <2> HIDE DEF T
  <2>3. \A i \in 0..m : i \in T
    BY <1>1, <2>1, <2>2, Upwards
  <2>4. QED
    BY <1>3, <1>5, <2>3 DEF T
<1>7. QED
  BY <1>3, <1>6 DEF IsRow, row

\* The table of two names: t[j][i] is about i characters of a and j of b.
IsTable(t, a, b, m, n) ==
  /\ t \in [0..n -> [0..m -> Nat]]
  /\ \A i \in 0..m : t[0][i] = i
  /\ \A j \in 0..n : t[j][0] = j
  /\ \A i \in 1..m, j \in 1..n :
       t[j][i] = Least({t[j - 1][i] + 1, t[j][i - 1] + 1, t[j - 1][i - 1] + Cost(a, b, i, j)})

FirstRow(m) == [i \in 0..m |-> i]

\* The two rows that levenshtein keeps run through the table.
LEMMA TableDefined ==
  ASSUME NEW a, NEW b, NEW m \in Nat, m = Len(a), NEW n \in Nat, n = Len(b)
  PROVE  \E t : IsTable(t, a, b, m, n) /\ Table(a, b) = t[n][m]
<1>1. \A i \in 1..m : i \in 0..m /\ i - 1 \in 0..m
  OBVIOUS
<1>2. \A j \in 1..n : j \in 0..n /\ j - 1 \in 0..n /\ j \in Nat
  OBVIOUS
<1>3. \A j \in 1..n, prev \in RowsOn(m) : IsRow(NextRow(a, b, prev, j), a, b, m, prev, j)
  BY <1>2, RowDefined
<1>4. FirstRow(m) \in RowsOn(m)
  BY DEF FirstRow, RowsOn
<1>5. PICK f : /\ f \in [0..n -> RowsOn(m)] /\ f[0] = FirstRow(m)
               /\ \A j \in 1..n : f[j] = NextRow(a, b, f[j - 1], j)
  <2> DEFINE step == [j \in 1..n |-> [prev \in RowsOn(m) |-> NextRow(a, b, prev, j)]]
  <2>1. Steps(step, n, RowsOn(m))
    BY <1>3 DEF Steps, IsRow
  <2>2. \A j \in 1..n, prev \in RowsOn(m) : step[j][prev] = NextRow(a, b, prev, j)
    OBVIOUS
  <2> HIDE DEF step
  <2>3. PICK f : RunOf(f, step, n, RowsOn(m), FirstRow(m))
    BY <1>4, <2>1, StepByStep
  <2>4. \A j \in 1..n : f[j - 1] \in RowsOn(m)
    BY <1>2, <2>3 DEF RunOf
  <2>5. QED
    BY <2>2, <2>3, <2>4 DEF RunOf
<1> DEFINE Row(r, j) == IF j = 0 THEN FirstRow(m) ELSE NextRow(a, b, r[j - 1], j)
<1>6. f = [j \in 0..n |-> Row(f, j)]
  BY <1>5
<1>7. PICK row : row = [j \in 0..n |-> Row(row, j)] /\ Table(a, b) = row[n][m]
  <2> DEFINE row == CHOOSE r : r = [j \in 0..n |-> Row(r, j)]
  <2>1. Table(a, b) = row[n][m]
    BY DEF Table, FirstRow
  <2>2. row = [j \in 0..n |-> Row(row, j)]
    <3> HIDE DEF Row
    <3>1. QED
      BY <1>6
  <2> HIDE DEF row
  <2>3. QED
    BY <2>1, <2>2
<1>8. \A j \in 0..n : row[j] = f[j]
  <2> DEFINE T == {j \in 0..n : row[j] = f[j]}
  <2>1. 0 \in T
    BY <1>6, <1>7
  <2>2. \A j \in 1..n : j - 1 \in T => j \in T
    BY <1>2, <1>6, <1>7
  <2> HIDE DEF T
  <2>3. \A j \in 0..n : j \in T
    BY <2>1, <2>2, Upwards
  <2>4. QED
    BY <2>3 DEF T
<1>9. \A j \in 0..n : f[j] \in RowsOn(m)
  BY <1>5
<1>10. \A j \in 1..n : f[j][0] = j /\ \A i \in 1..m : f[j][i] = RowValue(a, b, f[j - 1], j, i, f[j][i - 1])
  BY <1>2, <1>3, <1>5, <1>9 DEF IsRow
<1>11. IsTable(f, a, b, m, n)
  BY <1>1, <1>2, <1>5, <1>9, <1>10 DEF IsTable, RowValue, FirstRow, RowsOn
<1>12. QED
  BY <1>7, <1>8, <1>11

\* Induction over the places of a table.
LEMMA OverTable ==
  ASSUME NEW m \in Nat, NEW n \in Nat, NEW P,
         \A i \in 0..m, j \in 0..n :
           /\ i > 0 => <<i - 1, j>> \in P
           /\ j > 0 => <<i, j - 1>> \in P
           /\ i > 0 /\ j > 0 => <<i - 1, j - 1>> \in P
           => <<i, j>> \in P
  PROVE  \A i \in 0..m, j \in 0..n : <<i, j>> \in P
<1> DEFINE T == {s \in 0..m + n : \A i \in 0..m, j \in 0..n : i + j <= s => <<i, j>> \in P}
<1>1. 0 \in T
  <2>1. ASSUME NEW i \in 0..m, NEW j \in 0..n, i + j <= 0
        PROVE  <<i, j>> \in P
    <3>1. ~(i > 0) /\ ~(j > 0)
      BY <2>1
    <3>2. QED
      BY <3>1
  <2>2. QED
    BY <2>1
<1>2. ASSUME NEW s \in 1..m + n, s - 1 \in T
      PROVE  s \in T
  <2>1. ASSUME NEW i \in 0..m, NEW j \in 0..n, i + j <= s
        PROVE  <<i, j>> \in P
    <3>1. i > 0 => i - 1 \in 0..m /\ (i - 1) + j <= s - 1
      BY <2>1
    <3>2. j > 0 => j - 1 \in 0..n /\ i + (j - 1) <= s - 1 /\ (i > 0 => (i - 1) + (j - 1) <= s - 1)
      BY <2>1
    <3>3. /\ i > 0 => <<i - 1, j>> \in P
          /\ j > 0 => <<i, j - 1>> \in P
          /\ i > 0 /\ j > 0 => <<i - 1, j - 1>> \in P
      BY <1>2, <3>1, <3>2
    <3>4. QED
      BY <3>3
  <2>2. QED
    BY <2>1
<1>3. m + n \in T
  <2> HIDE DEF T
  <2>1. \A s \in 1..m + n : s - 1 \in T => s \in T
    BY <1>2
  <2>2. \A s \in 0..m + n : s \in T
    BY <1>1, <2>1, Upwards
  <2>3. QED
    BY <2>2
<1>4. SUFFICES ASSUME NEW i \in 0..m, NEW j \in 0..n PROVE <<i, j>> \in P
  OBVIOUS
<1>5. i + j <= m + n
  OBVIOUS
<1>6. QED
  BY <1>3, <1>5

\* A place of a table and the three it is computed from.
InPlace(t, a, b, i, j) ==
  /\ t[j][i] \in Nat /\ t[j - 1][i] \in Nat /\ t[j][i - 1] \in Nat /\ t[j - 1][i - 1] \in Nat
  /\ t[j][i] <= t[j - 1][i] + 1
  /\ t[j][i] <= t[j][i - 1] + 1
  /\ t[j][i] <= t[j - 1][i - 1] + Cost(a, b, i, j)
  /\ \/ t[j][i] = t[j - 1][i] + 1
     \/ t[j][i] = t[j][i - 1] + 1
     \/ t[j][i] = t[j - 1][i - 1] + Cost(a, b, i, j)

LEMMA Place ==
  ASSUME NEW a, NEW b, NEW m \in Nat, NEW n \in Nat,
         NEW t, IsTable(t, a, b, m, n), NEW i \in 1..m, NEW j \in 1..n
  PROVE  InPlace(t, a, b, i, j)
<1>1. i \in 0..m /\ i - 1 \in 0..m /\ j \in 0..n /\ j - 1 \in 0..n
  OBVIOUS
<1>2. t \in [0..n -> [0..m -> Nat]]
  BY DEF IsTable
<1>3. t[j][i] \in Nat /\ t[j - 1][i] \in Nat /\ t[j][i - 1] \in Nat /\ t[j - 1][i - 1] \in Nat
  BY <1>1, <1>2
<1>4. Cost(a, b, i, j) \in Nat
  BY DEF Cost
<1>5. t[j][i] = Least({t[j - 1][i] + 1, t[j][i - 1] + 1, t[j - 1][i - 1] + Cost(a, b, i, j)})
  BY DEF IsTable
<1> DEFINE x == t[j - 1][i] + 1
           y == t[j][i - 1] + 1
           z == t[j - 1][i - 1] + Cost(a, b, i, j)
<1>6. x \in Nat /\ y \in Nat /\ z \in Nat
  <2> HIDE DEF IsTable
  <2>1. t[j - 1][i] + 1 \in Nat /\ t[j][i - 1] + 1 \in Nat /\ t[j - 1][i - 1] + Cost(a, b, i, j) \in Nat
    BY <1>3, <1>4
  <2>2. QED
    BY <2>1
<1>7. t[j][i] = Least({x, y, z})
  BY <1>5
<1>8. t[j][i] <= x /\ t[j][i] <= y /\ t[j][i] <= z /\ t[j][i] \in {x, y, z}
  <2> HIDE DEF x, y, z
  <2>1. QED
    BY <1>6, <1>7, LeastOfThree
<1>9. QED
  BY <1>3, <1>8 DEF InPlace

\* The edge of a table.
LEMMA Edge ==
  ASSUME NEW a, NEW b, NEW m \in Nat, NEW n \in Nat,
         NEW t, IsTable(t, a, b, m, n)
  PROVE  (\A i \in 0..m : t[0][i] = i) /\ (\A j \in 0..n : t[j][0] = j)
         /\ \A i \in 0..m, j \in 0..n : t[j][i] \in Nat
BY DEF IsTable

\* Neighbours in a table differ by one at most.
LEMMA Neighbours ==
  ASSUME NEW a, NEW b, NEW m \in Nat, NEW n \in Nat,
         NEW t, IsTable(t, a, b, m, n)
  PROVE  /\ \A i \in 1..m, j \in 0..n : t[j][i - 1] <= t[j][i] + 1
         /\ \A i \in 0..m, j \in 1..n : t[j - 1][i] <= t[j][i] + 1
<1> DEFINE Near(i, j) == /\ i > 0 => t[j][i - 1] <= t[j][i] + 1
                         /\ j > 0 => t[j - 1][i] <= t[j][i] + 1
           P == {p \in (0..m) \X (0..n) : Near(p[1], p[2])}
<1>0. (\A i \in 0..m : t[0][i] = i) /\ (\A j \in 0..n : t[j][0] = j)
  BY DEF IsTable
<1>1. ASSUME NEW i \in 0..m, NEW j \in 0..n,
             i > 0 => Near(i - 1, j), j > 0 => Near(i, j - 1)
      PROVE  Near(i, j)
  <2>1. CASE i = 0
    <3>1. j > 0 => t[j - 1][0] = j - 1 /\ t[j][0] = j
      <4>1. j > 0 => j - 1 \in 0..n
        OBVIOUS
      <4>2. QED
        BY <4>1, <1>0
    <3>2. QED
      BY <2>1, <3>1
  <2>2. CASE j = 0
    <3>1. i > 0 => t[0][i - 1] = i - 1 /\ t[0][i] = i
      <4>1. i > 0 => i - 1 \in 0..m
        OBVIOUS
      <4>2. QED
        BY <4>1, <1>0
    <3>2. QED
      BY <2>2, <3>1
  <2>3. CASE i > 0 /\ j > 0
    <3>1. i \in 1..m /\ j \in 1..n /\ i - 1 \in 0..m /\ j - 1 \in 0..n
      BY <2>3
    <3>2. t[j][i - 1] <= t[j - 1][i - 1] + 1
      <4>1. CASE i - 1 = 0
        <5>1. t[j][0] = j /\ t[j - 1][0] = j - 1
          BY <3>1, <1>0
        <5>2. QED
          BY <4>1, <5>1
      <4>2. CASE i - 1 \in 1..m
        <5>1. InPlace(t, a, b, i - 1, j)
          BY <3>1, <4>2, Place
        <5>2. QED
          BY <5>1 DEF InPlace
      <4>3. QED
        BY <3>1, <4>1, <4>2
    <3>3. t[j - 1][i] <= t[j - 1][i - 1] + 1
      <4>1. CASE j - 1 = 0
        <5>1. t[0][i] = i /\ t[0][i - 1] = i - 1
          BY <3>1, <1>0
        <5>2. QED
          BY <4>1, <5>1
      <4>2. CASE j - 1 \in 1..n
        <5>1. InPlace(t, a, b, i, j - 1)
          BY <3>1, <4>2, Place
        <5>2. QED
          BY <5>1 DEF InPlace
      <4>3. QED
        BY <3>1, <4>1, <4>2
    <3>4. t[j - 1][i - 1] <= t[j - 1][i] + 1 /\ t[j - 1][i - 1] <= t[j][i - 1] + 1
      BY <1>1, <2>3
    <3>5. Cost(a, b, i, j) \in 0..1
      BY DEF Cost
    <3>6. /\ t[j][i] \in Nat /\ t[j - 1][i] \in Nat /\ t[j][i - 1] \in Nat /\ t[j - 1][i - 1] \in Nat
          /\ \/ t[j][i] = t[j - 1][i] + 1
             \/ t[j][i] = t[j][i - 1] + 1
             \/ t[j][i] = t[j - 1][i - 1] + Cost(a, b, i, j)
      BY <3>1, Place DEF InPlace
    <3>7. t[j][i - 1] <= t[j][i] + 1 /\ t[j - 1][i] <= t[j][i] + 1
      BY <3>2, <3>3, <3>4, <3>5, <3>6
    <3>8. QED
      BY <3>7
  <2>4. QED
    BY <2>1, <2>2, <2>3
<1>2. \A i \in 0..m, j \in 0..n : <<i, j>> \in P
  <2>1. \A i \in 0..m, j \in 0..n : <<i, j>> \in P <=> Near(i, j)
    OBVIOUS
  <2>2. \A i \in 0..m, j \in 0..n :
           /\ i > 0 => <<i - 1, j>> \in P
           /\ j > 0 => <<i, j - 1>> \in P
           /\ i > 0 /\ j > 0 => <<i - 1, j - 1>> \in P
           => <<i, j>> \in P
    <3> HIDE DEF Near, P
    <3>1. QED
      BY <1>1, <2>1
  <2> HIDE DEF P
  <2>3. QED
    BY <2>2, OverTable
<1>3. \A i \in 0..m, j \in 0..n : Near(i, j)
  BY <1>2
<1>4. QED
  BY <1>3

\* Names that begin alike up to a place, and tables that do.
SameTo(a, c, p) == \A i \in 1..p : a[i] = c[i]
TablesSameTo(t, u, p, n) == \A i \in 0..p, j \in 0..n : u[j][i] = t[j][i]

\* Two names that begin alike: their tables do too.
LEMMA BeginAlike ==
  ASSUME NEW a, NEW c, NEW b, NEW m \in Nat, NEW l \in Nat, NEW n \in Nat,
         NEW t, IsTable(t, a, b, m, n), NEW u, IsTable(u, c, b, l, n),
         NEW p \in 0..m, p \in 0..l, SameTo(a, c, p)
  PROVE  TablesSameTo(t, u, p, n)
<1> DEFINE P == {q \in (0..p) \X (0..n) : u[q[2]][q[1]] = t[q[2]][q[1]]}
<1>0. \A i \in 0..p, j \in 0..n : <<i, j>> \in P <=> u[j][i] = t[j][i]
  OBVIOUS
<1>1. \A i \in 0..p : t[0][i] = i /\ u[0][i] = i
  <2>1. \A i \in 0..p : i \in 0..m /\ i \in 0..l
    OBVIOUS
  <2>2. QED
    BY <2>1 DEF IsTable
<1>2. \A j \in 0..n : t[j][0] = j /\ u[j][0] = j
  BY DEF IsTable
<1>3. ASSUME NEW i \in 0..p, NEW j \in 0..n,
             i > 0 => <<i - 1, j>> \in P,
             j > 0 => <<i, j - 1>> \in P,
             i > 0 /\ j > 0 => <<i - 1, j - 1>> \in P
      PROVE  <<i, j>> \in P
  <2>1. CASE i = 0 \/ j = 0
    BY <1>0, <1>1, <1>2, <2>1
  <2>2. CASE i > 0 /\ j > 0
    <3>1. i \in 1..p /\ i \in 1..m /\ i \in 1..l /\ j \in 1..n /\ i - 1 \in 0..p /\ j - 1 \in 0..n
      BY <2>2
    <3>2. u[j][i - 1] = t[j][i - 1] /\ u[j - 1][i] = t[j - 1][i] /\ u[j - 1][i - 1] = t[j - 1][i - 1]
      <4> HIDE DEF P
      <4>1. QED
        BY <1>0, <1>3, <2>2, <3>1
    <3>3. Cost(a, b, i, j) = Cost(c, b, i, j)
      BY <3>1 DEF Cost, SameTo
    <3>4. t[j][i] = Least({t[j - 1][i] + 1, t[j][i - 1] + 1, t[j - 1][i - 1] + Cost(a, b, i, j)})
      BY <3>1 DEF IsTable
    <3>5. u[j][i] = Least({u[j - 1][i] + 1, u[j][i - 1] + 1, u[j - 1][i - 1] + Cost(c, b, i, j)})
      BY <3>1 DEF IsTable
    <3>6. u[j][i] = t[j][i]
      BY <3>2, <3>3, <3>4, <3>5
    <3>7. QED
      BY <1>0, <3>6
  <2>3. QED
    BY <2>1, <2>2
<1>4. \A i \in 0..p, j \in 0..n : <<i, j>> \in P
  <2> HIDE DEF P
  <2>1. \A i \in 0..p, j \in 0..n :
           /\ i > 0 => <<i - 1, j>> \in P
           /\ j > 0 => <<i, j - 1>> \in P
           /\ i > 0 /\ j > 0 => <<i - 1, j - 1>> \in P
           => <<i, j>> \in P
    BY <1>3
  <2>2. p \in Nat
    OBVIOUS
  <2>3. QED
    BY <2>1, <2>2, OverTable
<1>5. QED
  BY <1>0, <1>4 DEF TablesSameTo

\* The other way round the table is transposed.
Transpose(t, m, n) == [i \in 0..m |-> [j \in 0..n |-> t[j][i]]]

LEMMA TransposedTable ==
  ASSUME NEW a, NEW b, NEW m \in Nat, NEW n \in Nat, NEW t, IsTable(t, a, b, m, n)
  PROVE  IsTable(Transpose(t, m, n), b, a, n, m) /\ Transpose(t, m, n)[m][n] = t[n][m]
<1> DEFINE u == Transpose(t, m, n)
<1>1. \A i \in 0..m, j \in 0..n : u[i][j] = t[j][i] /\ t[j][i] \in Nat
  BY Edge DEF Transpose
<1>2. u \in [0..m -> [0..n -> Nat]]
  BY <1>1 DEF Transpose
<1>3. (\A j \in 0..n : u[0][j] = j) /\ (\A i \in 0..m : u[i][0] = i)
  BY <1>1, 0 \in 0..m, 0 \in 0..n DEF IsTable
<1>4. ASSUME NEW j \in 1..n, NEW i \in 1..m
      PROVE  u[i][j] = Least({u[i - 1][j] + 1, u[i][j - 1] + 1, u[i - 1][j - 1] + Cost(b, a, j, i)})
  <2>1. i \in 0..m /\ i - 1 \in 0..m /\ j \in 0..n /\ j - 1 \in 0..n
    OBVIOUS
  <2>2. t[j][i] = Least({t[j - 1][i] + 1, t[j][i - 1] + 1, t[j - 1][i - 1] + Cost(a, b, i, j)})
    BY DEF IsTable
  <2>3. /\ u[i][j] = t[j][i] /\ u[i - 1][j] = t[j][i - 1] /\ u[i][j - 1] = t[j - 1][i]
        /\ u[i - 1][j - 1] = t[j - 1][i - 1]
    BY <1>1, <2>1
  <2>4. Cost(b, a, j, i) = Cost(a, b, i, j)
    BY DEF Cost
  <2> HIDE DEF u
  <2>5. {u[i - 1][j] + 1, u[i][j - 1] + 1, u[i - 1][j - 1] + Cost(b, a, j, i)}
          = {t[j - 1][i] + 1, t[j][i - 1] + 1, t[j - 1][i - 1] + Cost(a, b, i, j)}
    BY <2>3, <2>4
  <2>6. QED
    BY <2>2, <2>3, <2>5
<1>5. IsTable(u, b, a, n, m)
  <2> HIDE DEF u
  <2>1. QED
    BY <1>2, <1>3, <1>4 DEF IsTable
<1>6. m \in 0..m /\ n \in 0..n
  OBVIOUS
<1>7. QED
  BY <1>1, <1>5, <1>6

\* Equal names are at distance 0, and no others.
Alike(a, b, m, n) == m = n /\ SameTo(a, b, m)

LEMMA ZeroMeansSame ==
  ASSUME NEW a, NEW b, NEW m \in Nat, NEW n \in Nat, NEW t, IsTable(t, a, b, m, n)
  PROVE  t[n][m] = 0 <=> Alike(a, b, m, n)
<1> USE DEF Alike, SameTo
<1>1. ASSUME m = n, \A i \in 1..m : a[i] = b[i]
      PROVE  t[n][m] = 0
  <2> DEFINE T == {i \in 0..m : t[i][i] = 0}
  <2>1. 0 \in T
    BY DEF IsTable
  <2>2. ASSUME NEW i \in 1..m, i - 1 \in T
        PROVE  i \in T
    <3>1. t[i][i] \in Nat /\ t[i][i] <= t[i - 1][i - 1] + Cost(a, b, i, i)
      BY <1>1, Place DEF InPlace
    <3>2. Cost(a, b, i, i) = 0
      BY <1>1 DEF Cost
    <3>3. QED
      BY <2>2, <3>1, <3>2
  <2>3. m \in T
    <3> HIDE DEF T
    <3>1. \A i \in 1..m : i - 1 \in T => i \in T
      BY <2>2
    <3>2. \A i \in 0..m : i \in T
      BY <2>1, <3>1, Upwards
    <3>3. QED
      BY <3>2
  <2>4. QED
    BY <1>1, <2>3
<1>2. ASSUME t[n][m] = 0
      PROVE  m = n /\ \A i \in 1..m : a[i] = b[i]
  <2> DEFINE Same(i, j) == i = j /\ \A k \in 1..i : a[k] = b[k]
             P == {q \in (0..m) \X (0..n) : t[q[2]][q[1]] = 0 => Same(q[1], q[2])}
  <2>0. \A i \in 0..m, j \in 0..n : <<i, j>> \in P <=> (t[j][i] = 0 => Same(i, j))
    OBVIOUS
  <2>1. ASSUME NEW i \in 0..m, NEW j \in 0..n,
               i > 0 /\ j > 0 => <<i - 1, j - 1>> \in P, t[j][i] = 0
        PROVE  Same(i, j)
    <3>1. CASE i = 0
      BY <2>1, <3>1 DEF IsTable
    <3>2. CASE j = 0
      BY <2>1, <3>2 DEF IsTable
    <3>3. CASE i > 0 /\ j > 0
      <4>1. i \in 1..m /\ j \in 1..n /\ i - 1 \in 0..m /\ j - 1 \in 0..n
        BY <3>3
      <4>2. /\ t[j][i] \in Nat /\ t[j - 1][i] \in Nat /\ t[j][i - 1] \in Nat /\ t[j - 1][i - 1] \in Nat
            /\ \/ t[j][i] = t[j - 1][i] + 1
               \/ t[j][i] = t[j][i - 1] + 1
               \/ t[j][i] = t[j - 1][i - 1] + Cost(a, b, i, j)
        <5> HIDE DEF P, Same
        <5>1. QED
          BY <4>1, Place DEF InPlace
      <4>3. t[j - 1][i - 1] = 0 /\ Cost(a, b, i, j) = 0
        <5>1. Cost(a, b, i, j) \in 0..1
          BY DEF Cost
        <5>2. QED
          BY <2>1, <4>2, <5>1
      <4>4. a[i] = b[j]
        BY <4>3 DEF Cost
      <4>5. Same(i - 1, j - 1)
        <5> HIDE DEF P
        <5>1. QED
          BY <2>0, <2>1, <3>3, <4>1, <4>3
      <4>6. QED
        BY <4>1, <4>4, <4>5
    <3>4. QED
      BY <3>1, <3>2, <3>3
  <2>2. \A i \in 0..m, j \in 0..n :
           /\ i > 0 => <<i - 1, j>> \in P
           /\ j > 0 => <<i, j - 1>> \in P
           /\ i > 0 /\ j > 0 => <<i - 1, j - 1>> \in P
           => <<i, j>> \in P
    <3> HIDE DEF P, Same
    <3>1. QED
      BY <2>0, <2>1
  <2>3. \A i \in 0..m, j \in 0..n : <<i, j>> \in P
    <3> HIDE DEF P
    <3>1. QED
      BY <2>2, OverTable
  <2>4. m \in 0..m /\ n \in 0..n
    OBVIOUS
  <2>5. Same(m, n)
    <3> HIDE DEF P, Same
    <3>1. QED
      BY <1>2, <2>0, <2>3, <2>4
  <2>6. QED
    BY <2>5
<1>3. QED
  BY <1>1, <1>2

\* levenshtein is the corner of the table, whichever name is the shorter,
\* and in the cases it answers without one.
LEMMA CornerOfTable ==
  ASSUME NEW A, NEW a \in Seq(A), NEW b \in Seq(A),
         NEW m \in Nat, m = Len(a), NEW n \in Nat, n = Len(b)
  PROVE  \E t : IsTable(t, a, b, m, n) /\ levenshtein(a, b) = t[n][m]
<1>1. PICK t : IsTable(t, a, b, m, n) /\ Table(a, b) = t[n][m]
  BY TableDefined
<1>2. PICK u : IsTable(u, b, a, n, m) /\ Table(b, a) = u[m][n]
  BY TableDefined
<1>3. CASE a = b
  <2>1. t[n][m] = 0
    BY <1>1, <1>3, ZeroMeansSame DEF Alike, SameTo
  <2>2. QED
    BY <1>1, <1>3, <2>1 DEF levenshtein
<1>4. CASE a # b /\ a = <<>>
  <2>1. m = 0 /\ t[n][0] = n
    BY <1>1, <1>4 DEF IsTable
  <2>2. levenshtein(a, b) = n
    BY <1>4 DEF levenshtein
  <2>3. QED
    BY <1>1, <2>1, <2>2
<1>5. CASE a # b /\ b = <<>>
  <2>1. n = 0 /\ t[0][m] = m
    BY <1>1, <1>5 DEF IsTable
  <2>2. levenshtein(a, b) = m
    BY <1>5 DEF levenshtein
  <2>3. QED
    BY <1>1, <2>1, <2>2
<1>6. CASE a # b /\ a # <<>> /\ b # <<>>
  <2>1. levenshtein(a, b) = IF m > n THEN Table(b, a) ELSE Table(a, b)
    BY <1>6 DEF levenshtein
  <2>2. IsTable(Transpose(u, n, m), a, b, m, n) /\ Transpose(u, n, m)[n][m] = u[m][n]
    BY <1>2, TransposedTable
  <2>3. QED
    BY <1>1, <1>2, <2>1, <2>2
<1>7. QED
  BY <1>3, <1>4, <1>5, <1>6

\* Names that are alike after a place of each, for h characters.
Ending(p, h, m) == p \in Nat /\ h \in Nat /\ m = p + h
SameAfter(a, p, c, r, h) == \A k \in 1..h : a[p + k] = c[r + k]
OneMore(t, p, u, r, n) == \A j \in 0..n : u[j][r] <= t[j][p] + 1

\* Two names that end alike after the places p and r: what holds of the
\* distance at those places holds to the end.
LEMMA EndAlike ==
  ASSUME NEW a, NEW c, NEW b, NEW m \in Nat, NEW l \in Nat, NEW n \in Nat,
         NEW t, IsTable(t, a, b, m, n), NEW u, IsTable(u, c, b, l, n),
         NEW p, NEW r, NEW h, Ending(p, h, m), Ending(r, h, l),
         SameAfter(a, p, c, r, h), OneMore(t, p, u, r, n)
  PROVE  OneMore(t, m, u, l, n)
<1> USE DEF Ending, SameAfter, OneMore
<1> DEFINE Ahead(k, j) == u[j][r + k] <= t[j][p + k] + 1
           P == {q \in (0..h) \X (0..n) : Ahead(q[1], q[2])}
<1>0. \A k \in 0..h, j \in 0..n : <<k, j>> \in P <=> Ahead(k, j)
  OBVIOUS
<1>1. r <= p + 1 /\ p \in Nat /\ r \in Nat /\ h \in Nat
  <2>1. 0 \in 0..n /\ r \in 0..l /\ p \in 0..m
    OBVIOUS
  <2>2. u[0][r] = r /\ t[0][p] = p
    BY <2>1 DEF IsTable
  <2>3. QED
    BY <2>1, <2>2
<1>2. ASSUME NEW k \in 0..h, NEW j \in 0..n,
             k > 0 => Ahead(k - 1, j),
             j > 0 => Ahead(k, j - 1),
             k > 0 /\ j > 0 => Ahead(k - 1, j - 1)
      PROVE  Ahead(k, j)
  <2>1. CASE k = 0
    BY <2>1
  <2>2. CASE k > 0 /\ j = 0
    <3>1. r + k \in 0..l /\ p + k \in 0..m
      OBVIOUS
    <3>2. u[0][r + k] = r + k /\ t[0][p + k] = p + k
      BY <3>1 DEF IsTable
    <3>3. QED
      BY <1>1, <2>2, <3>2
  <2>3. CASE k > 0 /\ j > 0
    <3>1. /\ r + k \in 1..l /\ p + k \in 1..m /\ j \in 1..n
          /\ (r + k) - 1 = r + (k - 1) /\ (p + k) - 1 = p + (k - 1)
      BY <2>3
    <3>2. k \in 1..h
      BY <2>3
    <3>3. Cost(c, b, r + k, j) = Cost(a, b, p + k, j) /\ Cost(a, b, p + k, j) \in 0..1
      BY <3>2 DEF Cost
    <3>4. \E i \in 1..m : i = p + k
      BY <3>1
    <3>5. PICK i \in 1..m : i = p + k
      BY <3>4
    <3>6. PICK e \in 1..l : e = r + k
      BY <3>1
    <3>7. /\ t[j][i] \in Nat /\ t[j - 1][i] \in Nat /\ t[j][i - 1] \in Nat /\ t[j - 1][i - 1] \in Nat
          /\ \/ t[j][i] = t[j - 1][i] + 1
             \/ t[j][i] = t[j][i - 1] + 1
             \/ t[j][i] = t[j - 1][i - 1] + Cost(a, b, i, j)
      <4> HIDE DEF P, Ahead
      <4>1. QED
        BY <3>1, Place DEF InPlace
    <3>8. /\ u[j][e] \in Nat /\ u[j - 1][e] \in Nat /\ u[j][e - 1] \in Nat /\ u[j - 1][e - 1] \in Nat
          /\ u[j][e] <= u[j - 1][e] + 1
          /\ u[j][e] <= u[j][e - 1] + 1
          /\ u[j][e] <= u[j - 1][e - 1] + Cost(c, b, e, j)
      <4> HIDE DEF P, Ahead
      <4>1. QED
        BY <3>1, Place DEF InPlace
    <3>9. /\ u[j][e - 1] <= t[j][i - 1] + 1 /\ u[j - 1][e] <= t[j - 1][i] + 1
          /\ u[j - 1][e - 1] <= t[j - 1][i - 1] + 1
      BY <1>2, <2>3, <3>1, <3>5, <3>6
    <3>10. u[j][e] <= t[j][i] + 1
      <4> HIDE DEF Ahead, P
      <4>1. QED
        BY <3>3, <3>5, <3>6, <3>7, <3>8, <3>9
    <3>11. QED
      BY <3>5, <3>6, <3>10
  <2>4. QED
    BY <2>1, <2>2, <2>3
<1>3. \A k \in 0..h, j \in 0..n : <<k, j>> \in P
  <2> HIDE DEF P, Ahead
  <2>1. \A k \in 0..h, j \in 0..n :
           /\ k > 0 => <<k - 1, j>> \in P
           /\ j > 0 => <<k, j - 1>> \in P
           /\ k > 0 /\ j > 0 => <<k - 1, j - 1>> \in P
           => <<k, j>> \in P
    BY <1>0, <1>2
  <2>2. QED
    BY <2>1, OverTable
<1>4. \A j \in 0..n : Ahead(h, j)
  <2> HIDE DEF P, Ahead
  <2>1. h \in 0..h
    OBVIOUS
  <2>2. QED
    BY <1>0, <1>3, <2>1
<1>5. QED
  BY <1>4

\* The three edits that make c of a: character i is left out, replaced, or
\* one is put in after it.
Deletes(a, m, c, l, i) ==
  /\ i \in 1..m /\ l = m - 1
  /\ SameTo(a, c, i - 1) /\ SameAfter(a, i, c, i - 1, m - i)

Replaces(a, m, c, l, i) ==
  /\ i \in 1..m /\ l = m
  /\ SameTo(a, c, i - 1) /\ SameAfter(a, i, c, i, m - i)

Inserts(a, m, c, l, i) ==
  /\ i \in 0..m /\ l = m + 1
  /\ SameTo(a, c, i) /\ SameAfter(a, i, c, i + 1, m - i)

\* One edit of a name changes the distance by one at most.
LEMMA OneEdit ==
  ASSUME NEW a, NEW c, NEW b, NEW m \in Nat, NEW l \in Nat, NEW n \in Nat,
         NEW t, IsTable(t, a, b, m, n), NEW u, IsTable(u, c, b, l, n), NEW i,
         Deletes(a, m, c, l, i) \/ Replaces(a, m, c, l, i) \/ Inserts(a, m, c, l, i)
  PROVE  u[n][l] <= t[n][m] + 1
<1>0. n \in 0..n
  OBVIOUS
<1>1. CASE Deletes(a, m, c, l, i)
  <2>1. /\ i \in 1..m /\ i - 1 \in Nat /\ i \in Nat /\ m - i \in Nat /\ i - 1 \in 0..m /\ i - 1 \in 0..l
        /\ Ending(i, m - i, m) /\ Ending(i - 1, m - i, l)
    BY <1>1 DEF Deletes, Ending
  <2>2. SameTo(a, c, i - 1)
    BY <1>1 DEF Deletes
  <2>3. \A j \in 0..n : u[j][i - 1] = t[j][i - 1]
    <3>1. TablesSameTo(t, u, i - 1, n)
      BY <2>1, <2>2, BeginAlike
    <3>2. i - 1 \in 0..i - 1
      BY <2>1
    <3>3. QED
      BY <3>1, <3>2 DEF TablesSameTo
  <2>4. \A j \in 0..n : t[j][i - 1] <= t[j][i] + 1
    BY <2>1, Neighbours
  <2>5. OneMore(t, i, u, i - 1, n)
    BY <2>3, <2>4 DEF OneMore
  <2>6. SameAfter(a, i, c, i - 1, m - i)
    BY <1>1 DEF Deletes
  <2>7. OneMore(t, m, u, l, n)
    BY <2>1, <2>5, <2>6, EndAlike
  <2>8. QED
    BY <1>0, <2>7 DEF OneMore
<1>2. CASE Replaces(a, m, c, l, i)
  <2>1. /\ i \in 1..m /\ i - 1 \in Nat /\ i \in Nat /\ m - i \in Nat /\ i - 1 \in 0..m /\ i - 1 \in 0..l
        /\ Ending(i, m - i, m) /\ Ending(i, m - i, l) /\ i \in 1..l
    BY <1>2 DEF Replaces, Ending
  <2>2. SameTo(a, c, i - 1)
    BY <1>2 DEF Replaces
  <2>3. \A j \in 0..n : u[j][i - 1] = t[j][i - 1]
    <3>1. TablesSameTo(t, u, i - 1, n)
      BY <2>1, <2>2, BeginAlike
    <3>2. i - 1 \in 0..i - 1
      BY <2>1
    <3>3. QED
      BY <3>1, <3>2 DEF TablesSameTo
  <2> DEFINE T == {j \in 0..n : u[j][i] <= t[j][i] + 1}
  <2>4. 0 \in T
    <3>1. u[0][i] = i /\ t[0][i] = i
      <4>1. i \in 0..m /\ i \in 0..l
        BY <2>1
      <4>2. QED
        BY <4>1 DEF IsTable
    <3>2. QED
      BY <2>1, <3>1
  <2>5. ASSUME NEW j \in 1..n, j - 1 \in T
        PROVE  j \in T
    <3>1. j \in 0..n /\ j - 1 \in 0..n
      OBVIOUS
    <3>2. /\ t[j][i] \in Nat /\ t[j - 1][i] \in Nat /\ t[j][i - 1] \in Nat /\ t[j - 1][i - 1] \in Nat
          /\ \/ t[j][i] = t[j - 1][i] + 1
             \/ t[j][i] = t[j][i - 1] + 1
             \/ t[j][i] = t[j - 1][i - 1] + Cost(a, b, i, j)
      <4>1. InPlace(t, a, b, i, j)
        BY <2>1, Place
      <4>2. QED
        BY <4>1 DEF InPlace
    <3>3. /\ u[j][i] \in Nat /\ u[j - 1][i] \in Nat /\ u[j][i - 1] \in Nat /\ u[j - 1][i - 1] \in Nat
          /\ u[j][i] <= u[j - 1][i] + 1
          /\ u[j][i] <= u[j][i - 1] + 1
          /\ u[j][i] <= u[j - 1][i - 1] + Cost(c, b, i, j)
      <4>1. InPlace(u, c, b, i, j)
        BY <2>1, Place
      <4>2. QED
        BY <4>1 DEF InPlace
    <3>4. Cost(a, b, i, j) \in 0..1 /\ Cost(c, b, i, j) \in 0..1
      BY DEF Cost
    <3>5. u[j][i - 1] = t[j][i - 1] /\ u[j - 1][i - 1] = t[j - 1][i - 1]
      BY <2>3, <3>1
    <3>6. u[j - 1][i] <= t[j - 1][i] + 1
      BY <2>5
    <3>7. u[j][i] <= t[j][i] + 1
      BY <3>2, <3>3, <3>4, <3>5, <3>6
    <3>8. QED
      BY <3>1, <3>7
  <2>6. OneMore(t, i, u, i, n)
    <3>1. \A j \in 1..n : j - 1 \in T => j \in T
      BY <2>5
    <3>2. \A j \in 0..n : j \in T
      <4> HIDE DEF T
      <4>1. QED
        BY <2>4, <3>1, Upwards
    <3>3. QED
      BY <3>2 DEF OneMore
  <2>7. SameAfter(a, i, c, i, m - i)
    BY <1>2 DEF Replaces
  <2>8. OneMore(t, m, u, l, n)
    BY <2>1, <2>6, <2>7, EndAlike
  <2>9. QED
    BY <1>0, <2>8 DEF OneMore
<1>3. CASE Inserts(a, m, c, l, i)
  <2>1. /\ i \in 0..m /\ i + 1 \in 1..l /\ i \in Nat /\ i + 1 \in Nat /\ m - i \in Nat /\ i \in 0..l
        /\ Ending(i, m - i, m) /\ Ending(i + 1, m - i, l) /\ (i + 1) - 1 = i
    BY <1>3 DEF Inserts, Ending
  <2>2. SameTo(a, c, i)
    BY <1>3 DEF Inserts
  <2>3. \A j \in 0..n : u[j][i] = t[j][i]
    <3>1. TablesSameTo(t, u, i, n)
      BY <2>1, <2>2, BeginAlike
    <3>2. i \in 0..i
      BY <2>1
    <3>3. QED
      BY <3>1, <3>2 DEF TablesSameTo
  <2>4. OneMore(t, i, u, i + 1, n)
    <3>1. SUFFICES ASSUME NEW j \in 0..n PROVE u[j][i + 1] <= t[j][i] + 1
      BY DEF OneMore
    <3>2. CASE j = 0
      <4>1. i \in 0..m /\ i + 1 \in 0..l
        BY <2>1
      <4>2. u[0][i + 1] = i + 1 /\ t[0][i] = i
        BY <4>1 DEF IsTable
      <4>3. QED
        BY <2>1, <3>2, <4>2
    <3>3. CASE j \in 1..n
      <4>1. PICK e \in 1..l : e = i + 1
        BY <2>1
      <4>2. u[j][e] <= u[j][e - 1] + 1
        BY <3>3, Place DEF InPlace
      <4>3. e - 1 = i
        BY <2>1, <4>1
      <4>4. QED
        BY <2>3, <4>1, <4>2, <4>3
    <3>4. QED
      BY <3>2, <3>3
  <2>5. SameAfter(a, i, c, i + 1, m - i)
    BY <1>3 DEF Inserts
  <2>6. OneMore(t, m, u, l, n)
    BY <2>1, <2>4, <2>5, EndAlike
  <2>7. QED
    BY <1>0, <2>6 DEF OneMore
<1>4. QED
  BY <1>1, <1>2, <1>3

\* One sequence after another.
IsJoin(z, x, y, A) ==
  /\ z \in Seq(A) /\ Len(z) = Len(x) + Len(y)
  /\ \A k \in 1..Len(x) : z[k] = x[k]
  /\ \A k \in 1..Len(y) : z[Len(x) + k] = y[k]

LEMMA Joined ==
  ASSUME NEW A, NEW x \in Seq(A), NEW y \in Seq(A)
  PROVE  IsJoin(x \o y, x, y, A)
<1>1. Len(x) \in Nat /\ Len(y) \in Nat
  OBVIOUS
<1>2. /\ x \o y \in Seq(A) /\ Len(x \o y) = Len(x) + Len(y)
      /\ \A i \in 1..Len(x) + Len(y) : (x \o y)[i] = IF i <= Len(x) THEN x[i] ELSE y[i - Len(x)]
  BY ConcatProperties
<1>3. ASSUME NEW k \in 1..Len(x)
      PROVE  (x \o y)[k] = x[k]
  <2>1. k \in 1..Len(x) + Len(y) /\ k <= Len(x)
    BY <1>1
  <2>2. QED
    BY <1>2, <2>1
<1>4. ASSUME NEW k \in 1..Len(y)
      PROVE  (x \o y)[Len(x) + k] = y[k]
  <2>1. Len(x) + k \in 1..Len(x) + Len(y) /\ ~(Len(x) + k <= Len(x)) /\ (Len(x) + k) - Len(x) = k
    BY <1>1
  <2>2. (x \o y)[Len(x) + k] = y[(Len(x) + k) - Len(x)]
    BY <1>2, <2>1
  <2>3. QED
    BY <2>1, <2>2
<1>5. QED
  BY <1>2, <1>3, <1>4 DEF IsJoin

\* Leaving out a character.
LEMMA DeleteShape ==
  ASSUME NEW A, NEW a \in Seq(A), NEW i \in 1..Len(a)
  PROVE  /\ Without(a, i) \in Seq(A) /\ Len(Without(a, i)) = Len(a) - 1
         /\ Deletes(a, Len(a), Without(a, i), Len(a) - 1, i)
<1> DEFINE x == SubSeq(a, 1, i - 1)
           y == SubSeq(a, i + 1, Len(a))
<1>1. x \in Seq(A) /\ Len(x) = i - 1 /\ \A k \in 1..i - 1 : x[k] = a[k]
  OBVIOUS
<1>2. y \in Seq(A) /\ Len(y) = Len(a) - i /\ \A k \in 1..Len(a) - i : y[k] = a[i + k]
  OBVIOUS
<1>3. Without(a, i) = x \o y
  BY DEF Without
<1> HIDE DEF x, y
<1>4. IsJoin(x \o y, x, y, A)
  BY <1>1, <1>2, Joined, Zenon
<1> DEFINE z == x \o y
<1> HIDE DEF z
<1>5. IsJoin(z, x, y, A) /\ Without(a, i) = z
  BY <1>3, <1>4 DEF z
<1>6. Len(z) = Len(a) - 1 /\ z \in Seq(A)
  BY <1>1, <1>2, <1>5 DEF IsJoin
<1>7. SameTo(a, z, i - 1)
  BY <1>1, <1>5 DEF IsJoin, SameTo
<1>8. SameAfter(a, i, z, i - 1, Len(a) - i)
  BY <1>1, <1>2, <1>5 DEF IsJoin, SameAfter
<1>9. QED
  BY <1>5, <1>6, <1>7, <1>8 DEF Deletes

Replaced(a, i, e) == [a EXCEPT ![i] = e]
Inserted(a, i, e) == SubSeq(a, 1, i) \o <<e>> \o SubSeq(a, i + 1, Len(a))

\* Replacing one.
LEMMA ReplaceShape ==
  ASSUME NEW A, NEW a \in Seq(A), NEW i \in 1..Len(a), NEW e \in A
  PROVE  /\ Replaced(a, i, e) \in Seq(A) /\ Len(Replaced(a, i, e)) = Len(a)
         /\ Replaces(a, Len(a), Replaced(a, i, e), Len(a), i)
<1> USE DEF Replaced
<1>1. /\ [a EXCEPT ![i] = e] \in Seq(A) /\ Len([a EXCEPT ![i] = e]) = Len(a)
      /\ \A k \in 1..Len(a) : k # i => [a EXCEPT ![i] = e][k] = a[k]
  OBVIOUS
<1>2. (\A k \in 1..i - 1 : k \in 1..Len(a) /\ k # i) /\ (\A k \in 1..Len(a) - i : i + k \in 1..Len(a) /\ i + k # i)
  OBVIOUS
<1>3. QED
  BY <1>1, <1>2 DEF Replaces, SameTo, SameAfter

\* Putting one in.
LEMMA InsertShape ==
  ASSUME NEW A, NEW a \in Seq(A), NEW i \in 0..Len(a), NEW e \in A
  PROVE  /\ Inserted(a, i, e) \in Seq(A) /\ Len(Inserted(a, i, e)) = Len(a) + 1
         /\ Inserts(a, Len(a), Inserted(a, i, e), Len(a) + 1, i)
<1> DEFINE x == SubSeq(a, 1, i)
           y == SubSeq(a, i + 1, Len(a))
<1>1. x \in Seq(A) /\ Len(x) = i /\ \A k \in 1..i : x[k] = a[k]
  OBVIOUS
<1>2. y \in Seq(A) /\ Len(y) = Len(a) - i /\ \A k \in 1..Len(a) - i : y[k] = a[i + k]
  OBVIOUS
<1> DEFINE c == Inserted(a, i, e)
<1>3. c = (x \o <<e>>) \o y
  BY DEF Inserted
<1> HIDE DEF c
<1> HIDE DEF x, y
<1>4. /\ x \o <<e>> \in Seq(A) /\ Len(x \o <<e>>) = i + 1
      /\ \A k \in 1..i : (x \o <<e>>)[k] = x[k]
  BY <1>1
<1> DEFINE z == x \o <<e>>
<1> HIDE DEF z
<1>5. z \in Seq(A) /\ Len(z) = i + 1 /\ \A k \in 1..i : z[k] = a[k]
  BY <1>1, <1>4 DEF z
<1>6. IsJoin(z \o y, z, y, A)
  BY <1>2, <1>5, Joined, Zenon
<1>7. IsJoin(c, z, y, A)
  BY <1>3, <1>6 DEF z
<1>8. \A k \in 1..i : k \in 1..Len(z)
  BY <1>5
<1>9. c \in Seq(A) /\ Len(c) = Len(a) + 1
  BY <1>1, <1>2, <1>5, <1>7 DEF IsJoin
<1>10. SameTo(a, c, i)
  BY <1>5, <1>7, <1>8 DEF SameTo, IsJoin
<1>11. SameAfter(a, i, c, i + 1, Len(a) - i)
  BY <1>2, <1>5, <1>7 DEF SameAfter, IsJoin
<1>12. QED
  BY <1>9, <1>10, <1>11 DEF Inserts, c

\* The three kinds of an edit.
LEMMA EditKinds ==
  ASSUME NEW A, NEW a \in Seq(A)
  PROVE  /\ \A i \in 1..Len(a) : Without(a, i) \in Edits(a, A)
         /\ \A i \in 1..Len(a), e \in A : Replaced(a, i, e) \in Edits(a, A)
         /\ \A i \in 0..Len(a), e \in A : Inserted(a, i, e) \in Edits(a, A)
         /\ \A c \in Edits(a, A) :
              \/ \E i \in 1..Len(a) : c = Without(a, i)
              \/ \E i \in 1..Len(a), e \in A : c = Replaced(a, i, e)
              \/ \E i \in 0..Len(a), e \in A : c = Inserted(a, i, e)
<1>1. Edits(a, A) = {Without(a, i) : i \in 1..Len(a)}
                      \cup {Replaced(a, i, e) : i \in 1..Len(a), e \in A}
                      \cup {Inserted(a, i, e) : i \in 0..Len(a), e \in A}
  BY DEF Edits, Replaced, Inserted
<1>2. QED
  BY <1>1

\* One edit of a name of the alphabet is such a name, no further from any
\* other by more than one.
LEMMA EditShape ==
  ASSUME NEW A, NEW a \in Seq(A), NEW c \in Edits(a, A)
  PROVE  /\ c \in Seq(A)
         /\ \E i : \/ Deletes(a, Len(a), c, Len(c), i)
                   \/ Replaces(a, Len(a), c, Len(c), i)
                   \/ Inserts(a, Len(a), c, Len(c), i)
<1>1. CASE \E i \in 1..Len(a) : c = Without(a, i)
  <2>1. PICK i \in 1..Len(a) : c = Without(a, i)
    BY <1>1
  <2>2. QED
    BY <2>1, DeleteShape
<1>2. CASE \E i \in 1..Len(a), e \in A : c = Replaced(a, i, e)
  <2>1. PICK i \in 1..Len(a), e \in A : c = Replaced(a, i, e)
    BY <1>2
  <2>2. c \in Seq(A) /\ Len(c) = Len(a) /\ Replaces(a, Len(a), c, Len(a), i)
    BY <2>1, ReplaceShape
  <2>3. QED
    BY <2>2
<1>3. CASE \E i \in 0..Len(a), e \in A : c = Inserted(a, i, e)
  <2>1. PICK i \in 0..Len(a), e \in A : c = Inserted(a, i, e)
    BY <1>3
  <2>2. c \in Seq(A) /\ Len(c) = Len(a) + 1 /\ Inserts(a, Len(a), c, Len(a) + 1, i)
    BY <2>1, InsertShape
  <2>3. QED
    BY <2>2
<1>4. \/ \E i \in 1..Len(a) : c = Without(a, i)
      \/ \E i \in 1..Len(a), e \in A : c = Replaced(a, i, e)
      \/ \E i \in 0..Len(a), e \in A : c = Inserted(a, i, e)
  BY EditKinds
<1>5. QED
  BY <1>1, <1>2, <1>3, <1>4, Zenon

LEMMA EditDistanceStep ==
  ASSUME NEW A, NEW a \in Seq(A), NEW c \in Edits(a, A), NEW q \in Seq(A)
  PROVE  c \in Seq(A) /\ levenshtein(c, q) <= levenshtein(a, q) + 1
<1>1. c \in Seq(A)
  BY EditShape
<1>2. PICK m \in Nat, l \in Nat, n \in Nat : m = Len(a) /\ l = Len(c) /\ n = Len(q)
  BY <1>1
<1>3. PICK i : Deletes(a, m, c, l, i) \/ Replaces(a, m, c, l, i) \/ Inserts(a, m, c, l, i)
  BY <1>2, EditShape
<1>4. PICK t : IsTable(t, a, q, m, n) /\ levenshtein(a, q) = t[n][m]
  BY <1>2, CornerOfTable
<1>5. PICK u : IsTable(u, c, q, l, n) /\ levenshtein(c, q) = u[n][l]
  BY <1>1, <1>2, CornerOfTable
<1>6. u[n][l] <= t[n][m] + 1
  BY <1>3, <1>4, <1>5, OneEdit
<1>7. QED
  BY <1>1, <1>4, <1>5, <1>6

\* The names within n edits, edit by edit.
IsReach(reach, a, n, A) ==
  /\ DOMAIN reach = 0..n /\ reach[0] = {a}
  /\ \A k \in 1..n : reach[k] = reach[k - 1] \cup UNION {Edits(w, A) : w \in reach[k - 1]}

LEMMA WithinDefined ==
  ASSUME NEW A, NEW a \in Seq(A), NEW n \in Nat
  PROVE  \E reach : IsReach(reach, a, n, A) /\ Within(a, n, A) = reach[n]
<1> DEFINE X == SUBSET Seq(A)
           more(R) == R \cup UNION {Edits(w, A) : w \in R}
           step == [k \in 1..n |-> [R \in X |-> more(R)]]
<1>1. \A R \in X : more(R) \in X
  BY EditShape
<1>2. Steps(step, n, X)
  <2> HIDE DEF X, more
  <2>1. QED
    BY <1>1 DEF Steps
<1>3. \A k \in 1..n, R \in X : step[k][R] = more(R)
  OBVIOUS
<1>4. {a} \in X
  OBVIOUS
<1> HIDE DEF X, step
<1>5. PICK f : RunOf(f, step, n, X, {a})
  BY <1>2, <1>4, StepByStep
<1>6. \A k \in 1..n : k \in 0..n /\ k - 1 \in 0..n
  OBVIOUS
<1>7. f \in [0..n -> X] /\ f[0] = {a} /\ \A k \in 1..n : f[k] = more(f[k - 1])
  <2> HIDE DEF more
  <2>1. f \in [0..n -> X] /\ f[0] = {a} /\ \A k \in 1..n : f[k] = step[k][f[k - 1]]
    BY <1>5 DEF RunOf
  <2>2. \A k \in 1..n : f[k - 1] \in X
    BY <1>6, <2>1
  <2>3. QED
    BY <1>3, <2>1, <2>2
<1> DEFINE Rec(r, k) == IF k = 0 THEN {a} ELSE more(r[k - 1])
<1>8. f = [k \in 0..n |-> Rec(f, k)]
  <2> HIDE DEF more
  <2>1. QED
    BY <1>7
<1>9. PICK r : r = [k \in 0..n |-> Rec(r, k)] /\ Within(a, n, A) = r[n]
  <2> DEFINE r == CHOOSE g : g = [k \in 0..n |-> Rec(g, k)]
  <2>1. Within(a, n, A) = r[n]
    BY DEF Within
  <2>2. r = [k \in 0..n |-> Rec(r, k)]
    <3> HIDE DEF Rec
    <3>1. QED
      BY <1>8
  <2> HIDE DEF r
  <2>3. QED
    BY <2>1, <2>2
<1>10. IsReach(r, a, n, A)
  BY <1>6, <1>9 DEF IsReach
<1>11. QED
  BY <1>9, <1>10

\* A distance is a number.
LEMMA DistanceIsNat ==
  ASSUME NEW A, NEW v \in Seq(A), NEW q \in Seq(A)
  PROVE  levenshtein(v, q) \in Nat
<1>1. PICK m \in Nat, l \in Nat : m = Len(v) /\ l = Len(q)
  OBVIOUS
<1>2. PICK t : IsTable(t, v, q, m, l) /\ levenshtein(v, q) = t[l][m]
  BY <1>1, CornerOfTable
<1>3. m \in 0..m /\ l \in 0..l
  OBVIOUS
<1>4. QED
  BY <1>2, <1>3 DEF IsTable

\* A name within n edits of another is at distance n at most, as the code
\* computes it.
LEMMA WithinMeansNear ==
  ASSUME NEW A, NEW q \in Seq(A), NEW n \in Nat, NEW w \in Within(q, n, A)
  PROVE  w \in Seq(A) /\ levenshtein(w, q) <= n
<1>1. PICK reach : IsReach(reach, q, n, A) /\ Within(q, n, A) = reach[n]
  BY WithinDefined
<1> DEFINE Near(v, k) == v \in Seq(A) /\ levenshtein(v, q) \in Nat /\ levenshtein(v, q) <= k
           T == {k \in 0..n : \A v \in reach[k] : Near(v, k)}
<1>0. \A v \in Seq(A) : levenshtein(v, q) \in Nat
  BY DistanceIsNat
<1>2. 0 \in T
  <2>1. levenshtein(q, q) = 0
    BY DEF levenshtein
  <2>2. QED
    BY <1>1, <2>1 DEF IsReach
<1>3. ASSUME NEW k \in 1..n, k - 1 \in T
      PROVE  k \in T
  <2>1. reach[k] = reach[k - 1] \cup UNION {Edits(v, A) : v \in reach[k - 1]}
    BY <1>1 DEF IsReach
  <2>2. \A v \in reach[k - 1] : Near(v, k - 1)
    BY <1>3
  <2>3. ASSUME NEW v \in reach[k - 1], NEW c \in Edits(v, A)
        PROVE  Near(c, k)
    <3>1. Near(v, k - 1)
      BY <2>2
    <3>2. c \in Seq(A) /\ levenshtein(c, q) <= levenshtein(v, q) + 1
      BY <3>1, EditDistanceStep
    <3>3. QED
      BY <1>0, <3>1, <3>2
  <2>4. \A v \in reach[k] : Near(v, k)
    BY <2>1, <2>2, <2>3
  <2>5. QED
    BY <2>4
<1>4. n \in T
  <2> HIDE DEF T
  <2>1. \A k \in 1..n : k - 1 \in T => k \in T
    BY <1>3
  <2>2. \A k \in 0..n : k \in T
    BY <1>2, <2>1, Upwards
  <2>3. QED
    BY <2>2
<1>5. QED
  BY <1>1, <1>4

\* What is within n edits of a name, edit by edit.
LEMMA WithinStep ==
  ASSUME NEW A, NEW a \in Seq(A), NEW n \in Nat
  PROVE  /\ Within(a, 0, A) = {a}
         /\ Within(a, n + 1, A) =
              Within(a, n, A) \cup UNION {Edits(w, A) : w \in Within(a, n, A)}
<1>1. PICK r : IsReach(r, a, 0, A) /\ Within(a, 0, A) = r[0]
  BY WithinDefined
<1>2. PICK f : IsReach(f, a, n, A) /\ Within(a, n, A) = f[n]
  BY WithinDefined
<1>3. n + 1 \in Nat
  OBVIOUS
<1>4. PICK g : IsReach(g, a, n + 1, A) /\ Within(a, n + 1, A) = g[n + 1]
  BY <1>3, WithinDefined
<1> DEFINE T == {k \in 0..n : f[k] = g[k]}
           more(R) == R \cup UNION {Edits(w, A) : w \in R}
<1>0. /\ f[0] = {a} /\ g[0] = {a}
      /\ \A k \in 1..n : f[k] = more(f[k - 1]) /\ k \in 1..n + 1
      /\ \A k \in 1..n + 1 : g[k] = more(g[k - 1])
  <2>1. f[0] = {a} /\ \A k \in 1..n : f[k] = more(f[k - 1])
    BY <1>2 DEF IsReach
  <2>2. g[0] = {a} /\ \A k \in 1..n + 1 : g[k] = more(g[k - 1])
    BY <1>4 DEF IsReach
  <2>3. \A k \in 1..n : k \in 1..n + 1
    OBVIOUS
  <2>4. QED
    BY <2>1, <2>2, <2>3
<1> HIDE DEF more
<1>5. 0 \in T
  <2>1. f[0] = g[0] /\ 0 \in 0..n
    BY <1>0
  <2>2. QED
    BY <2>1
<1>6. \A k \in 1..n : k - 1 \in T => k \in T
  BY <1>0
<1>7. f[n] = g[n]
  <2>1. \A k \in 0..n : k \in T
    <3> HIDE DEF T
    <3>1. QED
      BY <1>5, <1>6, Upwards
  <2>2. QED
    BY <2>1
<1>8. g[n + 1] = g[n] \cup UNION {Edits(w, A) : w \in g[n]}
  <2>1. n + 1 \in 1..n + 1 /\ (n + 1) - 1 = n
    OBVIOUS
  <2>2. QED
    BY <1>0, <2>1 DEF more
<1>9. QED
  BY <1>1, <1>2, <1>4, <1>7, <1>8 DEF IsReach

\* What holds of a name and of every edit of a name it holds of, holds within any
\* number of edits.
LEMMA OverEdits ==
  ASSUME NEW A, NEW a \in Seq(A), NEW P,
         <<0, a>> \in P,
         \A k \in Nat, w \in Seq(A) : \A c \in Edits(w, A) :
           <<k, w>> \in P => <<k + 1, c>> \in P,
         \A k \in Nat, w \in Seq(A) : <<k, w>> \in P => <<k + 1, w>> \in P
  PROVE  \A n \in Nat : \A w \in Within(a, n, A) : w \in Seq(A) /\ <<n, w>> \in P
<1> SUFFICES ASSUME NEW n \in Nat
             PROVE  \A w \in Within(a, n, A) : w \in Seq(A) /\ <<n, w>> \in P
  OBVIOUS
<1> DEFINE T == {k \in 0..n : \A w \in Within(a, k, A) : w \in Seq(A) /\ <<k, w>> \in P}
<1>1. 0 \in T
  BY WithinStep
<1>2. ASSUME NEW k \in 1..n, k - 1 \in T
      PROVE  k \in T
  <2>1. k - 1 \in Nat /\ (k - 1) + 1 = k
    OBVIOUS
  <2>2. Within(a, k, A) =
          Within(a, k - 1, A) \cup UNION {Edits(w, A) : w \in Within(a, k - 1, A)}
    <3>1. \A i \in Nat : Within(a, i + 1, A) =
            Within(a, i, A) \cup UNION {Edits(w, A) : w \in Within(a, i, A)}
      BY WithinStep
    <3>2. QED
      BY <2>1, <3>1
  <2>3. \A w \in Within(a, k - 1, A) : w \in Seq(A) /\ <<k - 1, w>> \in P
    BY <1>2
  <2>4. ASSUME NEW w \in Within(a, k - 1, A)
        PROVE  <<k, w>> \in P
    <3>1. w \in Seq(A) /\ <<k - 1, w>> \in P
      BY <2>3
    <3>2. <<(k - 1) + 1, w>> \in P
      BY <2>1, <3>1
    <3>3. QED
      BY <2>1, <3>2
  <2>5. ASSUME NEW w \in Within(a, k - 1, A), NEW c \in Edits(w, A)
        PROVE  c \in Seq(A) /\ <<k, c>> \in P
    <3>1. w \in Seq(A) /\ <<k - 1, w>> \in P
      BY <2>3
    <3>2. c \in Seq(A)
      BY <3>1, EditShape
    <3>3. <<(k - 1) + 1, c>> \in P
      BY <2>1, <3>1
    <3>4. QED
      BY <2>1, <3>2, <3>3
  <2>6. \A w \in Within(a, k, A) : w \in Seq(A) /\ <<k, w>> \in P
    BY <2>2, <2>3, <2>4, <2>5
  <2>7. QED
    BY <2>6
<1>3. n \in T
  <2> HIDE DEF T
  <2>1. \A k \in 1..n : k - 1 \in T => k \in T
    BY <1>2
  <2>2. \A k \in 0..n : k \in T
    BY <1>1, <2>1, Upwards
  <2>3. QED
    BY <2>2
<1>4. QED
  BY <1>3

\* The character that was put in.
LEMMA InsertedThere ==
  ASSUME NEW A, NEW a \in Seq(A), NEW i \in 0..Len(a), NEW e \in A
  PROVE  Inserted(a, i, e)[i + 1] = e
<1> DEFINE x == SubSeq(a, 1, i)
           y == SubSeq(a, i + 1, Len(a))
           z == x \o <<e>>
<1>1. x \in Seq(A) /\ Len(x) = i /\ y \in Seq(A)
  OBVIOUS
<1>2. Inserted(a, i, e) = z \o y
  BY DEF Inserted
<1> HIDE DEF x, y
<1>3. z \in Seq(A) /\ Len(z) = i + 1 /\ z[i + 1] = e
  BY <1>1
<1> HIDE DEF z
<1>4. IsJoin(z \o y, z, y, A)
  BY <1>1, <1>3, Joined, Zenon
<1>5. i + 1 \in 1..Len(z)
  BY <1>3
<1>6. (z \o y)[i + 1] = z[i + 1]
  BY <1>4, <1>5 DEF IsJoin
<1>7. QED
  BY <1>2, <1>3, <1>6

\* The edits at the end of a name.
LEMMA EditsAtEnd ==
  ASSUME NEW A, NEW a \in Seq(A), NEW c \in A, NEW d \in A
  PROVE  /\ Append(a, c) \in Edits(a, A)
         /\ a \in Edits(Append(a, c), A)
         /\ Append(a, d) \in Edits(Append(a, c), A)
<1> DEFINE m == Len(a)
           z == Append(a, c)
           y == Append(a, d)
<1>1. m \in Nat /\ m \in 0..m
  OBVIOUS
<1>2. z \in Seq(A) /\ Len(z) = m + 1 /\ (\A k \in 1..m : z[k] = a[k]) /\ z[m + 1] = c
  BY AppendProperties
<1>3. y \in Seq(A) /\ Len(y) = m + 1 /\ (\A k \in 1..m : y[k] = a[k]) /\ y[m + 1] = d
  BY AppendProperties
<1> HIDE DEF z, y
<1>4. z \in Edits(a, A)
  <2> DEFINE w == Inserted(a, m, c)
  <2>1. /\ w \in Seq(A) /\ Len(w) = m + 1 /\ Inserts(a, m, w, m + 1, m)
        /\ w[m + 1] = c /\ w \in Edits(a, A)
    <3>1. w \in Seq(A) /\ Len(w) = m + 1 /\ Inserts(a, m, w, m + 1, m)
      BY <1>1, InsertShape
    <3>2. w[m + 1] = c
      BY <1>1, InsertedThere
    <3>3. w \in Edits(a, A)
      BY <1>1, EditKinds
    <3>4. QED
      BY <3>1, <3>2, <3>3
  <2> HIDE DEF w
  <2>2. \A k \in 1..m + 1 : w[k] = z[k]
    BY <1>1, <1>2, <2>1 DEF Inserts, SameTo
  <2>3. w = z
    BY <1>2, <2>1, <2>2, SeqEqual
  <2>4. QED
    BY <2>1, <2>3
<1>5. a \in Edits(z, A)
  <2> DEFINE w == Without(z, m + 1)
  <2>1. m + 1 \in 1..Len(z)
    BY <1>1, <1>2
  <2>2. w \in Seq(A) /\ Len(w) = m /\ Deletes(z, m + 1, w, m, m + 1)
    <3>1. Without(z, m + 1) \in Seq(A) /\ Len(Without(z, m + 1)) = Len(z) - 1
          /\ Deletes(z, Len(z), Without(z, m + 1), Len(z) - 1, m + 1)
      BY <1>2, <2>1, DeleteShape
    <3>2. Len(z) = m + 1 /\ Len(z) - 1 = m
      BY <1>1, <1>2
    <3>3. QED
      BY <3>1, <3>2
  <2> HIDE DEF w
  <2>3. \A k \in 1..m : w[k] = z[k]
    <3>1. (m + 1) - 1 = m
      BY <1>1
    <3>2. QED
      BY <2>2, <3>1 DEF Deletes, SameTo
  <2>4. w = a
    BY <1>2, <2>2, <2>3, SeqEqual
  <2>5. w \in Edits(z, A)
    BY <1>2, <2>1, EditKinds DEF w
  <2>6. QED
    BY <2>4, <2>5
<1>6. y \in Edits(z, A)
  <2> DEFINE w == [z EXCEPT ![m + 1] = d]
  <2>1. m + 1 \in 1..Len(z)
    BY <1>1, <1>2
  <2>2. w \in Seq(A) /\ Len(w) = m + 1 /\ w[m + 1] = d /\ \A k \in 1..m : w[k] = z[k]
    BY <1>2, <2>1
  <2>3. w \in Edits(z, A)
    <3>1. Replaced(z, m + 1, d) \in Edits(z, A)
      BY <1>2, <2>1, EditKinds
    <3>2. QED
      BY <3>1 DEF Replaced
  <2> HIDE DEF w
  <2>4. \A k \in 1..m + 1 : w[k] = y[k]
    BY <1>1, <1>2, <1>3, <2>2
  <2>5. w = y
    BY <1>3, <2>2, <2>4, SeqEqual
  <2>6. QED
    BY <2>3, <2>5
<1>7. QED
  BY <1>4, <1>5, <1>6 DEF z, y

\* An edit of a name is one of the name with a character put after it.
LEMMA EditsBeforeEnd ==
  ASSUME NEW A, NEW a \in Seq(A), NEW e \in A, NEW c \in Edits(a, A)
  PROVE  c \in Seq(A) /\ Append(c, e) \in Edits(Append(a, e), A)
<1> DEFINE m == Len(a)
           z == Append(a, e)
           x == Append(c, e)
<1>1. m \in Nat
  OBVIOUS
<1>2. c \in Seq(A)
  BY EditShape
<1>3. z \in Seq(A) /\ Len(z) = m + 1 /\ (\A k \in 1..m : z[k] = a[k]) /\ z[m + 1] = e
  BY AppendProperties
<1>4. x \in Seq(A) /\ Len(x) = Len(c) + 1 /\ (\A k \in 1..Len(c) : x[k] = c[k]) /\ x[Len(c) + 1] = e
  BY <1>2, AppendProperties
<1> HIDE DEF z, x, m
<1>5. ASSUME NEW i \in 1..m, c = Without(a, i) PROVE x \in Edits(z, A)
  <2> DEFINE w == Without(z, i)
  <2>1. Len(c) = m - 1 /\ Deletes(a, m, c, m - 1, i)
    BY <1>5, DeleteShape DEF m
  <2>2. i \in 1..Len(z)
    BY <1>1, <1>3
  <2>3. w \in Seq(A) /\ Len(w) = Len(z) - 1 /\ Deletes(z, Len(z), w, Len(z) - 1, i)
    BY <1>3, <2>2, DeleteShape
  <2>4. w \in Edits(z, A)
    BY <1>3, <2>2, EditKinds
  <2> HIDE DEF w
  <2>5. Len(x) = m /\ Len(w) = m
    BY <1>1, <1>3, <1>4, <2>1, <2>3
  <2>6. ASSUME NEW k \in 1..m PROVE w[k] = x[k]
    <3>1. CASE k <= i - 1
      <4>1. k \in 1..i - 1 /\ k \in 1..Len(c) /\ k \in 1..m
        BY <1>1, <2>1, <3>1
      <4>2. w[k] = z[k] /\ c[k] = a[k]
        BY <2>1, <2>3, <4>1 DEF Deletes, SameTo
      <4>3. QED
        BY <1>3, <1>4, <4>1, <4>2
    <3>2. CASE k >= i
      <4>1. PICK h \in Nat : k = (i - 1) + h /\ h \in 1..(m + 1) - i
        <5>1. k - (i - 1) \in Nat /\ k = (i - 1) + (k - (i - 1)) /\ k - (i - 1) \in 1..(m + 1) - i
          BY <1>1, <3>2
        <5>2. QED
          BY <5>1
      <4>2. w[k] = z[i + h]
        BY <1>3, <2>3, <4>1 DEF Deletes, SameAfter
      <4>3. CASE k = m
        <5>1. i + h = m + 1 /\ k = Len(c) + 1
          BY <1>1, <2>1, <4>1, <4>3
        <5>2. QED
          BY <1>3, <1>4, <4>2, <5>1
      <4>4. CASE k < m
        <5>1. h \in 1..m - i /\ i + h \in 1..m /\ k \in 1..Len(c)
          BY <1>1, <2>1, <4>1, <4>4
        <5>2. c[k] = a[i + h]
          BY <2>1, <4>1, <5>1 DEF Deletes, SameAfter
        <5>3. QED
          BY <1>3, <1>4, <4>2, <5>1, <5>2
      <4>5. QED
        BY <1>1, <4>3, <4>4
    <3>3. QED
      BY <1>1, <3>1, <3>2
  <2>7. w = x
    BY <1>4, <2>3, <2>5, <2>6, SeqEqual
  <2>8. QED
    BY <2>4, <2>7
<1>6. ASSUME NEW i \in 1..m, NEW d \in A, c = Replaced(a, i, d) PROVE x \in Edits(z, A)
  <2> DEFINE w == [z EXCEPT ![i] = d]
  <2>1. i \in 1..Len(z) /\ i # m + 1
    BY <1>1, <1>3
  <2>2. Len(c) = m /\ c[i] = d /\ \A k \in 1..m : k # i => c[k] = a[k]
    BY <1>6 DEF Replaced, m
  <2>3. w \in Edits(z, A)
    <3>1. Replaced(z, i, d) \in Edits(z, A)
      BY <1>3, <2>1, EditKinds
    <3>2. QED
      BY <3>1 DEF Replaced
  <2>4. w \in Seq(A) /\ Len(w) = m + 1 /\ w[i] = d /\ \A k \in 1..m + 1 : k # i => w[k] = z[k]
    BY <1>3, <2>1
  <2> HIDE DEF w
  <2>5. ASSUME NEW k \in 1..m + 1 PROVE w[k] = x[k]
    <3>1. CASE k = m + 1
      <4>1. w[m + 1] = z[m + 1] /\ x[m + 1] = e
        BY <1>1, <1>4, <2>1, <2>2, <2>4, <3>1
      <4>2. QED
        BY <1>3, <3>1, <4>1
    <3>2. CASE k \in 1..m
      <4>1. x[k] = c[k] /\ z[k] = a[k]
        BY <1>3, <1>4, <2>2, <3>2
      <4>2. QED
        BY <2>2, <2>4, <3>2, <4>1
    <3>3. QED
      BY <1>1, <3>1, <3>2
  <2>6. w = x
    BY <1>4, <2>2, <2>4, <2>5, SeqEqual
  <2>7. QED
    BY <2>3, <2>6
<1>7. ASSUME NEW i \in 0..m, NEW d \in A, c = Inserted(a, i, d) PROVE x \in Edits(z, A)
  <2> DEFINE w == Inserted(z, i, d)
  <2>1. Len(c) = m + 1 /\ Inserts(a, m, c, m + 1, i) /\ c[i + 1] = d
    <3>1. Len(c) = m + 1 /\ Inserts(a, m, c, m + 1, i)
      BY <1>7, InsertShape DEF m
    <3>2. c[i + 1] = d
      BY <1>7, InsertedThere DEF m
    <3>3. QED
      BY <3>1, <3>2
  <2>2. i \in 0..Len(z)
    BY <1>1, <1>3
  <2>3. /\ w \in Seq(A) /\ Len(w) = Len(z) + 1 /\ Inserts(z, Len(z), w, Len(z) + 1, i)
        /\ w[i + 1] = d
    <3>1. w \in Seq(A) /\ Len(w) = Len(z) + 1 /\ Inserts(z, Len(z), w, Len(z) + 1, i)
      BY <1>3, <2>2, InsertShape
    <3>2. w[i + 1] = d
      BY <1>3, <2>2, InsertedThere
    <3>3. QED
      BY <3>1, <3>2
  <2>4. w \in Edits(z, A)
    BY <1>3, <2>2, EditKinds
  <2> HIDE DEF w
  <2>5. Len(x) = m + 2 /\ Len(w) = m + 2
    BY <1>1, <1>3, <1>4, <2>1, <2>3
  <2>6. ASSUME NEW k \in 1..m + 2 PROVE w[k] = x[k]
    <3>1. CASE k <= i
      <4>1. k \in 1..i /\ k \in 1..Len(c) /\ k \in 1..m
        BY <1>1, <2>1, <3>1
      <4>2. w[k] = z[k] /\ c[k] = a[k]
        BY <2>1, <2>3, <4>1 DEF Inserts, SameTo
      <4>3. QED
        BY <1>3, <1>4, <4>1, <4>2
    <3>2. CASE k = i + 1
      <4>1. k \in 1..Len(c)
        BY <1>1, <2>1, <3>2
      <4>2. QED
        BY <1>4, <2>1, <2>3, <3>2, <4>1
    <3>3. CASE k > i + 1
      <4>1. PICK h \in Nat : k = (i + 1) + h /\ h \in 1..(m + 1) - i
        <5>1. k - (i + 1) \in Nat /\ k = (i + 1) + (k - (i + 1)) /\ k - (i + 1) \in 1..(m + 1) - i
          BY <1>1, <3>3
        <5>2. QED
          BY <5>1
      <4>2. w[k] = z[i + h]
        BY <1>3, <2>3, <4>1 DEF Inserts, SameAfter
      <4>3. CASE k = m + 2
        <5>1. i + h = m + 1 /\ k = Len(c) + 1
          BY <1>1, <2>1, <4>1, <4>3
        <5>2. QED
          BY <1>3, <1>4, <4>2, <5>1
      <4>4. CASE k < m + 2
        <5>1. h \in 1..m - i /\ i + h \in 1..m /\ k \in 1..Len(c)
          BY <1>1, <2>1, <4>1, <4>4
        <5>2. c[k] = a[i + h]
          BY <2>1, <4>1, <5>1 DEF Inserts, SameAfter
        <5>3. QED
          BY <1>3, <1>4, <4>2, <5>1, <5>2
      <4>5. QED
        BY <1>1, <4>3, <4>4
    <3>4. QED
      BY <1>1, <3>1, <3>2, <3>3
  <2>7. w = x
    BY <1>4, <2>3, <2>5, <2>6, SeqEqual
  <2>8. QED
    BY <2>4, <2>7
<1>8. \/ \E i \in 1..m : c = Without(a, i)
      \/ \E i \in 1..m, d \in A : c = Replaced(a, i, d)
      \/ \E i \in 0..m, d \in A : c = Inserted(a, i, d)
  BY EditKinds DEF m
<1>9. x \in Edits(z, A)
  BY <1>5, <1>6, <1>7, <1>8
<1>10. QED
  BY <1>2, <1>9 DEF x, z

\* Two names with a character more each: how many edits more they are apart.
LEMMA WithinExtends ==
  ASSUME NEW A, NEW b \in Seq(A), NEW c \in A, NEW d \in A, NEW n \in Nat,
         NEW a \in Within(b, n, A)
  PROVE  /\ Append(a, c) \in Within(Append(b, c), n, A)
         /\ Append(a, c) \in Within(b, n + 1, A)
         /\ a \in Within(Append(b, c), n + 1, A)
         /\ Append(a, d) \in Within(Append(b, c), n + 1, A)
<1> DEFINE z == Append(b, c)
           P == {p \in Nat \X Seq(A) : Append(p[2], c) \in Within(z, p[1], A)}
           Q == {p \in Nat \X Seq(A) : p[2] \in Within(z, p[1] + 1, A)}
<1>1. z \in Seq(A)
  BY AppendProperties
<1>2. b \in Edits(z, A)
  BY EditsAtEnd
<1>3. \A k \in Nat, w \in Seq(A) : <<k, w>> \in P <=> Append(w, c) \in Within(z, k, A)
  OBVIOUS
<1>4. \A k \in Nat, w \in Seq(A) : <<k, w>> \in Q <=> w \in Within(z, k + 1, A)
  OBVIOUS
<1>5. <<0, b>> \in P
  <2>1. Append(b, c) \in Within(z, 0, A)
    <3>1. \A n0 \in Nat : Within(z, 0, A) = {z}
      BY <1>1, WithinStep
    <3>2. QED
      BY <3>1
  <2>2. QED
    BY <2>1
<1>6. <<0, b>> \in Q
  <2>1. b \in Within(z, 0 + 1, A)
    <3>1. Within(z, 0, A) = {z} /\ Within(z, 0 + 1, A) =
            Within(z, 0, A) \cup UNION {Edits(w, A) : w \in Within(z, 0, A)}
      <4>1. \A k \in Nat : /\ Within(z, 0, A) = {z}
                            /\ Within(z, k + 1, A) =
                                 Within(z, k, A) \cup UNION {Edits(w, A) : w \in Within(z, k, A)}
        BY <1>1, WithinStep
      <4>2. QED
        BY <4>1
    <3>2. QED
      BY <1>2, <3>1
  <2>2. QED
    BY <2>1
<1> HIDE DEF z, P, Q
<1>7. \A k \in Nat : /\ Within(z, k + 1, A) =
                          Within(z, k, A) \cup UNION {Edits(w, A) : w \in Within(z, k, A)}
                     /\ k + 1 \in Nat
  BY <1>1, WithinStep
<1>8. \A k \in Nat, w \in Seq(A) : <<k, w>> \in P => <<k + 1, w>> \in P
  BY <1>3, <1>7
<1>9. \A k \in Nat, w \in Seq(A) : <<k, w>> \in Q => <<k + 1, w>> \in Q
  BY <1>4, <1>7
<1>10. \A k \in Nat, w \in Seq(A) : \A v \in Edits(w, A) : <<k, w>> \in P => <<k + 1, v>> \in P
  <2>1. SUFFICES ASSUME NEW k \in Nat, NEW w \in Seq(A), NEW v \in Edits(w, A), <<k, w>> \in P
                 PROVE  <<k + 1, v>> \in P
    OBVIOUS
  <2>2. v \in Seq(A) /\ Append(v, c) \in Edits(Append(w, c), A)
    BY <2>1, EditsBeforeEnd
  <2>3. Append(w, c) \in Within(z, k, A)
    BY <1>3, <2>1
  <2>4. Append(v, c) \in Within(z, k + 1, A)
    <3>1. Within(z, k + 1, A) =
            Within(z, k, A) \cup UNION {Edits(u, A) : u \in Within(z, k, A)}
      BY <1>7
    <3>2. QED
      BY <2>2, <2>3, <3>1
  <2>5. QED
    BY <1>3, <1>7, <2>2, <2>4
<1>11. \A k \in Nat, w \in Seq(A) : \A v \in Edits(w, A) : <<k, w>> \in Q => <<k + 1, v>> \in Q
  <2>1. SUFFICES ASSUME NEW k \in Nat, NEW w \in Seq(A), NEW v \in Edits(w, A), <<k, w>> \in Q
                 PROVE  <<k + 1, v>> \in Q
    OBVIOUS
  <2>2. v \in Seq(A)
    BY <2>1, EditShape
  <2>3. w \in Within(z, k + 1, A) /\ k + 1 \in Nat
    BY <1>4, <2>1
  <2>4. v \in Within(z, (k + 1) + 1, A)
    BY <1>7, <2>3
  <2>5. QED
    BY <1>4, <1>7, <2>2, <2>4
<1>12. a \in Seq(A) /\ <<n, a>> \in P
  BY <1>5, <1>8, <1>10, OverEdits
<1>13. a \in Seq(A) /\ <<n, a>> \in Q
  BY <1>6, <1>9, <1>11, OverEdits
<1>14. Append(a, c) \in Within(z, n, A) /\ a \in Within(z, n + 1, A)
  BY <1>3, <1>4, <1>12, <1>13
<1>15. Append(a, c) \in Within(b, n + 1, A)
  BY <1>12, EditsAtEnd, WithinStep
<1>16. Append(a, d) \in Within(z, n + 1, A)
  BY <1>1, <1>12, <1>14, EditsAtEnd, WithinStep
<1>17. QED
  BY <1>14, <1>15, <1>16 DEF z

\* A name up to a place of it.
LEMMA Prefixes ==
  ASSUME NEW A, NEW a \in Seq(A), NEW m \in Nat, m = Len(a)
  PROVE  /\ SubSeq(a, 1, 0) = <<>> /\ SubSeq(a, 1, m) = a
         /\ \A i \in 0..m : SubSeq(a, 1, i) \in Seq(A)
         /\ \A i \in 1..m : a[i] \in A /\ SubSeq(a, 1, i) = Append(SubSeq(a, 1, i - 1), a[i])
<1>1. \A i \in 0..m : SubSeq(a, 1, i) \in Seq(A) /\ Len(SubSeq(a, 1, i)) = i
                      /\ \A k \in 1..i : SubSeq(a, 1, i)[k] = a[k]
  OBVIOUS
<1>2. SubSeq(a, 1, 0) = <<>>
  BY <1>1
<1>3. SubSeq(a, 1, m) = a
  <2>1. m \in 0..m
    OBVIOUS
  <2>2. QED
    BY <1>1, <2>1, SeqEqual
<1>4. ASSUME NEW i \in 1..m
      PROVE  a[i] \in A /\ SubSeq(a, 1, i) = Append(SubSeq(a, 1, i - 1), a[i])
  <2> DEFINE x == SubSeq(a, 1, i - 1)
             y == Append(x, a[i])
             z == SubSeq(a, 1, i)
  <2>1. a[i] \in A
    OBVIOUS
  <2>2. i - 1 \in 0..m /\ i \in 0..m
    OBVIOUS
  <2>3. x \in Seq(A) /\ Len(x) = i - 1 /\ \A k \in 1..i - 1 : x[k] = a[k]
    BY <1>1, <2>2
  <2>4. z \in Seq(A) /\ Len(z) = i /\ \A k \in 1..i : z[k] = a[k]
    BY <1>1, <2>2
  <2> HIDE DEF x, z
  <2>5. y \in Seq(A) /\ Len(y) = Len(x) + 1 /\ (\A k \in 1..Len(x) : y[k] = x[k]) /\ y[Len(x) + 1] = a[i]
    BY <2>1, <2>3, AppendProperties
  <2> HIDE DEF y
  <2>6. Len(y) = i /\ \A k \in 1..i : y[k] = a[k]
    BY <2>3, <2>5
  <2>7. z = y
    BY <2>4, <2>5, <2>6, SeqEqual
  <2>8. QED
    BY <2>1, <2>7 DEF x, y, z
<1>5. QED
  BY <1>1, <1>2, <1>3, <1>4

\* Along the table, what it says of two prefixes can be done: from the prefix of
\* the one to that of the other in as many edits.
LEMMA TableReaches ==
  ASSUME NEW A, NEW a \in Seq(A), NEW b \in Seq(A),
         NEW m \in Nat, m = Len(a), NEW n \in Nat, n = Len(b),
         NEW t, IsTable(t, a, b, m, n)
  PROVE  a \in Within(b, t[n][m], A)
<1> DEFINE x(i) == SubSeq(a, 1, i)
           y(j) == SubSeq(b, 1, j)
           P == {p \in (0..m) \X (0..n) : x(p[1]) \in Within(y(p[2]), t[p[2]][p[1]], A)}
<1>1. \A i \in 0..m, j \in 0..n : <<i, j>> \in P <=> x(i) \in Within(y(j), t[j][i], A)
  OBVIOUS
<1>2. /\ x(0) = <<>> /\ x(m) = a /\ \A i \in 0..m : x(i) \in Seq(A)
      /\ \A i \in 1..m : a[i] \in A /\ x(i) = Append(x(i - 1), a[i])
  BY Prefixes
<1>3. /\ y(0) = <<>> /\ y(n) = b /\ \A j \in 0..n : y(j) \in Seq(A)
      /\ \A j \in 1..n : b[j] \in A /\ y(j) = Append(y(j - 1), b[j])
  BY Prefixes
<1> HIDE DEF P, x, y
<1>4. /\ (\A i \in 0..m : t[0][i] = i) /\ (\A j \in 0..n : t[j][0] = j)
      /\ \A i \in 0..m, j \in 0..n : t[j][i] \in Nat
  <2>1. (\A i \in 0..m : t[0][i] = i) /\ (\A j \in 0..n : t[j][0] = j)
    BY DEF IsTable
  <2>2. ASSUME NEW i \in 0..m, NEW j \in 0..n PROVE t[j][i] \in Nat
    BY DEF IsTable
  <2>3. QED
    BY <2>1, <2>2
<1>5. ASSUME NEW i \in 0..m, NEW j \in 0..n,
             i > 0 => <<i - 1, j>> \in P, j > 0 => <<i, j - 1>> \in P,
             i > 0 /\ j > 0 => <<i - 1, j - 1>> \in P
      PROVE  x(i) \in Within(y(j), t[j][i], A)
  <2>1. CASE i = 0 /\ j = 0
    <3>1. t[j][i] = 0 /\ y(j) \in Seq(A)
      BY <1>3, <1>4, <2>1
    <3>2. Within(y(j), 0, A) = {y(j)}
      BY <3>1, WithinStep
    <3>3. QED
      BY <1>2, <1>3, <2>1, <3>1, <3>2
  <2>2. CASE i = 0 /\ j > 0
    <3>1. j \in 1..n /\ j - 1 \in 0..n /\ j - 1 \in Nat /\ i \in 0..m
      BY <2>2
    <3>2. t[j][i] = (j - 1) + 1 /\ t[j - 1][i] = j - 1
      BY <1>4, <2>2, <3>1
    <3>3. x(i) \in Within(y(j - 1), j - 1, A)
      BY <1>1, <1>5, <2>2, <3>1, <3>2
    <3>4. y(j - 1) \in Seq(A) /\ b[j] \in A /\ y(j) = Append(y(j - 1), b[j])
      BY <1>3, <3>1
    <3>5. x(i) \in Within(Append(y(j - 1), b[j]), (j - 1) + 1, A)
      BY <3>1, <3>3, <3>4, WithinExtends
    <3>6. QED
      BY <3>2, <3>4, <3>5
  <2>3. CASE i > 0 /\ j = 0
    <3>1. i \in 1..m /\ i - 1 \in 0..m /\ i - 1 \in Nat /\ j \in 0..n
      BY <2>3
    <3>2. t[j][i] = (i - 1) + 1 /\ t[j][i - 1] = i - 1
      BY <1>4, <2>3, <3>1
    <3>3. x(i - 1) \in Within(y(j), i - 1, A)
      BY <1>1, <1>5, <2>3, <3>1, <3>2
    <3>4. y(j) \in Seq(A) /\ a[i] \in A /\ x(i) = Append(x(i - 1), a[i])
      BY <1>2, <1>3, <3>1
    <3>5. Append(x(i - 1), a[i]) \in Within(y(j), (i - 1) + 1, A)
      BY <3>1, <3>3, <3>4, WithinExtends
    <3>6. QED
      BY <3>2, <3>4, <3>5
  <2>4. CASE i > 0 /\ j > 0
    <3>1. i \in 1..m /\ i - 1 \in 0..m /\ j \in 1..n /\ j - 1 \in 0..n
      BY <2>4
    <3>2. /\ t[j][i] \in Nat /\ t[j - 1][i] \in Nat /\ t[j][i - 1] \in Nat /\ t[j - 1][i - 1] \in Nat
          /\ \/ t[j][i] = t[j - 1][i] + 1
             \/ t[j][i] = t[j][i - 1] + 1
             \/ t[j][i] = t[j - 1][i - 1] + Cost(a, b, i, j)
      BY <3>1, Place DEF InPlace
    <3>3. /\ x(i - 1) \in Within(y(j), t[j][i - 1], A)
          /\ x(i) \in Within(y(j - 1), t[j - 1][i], A)
          /\ x(i - 1) \in Within(y(j - 1), t[j - 1][i - 1], A)
      BY <1>1, <1>5, <2>4, <3>1
    <3>4. a[i] \in A /\ x(i) = Append(x(i - 1), a[i])
      BY <1>2, <3>1
    <3>5. y(j - 1) \in Seq(A) /\ y(j) \in Seq(A) /\ b[j] \in A /\ y(j) = Append(y(j - 1), b[j])
      BY <1>3, <3>1
    <3>6. x(i) \in Within(y(j), t[j - 1][i] + 1, A)
      BY <3>2, <3>3, <3>5, WithinExtends
    <3>7. x(i) \in Within(y(j), t[j][i - 1] + 1, A)
      <4>1. Append(x(i - 1), a[i]) \in Within(y(j), t[j][i - 1] + 1, A)
        <5>1. x(i - 1) \in Within(y(j), t[j][i - 1], A) /\ y(j) \in Seq(A) /\ t[j][i - 1] \in Nat
          BY <3>2, <3>3, <3>5
        <5>2. QED
          BY <3>4, <5>1, WithinExtends
      <4>2. QED
        BY <3>4, <4>1
    <3>8. x(i) \in Within(y(j), t[j - 1][i - 1] + Cost(a, b, i, j), A)
      <4>1. CASE a[i] = b[j]
        <5>1. Append(x(i - 1), b[j]) \in Within(Append(y(j - 1), b[j]), t[j - 1][i - 1], A)
          BY <3>2, <3>3, <3>5, WithinExtends
        <5>2. t[j - 1][i - 1] + Cost(a, b, i, j) = t[j - 1][i - 1]
          BY <3>2, <4>1 DEF Cost
        <5>3. QED
          BY <3>4, <3>5, <4>1, <5>1, <5>2
      <4>2. CASE a[i] # b[j]
        <5>1. Append(x(i - 1), a[i]) \in Within(Append(y(j - 1), b[j]), t[j - 1][i - 1] + 1, A)
          BY <3>2, <3>3, <3>4, <3>5, WithinExtends
        <5>2. Cost(a, b, i, j) = 1
          BY <4>2 DEF Cost
        <5>3. QED
          BY <3>4, <3>5, <5>1, <5>2
      <4>3. QED
        BY <4>1, <4>2
    <3>9. QED
      BY <3>2, <3>6, <3>7, <3>8
  <2>5. QED
    BY <2>1, <2>2, <2>3, <2>4
<1>6. \A i \in 0..m, j \in 0..n :
        /\ i > 0 => <<i - 1, j>> \in P
        /\ j > 0 => <<i, j - 1>> \in P
        /\ i > 0 /\ j > 0 => <<i - 1, j - 1>> \in P
        => <<i, j>> \in P
  BY <1>1, <1>5
<1>7. \A i \in 0..m, j \in 0..n : <<i, j>> \in P
  BY <1>6, OverTable
<1>8. m \in 0..m /\ n \in 0..n
  OBVIOUS
<1>9. QED
  BY <1>1, <1>2, <1>3, <1>7, <1>8

\* The distance is the least number of edits: a name is within n edits of another
\* when, and only when, levenshtein says so.
THEOREM DistanceIsEdits ==
  ASSUME NEW A, NEW q \in Seq(A), NEW n \in Nat
  PROVE  Within(q, n, A) = {w \in Seq(A) : levenshtein(w, q) <= n}
<1>1. ASSUME NEW w \in Within(q, n, A)
      PROVE  w \in Seq(A) /\ levenshtein(w, q) <= n
  BY WithinMeansNear
<1>2. ASSUME NEW w \in Seq(A), levenshtein(w, q) <= n
      PROVE  w \in Within(q, n, A)
  <2>1. PICK m \in Nat, l \in Nat : m = Len(w) /\ l = Len(q)
    OBVIOUS
  <2>2. PICK t : IsTable(t, w, q, m, l) /\ levenshtein(w, q) = t[l][m]
    BY <2>1, CornerOfTable
  <2> DEFINE d == levenshtein(w, q)
  <2>3. w \in Within(q, d, A)
    BY <2>1, <2>2, TableReaches
  <2>4. d \in Nat /\ d <= n
    BY <1>2, DistanceIsNat
  <2> DEFINE T == {k \in 0..n - d : w \in Within(q, d + k, A)}
  <2> HIDE DEF d
  <2>5. 0 \in T
    BY <2>3, <2>4
  <2>6. ASSUME NEW k \in 1..n - d, k - 1 \in T
        PROVE  k \in T
    <3>1. d + (k - 1) \in Nat /\ (d + (k - 1)) + 1 = d + k
      BY <2>4
    <3>2. w \in Within(q, d + (k - 1), A)
      BY <2>6
    <3>3. \A i \in Nat : Within(q, i, A) \subseteq Within(q, i + 1, A)
      BY WithinStep
    <3>4. w \in Within(q, (d + (k - 1)) + 1, A)
      BY <3>1, <3>2, <3>3
    <3>5. QED
      BY <3>1, <3>4
  <2>7. n - d \in T
    <3> HIDE DEF T
    <3>1. \A k \in 1..n - d : k - 1 \in T => k \in T
      BY <2>6
    <3>2. n - d \in Nat /\ n - d \in 0..n - d
      BY <2>4
    <3>3. \A k \in 0..n - d : k \in T
      BY <2>5, <3>1, <3>2, Upwards
    <3>4. QED
      BY <3>2, <3>3
  <2>8. d + (n - d) = n
    BY <2>4
  <2>9. QED
    BY <2>7, <2>8
<1>3. QED
  BY <1>1, <1>2

\* Distance 0 is the same name.
LEMMA NoDistance ==
  ASSUME NEW A, NEW a \in Seq(A), NEW b \in Seq(A)
  PROVE  levenshtein(a, b) = 0 <=> a = b
<1>1. PICK m \in Nat, n \in Nat : m = Len(a) /\ n = Len(b)
  OBVIOUS
<1>2. PICK t : IsTable(t, a, b, m, n) /\ levenshtein(a, b) = t[n][m]
  BY <1>1, CornerOfTable
<1>3. t[n][m] = 0 <=> Alike(a, b, m, n)
  BY <1>2, ZeroMeansSame
<1>4. a = b <=> Alike(a, b, m, n)
  BY <1>1, SeqEqual DEF Alike, SameTo
<1>5. QED
  BY <1>2, <1>3, <1>4

-----------------------------------------------------------------------------
(***************************************************************************)
(* Where the patterns and the archives come from.                          *)
(***************************************************************************)
SourcesInv ==
  /\ \A s \in Scan : pc[s] # "idle" => archive[s] \in Archive
  /\ \A r \in Reload : overlay[r] \in Overlays \cup {None}
  /\ custom \in Overlays \cup {None}

\* Every step keeps to the archives and overlays that were sent.
LEMMA SourcesStep ==
  ASSUME PcTyped, LocalsTyped, SourcesInv, [Next]_vars
  PROVE  SourcesInv'
<1>1. CASE UNCHANGED vars
  BY <1>1 DEF vars, scanVars, patternVars, SourcesInv
<1>2. ASSUME NEW s \in Scan, Arrive(s) \/ Expire(s) \/ ScanStep(s)
      PROVE  SourcesInv'
  <2>1. UNCHANGED <<overlay, custom>>
    BY <1>2, ScanSteps DEF patternVars
  <2>2. ASSUME NEW q \in Scan \ {s}
        PROVE  pc'[q] = pc[q] /\ archive'[q] = archive[q]
    BY <1>2, ScanSteps, ScanMoves, LocalsApart DEF ScanLabels
  <2>3. pc'[s] # "idle" => archive'[s] \in Archive
    <3>1. CASE Arrive(s)
      BY <3>1 DEF Arrive, LocalsTyped
    <3>2. CASE RUnlock(s)
      BY <3>2 DEF RUnlock, PcTyped
    <3>3. CASE UNCHANGED archive /\ pc[s] # "idle"
      BY <3>3 DEF SourcesInv
    <3>4. CASE Expire(s)
      BY <3>4 DEF Expire, scanVars, SourcesInv
    <3>5. QED
      BY <1>2, <3>1, <3>2, <3>3, <3>4
         DEF ScanStep, RLock, runTier1, runTier2, Escalate, AcquireSlot, SlotTimeout, LLMReturns,
             scanVars
  <2>4. QED
    BY <2>1, <2>2, <2>3 DEF SourcesInv
<1>3. ASSUME NEW r \in Reload, Send(r) \/ Announce(r) \/ ReloadStep(r)
      PROVE  SourcesInv'
  <2>1. UNCHANGED archive /\ \A s \in Scan : pc'[s] = pc[s]
    <3>1. UNCHANGED archive /\ \E label \in ReloadLabels : MovesTo(r, label)
      BY <1>3 DEF Send, Announce, ReloadStep, SwapTier1, SwapTier2, MovesTo, ReloadLabels, scanVars
    <3>2. QED
      BY <3>1, ReloadMoves, Apart
  <2>2. /\ \A q \in Reload : overlay'[q] \in Overlays \cup {None}
        /\ custom' \in Overlays \cup {None}
    <3>1. CASE Send(r)
      BY <3>1 DEF Send, SourcesInv, LocalsTyped
    <3>2. CASE Announce(r)
      BY <3>2 DEF Announce, SourcesInv, patternVars
    <3>3. CASE SwapTier1(r)
      BY <3>3 DEF SwapTier1, SourcesInv
    <3>4. CASE SwapTier2(r)
      BY <3>4 DEF SwapTier2, SourcesInv, LocalsTyped
    <3>5. QED
      BY <1>3, <3>1, <3>2, <3>3, <3>4 DEF ReloadStep
  <2>3. QED
    BY <2>1, <2>2 DEF SourcesInv
<1>4. QED
  BY <1>1, <1>2, <1>3 DEF Next, SendRejected

-----------------------------------------------------------------------------
(***************************************************************************)
(* The invariant, and what it is for.                                      *)
(***************************************************************************)
PipelineInv ==
  /\ PcTyped /\ LocalsTyped /\ SetsTyped
  /\ LockInv /\ SlotsInv
  /\ PatternsInv /\ VerdictInv /\ SourcesInv

\* The contexts belong to scans that hold the lock.
LEMMA SetsStep ==
  ASSUME SetsTyped, LockInv, [Next]_vars
  PROVE  SetsTyped'
<1>1. CASE UNCHANGED <<expired, readers, reloaded>>
  BY <1>1 DEF SetsTyped
<1>2. ASSUME NEW s \in Scan, Expire(s) \/ RLock(s) \/ RUnlock(s)
      PROVE  SetsTyped'
  BY <1>2 DEF Expire, RLock, RUnlock, SetsTyped, patternVars, lockVars
<1>3. ASSUME NEW r \in Reload, SwapTier2(r)
      PROVE  SetsTyped'
  BY <1>3 DEF SwapTier2, SetsTyped
<1>4. ASSUME NEW s \in Scan, Arrive(s) \/ ScanStep(s)
      PROVE  SetsTyped'
  BY <1>1, <1>2, <1>4
     DEF Arrive, ScanStep, runTier1, runTier2, Escalate, AcquireSlot, SlotTimeout,
         LLMReturns, lockVars, patternVars
<1>5. ASSUME NEW r \in Reload, Send(r) \/ Announce(r) \/ SwapTier1(r)
      PROVE  SetsTyped'
  BY <1>1, <1>5 DEF Send, Announce, SwapTier1, lockVars, patternVars
<1>6. QED
  BY <1>1, <1>2, <1>3, <1>4, <1>5 DEF Next, SendRejected, ReloadStep, vars, lockVars, patternVars

\* A server that has just started.
LEMMA InvariantInit ==
  ASSUME Init
  PROVE  PipelineInv
<1>1. \A g \in Scan \cup Reload : pc[g] = "idle"
  BY DEF Init
<1>2. PcTyped
  BY DEF Init, PcTyped, ScanLabels, ReloadLabels
<1>3. LocalsTyped
  BY DEF Init, LocalsTyped, Outcomes
<1>4. SetsTyped /\ LockInv
  BY <1>1 DEF Init, SetsTyped, LockInv, InTiers
<1>5. SlotsInv
  BY <1>1 DEF Init, SlotsInv
<1>6. PatternsInv
  BY <1>1 DEF Init, PatternsInv, InForce
<1>7. VerdictInv
  BY <1>1 DEF VerdictInv, Verdict, Passed
<1>8. SourcesInv
  BY <1>1 DEF Init, SourcesInv
<1>9. QED
  BY <1>2, <1>3, <1>4, <1>5, <1>6, <1>7, <1>8 DEF PipelineInv

\* The invariant holds in every reachable state.
THEOREM Invariance == Spec => []PipelineInv
<1>1. Init => PipelineInv
  BY InvariantInit
<1>2. PipelineInv /\ [Next]_vars => PipelineInv'
  BY PcStep, LocalsStep, SetsStep, LockStep, SlotsStep, PatternsStep, VerdictStep, SourcesStep
     DEF PipelineInv
<1>3. QED
  BY <1>1, <1>2, PTL DEF Spec

\* The variables of the pipeline have their types.
THEOREM TypeCorrect == Spec => []TypeOK
<1>1. PipelineInv => TypeOK
  BY DEF PipelineInv, PcTyped, LocalsTyped, SetsTyped, LockInv, SlotsInv, TypeOK, ScanLabels,
         ReloadLabels
<1>2. QED
  BY <1>1, Invariance, PTL

\* A scan fails closed (Scan, scanner.go): one that passes has no blocking
\* finding in either tier under the patterns in force as it is recorded, and
\* when it has a flag the LLM saw it.
THEOREM FailsClosed == Spec => []PassedIsClean
<1>1. PipelineInv => PassedIsClean
  BY DEF PipelineInv, VerdictInv, Verdict, Found, Files, PassedIsClean
<1>2. QED
  BY <1>1, Invariance, PTL

\* SetCustomPatterns replaces the patterns of both tiers together, and what
\* GetCustomPatterns answers is what they use.
THEOREM OneOverlayInForce == Spec => []OverlayInForce
<1>1. PipelineInv => OverlayInForce
  BY DEF PipelineInv, PatternsInv, InForce, OverlayInForce
<1>2. QED
  BY <1>1, Invariance, PTL

\* Every return path of Scan and of the LLM stage gives back its slot and
\* the read lock.
THEOREM EverythingReturned == Spec => []NothingLeaks
<1>1. PipelineInv => NothingLeaks
  BY DEF PipelineInv, SlotsInv, LockInv, NothingLeaks
<1>2. QED
  BY <1>1, Invariance, PTL

\* What is in force as a scan that passed is recorded: both tiers looked
\* under the same patterns, and those are made of what was sent.
LEMMA PassedUnderOne ==
  ASSUME PipelineInv, NEW s \in Scan, Passed(s)
  PROVE  /\ tier1 = tier2 /\ tier1 = InForce /\ archive[s] \in Archive
         /\ ~hasBlock(Found(s)) /\ Found(s) \subseteq findings[s]
<1>1. s \in readers
  BY DEF PipelineInv, LockInv, Passed, InTiers
<1>2. \A r \in Reload : pc[r] # "swap"
  BY <1>1 DEF PipelineInv, LockInv
<1>3. tier1 = tier2 /\ tier1 = InForce
  BY <1>2 DEF PipelineInv, PatternsInv
<1>4. archive[s] \in Archive
  BY DEF PipelineInv, SourcesInv, Passed
<1>5. ~hasBlock(Found(s)) /\ Found(s) \subseteq findings[s]
  BY DEF PipelineInv, VerdictInv, Verdict
<1>6. QED
  BY <1>3, <1>4, <1>5

\* The list of known bad packages holds where Tier 1 reads (checkDepBlocklist,
\* stage_patterns.go): no archive passes that declares one on a plain line of
\* requirements.txt or in quotes in package.json, under the list in force as
\* the scan is recorded.
THEOREM BlocklistHolds == Spec => []BadPackagesBlocked
<1>1. PipelineInv => BadPackagesBlocked
  <2>1. SUFFICES ASSUME PipelineInv, NEW s \in Scan, Passed(s),
                        NEW f \in Text(Files(s)), NEW d \in f.deps,
                        \/ f.kind = "requirements" /\ d.form = "plain"
                        \/ f.kind = "package_json" /\ d.form \in {"plain", "quoted"},
                        d.name \in InForce.blocklist
                 PROVE  FALSE
    BY DEF BadPackagesBlocked, Files, InForce
  <2>2. tier1 = InForce /\ ~hasBlock(Found(s))
    BY <2>1, PassedUnderOne
  <2>3. d.name \in Tier1Names(f)
    BY <2>1 DEF Tier1Names, Declared
  <2>4. Finding("static_patterns", Block, f) \in checkDepBlocklist(Files(s), tier1)
    BY <2>1, <2>2, <2>3 DEF checkDepBlocklist
  <2>5. Finding("static_patterns", Block, f) \in Found(s)
    BY <2>4 DEF Found, Tier1
  <2>6. Finding("static_patterns", Block, f).severity = Block
    BY DEF Finding
  <2>7. QED
    BY <2>2, <2>5, <2>6 DEF hasBlock
<1>2. QED
  BY <1>1, Invariance, PTL

\* The popular packages under whatever is in force are names.
LEMMA PopularNames ==
  ASSUME SourcesInv
  PROVE  InForce.popular \subseteq PackageName
<1>1. ASSUME NEW over \in (Overlays \cup {StartFile}) \cup {None}
      PROVE  Compiled(over).popular \subseteq PackageName
  <2>1. Defaults.popular \subseteq PackageName /\ DOMAIN Defaults = DOMAIN NoPatterns
    BY PatternsAssumption
  <2>2. CASE over = None
    BY <2>1, <2>2 DEF Compiled, NoPatterns
  <2>3. CASE over # None
    <3>1. over.popular \subseteq PackageName
      BY <1>1, <2>3, PatternsAssumption
    <3>2. Compiled(over).popular = Defaults.popular \cup over.popular
      BY <2>1, <2>3 DEF Compiled, mergePatternFiles, OverlayLists, NoPatterns
    <3>3. QED
      BY <2>1, <3>1, <3>2
  <2>4. QED
    BY <2>2, <2>3
<1>2. QED
  BY <1>1 DEF SourcesInv, InForce

\* The bytes of a name are a sequence of bytes.
LEMMA BytesOfName ==
  ASSUME NEW name \in Seq(DOMAIN ScriptOf)
  PROVE  UTF8(name) \in Seq(Byte)
<1> DEFINE n == Len(name)
           X == Seq(Byte)
           more(i, w) == w \o Encoding[name[i]]
           step == [i \in 1..n |-> [w \in X |-> more(i, w)]]
<1>1. n \in Nat /\ \A i \in 1..n : i \in 0..n /\ i - 1 \in 0..n /\ Encoding[name[i]] \in X
  BY NameAssumption
<1>2. \A i \in 1..n, w \in X : more(i, w) \in X
  BY <1>1, ConcatProperties
<1>3. <<>> \in X
  OBVIOUS
<1> HIDE DEF X, n
<1>4. Steps(step, n, X)
  <2> HIDE DEF more
  <2>1. QED
    BY <1>2 DEF Steps
<1>5. \A i \in 1..n, w \in X : step[i][w] = more(i, w)
  OBVIOUS
<1> HIDE DEF step
<1>6. PICK f : RunOf(f, step, n, X, <<>>)
  BY <1>1, <1>3, <1>4, StepByStep
<1>7. f \in [0..n -> X] /\ f[0] = <<>> /\ \A i \in 1..n : f[i] = more(i, f[i - 1])
  <2> HIDE DEF more
  <2>1. f \in [0..n -> X] /\ f[0] = <<>> /\ \A i \in 1..n : f[i] = step[i][f[i - 1]]
    BY <1>6 DEF RunOf
  <2>2. \A i \in 1..n : f[i - 1] \in X
    BY <1>1, <2>1
  <2>3. QED
    BY <1>5, <2>1, <2>2
<1> DEFINE Rec(g, i) == IF i = 0 THEN <<>> ELSE more(i, g[i - 1])
<1>8. f = [i \in 0..n |-> Rec(f, i)]
  <2> HIDE DEF more
  <2>1. QED
    BY <1>7
<1>9. PICK g : g = [i \in 0..n |-> Rec(g, i)] /\ UTF8(name) = g[n]
  <2> DEFINE g == CHOOSE h : h = [i \in 0..n |-> Rec(h, i)]
  <2>1. UTF8(name) = g[n]
    BY DEF UTF8, n
  <2>2. g = [i \in 0..n |-> Rec(g, i)]
    <3> HIDE DEF Rec
    <3>1. QED
      BY <1>8
  <2> HIDE DEF g
  <2>3. QED
    BY <2>1, <2>2
<1> DEFINE T == {i \in 0..n : g[i] \in X}
<1>10. 0 \in T
  BY <1>1, <1>3, <1>9
<1>11. \A i \in 1..n : i - 1 \in T => i \in T
  <2>1. \A i \in 1..n : g[i] = more(i, g[i - 1])
    <3> HIDE DEF more
    <3>1. QED
      BY <1>1, <1>9
  <2>2. QED
    BY <1>1, <1>2, <2>1
<1>12. n \in T
  <2> HIDE DEF T
  <2>1. \A i \in 0..n : i \in T
    BY <1>1, <1>10, <1>11, Upwards
  <2>2. QED
    BY <1>1, <2>1
<1>13. QED
  BY <1>9, <1>12 DEF X

\* A name that is misspelt by one edit is a blocking finding, by two a flag
\* at least.
LEMMA MisspeltFound ==
  ASSUME NEW pkg \in PackageName, NEW popular \in SUBSET PackageName,
         pkg \notin popular, NEW q \in popular
  PROVE  /\ UTF8(pkg) \in Misspelt[q][1] => checkPackageName(pkg, popular) = {Block}
         /\ UTF8(pkg) \in Misspelt[q][2] => checkPackageName(pkg, popular) \in {{Block}, {Flag}}
<1> DEFINE near(d) == \E p \in popular : Distance[pkg][p] = d
<1>1. \A p \in PackageName : UTF8(p) \in Seq(Byte)
  BY NameAssumption, BytesOfName
<1>2. \A p \in popular : Distance[pkg][p] = levenshtein(UTF8(pkg), UTF8(p))
  <2>1. \A p \in PackageName : Distance[pkg][p] = levenshtein(UTF8(pkg), UTF8(p))
    BY DEF Distance
  <2>2. QED
    BY <2>1
<1>3. ~near(0)
  <2>1. ASSUME NEW p \in popular, levenshtein(UTF8(pkg), UTF8(p)) = 0
        PROVE  FALSE
    <3>1. UTF8(pkg) \in Seq(Byte) /\ UTF8(p) \in Seq(Byte)
      BY <1>1
    <3>2. UTF8(pkg) = UTF8(p)
      BY <2>1, <3>1, NoDistance
    <3>3. pkg = p
      BY <3>2, NameAssumption
    <3>4. QED
      BY <3>3
  <2>2. QED
    BY <1>2, <2>1
<1>4. ASSUME NEW n \in 1..2, UTF8(pkg) \in Misspelt[q][n]
      PROVE  Distance[pkg][q] \in 1..n
  <2>1. UTF8(pkg) \in Within(UTF8(q), n, Byte)
    <3>1. q \in PackageName /\ n \in 1..2
      OBVIOUS
    <3>2. Misspelt[q][n] = Within(UTF8(q), n, Byte)
      BY <3>1 DEF Misspelt
    <3>3. QED
      BY <1>4, <3>2
  <2>2. UTF8(pkg) \in Seq(Byte) /\ UTF8(q) \in Seq(Byte) /\ n \in Nat
    BY <1>1
  <2>3. levenshtein(UTF8(pkg), UTF8(q)) <= n
    BY <2>1, <2>2, WithinMeansNear
  <2>4. levenshtein(UTF8(pkg), UTF8(q)) \in Nat
    BY <2>2, DistanceIsNat
  <2>5. levenshtein(UTF8(pkg), UTF8(q)) # 0
    BY <1>2, <1>3
  <2>6. QED
    BY <1>2, <2>3, <2>4, <2>5
<1> HIDE DEF near
<1>5. UTF8(pkg) \in Misspelt[q][1] => near(1)
  <2>1. 1 \in 1..2
    OBVIOUS
  <2>2. UTF8(pkg) \in Misspelt[q][1] => Distance[pkg][q] \in 1..1
    BY <1>4, <2>1
  <2>3. QED
    BY <2>2 DEF near
<1>6. UTF8(pkg) \in Misspelt[q][2] => near(1) \/ near(2)
  <2>1. 2 \in 1..2
    OBVIOUS
  <2>2. UTF8(pkg) \in Misspelt[q][2] => Distance[pkg][q] \in 1..2
    BY <1>4, <2>1
  <2>3. QED
    BY <2>2 DEF near
<1>7. checkPackageName(pkg, popular) =
        CASE hasMixedScript(pkg)                             -> {Block}
          [] ~hasMixedScript(pkg) /\ near(0)                 -> {}
          [] ~hasMixedScript(pkg) /\ ~near(0) /\ near(1)     -> {Block}
          [] ~hasMixedScript(pkg) /\ ~near(0) /\ ~near(1) /\ near(2) -> {Flag}
          [] OTHER                                           -> {}
  BY DEF checkPackageName, near
<1>8. QED
  BY <1>3, <1>5, <1>6, <1>7

\* The dependency stage catches misspelt names (checkPackageName and
\* levenshtein, stage_deps.go): no archive passes that has a name one edit away
\* from a popular one on a line Tier 2 reads, and none two edits away without a
\* flag, the edits being of bytes, and counted by definition and not by the
\* table of the code.
THEOREM MisspeltCaught == Spec => []MisspeltReported
<1>1. PipelineInv => MisspeltReported
  <2>1. SUFFICES ASSUME PipelineInv, NEW s \in Scan, Passed(s),
                        NEW f \in Text(Files(s)), f.kind \in Manifest,
                        NEW d \in f.deps,
                        d.form = "plain" \/ (d.form = "marked" /\ f.kind = "requirements"),
                        d.name \notin tier2.blocklist \cup tier2.popular,
                        NEW q \in tier2.popular
                 PROVE  /\ UTF8(d.name) \notin Misspelt[q][1]
                        /\ UTF8(d.name) \in Misspelt[q][2] => Finding("dependencies", Flag, f) \in findings[s]
    BY DEF MisspeltReported, Files
  <2>2. /\ tier2 = InForce /\ archive[s] \in Archive
        /\ ~hasBlock(Found(s)) /\ Found(s) \subseteq findings[s]
    BY <2>1, PassedUnderOne
  <2>3. tier2.popular \subseteq PackageName
    BY <2>1, <2>2, PopularNames DEF PipelineInv
  <2>4. d.name \in PackageName
    BY <2>1, <2>2, PatternsAssumption DEF Files, Text
  <2>5. d.name \in Tier2Names(f)
    BY <2>1 DEF Tier2Names, Declared, Manifest
  <2>6. ASSUME NEW severity \in checkPackageName(d.name, tier2.popular)
        PROVE  Finding("dependencies", severity, f) \in Found(s)
    <3>1. severity \in SuspectNames(f, tier2)
      BY <2>1, <2>5, <2>6 DEF SuspectNames
    <3>2. Finding("dependencies", severity, f) \in DepFindings(Files(s), tier2)
      BY <2>1, <3>1 DEF DepFindings
    <3>3. QED
      BY <3>2 DEF Found, Tier2
  <2>7. Block \notin checkPackageName(d.name, tier2.popular)
    BY <2>2, <2>6 DEF hasBlock, Finding
  <2>8. /\ UTF8(d.name) \in Misspelt[q][1] => checkPackageName(d.name, tier2.popular) = {Block}
        /\ UTF8(d.name) \in Misspelt[q][2] => checkPackageName(d.name, tier2.popular) \in {{Block}, {Flag}}
    BY <2>1, <2>3, <2>4, MisspeltFound
  <2>9. QED
    BY <2>2, <2>6, <2>7, <2>8
<1>2. QED
  BY <1>1, Invariance, PTL
=============================================================================
