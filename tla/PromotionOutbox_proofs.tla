------------------------ MODULE PromotionOutbox_proofs ------------------------
(***************************************************************************)
(* Proofs about PromotionOutbox, for any owners, declarations and bounds.  *)
(*                                                                         *)
(* The argument has three threads.  Who holds a claim: a drain works with  *)
(* a claim of its own, and a recovery only carries claims of the dead (a   *)
(* living owner may have left others behind).  What the lock protects:     *)
(* between the look at the claim and the result nobody else writes, so     *)
(* what was true when the claim was looked at is true when the result is   *)
(* written.  What a lineage says: while it has no sidecar its only first   *)
(* receipt is its authority, and afterwards its sidecar; either is what    *)
(* its owner was last promised or has asked for since.                     *)
(***************************************************************************)
EXTENDS PromotionOutbox, TLAPS

Working == {"prepare", "result", "unlink", "release"}
InSection == {"result", "unlink"}

(* The two writes of a section are made by one process.                    *)
Section ==
    \A p, q \in Owners :
        drain[p].pc \in InSection =>
            writing[q] = None /\ (drain[q].pc \in InSection => p = q)

(* What a drain has in hand at each of its steps.                          *)
InHand ==
    \A p \in Owners :
        /\ drain[p].pc \in Working \union {"claim", "unclaim"} => drain[p].job \in Receipts
        /\ drain[p].pc \in Working =>
              drain[p].claim \in Claims /\ drain[p].claim.by = p /\ status[p] = "live"
        /\ drain[p].pc = "unclaim" =>
              drain[p].claim \in Claims /\ status[drain[p].claim.by] = "gone"

(* A drain that still has its claim finds no result, and what it saw under *)
(* the lock is still so when it writes.                                    *)
CurrentAt(p) ==
    /\ drain[p].pc \in InSection => claims[drain[p].job] = drain[p].claim
    /\ \A r \in Receipts : (drain[p].pc = "result" /\ drain[p].job = r) =>
          Authoritative(r) /\ (drain[p].claim.shared => Shares(p, r))
    /\ (drain[p].pc \in {"prepare", "result"}
        /\ claims[drain[p].job] = drain[p].claim) => results[drain[p].job] = None

Current == \A p \in Owners : CurrentAt(p)

(* Why a drain may work on a receipt.                                      *)
Entitled ==
    \A p \in Owners :
        /\ drain[p].pc \in Working \union {"claim"} =>
              \/ drain[p].job.owner = p \/ drain[p].job \in drain[p].mine
              \/ status[drain[p].job.owner] = "gone"
        /\ drain[p].pc \in Working =>
              drain[p].claim.shared = (drain[p].job.owner # p /\ drain[p].job \in drain[p].mine)

(* A drain goes on only with what was proved with published contents.      *)
Supported ==
    \A p \in Owners :
        /\ \A q \in drain[p].stood : Content(q) \in library
        /\ drain[p].pc \in Working \union {"claim"} =>
              Needs[Content(drain[p].job)] \subseteq library

First(r) == Len(r.chain) = 1

(* What sidecars and promises say of the receipts on disk.                 *)
Written ==
    /\ \A l \in Lineages : authority[l] \in Receipts => authority[l] \in entries
    /\ \A p \in Owners : writing[p] # None => writing[p] \in entries
    /\ \A l \in Lineages : authority[l] \in Receipts /\ ~First(authority[l]) =>
          authority[Lineage(authority[l])] # None

Promised ==
    \A l \in Lineages :
        /\ authority[l] # None => authority[l] \in Said(l)
        /\ authority[l] = None =>
              /\ \A r \in entries : (Lineage(r) = l /\ First(r)) => r \in Said(l)
              /\ promised[l] # None => \E r \in entries : Lineage(r) = l /\ First(r)
              /\ \A r, q \in entries :
                    (Lineage(r) = l /\ Lineage(q) = l /\ First(r) /\ First(q)) => r = q

OutboxInv ==
    /\ OutboxTypeOK /\ Section /\ InHand /\ Current
    /\ Entitled /\ Supported /\ DependenciesFirst /\ Written /\ Promised

-----------------------------------------------------------------------------
(* Stands is well defined although a receipt may need itself: the largest  *)
(* set of receipts that support each other is a solution.                  *)
LEMMA StandsUnfolds ==
    \A r \in Receipts : Stands[r] =
        (/\ results[r] = "published"
         /\ Content(r) \in library
         /\ \A c \in Needs[Content(r)] : c \in library /\
              \E q \in Receipts : Content(q) = c /\ Authoritative(q) /\ Stands[q])
<1> DEFINE Supports(r, S) ==
      /\ results[r] = "published"
      /\ Content(r) \in library
      /\ \A c \in Needs[Content(r)] : c \in library /\
           \E q \in Receipts : Content(q) = c /\ Authoritative(q) /\ q \in S
    Grounded(S) == {r \in Receipts : Supports(r, S)}
    Best == UNION {S \in SUBSET Receipts : S \subseteq Grounded(S)}
    Step(f) == [r \in Receipts |->
      /\ results[r] = "published"
      /\ Content(r) \in library
      /\ \A c \in Needs[Content(r)] : c \in library /\
           \E q \in Receipts : Content(q) = c /\ Authoritative(q) /\ f[q]]
<1>1. \A S, T : S \subseteq T => Grounded(S) \subseteq Grounded(T)
  OBVIOUS
<1>2. Best = Grounded(Best)
  <2>1. Best \subseteq Receipts /\ Best \subseteq Grounded(Best)
    <3> HIDE DEF Grounded
    <3>1. \A S \in SUBSET Receipts : S \subseteq Grounded(S) => S \subseteq Grounded(Best)
      BY <1>1
    <3> QED
      BY <3>1
  <2>2. Grounded(Best) \subseteq Grounded(Grounded(Best)) /\ Grounded(Best) \subseteq Receipts
    <3> HIDE DEF Best
    <3> QED
      BY <1>1, <2>1
  <2> HIDE DEF Grounded
  <2> QED
    BY <2>1, <2>2
<1>3. \E f : f = Step(f)
  <2> DEFINE f == [r \in Receipts |-> r \in Best]
  <2> HIDE DEF Best
  <2>0. \A r \in Receipts : r \in Best <=> Supports(r, Best)
    <3> TAKE r \in Receipts
    <3>1. r \in Best <=> r \in Grounded(Best)
      BY <1>2
    <3>2. r \in Grounded(Best) <=> Supports(r, Best)
      <4> HIDE DEF Supports
      <4> QED
        OBVIOUS
    <3> HIDE DEF Supports, Grounded
    <3> QED
      BY <3>1, <3>2
  <2>1. \A r \in Receipts : f[r] = Step(f)[r]
    <3> TAKE r \in Receipts
    <3>1. \A q \in Receipts : f[q] = (q \in Best)
      OBVIOUS
    <3>2. Step(f)[r] = Supports(r, Best)
      <4> HIDE DEF f
      <4> QED
        BY <3>1
    <3>3. Supports(r, Best) \in BOOLEAN
      OBVIOUS
    <3> HIDE DEF Supports, f, Step
    <3> QED
      BY <2>0, <3>1, <3>2, <3>3
  <2>2. f = Step(f)
    BY <2>1
  <2> QED
    BY <2>2
<1>4. Stands = CHOOSE f : f = Step(f)
  BY DEF Stands
<1>5. Stands = Step(Stands)
  <2> HIDE DEF Step
  <2> QED
    BY <1>3, <1>4
<1> QED
  BY <1>5

LEMMA StandsPublished ==
    ASSUME NEW r \in Receipts, Stands[r]
    PROVE  results[r] = "published" /\ Content(r) \in library
BY StandsUnfolds

LEMMA SameAuthority ==
    ASSUME entries' = entries, authority' = authority
    PROVE  \A r, p : (Authoritative(r)' <=> Authoritative(r)) /\ (Shares(p, r)' <=> Shares(p, r))
BY DEF Authoritative, Referenced, Baseline, Shares

(* The ways a drain's state is changed keep its type.                      *)
LEMMA DrainUpdates ==
    ASSUME NEW d \in DrainStates, NEW step \in DrainSteps
    PROVE  /\ [d EXCEPT !.pc = step] \in DrainStates
           /\ \A job \in Receipts : [d EXCEPT !.pc = step, !.job = job] \in DrainStates
           /\ \A claim \in Claims : [d EXCEPT !.pc = step, !.claim = claim] \in DrainStates
           /\ [d EXCEPT !.pc = step, !.job = None, !.claim = None] \in DrainStates
           /\ \A job \in Receipts, claim \in Claims :
                 [d EXCEPT !.pc = step, !.job = job, !.claim = claim] \in DrainStates
           /\ \A verdict \in Verdicts \union {None} :
                 [d EXCEPT !.pc = step, !.verdict = verdict] \in DrainStates
<1> USE DEF DrainStates
<1>1. [d EXCEPT !.pc = step] \in DrainStates
  OBVIOUS
<1>2. \A job \in Receipts : [d EXCEPT !.pc = step, !.job = job] \in DrainStates
  OBVIOUS
<1>3. \A claim \in Claims : [d EXCEPT !.pc = step, !.claim = claim] \in DrainStates
  OBVIOUS
<1>4. [d EXCEPT !.pc = step, !.job = None, !.claim = None] \in DrainStates
  OBVIOUS
<1>5. \A job \in Receipts, claim \in Claims :
        [d EXCEPT !.pc = step, !.job = job, !.claim = claim] \in DrainStates
  OBVIOUS
<1>6. \A verdict \in Verdicts \union {None} :
        [d EXCEPT !.pc = step, !.verdict = verdict] \in DrainStates
  OBVIOUS
<1> QED
  BY <1>1, <1>2, <1>3, <1>4, <1>5, <1>6

LEMMA RestingTyped == Resting \in DrainStates
BY DEF Resting, DrainStates, DrainSteps

LEMMA Leaves ==
    ASSUME NEW p \in Owners, drain[p] \in DrainStates, NEW r
    PROVE  /\ Leave(p, r) \in DrainStates
           /\ Leave(p, r).pc \in {"idle", "pick"} /\ Leave(p, r).claim = None
           /\ Leave(p, r).stood \subseteq drain[p].stood
<1>1. CASE drain[p].todo = {r}
  BY <1>1 DEF Leave, Resting, DrainStates, DrainSteps
<1>2. CASE drain[p].todo # {r}
  BY <1>2 DEF Leave, DrainStates, DrainSteps
<1> QED
  BY <1>1, <1>2

(* A step that only changes what one drain is doing.                       *)
LEMMA DrainMoves ==
    ASSUME OutboxInv, NEW p \in Owners, status[p] = "live",
           NEW d \in DrainStates, drain' = [drain EXCEPT ![p] = d],
           status' = status, judged' \subseteq Owners,
           UNCHANGED <<diskVars, commands, writing, reportVars>>,
           d.pc \notin InSection,
           d.pc \in Working \union {"claim", "unclaim"} => d.job \in Receipts,
           d.pc = "unclaim" => d.claim \in Claims /\ status[d.claim.by] = "gone",
           d.pc = "claim" =>
              /\ d.job.owner = p \/ d.job \in d.mine \/ status[d.job.owner] = "gone"
              /\ Needs[Content(d.job)] \subseteq library,
           \A q \in d.stood : Content(q) \in library,
           \/ d.pc \notin Working
           \/ /\ drain[p].pc \in Working /\ d.pc = "release"
              /\ d.job = drain[p].job /\ d.claim = drain[p].claim /\ d.mine = drain[p].mine
    PROVE  OutboxInv'
<1> USE DEF OutboxInv, diskVars, reportVars
<1>0. drain \in [Owners -> DrainStates] /\ drain' \in [Owners -> DrainStates]
  BY DEF OutboxTypeOK
<1>a. drain'[p] = d /\ \A q \in Owners : q # p => drain'[q] = drain[q]
  BY <1>0
<1>b. \A q \in Owners : drain'[q] = IF q = p THEN d ELSE drain[q]
  BY <1>0
<1>1. OutboxTypeOK'
  BY <1>0 DEF OutboxTypeOK, LivenessTypeOK
<1>2. Section'
  BY <1>a DEF Section
<1>3. InHand'
  BY <1>a DEF InHand
<1>5. Current'
  <2>1. \A r, q : (Authoritative(r)' <=> Authoritative(r)) /\ (Shares(q, r)' <=> Shares(q, r))
    BY SameAuthority
  <2>2. d.pc \notin {"prepare", "result", "unlink"}
    BY DEF Working, InSection
  <2>3. ASSUME NEW q \in Owners, q # p PROVE CurrentAt(q)'
    <3>1. drain'[q] = drain[q] /\ CurrentAt(q)
      BY <1>a, <2>3 DEF Current
    <3> QED
      BY <2>1, <3>1 DEF CurrentAt
  <2>4. CurrentAt(p)'
    BY <1>a, <2>2 DEF CurrentAt, InSection
  <2> QED
    BY <2>3, <2>4 DEF Current
<1>6. Entitled'
  BY <1>a DEF Entitled, Working
<1>7. Supported'
  BY <1>a DEF Supported
<1>8. DependenciesFirst' /\ Written' /\ Promised'
  BY DEF DependenciesFirst, Written, Promised, Said, Lineage, First
<1> QED
  BY <1>1, <1>2, <1>3, <1>5, <1>6, <1>7, <1>8

(* A chain is a sequence that has a last element.                          *)
LEMMA ChainIsSequence ==
    ASSUME NEW c \in Chains
    PROVE  c \in Seq(Contents) /\ Len(c) \in Nat \ {0}
<1>1. PICK n \in 1..Revisions : c \in [1..n -> Contents]
  BY DEF Chains
<1>2. c \in Seq(Contents) /\ Len(c) = n
  BY <1>1, OutboxAssumption
<1> QED
  BY <1>1, <1>2, OutboxAssumption

LEMMA ReceiptContent ==
    ASSUME NEW r \in Receipts
    PROVE  Content(r) \in Contents /\ Lineage(r) \in Lineages
<1>1. r.chain \in Seq(Contents) /\ Len(r.chain) \in Nat \ {0}
  BY ChainIsSequence DEF Receipts
<1>2. Content(r) \in Contents
  BY <1>1 DEF Content
<1> QED
  BY <1>2, OutboxAssumption DEF Lineage, Lineages, Receipts

LEMMA DrainKnown ==
    ASSUME OutboxInv, NEW p \in Owners
    PROVE  /\ drain[p] \in DrainStates
           /\ \A q \in drain[p].stood : Content(q) \in library
BY DEF OutboxInv, OutboxTypeOK, Supported

LEMMA Judges ==
    ASSUME OutboxInv, NEW o \in Owners, Judge(o)
    PROVE  status' = status /\ judged' \subseteq Owners /\ status[o] = "gone"
BY DEF OutboxInv, OutboxTypeOK, LivenessTypeOK, Judge

LEMMA FindAbandonedKeeps ==
    ASSUME OutboxInv, NEW p \in Owners, FindAbandoned(p)
    PROVE  OutboxInv'
<1>1. PICK r \in Receipts :
        /\ claims[r] # None
        /\ Judge(claims[r].by)
        /\ drain' = [drain EXCEPT ![p] =
              [drain[p] EXCEPT !.pc = "unclaim", !.job = r, !.claim = claims[r]]]
  BY DEF FindAbandoned, Moves
<1> DEFINE d == [drain[p] EXCEPT !.pc = "unclaim", !.job = r, !.claim = claims[r]]
<1>2. claims[r] \in Claims /\ claims[r].by \in Owners
  BY <1>1 DEF OutboxInv, OutboxTypeOK, Claims
<1>3. d \in DrainStates /\ d.pc = "unclaim" /\ d.job = r /\ d.claim = claims[r]
      /\ d.stood = drain[p].stood
  <2>1. d \in DrainStates
    BY <1>2, DrainKnown, DrainUpdates DEF DrainSteps
  <2>2. d.pc = "unclaim" /\ d.job = r /\ d.claim = claims[r]
      /\ d.stood = drain[p].stood
    BY DrainKnown DEF DrainStates
  <2> QED
    BY <2>1, <2>2
<1>4. status[p] = "live" /\ drain[p].pc = "idle" /\ drain' = [drain EXCEPT ![p] = d]
      /\ UNCHANGED <<diskVars, commands, writing, reportVars>>
  BY <1>1 DEF FindAbandoned, Alive
<1>5. status' = status /\ judged' \subseteq Owners /\ status[claims[r].by] = "gone"
  BY <1>1, <1>2, Judges
<1> HIDE DEF d
<1> QED
  BY <1>2, <1>3, <1>4, <1>5, DrainKnown, DrainMoves DEF Working, InSection

LEMMA SnapshotKeeps ==
    ASSUME OutboxInv, NEW p \in Owners, Snapshot(p)
    PROVE  OutboxInv'
<1> DEFINE auth == {r \in entries : Authoritative(r)}
           todo == {r \in auth : ~Settled(r)}
           needed == UNION {Needs[Content(r)] : r \in todo}
           providers == {q \in auth : Content(q) \in needed}
           mine == {r \in todo : Shares(p, r)}
           stood == {q \in providers : Stands[q]}
           d == [drain[p] EXCEPT !.pc = "pick", !.todo = todo, !.mine = mine,
                                 !.providers = providers, !.stood = stood]
<1>1. todo \subseteq Receipts /\ mine \subseteq Receipts /\ providers \subseteq Receipts
      /\ stood \subseteq Receipts /\ \A q \in stood : Stands[q]
  <2>1. entries \subseteq Receipts
    BY DEF OutboxInv, OutboxTypeOK
  <2> QED
    BY <2>1
<1>2. status[p] = "live" /\ drain[p].pc = "idle" /\ drain' = [drain EXCEPT ![p] = d]
  BY DEF Snapshot, Alive, Moves
<1> HIDE DEF todo, mine, providers, stood
<1>3. d \in DrainStates /\ d.pc = "pick" /\ d.stood = stood
  BY <1>1, DrainKnown DEF DrainStates, DrainSteps
<1>4. \A q \in stood : Content(q) \in library
  BY <1>1, StandsPublished
<1>5. status' = status /\ judged' \subseteq Owners
      /\ UNCHANGED <<diskVars, commands, writing, reportVars>>
  BY DEF Snapshot, livenessVars, OutboxInv, OutboxTypeOK, LivenessTypeOK
<1> HIDE DEF d
<1> QED
  BY <1>2, <1>3, <1>4, <1>5, DrainMoves DEF Working, InSection

LEMMA MayDrainKnows ==
    ASSUME OutboxInv, NEW p \in Owners, NEW r \in Receipts, MayDrain(p, r)
    PROVE  /\ status' = status /\ judged' \subseteq Owners
           /\ r.owner = p \/ r \in drain[p].mine \/ status[r.owner] = "gone"
<1>1. CASE IsProducer(p, r)
  BY <1>1 DEF MayDrain, IsProducer, livenessVars, OutboxInv, OutboxTypeOK, LivenessTypeOK
<1>2. CASE ~IsProducer(p, r)
  BY <1>2, Judges DEF MayDrain, Receipts
<1> QED
  BY <1>1, <1>2

LEMMA SkipLiveOwnerKeeps ==
    ASSUME OutboxInv, NEW p \in Owners, SkipLiveOwner(p)
    PROVE  OutboxInv'
<1>1. PICK r \in drain[p].todo : drain' = [drain EXCEPT ![p] = Leave(p, r)]
  BY DEF SkipLiveOwner, Moves
<1>2. status[p] = "live" /\ drain[p].pc = "pick"
      /\ status' = status /\ judged' \subseteq Owners
      /\ UNCHANGED <<diskVars, commands, writing, reportVars>>
  BY DEF SkipLiveOwner, Alive, livenessVars, OutboxInv, OutboxTypeOK, LivenessTypeOK
<1>3. Leave(p, r) \in DrainStates /\ Leave(p, r).pc \in {"idle", "pick"}
      /\ \A q \in Leave(p, r).stood : Content(q) \in library
  BY DrainKnown, Leaves
<1> QED
  BY <1>1, <1>2, <1>3, DrainMoves DEF Working, InSection

LEMMA DeferDependentKeeps ==
    ASSUME OutboxInv, NEW p \in Owners, DeferDependent(p)
    PROVE  OutboxInv'
<1>1. PICK r \in drain[p].todo : MayDrain(p, r) /\ drain' = [drain EXCEPT ![p] = Leave(p, r)]
  BY DEF DeferDependent, Moves
<1>2. status[p] = "live" /\ drain[p].pc = "pick"
      /\ UNCHANGED <<diskVars, commands, writing, reportVars>>
  BY DEF DeferDependent, Alive
<1>3. status' = status /\ judged' \subseteq Owners
  BY <1>1, DrainKnown, MayDrainKnows DEF DrainStates
<1>4. Leave(p, r) \in DrainStates /\ Leave(p, r).pc \in {"idle", "pick"}
      /\ \A q \in Leave(p, r).stood : Content(q) \in library
  BY DrainKnown, Leaves
<1> QED
  BY <1>1, <1>2, <1>3, <1>4, DrainMoves DEF Working, InSection

LEMMA ChooseKeeps ==
    ASSUME OutboxInv, NEW p \in Owners, Choose(p)
    PROVE  OutboxInv'
<1>1. PICK r \in drain[p].todo :
        /\ MayDrain(p, r) /\ DependenciesPublished(p, r)
        /\ drain' = [drain EXCEPT ![p] = [drain[p] EXCEPT !.pc = "claim", !.job = r]]
  BY DEF Choose, Moves
<1> DEFINE d == [drain[p] EXCEPT !.pc = "claim", !.job = r]
<1>2. r \in Receipts /\ drain[p].providers \subseteq Receipts
  BY DrainKnown DEF DrainStates
<1>3. status[p] = "live" /\ drain[p].pc = "pick" /\ drain' = [drain EXCEPT ![p] = d]
      /\ UNCHANGED <<diskVars, commands, writing, reportVars>>
  BY <1>1 DEF Choose, Alive
<1>4. d \in DrainStates /\ d.pc = "claim" /\ d.job = r
      /\ d.mine = drain[p].mine /\ d.stood = drain[p].stood
  <2>1. d \in DrainStates
    BY <1>2, DrainKnown, DrainUpdates DEF DrainSteps
  <2>2. d.pc = "claim" /\ d.job = r
      /\ d.mine = drain[p].mine /\ d.stood = drain[p].stood
    BY DrainKnown DEF DrainStates
  <2> QED
    BY <2>1, <2>2
<1>5. Needs[Content(r)] \subseteq library
  <2>1. ASSUME NEW c \in Needs[Content(r)] PROVE c \in library
    <3>1. PICK q \in drain[p].providers :
            Content(q) = c /\ (q \in drain[p].stood \/ Stands[q])
      BY <1>1, <2>1 DEF DependenciesPublished
    <3> QED
      BY <1>2, <3>1, DrainKnown, StandsPublished
  <2> QED
    BY <2>1
<1>6. /\ status' = status /\ judged' \subseteq Owners
      /\ r.owner = p \/ r \in drain[p].mine \/ status[r.owner] = "gone"
  BY <1>1, <1>2, MayDrainKnows
<1> HIDE DEF d
<1> QED
  BY <1>2, <1>3, <1>4, <1>5, <1>6, DrainKnown, DrainMoves DEF Working, InSection

(* Going on to the release of the claim, whatever the reason.              *)
LEMMA GivesUp ==
    ASSUME OutboxInv, NEW p \in Owners, status[p] = "live",
           drain[p].pc \in {"prepare", "result", "unlink"},
           NEW d \in DrainStates, drain' = [drain EXCEPT ![p] = d],
           d.pc = "release", d.job = drain[p].job, d.claim = drain[p].claim,
           d.mine = drain[p].mine, d.stood = drain[p].stood,
           UNCHANGED <<livenessVars, diskVars, commands, writing, reportVars>>
    PROVE  OutboxInv'
<1>1. status' = status /\ judged' \subseteq Owners
  BY DEF livenessVars, OutboxInv, OutboxTypeOK, LivenessTypeOK
<1>2. drain[p].job \in Receipts
  BY DEF OutboxInv, InHand, Working
<1> QED
  BY <1>1, <1>2, DrainKnown, DrainMoves DEF Working, InSection

LEMMA FailKeeps ==
    ASSUME OutboxInv, NEW p \in Owners, Fail(p)
    PROVE  OutboxInv'
<1> DEFINE d == [drain[p] EXCEPT !.pc = "release", !.verdict = None]
<1>1. d \in DrainStates /\ d.pc = "release" /\ d.job = drain[p].job /\ d.claim = drain[p].claim
      /\ d.mine = drain[p].mine /\ d.stood = drain[p].stood
  <2>1. d \in DrainStates
    BY DrainKnown, DrainUpdates DEF DrainSteps
  <2>2. d.pc = "release" /\ d.job = drain[p].job /\ d.claim = drain[p].claim
      /\ d.mine = drain[p].mine /\ d.stood = drain[p].stood
    BY DrainKnown DEF DrainStates
  <2> QED
    BY <2>1, <2>2
<1>2. drain' = [drain EXCEPT ![p] = d]
  BY DEF Fail, Moves
<1> HIDE DEF d
<1> QED
  BY <1>1, <1>2, GivesUp DEF Fail, Alive

LEMMA EndDrainKeeps ==
    ASSUME OutboxInv, NEW p \in Owners, EndDrain(p)
    PROVE  OutboxInv'
<1>1. Resting.pc = "idle" /\ Resting.stood = {}
  BY DEF Resting
<1>2. status[p] = "live" /\ drain' = [drain EXCEPT ![p] = Resting]
      /\ status' = status /\ judged' \subseteq Owners
      /\ UNCHANGED <<diskVars, commands, writing, reportVars>>
  BY DEF EndDrain, Alive, Moves, livenessVars, OutboxInv, OutboxTypeOK, LivenessTypeOK
<1> QED
  BY <1>1, <1>2, RestingTyped, DrainMoves DEF Working, InSection

(* A step that takes at most one claim away: a dead owner's, or its own.   *)
LEMMA DropsClaim ==
    ASSUME OutboxInv, NEW p \in Owners, status[p] = "live", NEW r \in Receipts,
           NEW d \in DrainStates, drain' = [drain EXCEPT ![p] = d],
           d.pc \in {"idle", "pick"}, \A q \in d.stood : Content(q) \in library,
           \/ claims' = claims
           \/ /\ claims' = [claims EXCEPT ![r] = None]
              /\ claims[r] # None => claims[r].by = p \/ status[claims[r].by] = "gone",
           UNCHANGED <<livenessVars, entries, authority, results, library,
                       commands, writing, reportVars>>
    PROVE  OutboxInv'
<1> USE DEF OutboxInv, livenessVars, reportVars
<1>0. drain \in [Owners -> DrainStates] /\ claims \in [Receipts -> Claims \union {None}]
  BY DEF OutboxTypeOK
<1>a. drain'[p] = d /\ \A q \in Owners : q # p => drain'[q] = drain[q]
  BY <1>0
<1>b. \A x \in Receipts : claims'[x] # claims[x] =>
        x = r /\ claims'[x] = None
        /\ (claims[x] # None => claims[x].by = p \/ status[claims[x].by] = "gone")
  BY <1>0
<1>1. OutboxTypeOK'
  BY <1>0 DEF OutboxTypeOK, LivenessTypeOK
<1>2. Section'
  BY <1>a DEF Section, InSection
<1>3. InHand'
  BY <1>a DEF InHand, Working
<1>5. Current'
  <2>1. \A x, q : (Authoritative(x)' <=> Authoritative(x)) /\ (Shares(q, x)' <=> Shares(q, x))
    BY SameAuthority
  <2>2. ASSUME NEW q \in Owners, q # p PROVE CurrentAt(q)'
    <3>1. drain'[q] = drain[q] /\ CurrentAt(q)
      BY <1>a, <2>2 DEF Current
    <3>2. CASE drain[q].pc \in Working
      <4>1. drain[q].job \in Receipts /\ drain[q].claim \in Claims
            /\ drain[q].claim.by = q /\ status[q] = "live"
        BY <3>2 DEF InHand
      <4>2. drain[q].claim # None
        BY <4>1, OutboxAssumption
      <4>3. claims[drain[q].job] = drain[q].claim <=> claims'[drain[q].job] = drain[q].claim
        BY <1>b, <2>2, <4>1, <4>2
      <4> QED
        BY <2>1, <3>1, <4>3 DEF CurrentAt
    <3>3. CASE drain[q].pc \notin Working
      BY <3>1, <3>3 DEF CurrentAt, Working, InSection
    <3> QED
      BY <3>2, <3>3
  <2>3. CurrentAt(p)'
    BY <1>a DEF CurrentAt, InSection
  <2> QED
    BY <2>2, <2>3 DEF Current
<1>6. Entitled'
  BY <1>a DEF Entitled, Working
<1>7. Supported'
  BY <1>a DEF Supported, Working
<1>8. DependenciesFirst' /\ Written' /\ Promised'
  BY DEF DependenciesFirst, Written, Promised, Said, Lineage, First
<1> QED
  BY <1>1, <1>2, <1>3, <1>5, <1>6, <1>7, <1>8

LEMMA RecoverClaimKeeps ==
    ASSUME OutboxInv, NEW p \in Owners, RecoverClaim(p)
    PROVE  OutboxInv'
<1> DEFINE r == drain[p].job
           d == Resting
<1>1. d \in DrainStates
  BY RestingTyped
<1>2. d.pc = "idle" /\ d.stood = {}
  BY DEF Resting
<1>3. /\ status[p] = "live" /\ drain[p].pc = "unclaim" /\ drain' = [drain EXCEPT ![p] = d]
      /\ UNCHANGED <<livenessVars, entries, authority, results, library,
                     commands, writing, reportVars>>
  BY DEF RecoverClaim, Alive, Moves
<1>4. r \in Receipts /\ status[drain[p].claim.by] = "gone"
  BY <1>3 DEF OutboxInv, InHand, Working
<1>5. \/ claims' = claims
      \/ /\ claims' = [claims EXCEPT ![r] = None]
         /\ claims[r] # None => status[claims[r].by] = "gone"
  <2>1. claims' = [claims EXCEPT ![r] = IF @ = drain[p].claim THEN None ELSE @]
        /\ claims \in [Receipts -> Claims \union {None}]
    BY DEF RecoverClaim, Drops, OutboxInv, OutboxTypeOK
  <2> QED
    BY <1>4, <2>1
<1> HIDE DEF d, r
<1> QED
  BY <1>1, <1>2, <1>3, <1>4, <1>5, DropsClaim

LEMMA ReleaseClaimKeeps ==
    ASSUME OutboxInv, NEW p \in Owners, ReleaseClaim(p)
    PROVE  OutboxInv'
<1> DEFINE r == drain[p].job
           d == Leave(p, r)
<1>1. d \in DrainStates /\ d.pc \in {"idle", "pick"} /\ \A q \in d.stood : Content(q) \in library
  BY DrainKnown, Leaves
<1>2. /\ status[p] = "live" /\ drain[p].pc = "release" /\ drain' = [drain EXCEPT ![p] = d]
      /\ UNCHANGED <<livenessVars, entries, authority, results, library,
                     commands, writing, reportVars>>
  BY DEF ReleaseClaim, Alive, Moves
<1>3. r \in Receipts /\ drain[p].claim.by = p
  BY <1>2 DEF OutboxInv, InHand, Working
<1>4. /\ claims[r] = drain[p].claim => claims'[r] = None
      /\ \/ claims' = claims
         \/ /\ claims' = [claims EXCEPT ![r] = None]
            /\ claims[r] # None => claims[r].by = p
  <2>1. claims' = [claims EXCEPT ![r] = IF @ = drain[p].claim THEN None ELSE @]
        /\ claims \in [Receipts -> Claims \union {None}]
    BY DEF ReleaseClaim, Drops, OutboxInv, OutboxTypeOK
  <2> QED
    BY <1>3, <2>1
<1>5. r = drain[p].job
  OBVIOUS
<1> HIDE DEF d, r
<1> QED
  BY <1>1, <1>2, <1>3, <1>4, <1>5, DropsClaim

LEMMA UnlinkClaimKeeps ==
    ASSUME OutboxInv, NEW p \in Owners, UnlinkClaim(p)
    PROVE  OutboxInv'
<1> DEFINE r == drain[p].job
           d == Leave(p, r)
<1>1. d \in DrainStates /\ d.pc \in {"idle", "pick"} /\ \A q \in d.stood : Content(q) \in library
  BY DrainKnown, Leaves
<1>2. /\ status[p] = "live" /\ drain[p].pc = "unlink" /\ drain' = [drain EXCEPT ![p] = d]
      /\ claims' = [claims EXCEPT ![r] = None]
      /\ UNCHANGED <<livenessVars, entries, authority, results, library,
                     commands, writing, reportVars>>
  BY DEF UnlinkClaim, Alive, Moves
<1>3. r \in Receipts /\ drain[p].claim.by = p
  BY <1>2 DEF OutboxInv, InHand, Working
<1>4. claims[r] = drain[p].claim /\ claims'[r] = None
  BY <1>2, <1>3 DEF OutboxInv, OutboxTypeOK, Current, CurrentAt, InSection
<1>5. r = drain[p].job
  OBVIOUS
<1> HIDE DEF d, r
<1> QED
  BY <1>1, <1>2, <1>3, <1>4, <1>5, DropsClaim

(* The claim is current: its drain goes on to write the result.            *)
LEMMA EntersSection ==
    ASSUME OutboxInv, NEW p \in Owners, status[p] = "live",
           drain[p].pc = "prepare", LockFree, ClaimIsCurrent(p),
           NEW verdict \in Verdicts,
           drain' = [drain EXCEPT ![p] = [drain[p] EXCEPT !.pc = "result", !.verdict = verdict]],
           library' \in {library, library \union {Content(drain[p].job)}},
           library' \subseteq Contents,
           UNCHANGED <<livenessVars, entries, authority, claims, results,
                       commands, writing, reportVars>>
    PROVE  OutboxInv'
<1> USE DEF OutboxInv, livenessVars, reportVars
<1> DEFINE d == [drain[p] EXCEPT !.pc = "result", !.verdict = verdict]
<1>0. drain \in [Owners -> DrainStates] /\ d \in DrainStates
  BY DrainKnown, DrainUpdates DEF DrainSteps, OutboxTypeOK
<1>k. d.pc = "result" /\ d.job = drain[p].job /\ d.claim = drain[p].claim
      /\ d.mine = drain[p].mine /\ d.stood = drain[p].stood
  BY DrainKnown DEF DrainStates
<1>a. drain'[p] = d /\ \A q \in Owners : q # p => drain'[q] = drain[q]
  BY <1>0
<1>b. drain' \in [Owners -> DrainStates]
  BY <1>0
<1> HIDE DEF d
<1>1. OutboxTypeOK'
  BY <1>b DEF OutboxTypeOK, LivenessTypeOK
<1>2. Section'
  BY <1>a, <1>k DEF Section, InSection, LockFree
<1>3. InHand'
  BY <1>a, <1>k DEF InHand, Working
<1>5. Current'
  <2>1. \A x, q : (Authoritative(x)' <=> Authoritative(x)) /\ (Shares(q, x)' <=> Shares(q, x))
    BY SameAuthority
  <2>2. ASSUME NEW q \in Owners, q # p PROVE CurrentAt(q)'
    BY <1>a, <2>1, <2>2 DEF Current, CurrentAt
  <2>3. CurrentAt(p)'
    BY <1>a, <1>k, <2>1 DEF Current, CurrentAt, ClaimIsCurrent, InSection
  <2> QED
    BY <2>2, <2>3 DEF Current
<1>6. Entitled'
  BY <1>a, <1>k DEF Entitled, Working
<1>7. Supported'
  BY <1>a, <1>k DEF Supported, Working
<1>8. DependenciesFirst'
  BY DEF DependenciesFirst, Supported, Working
<1>9. Written' /\ Promised'
  BY DEF Written, Promised, Said, Lineage, First
<1> QED
  BY <1>1, <1>2, <1>3, <1>5, <1>6, <1>7, <1>8, <1>9

LEMMA PublishKeeps ==
    ASSUME OutboxInv, NEW p \in Owners, Publish(p)
    PROVE  OutboxInv'
<1>0. status[p] = "live" /\ drain[p].pc = "prepare" /\ drain[p].job \in Receipts
  BY DEF Publish, Alive, OutboxInv, InHand, Working
<1>1. CASE ClaimIsCurrent(p)
  <2>1. Content(drain[p].job) \in Contents
    BY <1>0, ReceiptContent
  <2>2. library' \subseteq Contents
    BY <1>1, <2>1 DEF Publish, OutboxInv, OutboxTypeOK
  <2> QED
    BY <1>0, <1>1, <2>2, EntersSection DEF Publish, Moves, Verdicts
<1>2. CASE ~ClaimIsCurrent(p)
  <2> DEFINE d == [drain[p] EXCEPT !.pc = "release"]
  <2>1. d \in DrainStates
    BY DrainKnown, DrainUpdates DEF DrainSteps
  <2>2. d.pc = "release" /\ d.job = drain[p].job /\ d.claim = drain[p].claim
        /\ d.mine = drain[p].mine /\ d.stood = drain[p].stood
    BY DrainKnown DEF DrainStates
  <2>3. drain' = [drain EXCEPT ![p] = d] /\ UNCHANGED diskVars
    BY <1>2 DEF Publish, Moves, diskVars
  <2> HIDE DEF d
  <2> QED
    BY <1>0, <2>1, <2>2, <2>3, GivesUp DEF Publish
<1> QED
  BY <1>1, <1>2

LEMMA SettleKeeps ==
    ASSUME OutboxInv, NEW p \in Owners, Settle(p)
    PROVE  OutboxInv'
<1>0. status[p] = "live" /\ drain[p].pc = "prepare" /\ drain[p].job \in Receipts
  BY DEF Settle, Alive, OutboxInv, InHand, Working
<1>1. CASE ClaimIsCurrent(p)
  <2>1. library' \subseteq Contents /\ library' = library
    BY DEF Settle, diskVars, OutboxInv, OutboxTypeOK
  <2> QED
    BY <1>0, <1>1, <2>1, EntersSection DEF Settle, Moves, Verdicts, diskVars
<1>2. CASE ~ClaimIsCurrent(p)
  <2> DEFINE d == [drain[p] EXCEPT !.pc = "release"]
  <2>1. d \in DrainStates
    BY DrainKnown, DrainUpdates DEF DrainSteps
  <2>2. d.pc = "release" /\ d.job = drain[p].job /\ d.claim = drain[p].claim
        /\ d.mine = drain[p].mine /\ d.stood = drain[p].stood
    BY DrainKnown DEF DrainStates
  <2>3. drain' = [drain EXCEPT ![p] = d]
    BY <1>2 DEF Settle, Moves
  <2> HIDE DEF d
  <2> QED
    BY <1>0, <2>1, <2>2, <2>3, GivesUp DEF Settle
<1> QED
  BY <1>1, <1>2

(* A result that does not stand is set aside, and the receipt left alone.  *)
LEMMA SetsAside ==
    ASSUME OutboxInv, NEW p \in Owners, NEW r \in Receipts, drain[p].pc = "claim",
           NEW d \in DrainStates, drain' = [drain EXCEPT ![p] = d],
           d.pc \in {"idle", "pick"}, \A q \in d.stood : Content(q) \in library,
           results' = [results EXCEPT ![r] = None],
           UNCHANGED <<livenessVars, entries, authority, claims, library,
                       commands, writing, reportVars>>
    PROVE  OutboxInv'
<1> USE DEF OutboxInv, livenessVars, reportVars
<1>0. drain \in [Owners -> DrainStates] /\ results \in [Receipts -> Verdicts \union {None}]
  BY DEF OutboxTypeOK
<1>a. drain'[p] = d /\ \A q \in Owners : q # p => drain'[q] = drain[q]
  BY <1>0
<1>1. OutboxTypeOK'
  BY <1>0 DEF OutboxTypeOK, LivenessTypeOK
<1>2. Section'
  BY <1>a DEF Section, InSection
<1>3. InHand'
  BY <1>a DEF InHand, Working
<1>4. Current'
  <2>1. \A x, q : (Authoritative(x)' <=> Authoritative(x)) /\ (Shares(q, x)' <=> Shares(q, x))
    BY SameAuthority
  <2>2. \A x \in Receipts : results[x] = None => results'[x] = None
    BY <1>0
  <2>3. ASSUME NEW q \in Owners, q # p PROVE CurrentAt(q)'
    <3>1. drain'[q] = drain[q] /\ CurrentAt(q)
      BY <1>a, <2>3 DEF Current
    <3>2. drain[q].pc \in Working => drain[q].job \in Receipts
      BY DEF InHand
    <3> QED
      BY <2>1, <2>2, <3>1, <3>2 DEF CurrentAt, Working, InSection
  <2>4. CurrentAt(p)'
    BY <1>a DEF CurrentAt, InSection
  <2> QED
    BY <2>3, <2>4 DEF Current
<1>5. Entitled' /\ Supported'
  BY <1>a DEF Entitled, Supported, Working
<1>6. DependenciesFirst' /\ Written' /\ Promised'
  BY DEF DependenciesFirst, Written, Promised, Said, Lineage, First
<1> QED
  BY <1>1, <1>2, <1>3, <1>4, <1>5, <1>6

LEMMA ClaimKeeps ==
    ASSUME OutboxInv, NEW p \in Owners, Claim(p)
    PROVE  OutboxInv'
<1> DEFINE r == drain[p].job
<1>0. status[p] = "live" /\ drain[p].pc = "claim" /\ r \in Receipts
  BY DEF Claim, Alive, OutboxInv, InHand
<1>1. CASE ~Claimable(p, r)
  <2>1. /\ drain' = [drain EXCEPT ![p] = Leave(p, r)]
        /\ UNCHANGED <<livenessVars, entries, authority, claims, results, library,
                       commands, writing, reportVars>>
    BY <1>1 DEF Claim, Moves
  <2>2. Leave(p, r) \in DrainStates /\ Leave(p, r).pc \in {"idle", "pick"}
        /\ \A q \in Leave(p, r).stood : Content(q) \in library
    BY DrainKnown, Leaves
  <2> HIDE DEF r
  <2> QED
    BY <1>0, <2>1, <2>2, DropsClaim DEF Working
<1>2. ASSUME Claimable(p, r), UNCHANGED claims,
             drain' = [drain EXCEPT ![p] = Leave(p, r)] \/ drain' = [drain EXCEPT ![p] = Resting]
      PROVE  OutboxInv'
  <2>1. PICK d \in {Leave(p, r), Resting} : drain' = [drain EXCEPT ![p] = d]
    BY <1>2
  <2>2. d \in DrainStates /\ d.pc \in {"idle", "pick"}
        /\ \A q \in d.stood : Content(q) \in library
    <3>1. CASE d = Leave(p, r)
      BY <3>1, DrainKnown, Leaves
    <3>2. CASE d = Resting
      BY <3>2, RestingTyped DEF Resting
    <3> QED
      BY <2>1, <3>1, <3>2
  <2>3. /\ results' = [results EXCEPT ![r] = None]
        /\ UNCHANGED <<livenessVars, entries, authority, claims, library, commands, writing, reportVars>>
    BY <1>2 DEF Claim
  <2> HIDE DEF r
  <2> QED
    BY <1>0, <2>1, <2>2, <2>3, SetsAside
<1>3. ASSUME Claimable(p, r), claims[r] = None,
             \E claim \in Claims :
                /\ claim.by = p /\ claim.shared = ForShare(p, r)
                /\ claims' = [claims EXCEPT ![r] = claim]
                /\ drain' = [drain EXCEPT ![p] = [drain[p] EXCEPT !.pc = "prepare", !.claim = claim]]
      PROVE  OutboxInv'
  <2> USE DEF OutboxInv, livenessVars, reportVars
  <2>1. PICK claim \in Claims :
          /\ claim.by = p /\ claim.shared = ForShare(p, r)
          /\ claims' = [claims EXCEPT ![r] = claim]
          /\ drain' = [drain EXCEPT ![p] = [drain[p] EXCEPT !.pc = "prepare", !.claim = claim]]
    BY <1>3
  <2>2. /\ results' = [results EXCEPT ![r] = None] /\ LockFree /\ claims[r] = None
        /\ UNCHANGED <<livenessVars, entries, authority, library, commands, writing, reportVars>>
    BY <1>3 DEF Claim
  <2> DEFINE d == [drain[p] EXCEPT !.pc = "prepare", !.claim = claim]
  <2>3. drain \in [Owners -> DrainStates] /\ d \in DrainStates
    BY DrainKnown, DrainUpdates DEF DrainSteps, OutboxTypeOK
  <2>4. d.pc = "prepare" /\ d.job = r /\ d.claim = claim
        /\ d.mine = drain[p].mine /\ d.stood = drain[p].stood
    BY DrainKnown DEF DrainStates
  <2>5. drain'[p] = d /\ \A q \in Owners : q # p => drain'[q] = drain[q]
    BY <2>1, <2>3
  <2>6. drain' \in [Owners -> DrainStates]
    BY <2>1, <2>3
  <2>7. /\ claims'[r] = claim /\ results'[r] = None
        /\ \A x \in Receipts : x # r => claims'[x] = claims[x] /\ results'[x] = results[x]
    BY <1>0, <2>1, <2>2 DEF OutboxTypeOK
  <2>8. claim # None
    BY OutboxAssumption
  <2> HIDE DEF d, r
  <2>a. OutboxTypeOK'
    BY <2>1, <2>2, <2>6 DEF OutboxTypeOK, LivenessTypeOK
  <2>b. Section'
    BY <2>2, <2>4, <2>5 DEF Section, InSection, LockFree
  <2>c. InHand'
    BY <1>0, <2>1, <2>2, <2>4, <2>5 DEF InHand, Working
  <2>e. Current'
    <3>1. ASSUME NEW q \in Owners, q # p PROVE CurrentAt(q)'
      <4>1. drain'[q] = drain[q] /\ drain[q].pc \notin InSection /\ CurrentAt(q)
        BY <2>2, <2>5, <3>1 DEF Current, LockFree, InSection
      <4>2. drain[q].pc \in Working =>
              drain[q].job \in Receipts /\ drain[q].claim # claim
        BY <2>1, <3>1 DEF InHand
      <4> QED
        BY <2>7, <4>1, <4>2 DEF CurrentAt, InSection, Working
    <3>2. CurrentAt(p)'
      BY <2>4, <2>5, <2>7 DEF CurrentAt, InSection
    <3> QED
      BY <3>1, <3>2 DEF Current
  <2>f. Entitled'
    BY <1>0, <2>1, <2>2, <2>4, <2>5 DEF Entitled, Working, ForShare, r
  <2>g. Supported'
    BY <1>0, <2>2, <2>4, <2>5 DEF Supported, Working, r
  <2>h. DependenciesFirst' /\ Written' /\ Promised'
    BY <2>2 DEF DependenciesFirst, Written, Promised, Said, Lineage, First
  <2> QED
    BY <2>a, <2>b, <2>c, <2>e, <2>f, <2>g, <2>h
<1>4. CASE Claimable(p, r)
  <2>1. \/ /\ claims[r] = None
           /\ \E n \in 1..Serials :
                LET claim == [by |-> p, serial |-> n, shared |-> ForShare(p, r)] IN
                /\ claims' = [claims EXCEPT ![r] = claim]
                /\ drain' = [drain EXCEPT ![p] = [drain[p] EXCEPT !.pc = "prepare", !.claim = claim]]
        \/ /\ UNCHANGED claims
           /\ \/ drain' = [drain EXCEPT ![p] = Leave(p, r)]
              \/ drain' = [drain EXCEPT ![p] = Resting]
    BY <1>4 DEF Claim, Moves
  <2>2. \A n \in 1..Serials : [by |-> p, serial |-> n, shared |-> ForShare(p, r)] \in Claims
    BY DEF Claims, ForShare
  <2> HIDE DEF r
  <2> QED
    BY <1>2, <1>3, <1>4, <2>1, <2>2
<1> QED
  BY <1>1, <1>4

LEMMA WriteResultKeeps ==
    ASSUME OutboxInv, NEW p \in Owners, WriteResult(p)
    PROVE  OutboxInv'
<1> USE DEF OutboxInv, livenessVars, reportVars
<1> DEFINE d == [drain[p] EXCEPT !.pc = "unlink", !.verdict = None]
<1>0. /\ status[p] = "live" /\ drain[p].pc = "result"
      /\ results' = [results EXCEPT ![drain[p].job] = drain[p].verdict]
      /\ drain' = [drain EXCEPT ![p] = d]
      /\ UNCHANGED <<livenessVars, entries, authority, claims, library, commands, writing, reportVars>>
  BY DEF WriteResult, Alive, Moves
<1>1. drain \in [Owners -> DrainStates] /\ d \in DrainStates
      /\ drain[p].verdict \in Verdicts \union {None}
  <2>1. d \in DrainStates
    BY DrainKnown, DrainUpdates DEF DrainSteps
  <2> QED
    BY <2>1, DrainKnown DEF OutboxTypeOK, DrainStates
<1>2. d.pc = "unlink" /\ d.job = drain[p].job /\ d.claim = drain[p].claim
      /\ d.mine = drain[p].mine /\ d.stood = drain[p].stood
  BY DrainKnown DEF DrainStates
<1> HIDE DEF d
<1>3. drain'[p] = d /\ (\A q \in Owners : q # p => drain'[q] = drain[q])
      /\ drain' \in [Owners -> DrainStates]
  BY <1>0, <1>1
<1>4. drain[p].job \in Receipts /\ drain[p].claim.by = p /\ claims[drain[p].job] = drain[p].claim
  BY <1>0 DEF InHand, Working, Current, CurrentAt, InSection
<1>a. OutboxTypeOK'
  BY <1>0, <1>1, <1>3 DEF OutboxTypeOK, LivenessTypeOK
<1>b. Section'
  BY <1>0, <1>2, <1>3 DEF Section, InSection
<1>c. InHand'
  BY <1>0, <1>2, <1>3 DEF InHand, Working
<1>e. Current'
  <2>1. ASSUME NEW q \in Owners, q # p PROVE CurrentAt(q)'
    <3>1. drain'[q] = drain[q] /\ drain[q].pc \notin InSection /\ CurrentAt(q)
      BY <1>0, <1>3, <2>1 DEF Current, Section, InSection
    <3>2. drain[q].pc \in Working =>
            drain[q].job \in Receipts /\ drain[q].claim # drain[p].claim
      BY <1>4, <2>1 DEF InHand
    <3>3. \A x \in Receipts : x # drain[p].job => results'[x] = results[x]
      BY <1>0 DEF OutboxTypeOK
    <3> QED
      BY <1>0, <1>4, <3>1, <3>2, <3>3 DEF CurrentAt, InSection, Working
  <2>2. CurrentAt(p)'
    BY <1>0, <1>2, <1>3, <1>4 DEF CurrentAt, InSection
  <2> QED
    BY <2>1, <2>2 DEF Current
<1>f. Entitled'
  BY <1>0, <1>2, <1>3 DEF Entitled, Working
<1>g. Supported'
  BY <1>0, <1>2, <1>3 DEF Supported, Working
<1>h. DependenciesFirst' /\ Written' /\ Promised'
  BY <1>0 DEF DependenciesFirst, Written, Promised, Said, Lineage, First
<1> QED
  BY <1>a, <1>b, <1>c, <1>e, <1>f, <1>g, <1>h

-----------------------------------------------------------------------------
(* The life of a process.                                                  *)
LEMMA BornKeeps ==
    ASSUME OutboxInv, NEW p \in Owners, Born(p)
    PROVE  OutboxInv'
<1> USE DEF OutboxInv, Born, Start, diskVars, livenessVars, reportVars
<1>1. OutboxTypeOK'
  BY DEF OutboxTypeOK, LivenessTypeOK
<1>2. Section' /\ Supported' /\ DependenciesFirst' /\ Written' /\ Promised'
  BY DEF Section, Supported, DependenciesFirst, Written, Promised, Said, Lineage, First
<1>3. InHand' /\ Entitled'
  BY DEF InHand, Entitled, OutboxTypeOK, LivenessTypeOK
<1>4. Current'
  BY SameAuthority DEF Current, CurrentAt
<1> QED
  BY <1>1, <1>2, <1>3, <1>4

LEMMA DiesKeeps ==
    ASSUME OutboxInv, NEW p \in Owners, Dies(p)
    PROVE  OutboxInv'
<1> USE DEF OutboxInv, diskVars, livenessVars, reportVars
<1>0. /\ status[p] = "live" /\ status' = [status EXCEPT ![p] = "gone"]
      /\ writing' = [writing EXCEPT ![p] = None]
      /\ drain' = [drain EXCEPT ![p] = Resting]
      /\ UNCHANGED <<judged, diskVars, commands, reportVars>>
  BY DEF Dies, Alive, End, Moves
<1>1. Resting.pc = "idle" /\ Resting.stood = {}
  BY DEF Resting
<1>2. drain'[p] = Resting /\ (\A q \in Owners : q # p => drain'[q] = drain[q])
      /\ drain' \in [Owners -> DrainStates]
  BY <1>0, RestingTyped DEF OutboxTypeOK
<1>3. status \in [Owners -> {"unborn", "live", "gone"}]
      /\ writing \in [Owners -> Receipts \union {None}]
  BY DEF OutboxTypeOK, LivenessTypeOK
<1>a. OutboxTypeOK'
  BY <1>0, <1>2 DEF OutboxTypeOK, LivenessTypeOK
<1>b. Section'
  BY <1>0, <1>1, <1>2, <1>3 DEF Section, InSection
<1>c. InHand'
  BY <1>0, <1>1, <1>2, <1>3 DEF InHand, Working
<1>e. Current'
  <2>1. \A x, q : (Authoritative(x)' <=> Authoritative(x)) /\ (Shares(q, x)' <=> Shares(q, x))
    BY <1>0, SameAuthority
  <2>2. ASSUME NEW q \in Owners PROVE CurrentAt(q)'
    BY <1>0, <1>1, <1>2, <2>1 DEF Current, CurrentAt, InSection
  <2> QED
    BY <2>2 DEF Current
<1>f. Entitled'
  BY <1>0, <1>1, <1>2, <1>3 DEF Entitled, Working
<1>g. Supported'
  BY <1>0, <1>1, <1>2 DEF Supported, Working
<1>h. DependenciesFirst' /\ Written' /\ Promised'
  BY <1>0, <1>3 DEF DependenciesFirst, Written, Promised, Said, Lineage, First
<1> QED
  BY <1>a, <1>b, <1>c, <1>e, <1>f, <1>g, <1>h

-----------------------------------------------------------------------------
(* The producer writes receipts and sidecars, with no section open: what a *)
(* drain holds is not disturbed.                                           *)
LEMMA ProducerFrame ==
    ASSUME OutboxInv, LockFree,
           entries \subseteq entries',
           UNCHANGED <<livenessVars, claims, results, library, drain>>
    PROVE  /\ InHand' /\ Current' /\ Entitled' /\ Supported' /\ DependenciesFirst'
           /\ \A p \in Owners : drain[p].pc \notin InSection
<1> USE DEF OutboxInv, livenessVars, reportVars
<1>1. \A p \in Owners : drain[p].pc \notin InSection
  BY DEF LockFree, InSection
<1>2. InHand' /\ Entitled' /\ Supported' /\ DependenciesFirst'
  BY DEF InHand, Entitled, Supported, DependenciesFirst
<1>3. Current'
  <2>1. ASSUME NEW p \in Owners PROVE CurrentAt(p)'
    BY <1>1 DEF Current, CurrentAt, InSection
  <2> QED
    BY <2>1 DEF Current
<1> QED
  BY <1>1, <1>2, <1>3

LEMMA Successors ==
    ASSUME NEW p \in Owners, NEW c \in Contents, NEW a \in Receipts
    PROVE  /\ Content([owner |-> p, chain |-> <<c>>]) = c
           /\ First([owner |-> p, chain |-> <<c>>])
           /\ Content(Successor(p, c, a)) = c
           /\ \/ Successor(p, c, a) = a
              \/ ~First(Successor(p, c, a)) /\ Successor(p, c, a).owner = p
<1>1. a.chain \in Seq(Contents) /\ Len(a.chain) \in Nat \ {0}
  BY ChainIsSequence DEF Receipts
<1>2. /\ Content([owner |-> p, chain |-> <<c>>]) = c
      /\ First([owner |-> p, chain |-> <<c>>])
  BY DEF Content, First
<1>3. CASE Content(a) = c
  <2>1. Successor(p, c, a) = a
    BY <1>3 DEF Successor
  <2> QED
    BY <1>2, <1>3, <2>1
<1>4. CASE Content(a) # c
  <2>1. Successor(p, c, a) = [owner |-> p, chain |-> Append(a.chain, c)]
    BY <1>4 DEF Successor
  <2>2. Len(Append(a.chain, c)) = Len(a.chain) + 1
        /\ Append(a.chain, c)[Len(a.chain) + 1] = c
    BY <1>1
  <2> QED
    BY <1>1, <1>2, <2>1, <2>2 DEF Content, First
<1> QED
  BY <1>3, <1>4

(* What a command reports or fails to report concerns its lineage only,    *)
(* and is one of the things that lineage may say.                          *)
LEMMA Reported ==
    ASSUME OutboxTypeOK, NEW l \in Lineages, NEW w \in Receipts \union {Revoked},
           Landed(l, w) \/ Fails(l, w)
    PROVE  /\ promised' \in [Lineages -> {None, Revoked} \union Receipts]
           /\ attempted' \in [Lineages -> SUBSET ({Revoked} \union Receipts)]
           /\ w \in Said(l)'
           /\ \A m \in Lineages : m # l => Said(m)' = Said(m) /\ promised'[m] = promised[m]
<1>1. CASE Succeeds(l, w)
  BY <1>1 DEF OutboxTypeOK, Succeeds, Said
<1>2. CASE Fails(l, w)
  BY <1>2 DEF OutboxTypeOK, Fails, Said
<1> QED
  BY <1>1, <1>2 DEF Landed

LEMMA EnqueueKeeps ==
    ASSUME OutboxInv, NEW p \in Owners, NEW c \in Contents, Enqueue(p, c)
    PROVE  OutboxInv'
<1> USE DEF OutboxInv
<1> DEFINE l == <<p, HelperOf[c]>>
           Direct(r) == r \in Active(l) \/ (Active(l) = {} /\ authority[l] = None)
<1>1. PICK r \in Receipts :
        /\ IF Active(l) = {}
           THEN r = [owner |-> p, chain |-> <<c>>]
           ELSE \E a \in Active(l) : r = Successor(p, c, a)
        /\ entries' = entries \union {r}
        /\ IF Direct(r)
           THEN Landed(l, r) /\ UNCHANGED writing
           ELSE writing' = [writing EXCEPT ![p] = r] /\ Fails(l, r)
  BY DEF Enqueue
<1>2. /\ Alive(p) /\ LockFree /\ commands' \in 0..MaxCommands
      /\ UNCHANGED <<livenessVars, authority, claims, results, library, drain>>
  BY OutboxAssumption DEF Enqueue, Commands, OutboxTypeOK
<1>3. l \in Lineages
  BY OutboxAssumption DEF Lineages
<1>4. \A a \in Active(l) : a \in entries /\ a \in Receipts /\ Lineage(a) = l
  BY DEF Active, OutboxTypeOK
<1>5. Lineage(r) = l /\ Content(r) = c
  <2>1. CASE Active(l) = {}
    BY <1>1, <2>1, Successors DEF Lineage
  <2>2. CASE Active(l) # {}
    <3>1. PICK a \in Active(l) : r = Successor(p, c, a)
      BY <1>1, <2>2
    <3> QED
      BY <1>4, <3>1, Successors DEF Lineage
  <2> QED
    BY <2>1, <2>2
<1>6. (r \in Active(l) /\ authority[l] # None) => r = authority[l]
  BY DEF Active
<1>7. (r \in entries \/ ~First(r)) \/ (Active(l) = {} /\ r = [owner |-> p, chain |-> <<c>>])
  <2>1. CASE Active(l) = {}
    BY <1>1, <2>1
  <2>2. CASE Active(l) # {}
    <3>1. PICK a \in Active(l) : r = Successor(p, c, a)
      BY <1>1, <2>2
    <3> QED
      BY <1>4, <3>1, Successors
  <2> QED
    BY <2>1, <2>2
(* Without a sidecar, an active receipt is first.                          *)
<1>8. (r \in Active(l) /\ authority[l] = None) => First(r)
  <2> SUFFICES ASSUME r \in Active(l), authority[l] = None, ~First(r) PROVE FALSE
    OBVIOUS
  <2>1. PICK m \in Lineages : authority[m] = r
    BY DEF Active, Authoritative, Referenced, Baseline, First
  <2> QED
    BY <1>5, <2>1 DEF Written
(* It is the only first receipt of its lineage.                            *)
<1>9. ASSUME authority[l] = None, First(r), NEW q \in entries, First(q), Lineage(q) = l
      PROVE  q = r
  <2>1. q \in Active(l)
    BY <1>9 DEF Active, Authoritative, Baseline, First
  <2>2. r \in entries
    BY <1>7, <1>9, <2>1
  <2> QED
    BY <1>3, <1>5, <1>9, <2>2 DEF Promised
(* While there is no sidecar, only a direct receipt is a first one.        *)
<1>10. (authority[l] = None /\ ~Direct(r)) => ~First(r)
  BY <1>1, <1>5, <1>7 DEF Active, Authoritative, Baseline, First
<1>11. /\ promised' \in [Lineages -> {None, Revoked} \union Receipts]
       /\ attempted' \in [Lineages -> SUBSET ({Revoked} \union Receipts)]
       /\ r \in Said(l)'
       /\ \A m \in Lineages : m # l => Said(m)' = Said(m) /\ promised'[m] = promised[m]
  BY <1>1, <1>3, Reported
<1>12. ~Direct(r) => promised' = promised /\ Said(l) \subseteq Said(l)'
  BY <1>1, <1>3 DEF Fails, Said, OutboxTypeOK
<1> HIDE DEF l, Direct
<1>a. OutboxTypeOK'
  BY <1>1, <1>2, <1>11 DEF OutboxTypeOK, LivenessTypeOK, livenessVars
<1>b. InHand' /\ Current' /\ Entitled' /\ Supported' /\ DependenciesFirst'
      /\ \A q \in Owners : drain[q].pc \notin InSection
  BY <1>1, <1>2, ProducerFrame
<1>c. Section'
  BY <1>2, <1>b DEF Section
<1>d. Written'
  BY <1>1, <1>2 DEF Written, Lineage, First, OutboxTypeOK
<1>e. Promised'
  <2>1. ASSUME NEW m \in Lineages, authority'[m] # None PROVE authority'[m] \in Said(m)'
    <3>1. authority'[m] = authority[m] /\ authority[m] \in Said(m)
      BY <1>2, <2>1 DEF Promised
    <3>2. (m = l /\ Direct(r)) => r = authority[l]
      BY <1>2, <1>6, <2>1 DEF Direct
    <3> QED
      BY <1>11, <1>12, <3>1, <3>2
  <2>2. ASSUME NEW m \in Lineages, authority'[m] = None, NEW x \in entries',
               Lineage(x) = m, First(x)
        PROVE  x \in Said(m)'
    <3>1. CASE x = r
      BY <1>5, <1>11, <2>2, <3>1
    <3>2. CASE x # r
      <4>1. x \in entries /\ authority[m] = None /\ x \in Said(m)
        BY <1>1, <1>2, <2>2, <3>2 DEF Promised
      <4>2. m = l => ~First(r)
        BY <1>9, <2>2, <3>2, <4>1
      <4>3. m = l => ~Direct(r)
        BY <1>1, <1>8, <4>1, <4>2, Successors DEF Direct, l
      <4> QED
        BY <1>11, <1>12, <4>1, <4>3
    <3> QED
      BY <3>1, <3>2
  <2>3. ASSUME NEW m \in Lineages, authority'[m] = None, promised'[m] # None
        PROVE  \E x \in entries' : Lineage(x) = m /\ First(x)
    <3>1. CASE m = l /\ Direct(r)
      BY <1>1, <1>2, <1>5, <1>7, <1>8, <2>3, <3>1, Successors DEF Direct
    <3>2. CASE ~(m = l /\ Direct(r))
      <4>1. promised'[m] = promised[m]
        BY <1>11, <1>12, <3>2
      <4> QED
        BY <1>1, <1>2, <2>3, <4>1 DEF Promised
    <3> QED
      BY <3>1, <3>2
  <2>4. ASSUME NEW m \in Lineages, authority'[m] = None, NEW x \in entries', NEW q \in entries',
               Lineage(x) = m, Lineage(q) = m, First(x), First(q)
        PROVE  x = q
    BY <1>1, <1>2, <1>5, <1>9, <2>4 DEF Promised
  <2> QED
    BY <2>1, <2>2, <2>3, <2>4 DEF Promised, Lineage, First
<1> QED
  BY <1>a, <1>b, <1>c, <1>d, <1>e

(* A sidecar and what its owner is told change together.                   *)
LEMMA SidecarKeeps ==
    ASSUME OutboxInv, NEW l \in Lineages, NEW a \in Receipts \union {Revoked},
           a \in Receipts =>
              a \in entries /\ (First(a) \/ Lineage(a) = l \/ authority[Lineage(a)] # None),
           authority' = [authority EXCEPT ![l] = a], Landed(l, a),
           entries' = entries,
           \A q \in Owners : writing'[q] # None => writing'[q] \in entries
    PROVE  Written' /\ Promised'
<1> USE OutboxAssumption DEF OutboxInv
<1>1. /\ \A m \in Lineages : authority'[m] = (IF m = l THEN a ELSE authority[m])
      /\ a \in Said(l)'
      /\ \A m \in Lineages : m # l => Said(m)' = Said(m) /\ promised'[m] = promised[m]
  BY Reported DEF OutboxTypeOK
<1>2. a # None
  OBVIOUS
<1>3. \A m \in Lineages : authority[m] # None => authority'[m] # None
  BY <1>1, <1>2
<1>4. \A m \in Lineages : authority'[m] \in Receipts => authority'[m] \in entries'
  BY <1>1 DEF Written
<1>5. ASSUME NEW m \in Lineages, authority'[m] \in Receipts, ~First(authority'[m])
      PROVE  authority'[Lineage(authority'[m])] # None
  <2>1. CASE m = l
    <3>1. authority'[m] = a /\ a \in Receipts /\ Lineage(a) \in Lineages
      BY <1>1, <1>5, <2>1, ReceiptContent
    <3> QED
      BY <1>1, <1>2, <1>3, <1>5, <3>1
  <2>2. CASE m # l
    <3>1. authority'[m] = authority[m] /\ Lineage(authority[m]) \in Lineages
      BY <1>1, <1>5, <2>2, ReceiptContent
    <3> QED
      BY <1>3, <1>5, <3>1 DEF Written
  <2> QED
    BY <2>1, <2>2
<1>6. Written'
  BY <1>4, <1>5 DEF Written, Lineage, First
<1>7. Promised'
  BY <1>1, <1>2 DEF Promised, Lineage, First
<1> QED
  BY <1>6, <1>7

LEMMA WriteAuthorityKeeps ==
    ASSUME OutboxInv, NEW p \in Owners, WriteAuthority(p)
    PROVE  OutboxInv'
<1> USE DEF OutboxInv
<1> DEFINE r == writing[p]
           l == Lineage(r)
<1>1. /\ r # None /\ r \in Receipts /\ r \in entries /\ l \in Lineages
      /\ authority' = [authority EXCEPT ![l] = r]
      /\ Landed(l, r)
      /\ writing' = [writing EXCEPT ![p] = None]
      /\ UNCHANGED <<livenessVars, entries, claims, results, library, commands, drain>>
  BY ReceiptContent DEF WriteAuthority, OutboxTypeOK, Written
<1>2. \A q \in Owners : drain[q].pc \notin InSection
  BY <1>1 DEF Section
<1>3. \A q \in Owners : writing'[q] # None => writing'[q] = writing[q]
  BY <1>1 DEF OutboxTypeOK
<1>a. OutboxTypeOK'
  BY <1>1, Reported DEF OutboxTypeOK, LivenessTypeOK, livenessVars
<1>b. Section'
  BY <1>1, <1>2 DEF Section
<1>c. InHand' /\ Entitled' /\ Supported' /\ DependenciesFirst'
  BY <1>1 DEF InHand, Entitled, Supported, DependenciesFirst, livenessVars
<1>d. Current'
  <2>1. ASSUME NEW q \in Owners PROVE CurrentAt(q)'
    BY <1>1, <1>2 DEF Current, CurrentAt, InSection
  <2> QED
    BY <2>1 DEF Current
<1>e. Written' /\ Promised'
  <2>1. \A q \in Owners : writing'[q] # None => writing'[q] \in entries
    BY <1>3 DEF Written
  <2>2. Lineage(r) = l
    OBVIOUS
  <2> HIDE DEF l, r
  <2> QED
    BY <1>1, <2>1, <2>2, SidecarKeeps
<1> QED
  BY <1>a, <1>b, <1>c, <1>d, <1>e

LEMMA WriteFailsKeeps ==
    ASSUME OutboxInv, NEW p \in Owners, WriteFails(p)
    PROVE  OutboxInv'
<1> USE DEF OutboxInv, livenessVars, diskVars, reportVars
<1>1. /\ writing' = [writing EXCEPT ![p] = None]
      /\ UNCHANGED <<livenessVars, diskVars, commands, reportVars, drain>>
  BY DEF WriteFails
<1>2. \A q \in Owners : writing'[q] \in {None, writing[q]}
  BY <1>1 DEF OutboxTypeOK
<1>a. OutboxTypeOK'
  BY <1>1 DEF OutboxTypeOK, LivenessTypeOK
<1>b. Section' /\ Written'
  BY <1>1, <1>2 DEF Section, Written, Lineage, First
<1>c. InHand' /\ Entitled' /\ Supported' /\ DependenciesFirst' /\ Promised'
  BY <1>1 DEF InHand, Entitled, Supported, DependenciesFirst, Promised, Said, Lineage, First
<1>d. Current'
  BY <1>1, SameAuthority DEF Current, CurrentAt
<1> QED
  BY <1>a, <1>b, <1>c, <1>d

LEMMA ReuseEquivalentWorkKeeps ==
    ASSUME OutboxInv, NEW p \in Owners, NEW c \in Contents, ReuseEquivalentWork(p, c)
    PROVE  OutboxInv'
<1> USE DEF OutboxInv
<1> DEFINE l == <<p, HelperOf[c]>>
<1>1. PICK r \in entries :
        /\ Authoritative(r)
        /\ authority' = [authority EXCEPT ![l] = r]
        /\ Landed(l, r)
  BY DEF ReuseEquivalentWork
<1>2. /\ LockFree /\ commands' \in 0..MaxCommands
      /\ UNCHANGED <<livenessVars, entries, claims, results, library, writing, drain>>
  BY OutboxAssumption DEF ReuseEquivalentWork, Commands, OutboxTypeOK
<1>3. l \in Lineages /\ r \in Receipts
  BY OutboxAssumption DEF Lineages, OutboxTypeOK
<1>4. First(r) \/ authority[Lineage(r)] # None
  BY <1>1, <1>3 DEF Authoritative, Referenced, Baseline, First, Written
<1> HIDE DEF l
<1>a. OutboxTypeOK'
  BY <1>1, <1>2, <1>3, Reported DEF OutboxTypeOK, LivenessTypeOK, livenessVars
<1>b. InHand' /\ Current' /\ Entitled' /\ Supported' /\ DependenciesFirst'
      /\ \A q \in Owners : drain[q].pc \notin InSection
  BY <1>2, ProducerFrame
<1>c. Section'
  BY <1>2, <1>b DEF Section
<1>d. Written' /\ Promised'
  <2>1. \A q \in Owners : writing'[q] # None => writing'[q] \in entries
    BY <1>2 DEF Written
  <2> QED
    BY <1>1, <1>2, <1>3, <1>4, <2>1, SidecarKeeps
<1> QED
  BY <1>a, <1>b, <1>c, <1>d

LEMMA RevokeKeeps ==
    ASSUME OutboxInv, NEW p \in Owners, NEW h \in Helpers, Revoke(p, h)
    PROVE  OutboxInv'
<1> USE DEF OutboxInv
<1> DEFINE l == <<p, h>>
<1>1. /\ authority' = [authority EXCEPT ![l] = Revoked]
      /\ Landed(l, Revoked)
      /\ LockFree /\ commands' \in 0..MaxCommands
      /\ UNCHANGED <<livenessVars, entries, claims, results, library, writing, drain>>
  BY OutboxAssumption DEF Revoke, Commands, OutboxTypeOK
<1>2. l \in Lineages /\ Revoked \notin Receipts
  BY OutboxAssumption DEF Lineages
<1> HIDE DEF l
<1>a. OutboxTypeOK'
  BY <1>1, <1>2, Reported DEF OutboxTypeOK, LivenessTypeOK, livenessVars
<1>b. InHand' /\ Current' /\ Entitled' /\ Supported' /\ DependenciesFirst'
      /\ \A q \in Owners : drain[q].pc \notin InSection
  BY <1>1, ProducerFrame
<1>c. Section'
  BY <1>1, <1>b DEF Section
<1>d. Written' /\ Promised'
  <2>1. \A q \in Owners : writing'[q] # None => writing'[q] \in entries
    BY <1>1 DEF Written
  <2> QED
    BY <1>1, <1>2, <2>1, SidecarKeeps
<1> QED
  BY <1>a, <1>b, <1>c, <1>d

-----------------------------------------------------------------------------
LEMMA OutboxStarts == OutboxInit => OutboxInv
<1> SUFFICES ASSUME OutboxInit PROVE OutboxInv
  OBVIOUS
<1> USE OutboxAssumption DEF OutboxInit, LivenessInit
<1>1. Resting.pc = "idle" /\ Resting.stood = {}
  BY DEF Resting
<1>2. OutboxTypeOK
  BY RestingTyped DEF OutboxTypeOK, LivenessTypeOK
<1>3. Section /\ InHand /\ Entitled /\ Supported /\ DependenciesFirst
  BY <1>1 DEF Section, InHand, Entitled, Supported, DependenciesFirst, Working, InSection
<1>4. Current
  BY <1>1 DEF Current, CurrentAt, InSection
<1>5. Written /\ Promised
  BY DEF Written, Promised
<1> QED
  BY <1>2, <1>3, <1>4, <1>5 DEF OutboxInv

LEMMA OutboxSteps == OutboxInv /\ [OutboxNext]_outboxVars => OutboxInv'
<1> SUFFICES ASSUME OutboxInv, [OutboxNext]_outboxVars PROVE OutboxInv'
  OBVIOUS
<1>1. ASSUME NEW p \in Owners, Born(p) \/ Dies(p) \/ WriteAuthority(p) \/ WriteFails(p)
      PROVE  OutboxInv'
  BY <1>1, BornKeeps, DiesKeeps, WriteAuthorityKeeps, WriteFailsKeeps
<1>2. ASSUME NEW p \in Owners, NEW c \in Contents, Enqueue(p, c) \/ ReuseEquivalentWork(p, c)
      PROVE  OutboxInv'
  BY <1>2, EnqueueKeeps, ReuseEquivalentWorkKeeps
<1>3. ASSUME NEW p \in Owners, NEW h \in Helpers, Revoke(p, h)
      PROVE  OutboxInv'
  BY <1>3, RevokeKeeps
<1>4. ASSUME NEW p \in Owners, Drains(p)
      PROVE  OutboxInv'
  BY <1>4, FindAbandonedKeeps, RecoverClaimKeeps, SnapshotKeeps,
     SkipLiveOwnerKeeps, DeferDependentKeeps, ChooseKeeps, ClaimKeeps,
     PublishKeeps, SettleKeeps, WriteResultKeeps, UnlinkClaimKeeps, ReleaseClaimKeeps
     DEF Drains
<1>5. ASSUME NEW p \in Owners, Fail(p) \/ EndDrain(p)
      PROVE  OutboxInv'
  BY <1>5, FailKeeps, EndDrainKeeps
<1>6. CASE UNCHANGED outboxVars
  <2> USE <1>6 DEF outboxVars, livenessVars, diskVars, reportVars, OutboxInv
  <2>1. OutboxTypeOK' /\ Section' /\ InHand'
    BY DEF OutboxTypeOK, LivenessTypeOK, Section, InHand
  <2>2. Current'
    BY SameAuthority DEF Current, CurrentAt
  <2>3. Entitled' /\ Supported' /\ DependenciesFirst' /\ Written' /\ Promised'
    BY DEF Entitled, Supported, DependenciesFirst, Written, Promised, Said, Lineage, First
  <2> QED
    BY <2>1, <2>2, <2>3
<1> QED
  BY <1>1, <1>2, <1>3, <1>4, <1>5, <1>6 DEF OutboxNext

(* The three threads hold together in every state of every behaviour.      *)
THEOREM OutboxInvariant == OutboxSpec => []OutboxInv
<1>1. OutboxInit => OutboxInv
  BY OutboxStarts
<1>2. OutboxInv /\ [OutboxNext]_outboxVars => OutboxInv'
  BY OutboxSteps
<1> QED
  BY <1>1, <1>2, PTL DEF OutboxSpec

(* The state of the inbox and of its drains keeps its types.               *)
THEOREM OutboxTyped == OutboxSpec => []OutboxTypeOK
<1>1. OutboxInv => OutboxTypeOK
  BY DEF OutboxInv
<1> QED
  BY <1>1, OutboxInvariant, PTL

(* Nothing is published before what it was proved with, for any helpers    *)
(* and dependencies (promotion_outbox.py, drain).                          *)
THEOREM DependenciesComeFirst == OutboxSpec => []DependenciesFirst
<1>1. OutboxInv => DependenciesFirst
  BY DEF OutboxInv
<1> QED
  BY <1>1, OutboxInvariant, PTL

LEMMA PromisesHold == OutboxInv => PromiseKept
<1> SUFFICES ASSUME OutboxInv, NEW l \in Lineages
             PROVE  \E w \in Said(l) : Voice(l) = {w} \ {None, Revoked}
  BY DEF PromiseKept
<1> USE OutboxAssumption
<1>0. entries \subseteq Receipts /\ None \notin Receipts /\ Revoked \notin Receipts
  BY DEF OutboxInv, OutboxTypeOK
<1>1. CASE authority[l] = None
  <2>1. Voice(l) = {r \in entries : Lineage(r) = l /\ First(r)}
    BY <1>0, <1>1 DEF Voice, Baseline, First
  <2>2. CASE \E r \in entries : Lineage(r) = l /\ First(r)
    <3>1. PICK r \in entries : Lineage(r) = l /\ First(r)
      BY <2>2
    <3>2. r \in Said(l) /\ Voice(l) = {r}
      BY <1>1, <2>1, <3>1 DEF OutboxInv, Promised
    <3> QED
      BY <1>0, <3>2
  <2>3. CASE ~\E r \in entries : Lineage(r) = l /\ First(r)
    <3>1. promised[l] = None /\ Voice(l) = {}
      BY <1>1, <2>1, <2>3 DEF OutboxInv, Promised
    <3> QED
      BY <3>1 DEF Said
  <2> QED
    BY <2>2, <2>3
<1>2. CASE authority[l] # None
  <2>1. authority[l] \in Said(l)
    BY <1>2 DEF OutboxInv, Promised
  <2>2. Voice(l) = {r \in entries : authority[l] = r}
    BY <1>2 DEF Voice, Baseline
  <2>3. authority[l] = Revoked \/ authority[l] \in entries
    BY <1>2 DEF OutboxInv, OutboxTypeOK, Written
  <2>4. Voice(l) = {authority[l]} \ {None, Revoked}
    BY <1>0, <1>2, <2>2, <2>3
  <2> QED
    BY <2>1, <2>4
<1> QED
  BY <1>1, <1>2

(* What enqueue, reuse and revoke reported durable, or what a later one    *)
(* asked for that failed, is what the disk says, for any number of owners, *)
(* helpers and revisions.                                                  *)
THEOREM PromisesAreKept == OutboxSpec => []PromiseKept
BY PromisesHold, OutboxInvariant, PTL

(***************************************************************************)
(* The steps that write claims and results.                                *)
(***************************************************************************)
LEMMA WhoWritesClaims ==
    ASSUME [OutboxNext]_outboxVars, claims' # claims
    PROVE  \E p \in Owners : RecoverClaim(p) \/ Claim(p) \/ UnlinkClaim(p) \/ ReleaseClaim(p)
BY DEF OutboxNext, Drains, outboxVars, diskVars, Born, Dies, Enqueue, ReuseEquivalentWork,
       WriteAuthority, WriteFails, Revoke, FindAbandoned, Snapshot, SkipLiveOwner,
       DeferDependent, Choose, Publish, Settle, WriteResult, Fail, EndDrain

LEMMA WhoWritesResults ==
    ASSUME [OutboxNext]_outboxVars, results' # results
    PROVE  \E p \in Owners : Claim(p) \/ WriteResult(p)
BY DEF OutboxNext, Drains, outboxVars, diskVars, Born, Dies, Enqueue, ReuseEquivalentWork,
       WriteAuthority, WriteFails, Revoke, FindAbandoned, RecoverClaim, Snapshot,
       SkipLiveOwner, DeferDependent, Choose, Publish, Settle, UnlinkClaim,
       ReleaseClaim, Fail, EndDrain

LEMMA ClaimsOfTheLiving ==
    ASSUME OutboxInv, [OutboxNext]_outboxVars, NEW r \in Receipts,
           claims[r] # None, claims'[r] # claims[r], Alive(claims[r].by)
    PROVE  /\ claims'[r] = None
           /\ drain[claims[r].by].job = r /\ drain[claims[r].by].claim = claims[r]
           /\ drain'[claims[r].by].claim = None
<1>0. /\ claims \in [Receipts -> Claims \union {None}] /\ drain \in [Owners -> DrainStates]
      /\ status[claims[r].by] = "live"
  BY DEF OutboxInv, OutboxTypeOK, Alive
<1>2. PICK p \in Owners : RecoverClaim(p) \/ Claim(p) \/ UnlinkClaim(p) \/ ReleaseClaim(p)
  BY WhoWritesClaims
<1>3. CASE RecoverClaim(p)
  <2>1. status[drain[p].claim.by] = "gone"
    BY <1>3 DEF RecoverClaim, OutboxInv, InHand
  <2>2. claims[r] = drain[p].claim
    BY <1>0, <1>3 DEF RecoverClaim, Drops
  <2> QED
    BY <1>0, <2>1, <2>2
<1>4. CASE Claim(p)
  BY <1>0, <1>4 DEF Claim
<1>5. CASE UnlinkClaim(p)
  <2>1. drain[p].job \in Receipts /\ drain[p].claim.by = p /\ claims[drain[p].job] = drain[p].claim
    BY <1>5 DEF UnlinkClaim, OutboxInv, InHand, Working, Current, CurrentAt, InSection
  <2>2. r = drain[p].job /\ claims'[r] = None
    BY <1>0, <1>5 DEF UnlinkClaim
  <2>3. drain'[p].claim = None
    BY <1>0, <1>5, Leaves DEF UnlinkClaim, Moves
  <2> QED
    BY <1>0, <2>1, <2>2, <2>3
<1>6. CASE ReleaseClaim(p)
  <2>1. drain[p].job \in Receipts /\ drain[p].claim.by = p
    BY <1>6 DEF ReleaseClaim, OutboxInv, InHand, Working
  <2>2. r = drain[p].job /\ claims[r] = drain[p].claim /\ claims'[r] = None
    BY <1>0, <1>6, <2>1 DEF ReleaseClaim, Drops
  <2>3. drain'[p].claim = None
    BY <1>0, <1>6, Leaves DEF ReleaseClaim, Moves
  <2> QED
    BY <1>0, <2>1, <2>2, <2>3
<1> QED
  BY <1>2, <1>3, <1>4, <1>5, <1>6

(* The claim of a living owner is given up by its own drain and by nobody  *)
(* else, for any number of drains and recoveries.                          *)
THEOREM LiveClaimsStand == OutboxSpec => LiveClaimStands
<1>1. OutboxInv /\ [OutboxNext]_outboxVars =>
        [\A r \in entries :
            (claims[r] # None /\ claims'[r] # claims[r] /\ Alive(claims[r].by)) =>
                /\ claims'[r] = None
                /\ drain[claims[r].by].job = r /\ drain[claims[r].by].claim = claims[r]
                /\ drain'[claims[r].by].claim = None]_outboxVars
  BY ClaimsOfTheLiving DEF OutboxInv, OutboxTypeOK
<1> QED
  BY <1>1, OutboxInvariant, PTL DEF OutboxSpec, LiveClaimStands

LEMMA ResultsAreDue ==
    ASSUME OutboxInv, [OutboxNext]_outboxVars, NEW r \in Receipts,
           results'[r] # results[r], results'[r] # None
    PROVE  /\ Authoritative(r)
           /\ \E p \in Owners :
                /\ claims[r] # None /\ claims[r].by = p /\ drain'[p] # drain[p]
                /\ r.owner = p \/ Shares(p, r) \/ status[r.owner] = "gone"
<1>0. results \in [Receipts -> Verdicts \union {None}] /\ drain \in [Owners -> DrainStates]
  BY DEF OutboxInv, OutboxTypeOK
<1>1. PICK p \in Owners : Claim(p) \/ WriteResult(p)
  BY WhoWritesResults
<1>2. WriteResult(p)
  <2>1. CASE Claim(p)
    BY <1>0, <2>1 DEF Claim
  <2> QED
    BY <1>1, <2>1
<1>3. drain[p].pc = "result" /\ drain[p].job = r
  BY <1>0, <1>2 DEF WriteResult
<1>4. drain[p].claim \in Claims /\ drain[p].claim.by = p /\ claims[r] = drain[p].claim
  BY <1>3 DEF OutboxInv, InHand, Working, Current, CurrentAt, InSection
<1>5. Authoritative(r) /\ (drain[p].claim.shared => Shares(p, r))
  BY <1>3 DEF OutboxInv, Current, CurrentAt
<1>6. r.owner = p \/ Shares(p, r) \/ status[r.owner] = "gone"
  BY <1>3, <1>5 DEF OutboxInv, Entitled, Working
<1>7. drain'[p].pc = "unlink"
  BY <1>0, <1>2 DEF WriteResult, Moves, DrainStates
<1>8. claims[r] # None
  BY <1>4, OutboxAssumption
<1> QED
  BY <1>3, <1>4, <1>5, <1>6, <1>7, <1>8

(* A result is written only for a receipt that has authority then, by      *)
(* someone who may settle it then (_claim_is_current).                     *)
THEOREM ResultsAreRightful == OutboxSpec => SettledRightfully
<1>1. OutboxInv /\ [OutboxNext]_outboxVars =>
        [\A r \in entries :
            (results'[r] # results[r] /\ results'[r] # None) =>
                /\ Authoritative(r)
                /\ \E p \in Owners :
                    /\ claims[r] # None /\ claims[r].by = p /\ drain'[p] # drain[p]
                    /\ r.owner = p \/ Shares(p, r) \/ status[r.owner] = "gone"]_outboxVars
  BY ResultsAreDue DEF OutboxInv, OutboxTypeOK
<1> QED
  BY <1>1, OutboxInvariant, PTL DEF OutboxSpec, SettledRightfully

LEMMA StandingResultsStay ==
    ASSUME OutboxInv, [OutboxNext]_outboxVars, NEW r \in Receipts, Settled(r)
    PROVE  results'[r] = results[r]
<1>0. results \in [Receipts -> Verdicts \union {None}]
  BY DEF OutboxInv, OutboxTypeOK
<1>1. results[r] # None
  <2>1. results[r] = "rejected" \/ results[r] = "published"
    BY StandsPublished DEF Settled
  <2> QED
    BY <2>1, OutboxAssumption
<1> SUFFICES ASSUME results' # results PROVE results'[r] = results[r]
  OBVIOUS
<1>2. PICK p \in Owners : Claim(p) \/ WriteResult(p)
  BY WhoWritesResults
<1>3. CASE Claim(p)
  BY <1>0, <1>3 DEF Claim, Claimable
<1>4. CASE WriteResult(p)
  <2>1. drain[p].pc = "result" /\ results[drain[p].job] = None
    BY <1>4 DEF WriteResult, OutboxInv, Current, CurrentAt, InSection
  <2> QED
    BY <1>0, <1>1, <1>4, <2>1 DEF WriteResult
<1> QED
  BY <1>2, <1>3, <1>4

(* A result that stands is never replaced or removed.                      *)
THEOREM ResultsStand == OutboxSpec => ResultStands
<1>1. OutboxInv /\ [OutboxNext]_outboxVars =>
        [\A r \in entries :
            results'[r] # results[r] => ~(Authoritative(r) /\ Settled(r))]_outboxVars
  BY StandingResultsStay DEF OutboxInv, OutboxTypeOK
<1> QED
  BY <1>1, OutboxInvariant, PTL DEF OutboxSpec, ResultStands
=============================================================================
