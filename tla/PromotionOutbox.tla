--------------------------- MODULE PromotionOutbox ---------------------------
(***************************************************************************)
(* The inbox of verified helpers waiting to be published                   *)
(* (mini_theory/promotion_outbox.py).  A producer writes an immutable      *)
(* receipt and, when it replaces one, the authority of its lineage; drains *)
(* of any process claim a receipt, compile it without the inbox's lock and *)
(* publish and settle it under the lock.  Producers and drains die at any  *)
(* step.  Whether an owner is dead is what its theory lease promises       *)
(* (OwnerLiveness, implemented by TheoryLease).                            *)
(*                                                                         *)
(* A receipt is identified by its owner and by the contents it descends    *)
(* from: the last one is its own, and a receipt without a predecessor      *)
(* supersedes nothing.  Every write is atomic, and replaces its file       *)
(* before it syncs the directory (_atomic_json): it may land and still     *)
(* raise.  A section under the lock that makes two writes takes two steps, *)
(* and only readers that do not take the lock may move between them.       *)
(***************************************************************************)
EXTENDS OwnerLiveness, Integers, Sequences, FiniteSets

CONSTANTS
    Contents,      \* helper declarations, as their source, imports and context
    Helpers,
    HelperOf,      \* the name each content declares
    Needs,         \* the contents each one was proved with (support_receipts)
    Theorems,
    TheoremOf,     \* the theorem each owner works on (source_theorem)
    None,
    Revoked,       \* the sidecar of a lineage whose helper was removed
    Revisions,     \* bound: receipts in one chain of replacements
    Serials,       \* bound: claims whose identity somebody still remembers
    MaxCommands,   \* bound: receipts enqueued, reused or revoked
    MaxDoubts      \* bound: lineages with a write that landed and raised

Chains ==
    {c \in UNION {[1..n -> Contents] : n \in 1..Revisions} :
        \A i \in DOMAIN c \ {1} :
            c[i] # c[i - 1] /\ HelperOf[c[i]] = HelperOf[c[i - 1]]}

Receipts == [owner : Owners, chain : Chains]
Content(r) == r.chain[Len(r.chain)]
Lineages == Owners \X Helpers
Lineage(r) == <<r.owner, HelperOf[Content(r)]>>

Claims == [by : Owners, serial : 1..Serials, shared : BOOLEAN]

ASSUME OutboxAssumption ==
    /\ HelperOf \in [Contents -> Helpers]
    /\ Needs \in [Contents -> SUBSET Contents]
    /\ TheoremOf \in [Owners -> Theorems]
    /\ Revisions \in Nat \ {0} /\ Serials \in Nat \ {0} /\ MaxCommands \in Nat
    /\ MaxDoubts \in Nat
    /\ {None, Revoked} \intersect
          (Receipts \union Claims \union Owners \union {"published", "rejected"}) = {}
    /\ None # Revoked

VARIABLES
    entries,       \* the receipts on disk
    authority,     \* what each lineage's sidecar says; None: there is none
    claims,        \* the claim file of each receipt
    results,       \* the result file of each receipt
    library,       \* the contents published as bundles
    commands,      \* how many commands producers have given
    writing,       \* the receipt whose authority an enqueue has yet to write
    promised,      \* what each lineage's owner was last told is durable
    attempted,     \* what it has asked for since, and was not told is durable
    drain          \* what each process's drain is doing

diskVars == <<entries, authority, claims, results, library>>
reportVars == <<promised, attempted>>
outboxVars == <<livenessVars, diskVars, commands, writing, reportVars, drain>>

DrainSteps == {"idle", "unclaim", "pick", "claim", "prepare",
               "result", "unlink", "release"}
Verdicts == {"published", "rejected"}

DrainStates ==
    [pc : DrainSteps, todo : SUBSET Receipts, mine : SUBSET Receipts,
     providers : SUBSET Receipts, stood : SUBSET Receipts,
     job : Receipts \union {None}, claim : Claims \union {None},
     verdict : Verdicts \union {None}]

Resting ==
    [pc |-> "idle", todo |-> {}, mine |-> {}, providers |-> {}, stood |-> {},
     job |-> None, claim |-> None, verdict |-> None]

OutboxTypeOK ==
    /\ LivenessTypeOK
    /\ entries \subseteq Receipts
    /\ authority \in [Lineages -> {None, Revoked} \union Receipts]
    /\ claims \in [Receipts -> Claims \union {None}]
    /\ results \in [Receipts -> Verdicts \union {None}]
    /\ library \subseteq Contents
    /\ commands \in 0..MaxCommands
    /\ writing \in [Owners -> Receipts \union {None}]
    /\ promised \in [Lineages -> {None, Revoked} \union Receipts]
    /\ attempted \in [Lineages -> SUBSET ({Revoked} \union Receipts)]
    /\ drain \in [Owners -> DrainStates]

OutboxInit ==
    /\ LivenessInit
    /\ entries = {}
    /\ authority = [l \in Lineages |-> None]
    /\ claims = [r \in Receipts |-> None]
    /\ results = [r \in Receipts |-> None]
    /\ library = {}
    /\ commands = 0
    /\ writing = [p \in Owners |-> None]
    /\ promised = [l \in Lineages |-> None]
    /\ attempted = [l \in Lineages |-> {}]
    /\ drain = [p \in Owners |-> Resting]

(***************************************************************************)
(* Which receipts may be published: one a sidecar refers to, or the first  *)
(* of a lineage that has no sidecar yet, which is its own authority.       *)
(***************************************************************************)
Referenced(r) == \E l \in Lineages : authority[l] = r
\* Mutant: a first receipt keeps its authority beside a sidecar.
BaselineForEver(r) == Len(r.chain) = 1

Baseline(r) == Len(r.chain) = 1 /\ authority[Lineage(r)] = None
Authoritative(r) == r \in entries /\ (Referenced(r) \/ Baseline(r))
Shares(p, r) == \E h \in Helpers : authority[<<p, h>>] = r

(* A published result stands on its bundle and on published dependencies.  *)
Stands[r \in Receipts] ==
    /\ results[r] = "published"
    /\ Content(r) \in library
    /\ \A c \in Needs[Content(r)] : c \in library /\
        \E q \in Receipts : Content(q) = c /\ Authoritative(q) /\ Stands[q]

Settled(r) == results[r] = "rejected" \/ Stands[r]

(* The lock of the inbox; two-step sections keep it between their steps.   *)
LockFree ==
    \A p \in Owners : writing[p] = None /\ drain[p].pc \notin {"result", "unlink"}

Alive(p) == status[p] = "live"

(***************************************************************************)
(* The producer.  enqueue writes the receipt, then its authority, unless   *)
(* the receipt is the first of its lineage or already the active one.      *)
(***************************************************************************)
Active(l) ==
    IF authority[l] = None
    THEN {r \in entries : Lineage(r) = l /\ Authoritative(r)}
    ELSE {r \in entries : Lineage(r) = l /\ authority[l] = r}

Successor(p, c, a) ==
    IF Content(a) = c THEN a ELSE [owner |-> p, chain |-> Append(a.chain, c)]

Commands(p) ==
    /\ commands < MaxCommands /\ commands' = commands + 1
    /\ Alive(p) /\ LockFree

Succeeds(l, w) ==
    /\ promised' = [promised EXCEPT ![l] = w]
    /\ attempted' = [attempted EXCEPT ![l] = {}]

Fails(l, w) ==
    /\ attempted' = [attempted EXCEPT ![l] = @ \union {w}]
    /\ UNCHANGED promised

(* The last write of a command has landed; syncing its directory may still *)
(* raise, and the producer is told that nothing was persisted.             *)
Landed(l, w) ==
    \/ Succeeds(l, w)
    \/ /\ Cardinality({m \in Lineages \ {l} : attempted[m] # {}}) < MaxDoubts
       /\ Fails(l, w)

Enqueue(p, c) ==
    LET l == <<p, HelperOf[c]>> IN
    /\ Commands(p)
    /\ \E r \in Receipts :
        /\ IF Active(l) = {}
           THEN r = [owner |-> p, chain |-> <<c>>]
           ELSE \E a \in Active(l) : r = Successor(p, c, a)
        /\ entries' = entries \union {r}
        /\ IF r \in Active(l) \/ (Active(l) = {} /\ authority[l] = None)
           THEN Landed(l, r) /\ UNCHANGED writing
           ELSE writing' = [writing EXCEPT ![p] = r] /\ Fails(l, r)
    /\ UNCHANGED <<livenessVars, authority, claims, results, library, drain>>

WriteAuthority(p) ==
    LET l == Lineage(writing[p]) IN
    /\ Alive(p) /\ writing[p] # None
    /\ authority' = [authority EXCEPT ![l] = writing[p]]
    /\ Landed(l, writing[p])
    /\ writing' = [writing EXCEPT ![p] = None]
    /\ UNCHANGED <<livenessVars, entries, claims, results, library, commands, drain>>

(* The receipt landed and raised, or its sidecar could not be written: it  *)
(* stays behind without authority.                                         *)
WriteFails(p) ==
    /\ Alive(p) /\ writing[p] # None
    /\ writing' = [writing EXCEPT ![p] = None]
    /\ UNCHANGED <<livenessVars, diskVars, commands, reportVars, drain>>

(* The same declaration was proved elsewhere: refer to that receipt.       *)
ReuseEquivalentWork(p, c) ==
    LET l == <<p, HelperOf[c]>> IN
    /\ Commands(p)
    /\ \E r \in entries :
        /\ Content(r) = c /\ Authoritative(r)
        /\ TheoremOf[r.owner] = TheoremOf[p] \/ Settled(r)
        /\ authority' = [authority EXCEPT ![l] = r]
        /\ Landed(l, r)
    /\ UNCHANGED <<livenessVars, entries, claims, results, library, writing, drain>>

Revoke(p, h) ==
    /\ Commands(p)
    /\ authority' = [authority EXCEPT ![<<p, h>>] = Revoked]
    /\ Landed(<<p, h>>, Revoked)
    /\ UNCHANGED <<livenessVars, entries, claims, results, library, writing, drain>>

(***************************************************************************)
(* A drain first takes the claims of the dead away.  It reads a claim and  *)
(* probes its owner without the lock, so it unlinks only what it has read. *)
(***************************************************************************)
Moves(p, d) == drain' = [drain EXCEPT ![p] = d]

FindAbandoned(p) ==
    /\ Alive(p) /\ drain[p].pc = "idle"
    /\ \E r \in Receipts :
        /\ claims[r] # None
        /\ Judge(claims[r].by)
        /\ Moves(p, [drain[p] EXCEPT !.pc = "unclaim", !.job = r, !.claim = claims[r]])
    /\ UNCHANGED <<diskVars, commands, writing, reportVars>>

\* Mutant: the claim is unlinked without being read again.
DropsWhatever(r, claim) == claims' = [claims EXCEPT ![r] = None]

Drops(r, claim) == claims' = [claims EXCEPT ![r] = IF @ = claim THEN None ELSE @]

RecoverClaim(p) ==
    /\ Alive(p) /\ drain[p].pc = "unclaim" /\ LockFree
    /\ Drops(drain[p].job, drain[p].claim)
    /\ Moves(p, Resting)
    /\ UNCHANGED <<livenessVars, entries, authority, results, library, commands, writing, reportVars>>

(***************************************************************************)
(* It works through a snapshot of the inbox and leaves alone what a living *)
(* producer may yet publish.  What is left when the snapshot is used up    *)
(* waits for the next drain, or for another round of this one.             *)
(***************************************************************************)
Snapshot(p) ==
    /\ Alive(p) /\ drain[p].pc = "idle"
    /\ LET auth == {r \in entries : Authoritative(r)}
           todo == {r \in auth : ~Settled(r)}
           needed == UNION {Needs[Content(r)] : r \in todo}
           providers == {q \in auth : Content(q) \in needed} IN
       /\ todo # {}
       /\ Moves(p, [drain[p] EXCEPT
           !.pc = "pick", !.todo = todo, !.mine = {r \in todo : Shares(p, r)},
           !.providers = providers, !.stood = {q \in providers : Stands[q]}])
    /\ UNCHANGED <<livenessVars, diskVars, commands, writing, reportVars>>

\* Mutant: a dependency need only have been enqueued.
DependenciesEnqueued(p, r) ==
    \A c \in Needs[Content(r)] : \E q \in drain[p].providers : Content(q) = c

(* A published dependency is remembered; one without a result is read anew.*)
DependenciesPublished(p, r) ==
    \A c \in Needs[Content(r)] :
        \E q \in drain[p].providers : Content(q) = c /\ (q \in drain[p].stood \/ Stands[q])

IsProducer(p, r) == r.owner = p \/ r \in drain[p].mine

(* The probe says dead only of the dead; it may also not be able to tell.  *)
MayDrain(p, r) ==
    IF IsProducer(p, r) THEN UNCHANGED livenessVars ELSE Judge(r.owner)

Leave(p, r) ==
    IF drain[p].todo = {r}
    THEN Resting
    ELSE [drain[p] EXCEPT !.pc = "pick", !.todo = @ \ {r}, !.job = None, !.claim = None]

SkipLiveOwner(p) ==
    /\ Alive(p) /\ drain[p].pc = "pick"
    /\ \E r \in drain[p].todo :
        /\ ~IsProducer(p, r)
        /\ Moves(p, Leave(p, r))
    /\ UNCHANGED <<livenessVars, diskVars, commands, writing, reportVars>>

DeferDependent(p) ==
    /\ Alive(p) /\ drain[p].pc = "pick"
    /\ \E r \in drain[p].todo :
        MayDrain(p, r) /\ ~DependenciesPublished(p, r) /\ Moves(p, Leave(p, r))
    /\ UNCHANGED <<diskVars, commands, writing, reportVars>>

Choose(p) ==
    /\ Alive(p) /\ drain[p].pc = "pick"
    /\ \E r \in drain[p].todo :
        /\ MayDrain(p, r) /\ DependenciesPublished(p, r)
        /\ Moves(p, [drain[p] EXCEPT !.pc = "claim", !.job = r])
    /\ UNCHANGED <<diskVars, commands, writing, reportVars>>

(* A foreign receipt is claimed for this owner's share of it, or because   *)
(* its producer is dead; only the first is looked at again.                *)
ForShare(p, r) == r.owner # p /\ r \in drain[p].mine

Remembered ==
    {claims[r].serial : r \in {q \in Receipts : claims[q] # None}} \union
    {drain[p].claim.serial : p \in {q \in Owners : drain[q].claim # None}}

\* Mutant: the snapshot alone says that there is no result yet.
ClaimableOnceMore(p, r) ==
    (ForShare(p, r) => Shares(p, r)) /\ Authoritative(r)

Claimable(p, r) ==
    /\ ForShare(p, r) => Shares(p, r)
    /\ Authoritative(r)
    /\ ~Settled(r)

(* A result that does not stand is set aside before the claim is looked at *)
(* and written, whatever becomes of the claim.                             *)
Claim(p) ==
    LET r == drain[p].job IN
    /\ Alive(p) /\ drain[p].pc = "claim" /\ LockFree
    /\ \/ /\ Claimable(p, r)
          /\ results' = [results EXCEPT ![r] = None]
          /\ \/ /\ claims[r] = None
                /\ \E n \in (1..Serials) \ Remembered :
                    LET claim == [by |-> p, serial |-> n, shared |-> ForShare(p, r)] IN
                    /\ \A m \in (1..Serials) \ Remembered : n <= m
                    /\ claims' = [claims EXCEPT ![r] = claim]
                    /\ Moves(p, [drain[p] EXCEPT !.pc = "prepare", !.claim = claim])
             \/ claims[r] # None /\ Moves(p, Leave(p, r)) /\ UNCHANGED claims
             \/ Moves(p, Resting) /\ UNCHANGED claims
       \/ /\ ~Claimable(p, r)
          /\ Moves(p, Leave(p, r))
          /\ UNCHANGED <<claims, results>>
    /\ UNCHANGED <<livenessVars, entries, authority, library, commands, writing, reportVars>>

(***************************************************************************)
(* Lean compiles without the lock; the claim is looked at again under it   *)
(* before anything is published or settled.                                *)
(***************************************************************************)
\* Mutant: whoever still has the claim may settle.
ClaimIsHeld(p) == claims[drain[p].job] = drain[p].claim

ClaimIsCurrent(p) ==
    LET r == drain[p].job IN
    /\ claims[r] = drain[p].claim
    /\ Authoritative(r)
    /\ drain[p].claim.shared => Shares(p, r)

Publish(p) ==
    /\ Alive(p) /\ drain[p].pc = "prepare" /\ LockFree
    /\ \/ /\ ClaimIsCurrent(p)
          /\ library' = library \union {Content(drain[p].job)}
          /\ Moves(p, [drain[p] EXCEPT !.pc = "result", !.verdict = "published"])
       \/ /\ ~ClaimIsCurrent(p)
          /\ Moves(p, [drain[p] EXCEPT !.pc = "release"])
          /\ UNCHANGED library
    /\ UNCHANGED <<livenessVars, entries, authority, claims, results, commands, writing, reportVars>>

Settle(p) ==
    /\ Alive(p) /\ drain[p].pc = "prepare" /\ LockFree
    /\ Moves(p, IF ClaimIsCurrent(p)
                THEN [drain[p] EXCEPT !.pc = "result", !.verdict = "rejected"]
                ELSE [drain[p] EXCEPT !.pc = "release"])
    /\ UNCHANGED <<livenessVars, diskVars, commands, writing, reportVars>>

WriteResult(p) ==
    /\ Alive(p) /\ drain[p].pc = "result"
    /\ results' = [results EXCEPT ![drain[p].job] = drain[p].verdict]
    /\ Moves(p, [drain[p] EXCEPT !.pc = "unlink", !.verdict = None])
    /\ UNCHANGED <<livenessVars, entries, authority, claims, library, commands, writing, reportVars>>

UnlinkClaim(p) ==
    /\ Alive(p) /\ drain[p].pc = "unlink"
    /\ claims' = [claims EXCEPT ![drain[p].job] = None]
    /\ Moves(p, Leave(p, drain[p].job))
    /\ UNCHANGED <<livenessVars, entries, authority, results, library, commands, writing, reportVars>>

(* Anything raises: the claim is given back if it is still this one.       *)
Fail(p) ==
    /\ Alive(p) /\ drain[p].pc \in {"prepare", "result", "unlink"}
    /\ Moves(p, [drain[p] EXCEPT !.pc = "release", !.verdict = None])
    /\ UNCHANGED <<livenessVars, diskVars, commands, writing, reportVars>>

ReleaseClaim(p) ==
    /\ Alive(p) /\ drain[p].pc = "release" /\ LockFree
    /\ Drops(drain[p].job, drain[p].claim)
    /\ Moves(p, Leave(p, drain[p].job))
    /\ UNCHANGED <<livenessVars, entries, authority, results, library, commands, writing, reportVars>>

(* The drain is cut short (its budget is spent), or what it calls outside  *)
(* its try raises out of it, with or without its write: recovery, the      *)
(* claim (at "prepare": it landed and raised) and the release.  The claim  *)
(* then stays while the process lives.                                     *)
EndDrain(p) ==
    /\ Alive(p)
    /\ drain[p].pc \in {"unclaim", "pick", "claim", "prepare", "release"}
    /\ Moves(p, Resting)
    /\ UNCHANGED <<livenessVars, diskVars, commands, writing, reportVars>>

Born(p) == Start(p) /\ UNCHANGED <<diskVars, commands, writing, reportVars, drain>>

Dies(p) ==
    /\ Alive(p) /\ End(p)
    /\ writing' = [writing EXCEPT ![p] = None]
    /\ Moves(p, Resting)
    /\ UNCHANGED <<diskVars, commands, reportVars>>

Drains(p) ==
    \/ FindAbandoned(p) \/ RecoverClaim(p)
    \/ Snapshot(p) \/ SkipLiveOwner(p) \/ DeferDependent(p) \/ Choose(p) \/ Claim(p)
    \/ Publish(p) \/ Settle(p) \/ WriteResult(p) \/ UnlinkClaim(p)
    \/ ReleaseClaim(p)

OutboxNext ==
    \E p \in Owners :
        \/ Born(p) \/ Dies(p)
        \/ \E c \in Contents : Enqueue(p, c) \/ ReuseEquivalentWork(p, c)
        \/ WriteAuthority(p) \/ WriteFails(p)
        \/ \E h \in Helpers : Revoke(p, h)
        \/ Drains(p) \/ Fail(p) \/ EndDrain(p)

OutboxSpec == OutboxInit /\ [][OutboxNext]_outboxVars

-----------------------------------------------------------------------------
(***************************************************************************)
(* A claim whose owner lives is given up by that owner's drain and by      *)
(* nobody else: two recoveries, a slow one and a claim made meanwhile must *)
(* not take it away (_recover_abandoned_claims, _release_claim).           *)
(***************************************************************************)
LiveClaimStands ==
    [][\A r \in entries :
        (claims[r] # None /\ claims'[r] # claims[r] /\ Alive(claims[r].by)) =>
            /\ claims'[r] = None
            /\ drain[claims[r].by].job = r /\ drain[claims[r].by].claim = claims[r]
            /\ drain'[claims[r].by].claim = None]_outboxVars

(***************************************************************************)
(* A result is only ever written for a receipt that has authority at that  *)
(* moment, by its producer, by an owner that shares it at that moment or   *)
(* after its producer died (_claim_is_current).                            *)
(***************************************************************************)
SettledRightfully ==
    [][\A r \in entries :
        (results'[r] # results[r] /\ results'[r] # None) =>
            /\ Authoritative(r)
            /\ \E p \in Owners :
                /\ claims[r] # None /\ claims[r].by = p /\ drain'[p] # drain[p]
                /\ r.owner = p \/ Shares(p, r) \/ status[r.owner] = "gone"]_outboxVars

(***************************************************************************)
(* A result that stands is never replaced or removed: stale snapshots,     *)
(* repeated claims and recoveries do the work again only when its result   *)
(* was lost or stopped standing.                                           *)
(***************************************************************************)
ResultStands ==
    [][\A r \in entries :
        results'[r] # results[r] => ~(Authoritative(r) /\ Settled(r))]_outboxVars

(***************************************************************************)
(* Nothing is published before what it was proved with, although a drain   *)
(* looks at the dependencies long before it publishes (drain).             *)
(***************************************************************************)
DependenciesFirst == \A c \in library : Needs[c] \subseteq library

(***************************************************************************)
(* The disk says what enqueue, reuse and revoke last reported durable, or  *)
(* what a later one asked for that failed or died: the receipts with       *)
(* authority on an owner's word are that one receipt, or none, whatever    *)
(* failed, died or drained at whichever write (enqueue: the crash gap      *)
(* before the authority; _atomic_json: the sync after the replacement).    *)
(***************************************************************************)
Voice(l) == {r \in entries : authority[l] = r \/ (Lineage(r) = l /\ Baseline(r))}

Said(l) == {promised[l]} \union attempted[l]

PromiseKept ==
    \A l \in Lineages : \E w \in Said(l) : Voice(l) = {w} \ {None, Revoked}
=============================================================================
