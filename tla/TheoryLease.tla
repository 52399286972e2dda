----------------------------- MODULE TheoryLease -----------------------------
(***************************************************************************)
(* The owner files of a theory root (mini_theory/lease.py).  An owner is a *)
(* process that holds flock on <owner>.lock for as long as it lives; other *)
(* owners of the root probe that lock, or sweep files nobody has locked,   *)
(* under .cleanup.lock.  Maintenance of another root probes the same files *)
(* without it (promotion_outbox.py, _producer_abandoned).                  *)
(*                                                                         *)
(* A pathname and the file it names are different things: open("a+b")      *)
(* creates a file when the name is free, unlink frees the name only, and a *)
(* lock belongs to the descriptor that took it.  The kernel drops every    *)
(* lock of a process that dies.                                            *)
(***************************************************************************)
EXTENDS Integers, FiniteSets

CONSTANTS
    Owners,       \* processes that open the root; each draws an id of its own
    Outsiders,    \* maintenance of other roots, which takes no cleanup lock
    Nobody,       \* no process
    MaxFiles      \* bound: files ever created

Observers == Owners \union Outsiders
Files == 1..MaxFiles
Nameless == 0

ASSUME LeaseAssumption ==
    /\ IsFiniteSet(Owners) /\ Owners \intersect Outsiders = {}
    /\ Nobody \notin Observers
    /\ MaxFiles \in Nat

VARIABLES
    name,         \* the file each owner's pathname leads to
    lock,         \* who holds the lock of each file
    created,      \* how many files were created
    cleanup,      \* who holds .cleanup.lock
    pc,           \* what each process is doing
    own,          \* the file an owner keeps open for its life
    other,        \* the file an observer has opened to try its lock
    subject,      \* the owner an observer looks at
    sweep,        \* the names a sweep has yet to try
    known,        \* owners whose construction returned: others have seen their id
    judged        \* owners some probe has found abandoned

ownerVars == <<name, lock, created, cleanup, pc, own, other, subject, sweep, known, judged>>

(* Before its first lock an owner is a pathname; after it, a life.         *)
Making == {"unborn", "open", "lock"}
Living == {"born", "sweep", "sweepLock", "sweepUnlink", "live",
           "probe", "probeOpen", "probeLock", "probeRelease"}
Ending == {"withdraw", "withdrawn", "closed"}
Over == {"done", "failed", "dead"}

LeaseTypeOK ==
    /\ name \in [Owners -> Files \union {Nameless}]
    /\ lock \in [Files -> Observers \union {Nobody}]
    /\ created \in 0..MaxFiles
    /\ cleanup \in Owners \union {Nobody}
    /\ pc \in [Observers -> Making \union Living \union Ending \union Over]
    /\ own \in [Owners -> Files \union {Nameless}]
    /\ other \in [Observers -> Files \union {Nameless}]
    /\ subject \in [Observers -> Owners \union {Nobody}]
    /\ sweep \in [Owners -> SUBSET Owners]
    /\ known \subseteq Owners /\ judged \subseteq Owners

LeaseInit ==
    /\ name = [o \in Owners |-> Nameless]
    /\ lock = [f \in Files |-> Nobody]
    /\ created = 0
    /\ cleanup = Nobody
    /\ pc = [a \in Observers |-> IF a \in Owners THEN "unborn" ELSE "live"]
    /\ own = [o \in Owners |-> Nameless]
    /\ other = [a \in Observers |-> Nameless]
    /\ subject = [a \in Observers |-> Nobody]
    /\ sweep = [o \in Owners |-> {}]
    /\ known = {} /\ judged = {}

Goto(a, step) == pc' = [pc EXCEPT ![a] = step]

\* Mutant: creators and sweeps do not wait for each other.
TakesNothing(o) == UNCHANGED cleanup

TakesCleanup(o) == cleanup = Nobody /\ cleanup' = o
DropsCleanup(a) == cleanup' = IF cleanup = a THEN Nobody ELSE cleanup

(* path.open("a+b"): the file the name leads to, or a new one.             *)
Opens(o, f) ==
    IF name[o] # Nameless
    THEN f = name[o] /\ UNCHANGED <<name, created>>
    ELSE /\ created < MaxFiles
         /\ f = created + 1
         /\ created' = f
         /\ name' = [name EXCEPT ![o] = f]

Unlinks(o) == name' = [name EXCEPT ![o] = Nameless]

(* Closing a descriptor gives up the lock it holds.                        *)
Frees(a, f) == lock' = [g \in Files |-> IF g = f /\ lock[g] = a THEN Nobody ELSE lock[g]]

(***************************************************************************)
(* An owner's life: the pathname is created and locked under the cleanup   *)
(* lock, then files of the dead are swept before the owner is handed out.  *)
(***************************************************************************)
Begin(o) ==
    /\ pc[o] = "unborn"
    /\ TakesCleanup(o)
    /\ Goto(o, "open")
    /\ UNCHANGED <<name, lock, created, own, other, subject, sweep, known, judged>>

Create(o) ==
    /\ pc[o] = "open"
    /\ \E f \in Files : Opens(o, f) /\ own' = [own EXCEPT ![o] = f]
    /\ Goto(o, "lock")
    /\ UNCHANGED <<lock, cleanup, other, subject, sweep, known, judged>>

Lock(o) ==
    /\ pc[o] = "lock"
    /\ lock[own[o]] = Nobody
    /\ lock' = [lock EXCEPT ![own[o]] = o]
    /\ DropsCleanup(o)
    /\ Goto(o, "born")
    /\ UNCHANGED <<name, created, own, other, subject, sweep, known, judged>>

(* flock raises, because the lock is taken or for a reason of its own: the *)
(* new pathname is withdrawn before the cleanup lock is given up.          *)
LockFails(o) ==
    /\ pc[o] = "lock"
    /\ Unlinks(o)
    /\ own' = [own EXCEPT ![o] = Nameless]
    /\ DropsCleanup(o)
    /\ Goto(o, "failed")
    /\ UNCHANGED <<lock, created, other, subject, sweep, known, judged>>

BeginSweep(o) ==
    /\ pc[o] = "born"
    /\ TakesCleanup(o)
    /\ sweep' = [sweep EXCEPT ![o] = {q \in Owners \ {o} : name[q] # Nameless}]
    /\ Goto(o, "sweep")
    /\ UNCHANGED <<name, lock, created, own, other, subject, known, judged>>

SweepOpen(o) ==
    /\ pc[o] = "sweep"
    /\ \E q \in sweep[o], f \in Files :
        /\ Opens(q, f)
        /\ other' = [other EXCEPT ![o] = f]
        /\ subject' = [subject EXCEPT ![o] = q]
        /\ sweep' = [sweep EXCEPT ![o] = @ \ {q}]
    /\ Goto(o, "sweepLock")
    /\ UNCHANGED <<lock, cleanup, own, known, judged>>

\* Mutant: whatever the lock says, the name is swept.
SweepAnyway(o) ==
    /\ pc[o] = "sweepLock"
    /\ Goto(o, "sweepUnlink")
    /\ UNCHANGED <<name, lock, created, cleanup, own, other, subject, sweep, known, judged>>

SweepLock(o) ==
    /\ pc[o] = "sweepLock"
    /\ \/ /\ lock[other[o]] = Nobody
          /\ lock' = [lock EXCEPT ![other[o]] = o]
          /\ Goto(o, "sweepUnlink")
          /\ UNCHANGED <<other, subject>>
       \/ /\ lock[other[o]] # Nobody
          /\ Goto(o, "sweep")
          /\ other' = [other EXCEPT ![o] = Nameless]
          /\ subject' = [subject EXCEPT ![o] = Nobody]
          /\ UNCHANGED lock
    /\ UNCHANGED <<name, created, cleanup, own, sweep, known, judged>>

SweepUnlink(o) ==
    /\ pc[o] = "sweepUnlink"
    /\ Unlinks(subject[o])
    /\ Frees(o, other[o])
    /\ other' = [other EXCEPT ![o] = Nameless]
    /\ subject' = [subject EXCEPT ![o] = Nobody]
    /\ Goto(o, "sweep")
    /\ UNCHANGED <<created, cleanup, own, sweep, known, judged>>

Born(o) ==
    /\ pc[o] = "sweep" /\ sweep[o] = {}
    /\ DropsCleanup(o)
    /\ known' = known \union {o}
    /\ Goto(o, "live")
    /\ UNCHANGED <<name, lock, created, own, other, subject, sweep, judged>>

(* The sweep raises: construction fails with the lease already held.       *)
SweepFails(o) ==
    /\ pc[o] \in {"sweep", "sweepLock", "sweepUnlink"}
    /\ Frees(o, other[o])
    /\ other' = [other EXCEPT ![o] = Nameless]
    /\ subject' = [subject EXCEPT ![o] = Nobody]
    /\ sweep' = [sweep EXCEPT ![o] = {}]
    /\ DropsCleanup(o)
    /\ Goto(o, "withdraw")
    /\ UNCHANGED <<name, created, own, known, judged>>

(***************************************************************************)
(* The end: the pathname goes while the lock is still held, then the       *)
(* descriptor.  close takes the cleanup lock if it can; with the lock out  *)
(* of reach, and in a finalizer, the pathname is withdrawn without it.     *)
(***************************************************************************)
Withdraw(o) ==
    /\ pc[o] \in {"live", "withdraw"}
    /\ Unlinks(o)
    /\ Goto(o, IF pc[o] = "live" THEN "closed" ELSE "withdrawn")
    /\ UNCHANGED <<lock, created, cleanup, own, other, subject, sweep, known, judged>>

Release(o) ==
    /\ pc[o] \in {"closed", "withdrawn"}
    /\ Frees(o, own[o])
    /\ own' = [own EXCEPT ![o] = Nameless]
    /\ Goto(o, IF pc[o] = "closed" THEN "done" ELSE "failed")
    /\ UNCHANGED <<name, created, cleanup, other, subject, sweep, known, judged>>

Crash(o) ==
    /\ pc[o] \notin Over \union {"unborn"}
    /\ lock' = [f \in Files |-> IF lock[f] = o THEN Nobody ELSE lock[f]]
    /\ DropsCleanup(o)
    /\ own' = [own EXCEPT ![o] = Nameless]
    /\ other' = [other EXCEPT ![o] = Nameless]
    /\ subject' = [subject EXCEPT ![o] = Nobody]
    /\ sweep' = [sweep EXCEPT ![o] = {}]
    /\ Goto(o, "dead")
    /\ UNCHANGED <<name, created, known, judged>>

(***************************************************************************)
(* owner_abandoned, and _producer_abandoned for the owners of another      *)
(* root: an owner is dead if its name is free or its lock can be taken.    *)
(***************************************************************************)
BeginProbe(a) ==
    /\ pc[a] = "live"
    /\ \E q \in known : subject' = [subject EXCEPT ![a] = q]
    /\ IF a \in Owners THEN TakesCleanup(a) ELSE UNCHANGED cleanup
    /\ Goto(a, "probe")
    /\ UNCHANGED <<name, lock, created, own, other, sweep, known, judged>>

Verdict(a, abandoned) ==
    /\ judged' = IF abandoned THEN judged \union {subject[a]} ELSE judged
    /\ subject' = [subject EXCEPT ![a] = Nobody]
    /\ other' = [other EXCEPT ![a] = Nameless]
    /\ DropsCleanup(a)
    /\ Goto(a, "live")
    /\ UNCHANGED <<name, created, own, sweep, known>>

ProbeName(a) ==
    /\ pc[a] = "probe"
    /\ \/ /\ name[subject[a]] = Nameless
          /\ Verdict(a, TRUE)
       \/ /\ name[subject[a]] # Nameless
          /\ Goto(a, "probeOpen")
          /\ UNCHANGED <<name, created, cleanup, own, other, subject, sweep, known, judged>>
    /\ UNCHANGED lock

ProbeOpen(a) ==
    /\ pc[a] = "probeOpen"
    /\ \E f \in Files : Opens(subject[a], f) /\ other' = [other EXCEPT ![a] = f]
    /\ Goto(a, "probeLock")
    /\ UNCHANGED <<lock, cleanup, own, subject, sweep, known, judged>>

ProbeLock(a) ==
    /\ pc[a] = "probeLock"
    /\ \/ /\ lock[other[a]] = Nobody
          /\ lock' = [lock EXCEPT ![other[a]] = a]
          /\ Goto(a, "probeRelease")
          /\ UNCHANGED <<name, created, cleanup, own, other, subject, sweep, known, judged>>
       \/ /\ lock[other[a]] # Nobody
          /\ Verdict(a, FALSE)
          /\ UNCHANGED lock

ProbeRelease(a) ==
    /\ pc[a] = "probeRelease"
    /\ Frees(a, other[a])
    /\ Verdict(a, TRUE)

LeaseNext ==
    \/ \E o \in Owners :
        \/ Begin(o) \/ Create(o) \/ Lock(o) \/ LockFails(o)
        \/ BeginSweep(o) \/ SweepOpen(o) \/ SweepLock(o) \/ SweepUnlink(o)
        \/ Born(o) \/ SweepFails(o)
        \/ Withdraw(o) \/ Release(o) \/ Crash(o)
    \/ \E a \in Observers :
        BeginProbe(a) \/ ProbeName(a) \/ ProbeOpen(a) \/ ProbeLock(a) \/ ProbeRelease(a)

LeaseSpec == LeaseInit /\ [][LeaseNext]_ownerVars

(***************************************************************************)
(* Nobody takes a life's file away: while an owner lives, its pathname     *)
(* leads to the file it opened and the lock of that file is its own.  A    *)
(* sweep that unlinks a name whose file was replaced or not yet locked, or *)
(* a lock taken on a file that lost its name, would break it.              *)
(***************************************************************************)
LeaseKept ==
    \A o \in Owners : pc[o] \in Living =>
        name[o] # Nameless /\ name[o] = own[o] /\ lock[own[o]] = o

(***************************************************************************)
(* The lease keeps the promise of OwnerLiveness: whatever the              *)
(* interleaving of creators, sweeps, probes, closes and crashes, only an   *)
(* owner whose life is over is ever judged abandoned.                      *)
(***************************************************************************)
life == [o \in Owners |-> IF pc[o] \in Making THEN "unborn"
                          ELSE IF pc[o] \in Living THEN "live" ELSE "gone"]

Liveness == INSTANCE OwnerLiveness WITH status <- life, judged <- judged

JudgesOnlyTheDead == Liveness!LivenessSpec
=============================================================================
