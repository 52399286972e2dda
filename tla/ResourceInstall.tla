--------------------------- MODULE ResourceInstall ---------------------------
(***************************************************************************)
(* How an allocation of local compute comes to be: prepare_resources and   *)
(* require_resources of local_inference/runtime.py.  An installation is    *)
(* five files written one after the other: the coordinator's identity and  *)
(* state, the budget's directory and ledger, and last the marker that ties *)
(* them together.  Installers lock the directory their budget is in, so    *)
(* those of other directories share the coordinator with them: the budgets *)
(* of runs are in one, the probes of an operator in another.  They die at  *)
(* any step, and files can get lost between runs.  What is found           *)
(* afterwards is resumed, completed or refused.                            *)
(*                                                                         *)
(* A binding may carry the marker its allocation had when it was prepared, *)
(* or only the coordinator's id an operator expects.  A check that fails   *)
(* raises, which drops the caller's locks: End, like its death.            *)
(***************************************************************************)
EXTENDS Integers, FiniteSets

CONSTANTS
    Callers,      \* processes that prepare and use allocations
    Budgets,      \* allocations that share one coordinator
    Parents,      \* the directories they are in,
    ParentOf,     \* each in one
    Asked,        \* ceilings a caller can ask for
    ProfileGrant, \* the ceilings of the profile, when nothing is asked for
    Groups,       \* capacity groups
    Profiles,     \* what a profile declares: the policy of some of the groups
    None,
    MaxIds,       \* bound: coordinators ever created
    MaxRevisions, \* how often a group's policy can be changed; 64 in the code
    MaxLosses     \* bound: how often files are lost between runs

Ids == 1..MaxIds
Grants == Asked \union {ProfileGrant}
Policies == UNION {{q[g] : g \in Groups} : q \in Profiles}
Undeclared == [g \in Groups |-> None]
Tables == [Groups -> Policies \union {None}]

ASSUME InstallAssumption ==
    /\ None \notin Ids /\ None \notin Grants /\ None \notin Callers /\ None \notin Budgets
    /\ ParentOf \in [Budgets -> Parents]
    /\ Profiles \subseteq Tables /\ None \notin Tables
    /\ MaxIds \in Nat /\ MaxRevisions \in Nat /\ MaxLosses \in Nat

VARIABLES
    identity,     \* the id in the coordinator's identity.json, or None
    state,        \* its state.json, or None: the policies declared of the groups
    revisions,    \* the number of transitions it records of each group
    made,         \* how many coordinators were created
    initLock,     \* who holds .runtime_initialization of each parent
    rootLock,     \* who holds the coordinator's own lock over more than one write
    profile,      \* the profile of each budget, fixed
    dir,          \* budgets whose directory exists
    grant,        \* the ceilings each ledger.json was created with, or None
    touched,      \* budgets with consumption, reservations or extensions
    marker,       \* resource_marker.json of each budget
    pc,           \* what each caller does next
    budget,       \* the budget it prepares or uses
    ask,          \* the ceilings it asks for, or None
    binding,      \* what it knew before, then what it was given
    issued,       \* bindings handed out, which outlive the process
    losses,       \* how often files were lost
    charged       \* history: coordinators under which each budget was charged

installVars == <<identity, state, revisions, made, initLock, rootLock, profile, dir, grant, touched,
                 marker, pc, budget, ask, binding, issued, losses, charged>>

files == <<identity, state, revisions, made, profile, dir, grant, touched, marker, losses>>
locks == <<initLock, rootLock>>
request == <<budget, ask, binding>>
history == <<issued, charged>>

Marks == [coordinator : Ids, grant : Grants]
Bare == [coordinator |-> None, grant |-> None]
Prepared(m) == m.grant # None

\* Mutant: a ledger is completed although it was used.
UsedOrNot(b) == grant[b] # None

\* Mutant: a ledger is taken whatever it was granted.
AnyGrant(b, g) == grant[b] # None

Installing == {"coordinate", "state", "budget", "ledger", "declare", "publish"}

InstallTypeOK ==
    /\ identity \in Ids \union {None}
    /\ state \in Tables \union {None}
    /\ profile \in [Budgets -> Profiles]
    /\ made \in 0..MaxIds
    /\ initLock \in [Parents -> Callers \union {None}]
    /\ rootLock \in Callers \union {None}
    /\ dir \subseteq Budgets /\ touched \subseteq Budgets
    /\ grant \in [Budgets -> Grants \union {None}]
    /\ marker \in [Budgets -> Marks \union {Bare}]
    /\ pc \in [Callers -> Installing \union {"idle", "lock", "resume", "ready", "charge"}]
    /\ budget \in [Callers -> Budgets \union {None}]
    /\ ask \in [Callers -> Asked \union {None}]
    /\ binding \in [Callers -> [coordinator : Ids \union {None}, grant : Grants \union {None}]]
    /\ issued \in [Budgets -> SUBSET Marks]
    /\ losses \in 0..MaxLosses
    /\ charged \in [Budgets -> SUBSET Ids]
    /\ revisions \in [Groups -> 0..MaxRevisions]

InstallInit ==
    /\ identity = None /\ state = None /\ made = 0
    /\ profile \in [Budgets -> Profiles]
    /\ initLock = [r \in Parents |-> None] /\ rootLock = None
    /\ dir = {} /\ touched = {}
    /\ grant = [b \in Budgets |-> None]
    /\ marker = [b \in Budgets |-> Bare]
    /\ pc = [c \in Callers |-> "idle"]
    /\ budget = [c \in Callers |-> None]
    /\ ask = [c \in Callers |-> None]
    /\ binding = [c \in Callers |-> Bare]
    /\ issued = [b \in Budgets |-> {}]
    /\ losses = 0
    /\ charged = [b \in Budgets |-> {}]
    /\ revisions = [g \in Groups |-> 0]

(***************************************************************************)
(* What the callers look at                                                *)
(***************************************************************************)
Goto(c, step) == pc' = [pc EXCEPT ![c] = step]
Ceilings(c) == IF ask[c] = None THEN ProfileGrant ELSE ask[c]
Marked(b) == Prepared(marker[b])

\* CapacityCoordinator.open finds both files, or raises.
Opens(i) == identity = i /\ identity # None /\ state # None

\* _check_ledger_grant: what was granted at first, whatever was added since.
Granted(b, g) == grant[b] = g /\ g # None

\* A ledger without a marker may be completed only before it was used.
Unused(b) == grant[b] # None /\ b \notin touched

\* The groups a profile declares.
Wanted(b) == {g \in Groups : profile[b][g] # None}

\* A group that was declared with policy p, and whether it still has it.
Runs(g, p) == state[g] # None /\ (revisions[g] = 0 => state[g] = p)

\* What a binding says of the coordinator is so.
Expected(c, i) == binding[c].coordinator \in {None, i}

\* The locks of installers that c holds are released.
Unlocked(c) == [r \in Parents |-> IF initLock[r] = c THEN None ELSE initLock[r]]

(***************************************************************************)
(* prepare_resources                                                       *)
(***************************************************************************)

(***************************************************************************)
(* A caller comes with a binding: a fresh one, one with a coordinator's id *)
(* only, or one some process was given before.  A marker is resumed; where *)
(* there is none, only a caller that may create and whose binding never    *)
(* had one goes on.                                                        *)
(***************************************************************************)
Begin(c, b, g, known) ==
    /\ pc[c] = "idle"
    /\ known \in issued[b] \union [coordinator : {None} \union 1..made, grant : {None}]
    /\ budget' = [budget EXCEPT ![c] = b]
    /\ ask' = [ask EXCEPT ![c] = g]
    /\ binding' = [binding EXCEPT ![c] = known]
    /\ \/ Marked(b) /\ Goto(c, "resume")
       \/ ~Marked(b) /\ ~Prepared(known) /\ Goto(c, "lock")
    /\ UNCHANGED <<files, locks, history>>

\* Under the lock: another may have finished meanwhile, or have died halfway.
Survey(c) ==
    /\ pc[c] = "lock" /\ initLock[ParentOf[budget[c]]] = None
    /\ initLock' = [initLock EXCEPT ![ParentOf[budget[c]]] = c]
    /\ \/ Marked(budget[c]) /\ Goto(c, "resume")
       \/ /\ ~Marked(budget[c])
          /\ budget[c] \in dir => Unused(budget[c])
          /\ Goto(c, "coordinate")
    /\ UNCHANGED <<files, rootLock, request, history>>

\* _install opens the coordinator its binding names.
OpenCoordinator(c) ==
    /\ pc[c] = "coordinate" /\ binding[c].coordinator # None
    /\ Opens(binding[c].coordinator)
    /\ Goto(c, "budget")
    /\ UNCHANGED <<files, locks, request, history>>

\* CapacityCoordinator.initialize holds the coordinator's lock over both writes.  Under it
\* the coordinator stands already, or its identity is written; one without a state is refused.
Initialize(c) ==
    /\ pc[c] = "coordinate" /\ binding[c].coordinator = None
    /\ rootLock = None
    /\ \/ /\ Opens(identity)
          /\ Goto(c, "budget")
          /\ UNCHANGED <<files, rootLock>>
       \/ /\ identity = None /\ state = None /\ made < MaxIds
          /\ made' = made + 1 /\ identity' = made + 1
          /\ rootLock' = c
          /\ Goto(c, "state")
          /\ UNCHANGED <<state, revisions, profile, dir, grant, touched, marker, losses>>
    /\ UNCHANGED <<initLock, request, history>>

InitializeState(c) ==
    /\ pc[c] = "state"
    /\ state' = Undeclared /\ revisions' = [g \in Groups |-> 0]
    /\ rootLock' = None
    /\ Goto(c, "budget")
    /\ UNCHANGED <<identity, made, profile, dir, grant, touched, marker, losses, initLock, request, history>>

\* LocalComputeLedger.create: the directory, then the ledger.
MakeBudget(c) ==
    /\ pc[c] = "budget"
    /\ dir' = dir \union {budget[c]}
    /\ Goto(c, "ledger")
    /\ UNCHANGED <<identity, state, revisions, made, profile, grant, touched, marker, losses, locks, request, history>>

\* A ledger that exists is opened, and must have been granted the same.
CreateLedger(c) ==
    /\ pc[c] = "ledger"
    /\ \/ /\ grant[budget[c]] = None
          /\ grant' = [grant EXCEPT ![budget[c]] = Ceilings(c)]
       \/ Granted(budget[c], Ceilings(c)) /\ UNCHANGED grant
    /\ Goto(c, "declare")
    /\ UNCHANGED <<identity, state, revisions, made, profile, dir, touched, marker, losses, locks, request, history>>

\* register_profile: the groups are added, or are what the profile says.
Declare(c) ==
    /\ pc[c] = "declare"
    /\ Opens(identity)
    /\ \A g \in Wanted(budget[c]) : state[g] \in {None, profile[budget[c]][g]}
    /\ state' = [g \in Groups |-> IF g \in Wanted(budget[c]) THEN profile[budget[c]][g] ELSE state[g]]
    /\ Goto(c, "publish")
    /\ UNCHANGED <<identity, revisions, made, profile, dir, grant, touched, marker, losses, locks, request, history>>

\* _publish_marker, and the binding that is returned.
Publish(c) ==
    LET b == budget[c]
        m == [coordinator |-> identity, grant |-> Ceilings(c)]
    IN  /\ pc[c] = "publish" /\ Opens(identity)
        /\ marker[b] \in {Bare, m}
        /\ marker' = [marker EXCEPT ![b] = m]
        /\ ask' = [ask EXCEPT ![c] = None]
        /\ binding' = [binding EXCEPT ![c] = m]
        /\ issued' = [issued EXCEPT ![b] = @ \union {m}]
        /\ initLock' = Unlocked(c)
        /\ Goto(c, "ready")
        /\ UNCHANGED <<identity, state, revisions, made, profile, dir, grant, touched, losses, rootLock, budget,
                       charged>>

\* _resume: marker, coordinator and ledger belong together and to the binding.
Resume(c) ==
    LET b == budget[c]
        m == marker[b]
    IN  /\ pc[c] = "resume" /\ Marked(b)
        /\ Expected(c, m.coordinator)
        /\ Prepared(binding[c]) => binding[c] = m
        /\ Opens(m.coordinator)
        /\ Granted(b, m.grant)
        /\ ask[c] \in {None, m.grant}
        /\ ask' = [ask EXCEPT ![c] = None]
        /\ binding' = [binding EXCEPT ![c] = m]
        /\ issued' = [issued EXCEPT ![b] = @ \union {m}]
        /\ initLock' = Unlocked(c)
        /\ Goto(c, "ready")
        /\ UNCHANGED <<files, rootLock, budget, charged>>

(***************************************************************************)
(* Use                                                                     *)
(***************************************************************************)

\* require_resources, before each request.
Require(c) ==
    LET b == budget[c]
    IN  /\ pc[c] = "ready"
        /\ marker[b] = binding[c]
        /\ Opens(binding[c].coordinator)
        /\ Granted(b, marker[b].grant)
        /\ Goto(c, "charge")
        /\ UNCHANGED <<files, locks, request, history>>

\* The request acquires a permit from the coordinator and charges the ledger.
Charge(c) ==
    LET b == budget[c]
    IN  /\ pc[c] = "charge"
        /\ identity # None /\ grant[b] # None
        /\ touched' = touched \union {b}
        /\ charged' = [charged EXCEPT ![b] = @ \union {identity}]
        /\ Goto(c, "ready")
        /\ UNCHANGED <<identity, state, revisions, made, profile, dir, grant, marker, losses, locks, request, issued>>

\* An operator's grant_extension needs nothing but the ledger.
Extend(b) ==
    /\ grant[b] # None
    /\ touched' = touched \union {b}
    /\ UNCHANGED <<identity, state, revisions, made, profile, dir, grant, marker, losses, locks, pc, request, history>>

\* An operator's transition gives a group that was declared another policy.
Transition(g, p) ==
    /\ Opens(identity)
    /\ state[g] \notin {None, p}
    /\ state' = [state EXCEPT ![g] = p]
    /\ revisions[g] < MaxRevisions
    /\ revisions' = [revisions EXCEPT ![g] = @ + 1]
    /\ UNCHANGED <<identity, made, profile, dir, grant, touched, marker, losses, locks, pc, request,
                   history>>

(***************************************************************************)
(* Faults                                                                  *)
(***************************************************************************)

\* A caller is done, was refused or died: its locks are free.
End(c) ==
    /\ pc[c] # "idle"
    /\ Goto(c, "idle")
    /\ initLock' = Unlocked(c)
    /\ rootLock' = IF rootLock = c THEN None ELSE rootLock
    /\ budget' = [budget EXCEPT ![c] = None]
    /\ ask' = [ask EXCEPT ![c] = None]
    /\ binding' = [binding EXCEPT ![c] = Bare]
    /\ UNCHANGED <<files, history>>

(***************************************************************************)
(* Files are lost while nobody runs, any of them at once.  A budget whose  *)
(* directory is gone as well cannot be told from one that never was, and   *)
(* is another allocation.                                                  *)
(***************************************************************************)
Lose(id, table, marks, ledgers) ==
    /\ \A c \in Callers : pc[c] = "idle"
    /\ losses < MaxLosses
    /\ losses' = losses + 1
    /\ identity' = IF id THEN None ELSE identity
    /\ state' = IF table THEN None ELSE state
    /\ revisions' = IF table THEN [g \in Groups |-> 0] ELSE revisions
    /\ marker' = [b \in Budgets |-> IF b \in marks THEN Bare ELSE marker[b]]
    /\ grant' = [b \in Budgets |-> IF b \in ledgers THEN None ELSE grant[b]]
    /\ touched' = touched \ ledgers
    /\ UNCHANGED <<made, profile, dir, locks, pc, request, history>>

Step(c) ==
    \/ \E b \in Budgets, g \in Asked \union {None},
          known \in [coordinator : Ids \union {None}, grant : Grants \union {None}] :
             Begin(c, b, g, known)
    \/ Survey(c) \/ OpenCoordinator(c) \/ Initialize(c) \/ InitializeState(c)
    \/ MakeBudget(c) \/ CreateLedger(c) \/ Declare(c) \/ Publish(c)
    \/ Resume(c) \/ Require(c) \/ Charge(c) \/ End(c)

InstallNext ==
    \/ \E c \in Callers : Step(c)
    \/ \E b \in Budgets : Extend(b)
    \/ \E g \in Groups, p \in Policies \ {None} : Transition(g, p)
    \/ \E id, table \in BOOLEAN, marks, ledgers \in SUBSET Budgets : Lose(id, table, marks, ledgers)

InstallSpec == InstallInit /\ [][InstallNext]_installVars

(***************************************************************************)
(* Properties                                                              *)
(***************************************************************************)

(***************************************************************************)
(* The work charged to an allocation stays accounted for: all of it was    *)
(* under one coordinator, whose record of it nobody replaced, and a ledger *)
(* that is there shows it.  "Once activity exists, the missing marker      *)
(* loses the capacity incarnation binding; creating a fresh coordinator    *)
(* would erase unknown work" (runtime.py, prepare_resources).              *)
(***************************************************************************)
WorkStands ==
    \A b \in Budgets : charged[b] # {} =>
        /\ \E i \in Ids : charged[b] = {i}
        /\ grant[b] # None => b \in touched

(***************************************************************************)
(* The marker is published last and ties together what is there: wherever  *)
(* installers died, the ledger was granted what the marker says, and as    *)
(* long as no file was lost the coordinator is the marker's, complete, and *)
(* runs the groups of the profile, by the profile's policy unless an       *)
(* operator has given the group another since.                             *)
(***************************************************************************)
MarkerStands ==
    \A b \in Budgets : Marked(b) =>
        /\ grant[b] \in {None, marker[b].grant}
        /\ losses = 0 => /\ Granted(b, marker[b].grant)
                         /\ Opens(marker[b].coordinator)
                         /\ \A g \in Wanted(b) : Runs(g, profile[b][g])
=============================================================================
