----------------------- MODULE ResourceInstall_proofs ------------------------
(***************************************************************************)
(* An installation that was cut off is completed or refused, and never     *)
(* hides work: for any callers, budgets and profiles.                      *)
(***************************************************************************)
EXTENDS ResourceInstall, TLAPS

Busy == Installing \union {"lock", "resume", "ready", "charge"}

(***************************************************************************)
(* The inductive invariant.  What an installer found under the lock is     *)
(* still so at each of its steps, since files are only added while anyone  *)
(* runs and nobody charges a budget without a marker.  Installers of other *)
(* directories work beside it: what they may write of the coordinator is   *)
(* what it does not rely on.                                               *)
(***************************************************************************)
Exclusive ==
    \A c \in Callers :
        /\ pc[c] \in Installing => initLock[ParentOf[budget[c]]] = c
        /\ pc[c] = "state" => rootLock = c

Placed(c) ==
    LET b == budget[c]
    IN  /\ pc[c] \in Busy => b \in Budgets
        /\ pc[c] \in Installing => ~Marked(b) /\ charged[b] = {}
        /\ pc[c] = "state" => identity # None /\ state = None
        /\ pc[c] \in {"budget", "ledger", "declare", "publish"} => Opens(identity)
        /\ pc[c] \in {"ledger", "declare", "publish"} => b \in dir
        /\ pc[c] \in {"declare", "publish"} => Granted(b, Ceilings(c))
        /\ pc[c] = "publish" => \A g \in Wanted(b) : Runs(g, profile[b][g])
        /\ pc[c] = "ready" => Prepared(binding[c])
        /\ pc[c] = "charge" => /\ Marked(b) /\ marker[b] = binding[c]
                               /\ Opens(marker[b].coordinator)
                               /\ grant[b] # None

Recorded(b) ==
    /\ grant[b] # None \/ charged[b] # {} => b \in dir
    /\ charged[b] # {} /\ grant[b] # None => b \in touched
    /\ charged[b] # {} => \E i \in Ids : charged[b] = {i}
    /\ Marked(b) /\ charged[b] # {} => charged[b] = {marker[b].coordinator}

Tied(b) ==
    Marked(b) =>
        /\ grant[b] \in {None, marker[b].grant}
        /\ losses = 0 => /\ Granted(b, marker[b].grant)
                         /\ Opens(marker[b].coordinator)
                         /\ \A g \in Wanted(b) : Runs(g, profile[b][g])

InstallInv ==
    /\ InstallTypeOK
    /\ Exclusive
    /\ \A c \in Callers : Placed(c)
    /\ \A b \in Budgets : Recorded(b)
    /\ \A b \in Budgets : Tied(b)

-----------------------------------------------------------------------------
LEMMA InstallInitially == InstallInit => InstallInv
<1> SUFFICES ASSUME InstallInit PROVE InstallInv
    OBVIOUS
<1>1. InstallTypeOK
    BY InstallAssumption DEF InstallInit, InstallTypeOK, Marks, Bare, Tables, Grants, Ids
<1>2. \A b \in Budgets : ~Marked(b)
    BY DEF InstallInit, Marked, Prepared, Bare
<1> QED
    BY <1>1, <1>2 DEF InstallInit, InstallInv, Exclusive, Placed, Recorded, Tied, Busy, Installing

(***************************************************************************)
(* Every step keeps the types.                                             *)
(***************************************************************************)
LEMMA InstallKeepsTypes == InstallInv /\ [InstallNext]_installVars => InstallTypeOK'
<1> SUFFICES ASSUME InstallInv, [InstallNext]_installVars PROVE InstallTypeOK'
    OBVIOUS
<1> USE DEF InstallInv, InstallTypeOK, files, locks, request, history
<1>1. ASSUME NEW c \in Callers, NEW b \in Budgets, NEW g \in Asked \union {None},
             NEW known \in [coordinator : Ids \union {None}, grant : Grants \union {None}],
             Begin(c, b, g, known)
      PROVE  InstallTypeOK'
    BY <1>1 DEF Begin, Goto
<1>2. ASSUME NEW c \in Callers, Survey(c) PROVE InstallTypeOK'
    BY <1>2 DEF Survey, Goto, Installing
<1>3. ASSUME NEW c \in Callers, OpenCoordinator(c) PROVE InstallTypeOK'
    BY <1>3 DEF OpenCoordinator, Goto, Installing
<1>4. ASSUME NEW c \in Callers, Initialize(c) PROVE InstallTypeOK'
  <2>1. identity' \in Ids \union {None} /\ made' \in 0..MaxIds
      BY <1>4, InstallAssumption DEF Initialize, Ids
  <2> QED
    BY <1>4, <2>1 DEF Initialize, Goto, Installing
<1>5. ASSUME NEW c \in Callers, InitializeState(c) PROVE InstallTypeOK'
  <2>1. Undeclared \in Tables
      BY DEF Undeclared, Tables
  <2> QED
    BY <1>5, <2>1, InstallAssumption DEF InitializeState, Goto, Installing
<1>6. ASSUME NEW c \in Callers, MakeBudget(c) PROVE InstallTypeOK'
    BY <1>6 DEF MakeBudget, Goto, Installing, Placed, Busy
<1>7. ASSUME NEW c \in Callers, CreateLedger(c) PROVE InstallTypeOK'
  <2>1. Ceilings(c) \in Grants
      BY DEF Ceilings, Grants
  <2> QED
    BY <1>7, <2>1 DEF CreateLedger, Goto, Installing
<1>8. ASSUME NEW c \in Callers, Declare(c) PROVE InstallTypeOK'
  <2>1. state \in Tables /\ budget[c] \in Budgets /\ profile[budget[c]] \in Tables
      BY <1>8, InstallAssumption DEF Declare, Opens, Placed, Busy, Installing
  <2>2. state' \in Tables
      BY <1>8, <2>1 DEF Declare, Tables
  <2> QED
    BY <1>8, <2>2 DEF Declare, Goto, Installing
<1>9. ASSUME NEW c \in Callers, Publish(c) PROVE InstallTypeOK'
  <2> DEFINE m == [coordinator |-> identity, grant |-> Ceilings(c)]
  <2>1. m \in Marks
      BY <1>9 DEF Publish, Opens, Ceilings, Grants, Marks
  <2>2. marker' = [marker EXCEPT ![budget[c]] = m]
      BY <1>9 DEF Publish
  <2>3. binding' = [binding EXCEPT ![c] = m]
      BY <1>9 DEF Publish
  <2>4. issued' = [issued EXCEPT ![budget[c]] = @ \union {m}]
      BY <1>9 DEF Publish
  <2>5. m \in [coordinator : Ids \union {None}, grant : Grants \union {None}]
      BY <2>1 DEF Marks
  <2> HIDE DEF m
  <2>6. /\ marker' \in [Budgets -> Marks \union {Bare}]
        /\ issued' \in [Budgets -> SUBSET Marks]
        /\ binding' \in [Callers -> [coordinator : Ids \union {None}, grant : Grants \union {None}]]
      BY <2>1, <2>2, <2>3, <2>4, <2>5
  <2> QED
    BY <1>9, <2>6 DEF Publish, Goto, Unlocked
<1>10. ASSUME NEW c \in Callers, Resume(c) PROVE InstallTypeOK'
  <2> DEFINE m == marker[budget[c]]
  <2>1. budget[c] \in Budgets /\ m # Bare
      BY <1>10 DEF Resume, Placed, Busy, Marked, Prepared, Bare
  <2>2. m \in Marks
      BY <2>1
  <2>3. m \in [coordinator : Ids \union {None}, grant : Grants \union {None}]
      BY <2>2 DEF Marks
  <2>4. binding' = [binding EXCEPT ![c] = m] /\ issued' = [issued EXCEPT ![budget[c]] = @ \union {m}]
      BY <1>10 DEF Resume
  <2> HIDE DEF m
  <2>5. /\ issued' \in [Budgets -> SUBSET Marks]
        /\ binding' \in [Callers -> [coordinator : Ids \union {None}, grant : Grants \union {None}]]
      BY <2>2, <2>3, <2>4
  <2> QED
    BY <1>10, <2>5 DEF Resume, Goto, Unlocked
<1>11. ASSUME NEW c \in Callers, Require(c) PROVE InstallTypeOK'
    BY <1>11 DEF Require, Goto
<1>12. ASSUME NEW c \in Callers, Charge(c) PROVE InstallTypeOK'
    BY <1>12 DEF Charge, Goto, Placed, Busy
<1>13. ASSUME NEW b \in Budgets, Extend(b) PROVE InstallTypeOK'
    BY <1>13 DEF Extend
<1>14. ASSUME NEW c \in Callers, End(c) PROVE InstallTypeOK'
    BY <1>14 DEF End, Goto, Unlocked, Bare
<1>15. ASSUME NEW id \in BOOLEAN, NEW table \in BOOLEAN, NEW marks \in SUBSET Budgets,
              NEW ledgers \in SUBSET Budgets, Lose(id, table, marks, ledgers)
       PROVE  InstallTypeOK'
    BY <1>15, InstallAssumption DEF Lose
<1>16. CASE UNCHANGED installVars
    BY <1>16 DEF installVars
<1>17. ASSUME NEW g \in Groups, NEW p \in Policies \ {None}, Transition(g, p)
       PROVE  InstallTypeOK'
  <2>1. state \in Tables
      BY <1>17 DEF Transition, Opens
  <2>2. state' \in Tables
      BY <1>17, <2>1 DEF Transition, Tables
  <2>3. revisions' \in [Groups -> 0..MaxRevisions]
      BY <1>17, InstallAssumption DEF Transition
  <2> QED
    BY <1>17, <2>2, <2>3 DEF Transition
<1> QED
    BY <1>1, <1>2, <1>3, <1>4, <1>5, <1>6, <1>7, <1>8, <1>9, <1>10, <1>11, <1>12, <1>13, <1>14,
       <1>15, <1>16, <1>17 DEF InstallNext, Step

(***************************************************************************)
(* What one caller writes leaves the others where they are: two installers *)
(* of one budget are the same, one coordinator is created at a time, and   *)
(* nobody charges what is being installed.                                 *)
(***************************************************************************)
LEMMA LoneInstaller ==
    ASSUME InstallInv, NEW c \in Callers, NEW d \in Callers,
           \/ pc[c] \in Installing /\ pc[d] \in Installing /\ budget[c] = budget[d]
           \/ pc[c] = "state" /\ pc[d] = "state"
    PROVE  c = d
BY DEF InstallInv, Exclusive

LEMMA ExclusiveKept == InstallInv /\ [InstallNext]_installVars => Exclusive'
<1> SUFFICES ASSUME InstallInv, [InstallNext]_installVars PROVE Exclusive'
    OBVIOUS
<1> USE DEF InstallInv, InstallTypeOK, Exclusive
<1>1. ASSUME NEW c \in Callers, Step(c) PROVE Exclusive'
  <2>1. \A d \in Callers : d # c => pc'[d] = pc[d]
      BY <1>1 DEF Step, Begin, Survey, OpenCoordinator, Initialize, InitializeState, MakeBudget,
         CreateLedger, Declare, Publish, Resume, Require, Charge, End, Goto
  <2>2. \A d \in Callers : d # c => budget'[d] = budget[d]
      BY <1>1 DEF Step, Begin, Survey, OpenCoordinator, Initialize, InitializeState, MakeBudget,
         CreateLedger, Declare, Publish, Resume, Require, Charge, End, request, history
  <2>3. ASSUME NEW d \in Callers, d # c, pc[d] \in Installing
        PROVE  initLock'[ParentOf[budget[d]]] = d /\ (pc[d] = "state" => rootLock' = d)
    <3>1. ParentOf[budget[d]] \in Parents
        BY <2>3, InstallAssumption DEF Placed, Busy
    <3>2. initLock[ParentOf[budget[d]]] = d /\ (pc[d] = "state" => rootLock = d)
        BY <2>3
    <3>3. \/ initLock' = initLock \/ initLock' = Unlocked(c)
          \/ \E r : initLock[r] = None /\ initLock' = [initLock EXCEPT ![r] = c]
        BY <1>1 DEF Step, Begin, Survey, OpenCoordinator, Initialize, InitializeState, MakeBudget,
           CreateLedger, Declare, Publish, Resume, Require, Charge, End, locks
    <3>4. rootLock = d => rootLock' = d
      <4>1. CASE InitializeState(c)
          BY <2>3, <4>1 DEF InitializeState
      <4>2. CASE ~InitializeState(c)
          BY <1>1, <2>3, <4>2, InstallAssumption DEF Step, Begin, Survey, OpenCoordinator,
             Initialize, MakeBudget, CreateLedger, Declare, Publish, Resume, Require, Charge, End, locks
      <4> QED
        BY <4>1, <4>2
    <3>5. initLock'[ParentOf[budget[d]]] = d
        BY <2>3, <3>1, <3>2, <3>3, InstallAssumption DEF Unlocked
    <3> QED
      BY <2>3, <3>2, <3>4, <3>5
  <2>4. pc'[c] \in Installing => initLock'[ParentOf[budget'[c]]] = c
    <3>1. CASE Survey(c)
        BY <3>1, InstallAssumption DEF Survey, Placed, Busy, request
    <3>2. CASE ~Survey(c)
        BY <1>1, <3>2 DEF Step, Begin, OpenCoordinator, Initialize, InitializeState, MakeBudget,
           CreateLedger, Declare, Publish, Resume, Require, Charge, End, Goto, Installing, locks,
           request
    <3> QED
      BY <3>1, <3>2
  <2>5. pc'[c] = "state" => rootLock' = c
      BY <1>1 DEF Step, Begin, Survey, OpenCoordinator, Initialize, InitializeState, MakeBudget,
         CreateLedger, Declare, Publish, Resume, Require, Charge, End, Goto
  <2> QED
    BY <2>1, <2>2, <2>3, <2>4, <2>5 DEF Installing
<1>2. ASSUME NEW b \in Budgets, Extend(b) PROVE Exclusive'
    BY <1>2 DEF Extend, locks, request
<1>3. ASSUME NEW id \in BOOLEAN, NEW table \in BOOLEAN, NEW marks \in SUBSET Budgets,
             NEW ledgers \in SUBSET Budgets, Lose(id, table, marks, ledgers)
      PROVE  Exclusive'
    BY <1>3 DEF Lose, locks, request
<1>4. CASE UNCHANGED installVars
    BY <1>4 DEF installVars
<1>5. ASSUME NEW g \in Groups, NEW p \in Policies \ {None}, Transition(g, p) PROVE Exclusive'
    BY <1>5 DEF Transition, locks, request
<1> QED
    BY <1>1, <1>2, <1>3, <1>4, <1>5 DEF InstallNext

(***************************************************************************)
(* The callers, the records and the markers, step by step.                 *)
(***************************************************************************)
Facts == /\ \A c \in Callers : Placed(c)
         /\ \A b \in Budgets : Recorded(b)
         /\ \A b \in Budgets : Tied(b)

\* Steps that only look: the files and what was charged stay.
LEMMA LookingKeeps ==
    ASSUME InstallInv, NEW c \in Callers, UNCHANGED <<files, charged>>,
           \A d \in Callers \ {c} : /\ pc'[d] = pc[d] /\ budget'[d] = budget[d]
                                    /\ ask'[d] = ask[d] /\ binding'[d] = binding[d],
           Placed(c)'
    PROVE  Facts'
<1>1. ASSUME NEW d \in Callers \ {c} PROVE Placed(d)'
    BY <1>1 DEF InstallInv, Placed, files, Marked, Granted, Ceilings, Opens, Wanted, Runs
<1>2. \A b \in Budgets : Recorded(b)' /\ Tied(b)'
    BY DEF InstallInv, Recorded, Tied, files, Marked, Granted, Opens, Wanted, Runs
<1> QED
    BY <1>1, <1>2 DEF Facts

LEMMA FactsKept == InstallInv /\ [InstallNext]_installVars => Facts'
<1> SUFFICES ASSUME InstallInv, [InstallNext]_installVars PROVE Facts'
    OBVIOUS
<1>0. InstallTypeOK /\ \A c \in Callers : Placed(c)
    BY DEF InstallInv
<1>1. ASSUME NEW c \in Callers, NEW b \in Budgets, NEW g \in Asked \union {None},
             NEW known \in [coordinator : Ids \union {None}, grant : Grants \union {None}],
             Begin(c, b, g, known)
      PROVE  Facts'
  <2>1. pc'[c] \in {"resume", "lock"} /\ budget'[c] = b
      BY <1>0, <1>1 DEF Begin, Goto, InstallTypeOK
  <2>2. Placed(c)'
      BY <2>1 DEF Placed, Busy, Installing
  <2> QED
    BY <1>0, <1>1, <2>2, LookingKeeps DEF Begin, Goto, InstallTypeOK, history
<1>2. ASSUME NEW c \in Callers, Survey(c) PROVE Facts'
  <2> DEFINE b == budget[c]
  <2>1. b \in Budgets /\ Recorded(b)
      BY <1>2 DEF Survey, InstallInv, Placed, Busy
  <2>2. pc'[c] = "coordinate" => ~Marked(b) /\ charged[b] = {}
      BY <1>0, <1>2, <2>1 DEF Survey, Goto, InstallTypeOK, Recorded, Unused
  <2>3. pc'[c] \in {"resume", "coordinate"}
      BY <1>0, <1>2 DEF Survey, Goto, InstallTypeOK
  <2>4. Placed(c)'
      BY <1>2, <2>1, <2>2, <2>3 DEF Survey, Placed, Busy, Installing, files, request, history, Marked
  <2> QED
    BY <1>0, <1>2, <2>4, LookingKeeps DEF Survey, Goto, InstallTypeOK, request, history
<1>3. ASSUME NEW c \in Callers, OpenCoordinator(c) PROVE Facts'
  <2>1. Placed(c)'
      BY <1>0, <1>3 DEF OpenCoordinator, Goto, InstallTypeOK, Placed, Busy, Installing, files, request,
         history, Marked, Opens
  <2> QED
    BY <1>0, <1>3, <2>1, LookingKeeps DEF OpenCoordinator, Goto, InstallTypeOK, request, history
<1>4. ASSUME NEW c \in Callers, Initialize(c) PROVE Facts'
  <2>1. CASE Opens(identity) /\ Goto(c, "budget") /\ UNCHANGED files
    <3>1. Placed(c)'
        BY <1>0, <1>4, <2>1 DEF Initialize, Goto, InstallTypeOK, Placed, Busy, Installing, files,
           request, history, Marked, Opens
    <3> QED
      BY <1>0, <1>4, <2>1, <3>1, LookingKeeps DEF Initialize, Goto, InstallTypeOK, request, history
  <2>2. CASE /\ identity = None /\ state = None /\ made < MaxIds
             /\ identity' = made + 1 /\ Goto(c, "state")
             /\ UNCHANGED <<state, revisions, profile, dir, grant, touched, marker, losses>>
    <3>0. identity' # None
        BY <1>0, <1>4, <2>2, InstallAssumption DEF Initialize, InstallTypeOK, Ids, Opens
    <3>1. Placed(c)'
        BY <1>0, <1>4, <2>2, <3>0 DEF Initialize, Goto, InstallTypeOK, Placed, Busy, Installing, request,
           history, Marked
    <3>2. ASSUME NEW d \in Callers \ {c} PROVE Placed(d)'
      <4>1. pc[d] \notin Installing \ {"coordinate"} /\ pc[d] # "charge"
          BY <1>0, <1>4, <2>2 DEF Initialize, Installing, Placed, Opens
      <4> QED
        BY <1>0, <1>4, <2>2, <4>1 DEF Initialize, Goto, InstallTypeOK, Placed, Busy, Installing, Marked,
           request, history
    <3>3. \A b \in Budgets : Recorded(b)'
        BY <1>4, <2>2 DEF Initialize, InstallInv, Recorded, history, Marked
    <3>4. \A b \in Budgets : Tied(b)'
        BY <1>4, <2>2 DEF Initialize, InstallInv, Tied, Marked, Opens
    <3> QED
      BY <3>1, <3>2, <3>3, <3>4 DEF Facts
  <2> QED
    BY <1>4, <2>1, <2>2 DEF Initialize
<1>5. ASSUME NEW c \in Callers, InitializeState(c) PROVE Facts'
  <2>1. state = None /\ identity' = identity
      BY <1>0, <1>5 DEF InitializeState, Placed
  <2>2. ASSUME NEW d \in Callers \ {c} PROVE Placed(d)'
    <3>1. pc[d] \notin Installing \ {"coordinate"} /\ pc[d] # "charge"
        BY <1>0, <1>5, <2>1, LoneInstaller DEF InitializeState, Installing, Placed, Opens
    <3> QED
      BY <1>0, <1>5, <3>1 DEF InitializeState, Goto, InstallTypeOK, Placed, Busy, Installing, Marked,
         request, history
  <2>3. \A b \in Budgets : Recorded(b)'
      BY <1>5 DEF InitializeState, InstallInv, Recorded, history, Marked
  <2>4. \A b \in Budgets : Tied(b)'
      BY <1>5, <2>1 DEF InitializeState, InstallInv, Tied, Marked, Opens
  <2>5. identity # None
      BY <1>0, <1>5 DEF InitializeState, Placed
  <2>6. Undeclared # None
      BY InstallAssumption DEF Undeclared, Tables
  <2>7. Placed(c)'
      BY <1>0, <1>5, <2>5, <2>6 DEF InitializeState, Goto, InstallTypeOK, Placed, Busy, Installing,
         request, history, Marked, Opens
  <2> QED
    BY <2>2, <2>3, <2>4, <2>7 DEF Facts
<1>6. ASSUME NEW c \in Callers, MakeBudget(c) PROVE Facts'
  <2>1. \A d \in Callers : Placed(d)'
      BY <1>0, <1>6 DEF MakeBudget, Goto, InstallTypeOK, Placed, Busy, Installing, request, history,
         Marked, Opens, Granted, Ceilings, Wanted, Runs
  <2>2. \A b \in Budgets : Recorded(b)' /\ Tied(b)'
      BY <1>6 DEF MakeBudget, InstallInv, Recorded, Tied, history, Marked, Opens, Granted, Wanted, Runs
  <2> QED
    BY <2>1, <2>2 DEF Facts
<1>7. ASSUME NEW c \in Callers, CreateLedger(c) PROVE Facts'
  <2> DEFINE b == budget[c]
  <2>1. b \in Budgets /\ ~Marked(b) /\ charged[b] = {} /\ b \in dir /\ Opens(identity)
      BY <1>0, <1>7 DEF CreateLedger, Placed, Busy, Installing
  <2>2. /\ Granted(b, Ceilings(c))'
        /\ \A e \in Budgets \ {b} : grant'[e] = grant[e]
    <3>1. Ceilings(c) # None /\ Ceilings(c)' = Ceilings(c)
        BY <1>0, <1>7, InstallAssumption DEF CreateLedger, Ceilings, Grants, InstallTypeOK, request
    <3> QED
      BY <1>0, <1>7, <2>1, <3>1 DEF CreateLedger, Granted, InstallTypeOK, request
  <2>3. Placed(c)'
      BY <1>0, <1>7, <2>1, <2>2 DEF CreateLedger, Goto, InstallTypeOK, Placed, Busy, Installing,
         request, history, Marked, Opens
  <2>4. ASSUME NEW d \in Callers \ {c} PROVE Placed(d)'
    <3>1. pc[d] \in Installing \union {"charge"} => budget[d] # b
        BY <1>0, <1>7, <2>1, LoneInstaller DEF CreateLedger, Installing, Placed
    <3>2. /\ pc'[d] = pc[d]
          /\ UNCHANGED <<budget, ask, binding, marker, identity, state, revisions, profile, dir, charged>>
        BY <1>0, <1>7 DEF CreateLedger, Goto, InstallTypeOK, request, history
    <3> QED
      BY <1>0, <2>2, <3>1, <3>2
      DEF Placed, Busy, Installing, Marked, Opens, Granted, Ceilings, Wanted, Runs
  <2>5. ASSUME NEW e \in Budgets PROVE Recorded(e)' /\ Tied(e)'
    <3>1. CASE e = b
        BY <1>7, <2>1, <3>1 DEF CreateLedger, InstallInv, Recorded, Tied, Marked, history
    <3>2. CASE e # b
        BY <1>7, <2>2, <3>2 DEF CreateLedger, InstallInv, Recorded, Tied, Marked, history, Opens,
           Granted, Wanted, Runs
    <3> QED
      BY <3>1, <3>2
  <2> QED
    BY <2>3, <2>4, <2>5 DEF Facts
<1>8. ASSUME NEW c \in Callers, Declare(c) PROVE Facts'
  <2> DEFINE b == budget[c]
  <2>1. b \in Budgets /\ ~Marked(b) /\ charged[b] = {} /\ b \in dir /\ Granted(b, Ceilings(c))
      BY <1>0, <1>8 DEF Declare, Placed, Busy, Installing
  <2>2. /\ Opens(identity) /\ UNCHANGED <<identity, profile>>
        /\ \A g \in Wanted(b) : state[g] \in {None, profile[b][g]}
        /\ state' = [g \in Groups |-> IF g \in Wanted(b) THEN profile[b][g] ELSE state[g]]
      BY <1>8 DEF Declare
  <2>3. state' # None
    <3>1. state' \in Tables
        BY <1>0, <1>8, InstallKeepsTypes, <2>1, <2>2, InstallAssumption DEF InstallTypeOK, Tables, Opens
    <3> QED
      BY <3>1, InstallAssumption
  <2>4. \A g \in Wanted(b) : state'[g] = profile[b][g] /\ profile[b][g] # None
      BY <2>2 DEF Wanted, Runs
  <2>5. \A g \in Groups : state[g] # None => state'[g] = state[g]
      BY <2>2 DEF Wanted, Runs
  <2>9. UNCHANGED <<revisions, profile>>
      BY <1>8 DEF Declare
  <2>10. \A e \in Budgets :
           (\A g \in Wanted(e) : Runs(g, profile[e][g])) => \A g \in Wanted(e)' : Runs(g, profile[e][g])'
      BY <2>5, <2>9 DEF Wanted, Runs
  <2>6. Placed(c)'
      BY <1>0, <1>8, <2>1, <2>2, <2>3, <2>4 DEF Declare, Goto, InstallTypeOK, Placed, Busy, Installing,
         request, history, Marked, Opens, Granted, Ceilings, Wanted, Runs
  <2>7. ASSUME NEW d \in Callers \ {c} PROVE Placed(d)'
    <3>1. /\ pc'[d] = pc[d]
          /\ UNCHANGED <<budget, ask, binding, marker, identity, grant, dir, charged>>
        BY <1>0, <1>8 DEF Declare, Goto, InstallTypeOK, request, history
    <3>2. pc[d] # "state"
        BY <1>0, <2>2 DEF Placed, Opens
    <3> QED
      BY <1>0, <2>3, <2>10, <3>1, <3>2
      DEF Placed, Busy, Installing, Marked, Opens, Granted, Ceilings
  <2>8. ASSUME NEW e \in Budgets PROVE Recorded(e)' /\ Tied(e)'
      BY <1>8, <2>2, <2>3, <2>10 DEF Declare, InstallInv, Recorded, Tied, Marked, history, Opens,
         Granted
  <2> QED
    BY <2>6, <2>7, <2>8 DEF Facts
<1>9. ASSUME NEW c \in Callers, Publish(c) PROVE Facts'
  <2> DEFINE b == budget[c]
             m == [coordinator |-> identity, grant |-> Ceilings(c)]
  <2>1. /\ b \in Budgets /\ ~Marked(b) /\ charged[b] = {} /\ b \in dir
        /\ Opens(identity) /\ Granted(b, Ceilings(c))
        /\ \A g \in Wanted(b) : Runs(g, profile[b][g])
      BY <1>0, <1>9 DEF Publish, Placed, Busy, Installing
  <2>2. /\ marker'[b] = m /\ binding'[c] = m
        /\ \A e \in Budgets \ {b} : marker'[e] = marker[e]
        /\ \A d \in Callers \ {c} : binding'[d] = binding[d]
      BY <1>0, <1>9, <2>1 DEF Publish, InstallTypeOK
  <2>3. m.coordinator = identity /\ m.grant = Ceilings(c) /\ m.grant # None
      BY <2>1 DEF Granted
  <2> HIDE DEF m
  <2>4. UNCHANGED <<identity, state, revisions, profile, dir, grant, touched, losses, budget, charged>>
      BY <1>9 DEF Publish
  <2>5. pc'[c] = "ready" /\ \A d \in Callers \ {c} : pc'[d] = pc[d] /\ ask'[d] = ask[d]
      BY <1>0, <1>9 DEF Publish, Goto, InstallTypeOK
  <2>6. Placed(c)'
      BY <2>1, <2>2, <2>3, <2>4, <2>5 DEF Placed, Busy, Installing, Prepared
  <2>7. ASSUME NEW d \in Callers \ {c} PROVE Placed(d)'
    <3>1. pc[d] \in Installing \union {"charge"} => budget[d] # b
        BY <1>0, <1>9, <2>1, LoneInstaller DEF Publish, Installing, Placed
    <3> QED
      BY <1>0, <2>2, <2>4, <2>5, <3>1
      DEF Placed, Busy, Installing, Marked, Opens, Granted, Ceilings, Wanted, Runs
  <2>8. ASSUME NEW e \in Budgets PROVE Recorded(e)' /\ Tied(e)'
    <3>1. CASE e = b
        BY <2>1, <2>2, <2>3, <2>4, <3>1 DEF InstallInv, Recorded, Tied, Marked, Opens, Granted, Wanted, Runs
    <3>2. CASE e # b
        BY <2>2, <2>4, <3>2 DEF InstallInv, Recorded, Tied, Marked, Opens, Granted, Wanted, Runs
    <3> QED
      BY <3>1, <3>2
  <2> QED
    BY <2>6, <2>7, <2>8 DEF Facts
<1>10. ASSUME NEW c \in Callers, Resume(c) PROVE Facts'
  <2> DEFINE b == budget[c]
  <2>1. b \in Budgets /\ Marked(b) /\ UNCHANGED <<files, budget, charged>>
      BY <1>0, <1>10 DEF Resume, Placed, Busy
  <2>2. pc'[c] = "ready" /\ binding'[c] = marker[b]
      BY <1>0, <1>10 DEF Resume, Goto, InstallTypeOK
  <2>3. Placed(c)'
      BY <2>1, <2>2 DEF Placed, Busy, Installing, Marked
  <2> QED
    BY <1>0, <1>10, <2>1, <2>3, LookingKeeps DEF Resume, Goto, InstallTypeOK
<1>11. ASSUME NEW c \in Callers, Require(c) PROVE Facts'
  <2> DEFINE b == budget[c]
  <2>1. /\ b \in Budgets /\ Marked(b) /\ Opens(marker[b].coordinator) /\ grant[b] # None
        /\ pc'[c] = "charge"
      BY <1>0, <1>11 DEF Require, Placed, Busy, Marked, Granted, Goto, InstallTypeOK
  <2>2. Placed(c)'
      BY <1>11, <2>1 DEF Require, Placed, Busy, Installing, files, request, Marked, Opens
  <2> QED
    BY <1>0, <1>11, <2>2, LookingKeeps DEF Require, Goto, InstallTypeOK, request, history
<1>12. ASSUME NEW c \in Callers, Charge(c) PROVE Facts'
  <2> DEFINE b == budget[c]
  <2>1. /\ b \in Budgets /\ Marked(b) /\ Opens(marker[b].coordinator) /\ grant[b] # None
        /\ marker[b] = binding[c]
      BY <1>0, <1>12 DEF Charge, Placed, Busy
  <2>2. Prepared(binding[c])
      BY <2>1 DEF Marked
  <2>3. /\ charged'[b] = {identity} /\ identity \in Ids
        /\ \A e \in Budgets \ {b} : charged'[e] = charged[e]
      BY <1>0, <1>12, <2>1 DEF Charge, InstallInv, InstallTypeOK, Recorded, Opens
  <2>4. Placed(c)'
      BY <1>0, <1>12, <2>1, <2>2 DEF Charge, Goto, InstallTypeOK, Placed, Busy, Installing, request
  <2>5. ASSUME NEW d \in Callers \ {c} PROVE Placed(d)'
    <3>1. pc[d] \in Installing => budget[d] # b
        BY <1>0, <2>1 DEF Placed
    <3>2. pc'[d] = pc[d]
        BY <1>0, <1>12 DEF Charge, Goto, InstallTypeOK
    <3> QED
      BY <1>0, <1>12, <2>3, <3>1, <3>2 DEF Charge, Placed, Busy, Installing, Marked, Opens, Granted,
         Ceilings, Wanted, Runs, request
  <2>6. ASSUME NEW e \in Budgets PROVE Recorded(e)' /\ Tied(e)'
    <3>1. Tied(e)'
        BY <1>12 DEF Charge, InstallInv, Tied, Marked, Opens, Granted, Wanted, Runs
    <3>2. UNCHANGED <<identity, grant, marker, dir>> /\ touched' = touched \union {b}
        BY <1>12 DEF Charge
    <3>3. Recorded(e)
        BY DEF InstallInv
    <3> HIDE DEF b
    <3>4. CASE e = b
        BY <2>1, <2>3, <3>1, <3>2, <3>3, <3>4 DEF Recorded, Opens
    <3>5. CASE e # b
        BY <2>3, <3>1, <3>2, <3>3, <3>5 DEF Recorded, Marked
    <3> QED
      BY <3>4, <3>5
  <2> QED
    BY <2>4, <2>5, <2>6 DEF Facts
<1>13. ASSUME NEW b \in Budgets, Extend(b) PROVE Facts'
  <2>1. \A d \in Callers : Placed(d)'
      BY <1>0, <1>13 DEF Extend, Placed, Busy, Installing, request, history, Marked, Opens, Granted,
         Ceilings, Wanted, Runs
  <2>2. \A e \in Budgets : Recorded(e)' /\ Tied(e)'
      BY <1>13 DEF Extend, InstallInv, Recorded, Tied, history, Marked, Opens, Granted, Wanted, Runs
  <2> QED
    BY <2>1, <2>2 DEF Facts
<1>14. ASSUME NEW c \in Callers, End(c) PROVE Facts'
  <2>1. pc'[c] = "idle"
      BY <1>0, <1>14 DEF End, Goto, InstallTypeOK
  <2>2. Placed(c)'
      BY <2>1 DEF Placed, Busy, Installing
  <2> QED
    BY <1>0, <1>14, <2>2, LookingKeeps DEF End, Goto, InstallTypeOK, history
<1>15. ASSUME NEW id \in BOOLEAN, NEW table \in BOOLEAN, NEW marks \in SUBSET Budgets,
              NEW ledgers \in SUBSET Budgets, Lose(id, table, marks, ledgers)
       PROVE  Facts'
  <2>1. \A d \in Callers : Placed(d)'
      BY <1>15 DEF Lose, Placed, Busy, Installing
  <2>2. ASSUME NEW b \in Budgets PROVE Recorded(b)' /\ Tied(b)'
    <3>1. /\ grant'[b] \in {None, grant[b]} /\ marker'[b] \in {Bare, marker[b]}
          /\ grant'[b] # None => b \notin ledgers
        BY <1>15 DEF Lose
    <3>2. Marked(b)' => Marked(b) /\ marker'[b] = marker[b]
        BY <3>1 DEF Marked, Prepared, Bare
    <3>3. losses' # 0 /\ dir' = dir /\ charged' = charged /\ touched' = touched \ ledgers
        BY <1>0, <1>15 DEF Lose, InstallTypeOK, history
    <3> QED
      BY <3>1, <3>2, <3>3 DEF InstallInv, Recorded, Tied
  <2> QED
    BY <2>1, <2>2 DEF Facts
<1>16. CASE UNCHANGED installVars
  <2>1. \A d \in Callers : Placed(d)'
      BY <1>0, <1>16 DEF installVars, Placed, Busy, Installing, Marked, Opens, Granted, Ceilings, Wanted, Runs
  <2>2. \A e \in Budgets : Recorded(e)' /\ Tied(e)'
      BY <1>16 DEF installVars, InstallInv, Recorded, Tied, Marked, Opens, Granted, Wanted, Runs
  <2> QED
    BY <2>1, <2>2 DEF Facts
<1>17. ASSUME NEW g \in Groups, NEW p \in Policies \ {None}, Transition(g, p) PROVE Facts'
  <2>1. Opens(identity) /\ state \in Tables
      BY <1>0, <1>17 DEF Transition, Opens, InstallTypeOK
  <2>2. state' \in Tables
    <3>1. p \in Policies \union {None}
        BY <1>17
    <3> QED
      BY <1>17, <2>1, <3>1 DEF Transition, Tables
  <2>3. state' # None
      BY <2>2, InstallAssumption
  <2>4. \A h \in Groups : \A q : Runs(h, q) => Runs(h, q)'
    <3>1. revisions'[g] # 0 /\ state'[g] # None
        BY <1>0, <1>17, <2>1, InstallAssumption DEF Transition, InstallTypeOK, Tables
    <3>2. \A h \in Groups \ {g} : revisions'[h] = revisions[h] /\ state'[h] = state[h]
        BY <1>0, <1>17, <2>1 DEF Transition, InstallTypeOK, Tables
    <3> QED
      BY <3>1, <3>2 DEF Runs
  <2>5. \A b \in Budgets :
          (\A h \in Wanted(b) : Runs(h, profile[b][h])) => \A h \in Wanted(b)' : Runs(h, profile[b][h])'
      BY <1>17, <2>4 DEF Transition, Wanted, Runs
  <2>6. ASSUME NEW d \in Callers PROVE Placed(d)'
    <3>1. pc[d] # "state"
        BY <1>0, <2>1 DEF Placed, Opens
    <3> QED
      BY <1>0, <1>17, <2>1, <2>3, <2>5, <3>1 DEF Transition, Placed, Busy, Installing, request, history,
         Marked, Opens, Granted, Ceilings
  <2>7. ASSUME NEW e \in Budgets PROVE Recorded(e)' /\ Tied(e)'
      BY <1>17, <2>1, <2>3, <2>5 DEF Transition, InstallInv, Recorded, Tied, Marked, history, Opens,
         Granted
  <2> QED
    BY <2>6, <2>7 DEF Facts
<1> QED
    BY <1>1, <1>2, <1>3, <1>4, <1>5, <1>6, <1>7, <1>8, <1>9, <1>10, <1>11, <1>12, <1>13, <1>14,
       <1>15, <1>16, <1>17 DEF InstallNext, Step

-----------------------------------------------------------------------------
(***************************************************************************)
(* The inductive invariant of prepare_resources and its users.             *)
(***************************************************************************)
THEOREM InstallInvariant == InstallSpec => []InstallInv
<1>1. InstallInv /\ [InstallNext]_installVars => InstallInv'
    BY InstallKeepsTypes, ExclusiveKept, FactsKept DEF Facts, InstallInv
<1> QED
    BY <1>1, InstallInitially, PTL DEF InstallSpec

(***************************************************************************)
(* Installation keeps its type: whoever prepares what, files hold what     *)
(* prepare_resources writes.                                               *)
(***************************************************************************)
THEOREM InstallTyped == InstallSpec => []InstallTypeOK
<1>1. InstallInv => InstallTypeOK
    BY DEF InstallInv
<1> QED
    BY <1>1, InstallInvariant, PTL

(***************************************************************************)
(* However installers died and whatever files were lost between runs, the  *)
(* work of an allocation was under one coordinator and is on its ledger.   *)
(***************************************************************************)
THEOREM WorkAlwaysStands == InstallSpec => []WorkStands
<1>1. InstallInv => WorkStands
    BY DEF InstallInv, Recorded, WorkStands
<1> QED
    BY <1>1, InstallInvariant, PTL

(***************************************************************************)
(* A published marker ties together what is there, for any number of       *)
(* installers, budgets, groups and profiles.                               *)
(***************************************************************************)
THEOREM MarkersStand == InstallSpec => []MarkerStands
<1>1. InstallInv => MarkerStands
    BY DEF InstallInv, Tied, MarkerStands
<1> QED
    BY <1>1, InstallInvariant, PTL
=============================================================================
