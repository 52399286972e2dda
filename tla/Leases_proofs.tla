---------------------------- MODULE Leases_proofs ----------------------------
(***************************************************************************)
(* What is proved of the two lease protocols: the formalization store,     *)
(* whose workers hold a task by a token that expires, and the theory       *)
(* lease, by which a process shows that it lives.                          *)
(***************************************************************************)
EXTENDS FormalizationStore, TheoryLease, FiniteSetTheorems, TLAPS

-----------------------------------------------------------------------------
(***************************************************************************)
(* Proofs about FormalizationStore, for any tasks, workers and bounds.     *)
(*                                                                         *)
(* The graph part of the invariant (Consistent) says that the stored       *)
(* counts are the true ones, that what is ready, running or verified has   *)
(* only verified prerequisites, and that what waits is ready or blocked    *)
(* exactly when it should be; it survives because what is thrown away is   *)
(* closed under dependents.  The worker part (Hands) says that whoever     *)
(* still holds a lease has read what stands now; it survives because       *)
(* tokens are never used twice and whatever changes what was read takes    *)
(* the lease away.                                                         *)
(***************************************************************************)

AttemptRows == [task : Tasks, outcome : Outcomes]
StateMaps == [Tasks -> States]
CountMaps == [Tasks -> Nat]
DepMaps == [Tasks -> SUBSET Tasks]

-----------------------------------------------------------------------------
(* Dependents is the least set that holds the seeds and is closed.         *)
LEMMA DependentsClosed ==
    ASSUME NEW seed \in SUBSET Tasks, NEW within \in SUBSET Tasks, NEW dep \in DepMaps
    PROVE  /\ Dependents(seed, within, dep) \subseteq Tasks
           /\ seed \subseteq Dependents(seed, within, dep)
           /\ \A e \in within : dep[e] \intersect Dependents(seed, within, dep) # {} =>
                e \in Dependents(seed, within, dep)
BY DEF Dependents

LEMMA DependentsLeast ==
    ASSUME NEW seed, NEW within, NEW dep, NEW S \in SUBSET Tasks,
           seed \subseteq S, \A e \in within : dep[e] \intersect S # {} => e \in S
    PROVE  Dependents(seed, within, dep) \subseteq S
<1> DEFINE more == S \intersect (within \ seed)
           least == seed \union more
<1>1. more \in SUBSET (within \ seed) /\ least \subseteq S
  OBVIOUS
<1>2. \A e \in within \ least : dep[e] \intersect least = {}
  OBVIOUS
<1>3. Dependents(seed, within, dep) \subseteq least
  <2> HIDE DEF more
  <2> QED
    BY <1>1, <1>2 DEF Dependents
<1> QED
  BY <1>1, <1>3

LEMMA DescendantsClosed ==
    ASSUME NEW t \in Tasks, NEW dep \in DepMaps
    PROVE  /\ Descendants(t, dep) \subseteq Tasks /\ t \in Descendants(t, dep)
           /\ \A e \in Tasks, p \in Descendants(t, dep) : p \in dep[e] => e \in Descendants(t, dep)
BY DependentsClosed DEF Descendants

LEMMA UnverifiedFinite ==
    ASSUME NEW t \in Tasks, NEW st, NEW dep \in DepMaps
    PROVE  /\ IsFiniteSet(Unverified(t, st, dep))
           /\ Cardinality(Unverified(t, st, dep)) \in Nat
           /\ Cardinality(Unverified(t, st, dep)) = 0 <=> Unverified(t, st, dep) = {}
<1>1. Unverified(t, st, dep) \subseteq Tasks
  BY DEF Unverified, DepMaps
<1>2. IsFiniteSet(Unverified(t, st, dep))
  BY <1>1, StoreAssumption, FS_Subset
<1> QED
  BY <1>2, FS_CardinalityType, FS_EmptySet

(* A refresh counts the affected tasks again and moves only waiting ones.  *)
LEMMA RefreshedFacts ==
    ASSUME NEW st \in StateMaps, NEW rem \in CountMaps, NEW dep \in DepMaps,
           NEW affected \in SUBSET Tasks
    PROVE  LET new == Refreshed(affected, st, rem, dep) IN
           /\ new.state \in StateMaps /\ new.count \in CountMaps
           /\ \A t \in Tasks : new.state[t] # st[t] =>
                t \in affected /\ st[t] \in Waiting /\ new.state[t] \in Waiting
           /\ \A t \in affected : new.count[t] = Cardinality(Unverified(t, st, dep))
           /\ \A t \in Tasks \ affected : new.count[t] = rem[t]
           /\ \A t \in affected : new.state[t] = "ready" => new.count[t] = 0
           /\ \A t \in Tasks : Unverified(t, new.state, dep) = Unverified(t, st, dep)
<1> DEFINE counts == Recounted(affected, st, rem, dep)
           woken == Woken(affected, st, counts)
           new == Refreshed(affected, st, rem, dep)
<1>1. new.count = counts /\ new.state = Blocked(affected, woken, dep)
  BY DEF Refreshed
<1>2. counts \in CountMaps
      /\ (\A t \in affected : counts[t] = Cardinality(Unverified(t, st, dep)))
      /\ \A t \in Tasks \ affected : counts[t] = rem[t]
  BY UnverifiedFinite DEF Recounted, CountMaps
<1> HIDE DEF counts
<1>3. woken \in StateMaps
      /\ \A t \in Tasks : woken[t] =
           IF t \notin affected \/ st[t] \notin Waiting THEN st[t]
           ELSE IF counts[t] = 0 THEN "ready" ELSE "pending"
  BY DEF Woken, StateMaps, States
<1> HIDE DEF woken
<1>4. \A t \in Stuck(affected, woken, dep) : t \in affected
  <2>1. Stuck(affected, woken, dep) \subseteq affected
    BY DependentsLeast DEF Stuck
  <2> QED
    BY <2>1
<1>5. new.state \in StateMaps
      /\ \A t \in Tasks : new.state[t] =
           IF t \in Stuck(affected, woken, dep) /\ woken[t] \in {"pending", "ready"}
           THEN "blocked" ELSE woken[t]
  BY <1>1, <1>3 DEF Blocked, StateMaps, States
<1> HIDE DEF new
<1>6. \A t \in Tasks : new.state[t] # st[t] =>
        t \in affected /\ st[t] \in Waiting /\ new.state[t] \in Waiting
  <2> SUFFICES ASSUME NEW t \in Tasks, new.state[t] # st[t]
               PROVE  t \in affected /\ st[t] \in Waiting /\ new.state[t] \in Waiting
    OBVIOUS
  <2>1. CASE new.state[t] = woken[t]
    BY <1>3, <2>1 DEF Waiting
  <2>2. CASE new.state[t] # woken[t]
    <3>1. t \in affected /\ new.state[t] = "blocked" /\ woken[t] \in {"pending", "ready"}
      BY <1>4, <1>5, <2>2
    <3> QED
      BY <1>3, <3>1 DEF Waiting
  <2> QED
    BY <2>1, <2>2
<1>7. \A t \in affected : new.state[t] = "ready" => new.count[t] = 0
  BY <1>1, <1>2, <1>3, <1>5, <1>6 DEF Waiting, StateMaps
<1>8. \A t \in Tasks : Unverified(t, new.state, dep) = Unverified(t, st, dep)
  <2>1. \A t \in Tasks : new.state[t] # "verified" <=> st[t] # "verified"
    BY <1>6 DEF Waiting
  <2> QED
    BY <2>1 DEF Unverified, DepMaps
<1> QED
  BY <1>1, <1>2, <1>5, <1>6, <1>7, <1>8 DEF new

-----------------------------------------------------------------------------
(* A graph whose counts are true, whose admitted tasks are supported and   *)
(* whose waiting tasks wait for a reason.                                  *)
Grounded(t, st, dep) ==
    /\ \A p \in dep[t] : st[p] # "absent"
    /\ st[t] = "absent" => dep[t] = {}

Counted(t, st, rem, dep) ==
    st[t] # "absent" => rem[t] = Cardinality(Unverified(t, st, dep))

Supported(t, st, dep) ==
    st[t] \in {"ready", "running", "verified"} => Unverified(t, st, dep) = {}

Bad(t, st, dep) == \E p \in dep[t] : st[p] \in {"failed", "blocked"}

Readied(t, st, dep) ==
    st[t] \in Waiting =>
        /\ st[t] = "ready" <=> Unverified(t, st, dep) = {}
        /\ st[t] = "blocked" <=> Bad(t, st, dep)

Consistent(st, rem, dep) ==
    /\ \A t \in Tasks : Grounded(t, st, dep)
    /\ \A t \in Tasks : Counted(t, st, rem, dep)
    /\ \A t \in Tasks : Supported(t, st, dep)
    /\ \A t \in Tasks : Readied(t, st, dep)

(* What the walk over blocked tasks reaches has an unverified prerequisite *)
(* and ends up with a failed or blocked one; what it misses has none.      *)
LEMMA RefreshReadies ==
    ASSUME NEW st \in StateMaps, NEW rem \in CountMaps, NEW dep \in DepMaps,
           NEW affected \in SUBSET Tasks,
           \A t \in Tasks : Grounded(t, st, dep),
           \A t \in Tasks \ affected : Readied(t, st, dep),
           \A t \in affected : st[t] \in {"running", "verified"} => Unverified(t, st, dep) = {},
           \A t \in Tasks \ affected : \A p \in dep[t] \intersect affected :
               st[p] = "pending" /\ Unverified(p, st, dep) = {}
    PROVE  \A t \in Tasks : Readied(t, Refreshed(affected, st, rem, dep).state, dep)
<1> DEFINE counts == Recounted(affected, st, rem, dep)
           woken == Woken(affected, st, counts)
           stuck == Stuck(affected, woken, dep)
           new == Refreshed(affected, st, rem, dep).state
<1>1. woken \in StateMaps
      /\ \A t \in Tasks : woken[t] =
           IF t \notin affected \/ st[t] \notin Waiting THEN st[t]
           ELSE IF Unverified(t, st, dep) = {} THEN "ready" ELSE "pending"
  <2>1. \A t \in affected : counts[t] = 0 <=> Unverified(t, st, dep) = {}
    BY UnverifiedFinite DEF Recounted
  <2> HIDE DEF counts
  <2> QED
    BY <2>1 DEF Woken, StateMaps, States
<1>2. /\ new = Blocked(affected, woken, dep)
      /\ \A t \in Tasks : /\ new[t] # st[t] => t \in affected /\ st[t] \in Waiting
                         /\ Unverified(t, new, dep) = Unverified(t, st, dep)
  BY RefreshedFacts DEF Refreshed
<1> HIDE DEF woken, counts
<1>3. \A t \in Tasks : new[t] =
        IF t \in stuck /\ woken[t] \in {"pending", "ready"} THEN "blocked" ELSE woken[t]
  BY <1>2 DEF Blocked
<1> HIDE DEF new
<1>4. /\ \A d \in affected : Bad(d, woken, dep) => d \in stuck
      /\ \A e \in affected : dep[e] \intersect stuck # {} => e \in stuck
  <2> DEFINE seed == {d \in affected : \E p \in dep[d] : woken[p] \in {"failed", "blocked"}}
  <2>1. seed \in SUBSET Tasks /\ \A d \in affected : Bad(d, woken, dep) => d \in seed
    BY DEF Bad
  <2>2. stuck = Dependents(seed, affected, dep)
    BY DEF Stuck
  <2> HIDE DEF seed, stuck
  <2> QED
    BY <2>1, <2>2, DependentsClosed
<1>5. ASSUME NEW S \in SUBSET Tasks,
             \A d \in affected : Bad(d, woken, dep) => d \in S,
             \A e \in affected : dep[e] \intersect S # {} => e \in S
      PROVE  stuck \subseteq S
  <2> DEFINE seed == {d \in affected : \E p \in dep[d] : woken[p] \in {"failed", "blocked"}}
  <2>1. seed \subseteq S
    BY <1>5 DEF Bad
  <2>2. stuck = Dependents(seed, affected, dep)
    BY DEF Stuck
  <2> HIDE DEF seed, stuck
  <2> QED
    BY <1>5, <2>1, <2>2, DependentsLeast
<1> HIDE DEF stuck
<1>6. \A t \in stuck : t \in affected /\ Unverified(t, st, dep) # {}
  <2> DEFINE S == {d \in affected : Unverified(d, st, dep) # {}}
  <2>1. ASSUME NEW d \in affected, Bad(d, woken, dep) PROVE d \in S
    <3>1. PICK p \in dep[d] : woken[p] \in {"failed", "blocked"}
      BY <2>1 DEF Bad
    <3>2. p \in Tasks /\ st[p] # "verified"
      BY <1>1, <3>1 DEF DepMaps, Waiting
    <3> QED
      BY <3>2 DEF Unverified
  <2>2. ASSUME NEW e \in affected, dep[e] \intersect S # {} PROVE e \in S
    <3>1. PICK p \in dep[e] : p \in affected /\ Unverified(p, st, dep) # {}
      BY <2>2
    <3>2. st[p] # "verified"
      BY <3>1
    <3> QED
      BY <3>2 DEF Unverified
  <2>3. S \in SUBSET Tasks /\ \A d \in S : d \in affected /\ Unverified(d, st, dep) # {}
    OBVIOUS
  <2> HIDE DEF S
  <2>4. stuck \subseteq S
    BY <1>5, <2>1, <2>2, <2>3
  <2> QED
    BY <2>3, <2>4
<1>7. \A t \in stuck : Bad(t, new, dep)
  <2> DEFINE S == {d \in stuck : Bad(d, new, dep)}
  <2>1. ASSUME NEW d \in affected, Bad(d, woken, dep) PROVE d \in S
    <3>1. PICK p \in dep[d] : woken[p] \in {"failed", "blocked"}
      BY <2>1 DEF Bad
    <3>2. p \in Tasks /\ new[p] = woken[p]
      BY <1>3, <3>1 DEF DepMaps
    <3> QED
      BY <1>4, <2>1, <3>1, <3>2 DEF Bad
  <2>2. ASSUME NEW e \in affected, dep[e] \intersect S # {} PROVE e \in S
    <3>1. PICK p \in dep[e] : p \in stuck
      BY <2>2
    <3>2. p \in affected /\ Unverified(p, st, dep) # {}
      BY <1>6, <3>1
    <3>3. st[p] \notin {"running", "verified"} /\ st[p] \in States
      BY <3>2 DEF StateMaps
    <3>4. st[p] # "absent"
      BY <3>2 DEF Grounded, Unverified
    <3>5. new[p] \in {"failed", "blocked"}
      BY <1>1, <1>3, <3>1, <3>2, <3>3, <3>4 DEF States, Waiting
    <3> QED
      BY <1>4, <3>1, <3>5 DEF Bad
  <2>3. S \in SUBSET Tasks /\ \A d \in S : Bad(d, new, dep)
    BY <1>6
  <2> HIDE DEF S
  <2>4. stuck \subseteq S
    BY <1>5, <2>1, <2>2, <2>3
  <2> QED
    BY <2>3, <2>4
<1>8. ASSUME NEW t \in affected, new[t] \in Waiting PROVE Readied(t, new, dep)
  <2>1. woken[t] = IF Unverified(t, st, dep) = {} THEN "ready" ELSE "pending"
    BY <1>1, <1>2, <1>8
  <2>2. CASE t \in stuck
    BY <1>2, <1>3, <1>6, <1>7, <2>1, <2>2 DEF Readied
  <2>3. CASE t \notin stuck
    <3>1. new[t] = woken[t]
      BY <1>3, <2>3
    <3>2. ~Bad(t, new, dep)
      <4>1. ASSUME NEW p \in dep[t], new[p] \in {"failed", "blocked"} PROVE FALSE
        <5>1. p \in Tasks /\ p \notin stuck
          BY <1>4, <2>3 DEF DepMaps
        <5>2. woken[p] \in {"failed", "blocked"}
          BY <1>3, <4>1, <5>1
        <5> QED
          BY <1>4, <2>3, <5>2 DEF Bad
      <4> QED
        BY <4>1 DEF Bad
    <3> QED
      BY <1>2, <2>1, <3>1, <3>2 DEF Readied
  <2> QED
    BY <2>2, <2>3
<1>9. ASSUME NEW t \in Tasks \ affected PROVE Readied(t, new, dep)
  <2>1. \A p \in dep[t] : new[p] \in {"failed", "blocked"} <=> st[p] \in {"failed", "blocked"}
    <3> TAKE p \in dep[t]
    <3>1. p \in Tasks
      BY DEF DepMaps
    <3>2. CASE p \in affected
      <4>1. st[p] = "pending" /\ woken[p] = "ready" /\ p \notin stuck
        BY <1>1, <1>6, <3>1, <3>2 DEF Waiting
      <4> QED
        BY <1>3, <3>1, <4>1
    <3>3. CASE p \notin affected
      BY <1>2, <3>1, <3>3
    <3> QED
      BY <3>2, <3>3
  <2>2. Bad(t, new, dep) <=> Bad(t, st, dep)
    BY <2>1 DEF Bad
  <2>3. Readied(t, st, dep) /\ new[t] = st[t]
    BY <1>2
  <2> QED
    BY <1>2, <2>2, <2>3 DEF Readied
<1>10. ASSUME NEW t \in Tasks PROVE Readied(t, new, dep)
  <2>1. CASE new[t] \notin Waiting
    BY <2>1 DEF Readied
  <2> QED
    BY <1>8, <1>9, <2>1
<1> QED
  BY <1>10 DEF new

LEMMA Refreshing ==
    ASSUME NEW st \in StateMaps, NEW rem \in CountMaps, NEW dep \in DepMaps,
           NEW affected \in SUBSET Tasks,
           \A t \in Tasks : Grounded(t, st, dep),
           \A t \in Tasks \ affected :
               Counted(t, st, rem, dep) /\ Supported(t, st, dep) /\ Readied(t, st, dep),
           \A t \in affected : st[t] \in {"running", "verified"} => Unverified(t, st, dep) = {},
           \A t \in Tasks \ affected : \A p \in dep[t] \intersect affected :
               st[p] = "pending" /\ Unverified(p, st, dep) = {}
    PROVE  LET new == Refreshed(affected, st, rem, dep)
           IN  Consistent(new.state, new.count, dep)
<1> DEFINE new == Refreshed(affected, st, rem, dep)
<1>1. /\ \A t \in Tasks : new.state[t] # st[t] =>
           t \in affected /\ st[t] \in Waiting /\ new.state[t] \in Waiting
      /\ \A t \in affected : new.count[t] = Cardinality(Unverified(t, st, dep))
      /\ \A t \in Tasks \ affected : new.count[t] = rem[t]
      /\ \A t \in affected : new.state[t] = "ready" => new.count[t] = 0
      /\ \A t \in Tasks : Unverified(t, new.state, dep) = Unverified(t, st, dep)
  BY RefreshedFacts
<1> HIDE DEF new
<1>2. ASSUME NEW t \in Tasks PROVE Grounded(t, new.state, dep)
  <2>1. \A p \in Tasks : new.state[p] = "absent" <=> st[p] = "absent"
    BY <1>1 DEF Waiting
  <2> QED
    BY <2>1 DEF Grounded, DepMaps
<1>3. ASSUME NEW t \in Tasks PROVE Counted(t, new.state, new.count, dep)
  BY <1>1 DEF Counted, Waiting
<1>4. ASSUME NEW t \in Tasks PROVE Supported(t, new.state, dep)
  <2>1. CASE new.state[t] = "ready" /\ t \in affected
    <3>1. Cardinality(Unverified(t, st, dep)) = 0
      BY <1>1, <2>1
    <3>2. Unverified(t, st, dep) = {}
      BY <3>1, UnverifiedFinite
    <3> QED
      BY <1>1, <3>2 DEF Supported
  <2>2. CASE new.state[t] # "ready" \/ t \notin affected
    BY <1>1, <2>2 DEF Supported, Waiting
  <2> QED
    BY <2>1, <2>2 DEF Supported
<1>5. \A t \in Tasks : Readied(t, new.state, dep)
  BY RefreshReadies DEF new
<1> QED
  BY <1>2, <1>3, <1>4, <1>5 DEF Consistent, new

(* A batch of new tasks enters the graph.                                  *)
LEMMA Adding ==
    ASSUME StoreTypeOK, Consistent(state, remaining, deps),
           NEW batch \in SUBSET (Tasks \ Known), NEW plan \in Plans(batch)
    PROVE  /\ Merged(plan) \in DepMaps
           /\ Added(plan).state \in StateMaps /\ Added(plan).count \in CountMaps
           /\ Consistent(Added(plan).state, Added(plan).count, Merged(plan))
           /\ \A t \in Known : Added(plan).state[t] = state[t] /\ Merged(plan)[t] = deps[t]
           /\ \A t \in Tasks : state[t] # "absent" => Added(plan).state[t] # "absent"
           /\ \A t \in batch : Added(plan).state[t] \in Waiting
           /\ \A t \in Tasks \ batch : Added(plan).state[t] = state[t]
<1> DEFINE dep == Merged(plan)
           st == Without(batch, state, "pending")
<1>1. plan \in [batch -> SUBSET (Known \union batch)] /\ DOMAIN plan = batch
      /\ batch \subseteq Tasks /\ Known \subseteq Tasks
  BY DEF Plans, Known
<1>2. state \in StateMaps /\ remaining \in CountMaps /\ deps \in DepMaps
  BY DEF StoreTypeOK, StateMaps, CountMaps, DepMaps
<1>3. dep \in DepMaps /\ \A t \in Tasks : dep[t] = IF t \in batch THEN plan[t] ELSE deps[t]
  BY <1>1, <1>2 DEF Merged, DepMaps
<1>4. st \in StateMaps /\ \A t \in Tasks : st[t] = IF t \in batch THEN "pending" ELSE state[t]
  BY <1>2 DEF Without, StateMaps, States
<1>5. Added(plan) = Refreshed(batch, st, remaining, dep)
  BY <1>1 DEF Added
<1> HIDE DEF dep, st
<1>6. ASSUME NEW t \in Tasks PROVE Grounded(t, st, dep)
  <2>1. CASE t \in batch
    BY <1>1, <1>3, <1>4, <2>1 DEF Grounded, Known
  <2>2. CASE t \notin batch
    <3>1. Grounded(t, state, deps)
      BY DEF Consistent
    <3> QED
      BY <1>1, <1>2, <1>3, <1>4, <2>2, <3>1 DEF Grounded, DepMaps
  <2> QED
    BY <2>1, <2>2
<1>7. ASSUME NEW t \in Tasks \ batch
      PROVE  /\ Counted(t, st, remaining, dep) /\ Supported(t, st, dep) /\ Readied(t, st, dep)
             /\ dep[t] \intersect batch = {}
  <2>1. /\ Grounded(t, state, deps) /\ Counted(t, state, remaining, deps)
        /\ Supported(t, state, deps) /\ Readied(t, state, deps)
    BY DEF Consistent
  <2>2. \A p \in deps[t] : p \in Tasks /\ p \notin batch
    BY <1>1, <1>2, <2>1 DEF Grounded, Known, DepMaps
  <2>3. Unverified(t, st, dep) = Unverified(t, state, deps)
    BY <1>3, <1>4, <2>2 DEF Unverified
  <2>4. Bad(t, st, dep) <=> Bad(t, state, deps)
    BY <1>3, <1>4, <2>2 DEF Bad
  <2> QED
    BY <1>3, <1>4, <2>1, <2>2, <2>3, <2>4 DEF Counted, Supported, Readied
<1>8. Consistent(Added(plan).state, Added(plan).count, dep)
  <2>1. \A t \in batch : st[t] = "pending"
    BY <1>1, <1>4
  <2> QED
    BY <1>1, <1>2, <1>3, <1>4, <1>5, <1>6, <1>7, <2>1, Refreshing
<1>9. /\ Added(plan).state \in StateMaps /\ Added(plan).count \in CountMaps
      /\ \A t \in Tasks : Added(plan).state[t] # st[t] =>
           t \in batch /\ st[t] \in Waiting /\ Added(plan).state[t] \in Waiting
  BY <1>1, <1>2, <1>3, <1>4, <1>5, RefreshedFacts
<1>10. \A t \in Tasks \ batch : Added(plan).state[t] = state[t]
  BY <1>4, <1>9
<1>11. \A t \in batch : Added(plan).state[t] \in Waiting
  BY <1>1, <1>4, <1>9 DEF Waiting
<1>12. \A t \in Known : t \in Tasks \ batch /\ dep[t] = deps[t]
  BY <1>1, <1>3 DEF Known
<1> QED
  BY <1>3, <1>8, <1>9, <1>10, <1>11, <1>12 DEF dep, Known, Waiting

(* Tasks that are closed under dependents are thrown back.                 *)
LEMMA ThrowingBack ==
    ASSUME NEW st \in StateMaps, NEW rem \in CountMaps, NEW old \in DepMaps,
           NEW t \in Tasks, NEW dep \in DepMaps,
           Consistent(st, rem, old), st[t] # "absent",
           \A d \in Tasks : d # t => dep[d] = old[d],
           \A p \in dep[t] : st[p] # "absent"
    PROVE  LET set == Descendants(t, dep)
               new == Refreshed(set, Without(set, st, "pending"), rem, dep)
           IN  /\ Consistent(new.state, new.count, dep)
               /\ new.state \in StateMaps /\ new.count \in CountMaps
               /\ \A d \in set : new.state[d] \in Waiting /\ st[d] # "absent"
               /\ \A d \in Tasks \ set : new.state[d] = st[d]
<1> DEFINE set == Descendants(t, dep)
           base == Without(set, st, "pending")
           new == Refreshed(set, base, rem, dep)
<1>1. /\ set \subseteq Tasks /\ t \in set
      /\ \A e \in Tasks, p \in set : p \in dep[e] => e \in set
  BY DescendantsClosed
<1>2. base \in StateMaps /\ \A d \in Tasks : base[d] = IF d \in set THEN "pending" ELSE st[d]
  BY DEF Without, StateMaps, States
<1>3. \A d \in set : st[d] # "absent"
  <2> DEFINE present == {d \in Tasks : st[d] # "absent"}
  <2>1. \A e \in Tasks : dep[e] \intersect present # {} => e \in present
    BY DEF Consistent, Grounded
  <2>2. {t} \subseteq present /\ present \in SUBSET Tasks
    OBVIOUS
  <2>3. \A d \in present : st[d] # "absent"
    OBVIOUS
  <2> HIDE DEF present
  <2>4. set \subseteq present
    BY <2>1, <2>2, DependentsLeast DEF Descendants
  <2> QED
    BY <2>3, <2>4
<1> HIDE DEF set, base
<1>4. ASSUME NEW d \in Tasks PROVE Grounded(d, base, dep)
  <2>1. \A p \in Tasks : base[p] = "absent" <=> st[p] = "absent"
    BY <1>2, <1>3
  <2>2. Grounded(d, st, dep)
    BY DEF Consistent, Grounded
  <2> QED
    BY <2>1, <2>2 DEF Grounded, DepMaps
<1>5. ASSUME NEW d \in Tasks \ set
      PROVE  /\ Counted(d, base, rem, dep) /\ Supported(d, base, dep) /\ Readied(d, base, dep)
             /\ dep[d] \intersect set = {}
  <2>1. /\ Counted(d, st, rem, old) /\ Supported(d, st, old) /\ Readied(d, st, old)
        /\ dep[d] = old[d] /\ base[d] = st[d]
    BY <1>1, <1>2 DEF Consistent
  <2>2. \A p \in dep[d] : p \in Tasks /\ p \notin set
    BY <1>1 DEF DepMaps
  <2>3. Unverified(d, base, dep) = Unverified(d, st, old)
    BY <1>2, <2>1, <2>2 DEF Unverified
  <2>4. Bad(d, base, dep) <=> Bad(d, st, old)
    BY <1>2, <2>1, <2>2 DEF Bad
  <2> QED
    BY <2>1, <2>2, <2>3, <2>4 DEF Counted, Supported, Readied
<1>6. \A d \in set : base[d] = "pending"
  BY <1>1, <1>2
<1>7. Consistent(new.state, new.count, dep)
  BY <1>1, <1>2, <1>4, <1>5, <1>6, Refreshing
<1>8. /\ new.state \in StateMaps /\ new.count \in CountMaps
      /\ \A d \in Tasks : new.state[d] # base[d] =>
           d \in set /\ base[d] \in Waiting /\ new.state[d] \in Waiting
  BY <1>1, <1>2, RefreshedFacts
<1> HIDE DEF new
<1>9. \A d \in set : new.state[d] \in Waiting
  BY <1>1, <1>6, <1>8 DEF Waiting
<1>10. \A d \in Tasks \ set : new.state[d] = st[d]
  BY <1>2, <1>8
<1> QED
  BY <1>3, <1>7, <1>8, <1>9, <1>10 DEF new, base, set

-----------------------------------------------------------------------------
(* A lease is an open attempt of its task, and every open attempt a lease. *)
AttemptsAgree ==
    /\ \A t \in Tasks : token[t] # None =>
          /\ state[t] = "running"
          /\ token[t] \in DOMAIN attempts
          /\ attempts[token[t]] = [task |-> t, outcome |-> "open"]
    /\ \A a \in DOMAIN attempts :
          attempts[a].outcome = "open" => token[attempts[a].task] = a

(* A worker works on the task of its attempt; while it holds the lease,    *)
(* what it has read stands.                                                *)
HandAt(w) ==
    worker[w] # Idle =>
        /\ worker[w].token \in DOMAIN attempts
        /\ attempts[worker[w].token].task = worker[w].task
        /\ (worker[w].read # None /\ token[worker[w].task] = worker[w].token) =>
              worker[w].read = Reading(worker[w].task)

Hands == \A w \in Workers : HandAt(w)

PublishedAt(t) == state[t] = "verified" => result[t] = Reading(t)

Published == \A t \in Tasks : PublishedAt(t)

FrozenAt(t) ==
    session[t] # None =>
        /\ state[t] # "absent"
        /\ session[t].text = text[t]
        /\ \A p \in Tasks : session[t].basis[p] # None =>
             p \in deps[t] /\ generation[p] = session[t].basis[p]

Frozen == \A t \in Tasks : FrozenAt(t)

StoreInv ==
    /\ StoreTypeOK /\ Consistent(state, remaining, deps)
    /\ AttemptsAgree /\ Hands /\ Published /\ Frozen

LEMMA TypeFacts ==
    ASSUME StoreTypeOK
    PROVE  /\ state \in StateMaps /\ remaining \in CountMaps /\ deps \in DepMaps
           /\ attempts \in Seq(AttemptRows) /\ DOMAIN attempts = 1..Len(attempts)
           /\ Len(attempts) \in Nat
           /\ \A a \in DOMAIN attempts : attempts[a] \in AttemptRows
<1>1. attempts \in Seq(AttemptRows)
  BY DEF StoreTypeOK, AttemptRows
<1>2. /\ DOMAIN attempts = 1..Len(attempts) /\ Len(attempts) \in Nat
      /\ \A a \in DOMAIN attempts : attempts[a] \in AttemptRows
  BY <1>1
<1> QED
  BY <1>1, <1>2 DEF StoreTypeOK, StateMaps, CountMaps, DepMaps

LEMMA WorkerFacts ==
    ASSUME StoreTypeOK, NEW w \in Workers, worker[w] # Idle
    PROVE  worker[w] \in [task : Tasks, token : Tokens, generation : Nat,
                          read : Readings \union {None}]
BY DEF StoreTypeOK

LEMMA ReadingTyped ==
    ASSUME StoreTypeOK, NEW t \in Tasks
    PROVE  Reading(t) \in Readings
BY DEF StoreTypeOK, Reading, Readings

LEMMA ReadingPieces ==
    ASSUME NEW t \in Tasks
    PROVE  /\ Reading(t).text = text[t]
           /\ \A p \in Tasks : Reading(t).basis[p] # None =>
                p \in deps[t] /\ generation[p] = Reading(t).basis[p]
BY DEF Reading

LEMMA SameReading ==
    ASSUME NEW t \in Tasks, text'[t] = text[t], deps'[t] = deps[t],
           \A p \in deps[t] : generation'[p] = generation[p]
    PROVE  Reading(t)' = Reading(t)
BY DEF Reading

LEMMA EndedFacts ==
    ASSUME StoreTypeOK, AttemptsAgree, NEW set \in SUBSET Tasks, NEW outcome \in Outcomes \ {"open"}
    PROVE  /\ Ended(set, outcome) \in Seq(AttemptRows)
           /\ Len(Ended(set, outcome)) = Len(attempts)
           /\ DOMAIN Ended(set, outcome) = DOMAIN attempts
           /\ \A a \in DOMAIN attempts :
                IF attempts[a].outcome = "open" /\ attempts[a].task \in set
                THEN Ended(set, outcome)[a] = [task |-> attempts[a].task, outcome |-> outcome]
                ELSE Ended(set, outcome)[a] = attempts[a]
<1> DEFINE ended == Ended(set, outcome)
<1>1. attempts \in Seq(AttemptRows) /\ DOMAIN attempts = 1..Len(attempts) /\ Len(attempts) \in Nat
      /\ \A a \in DOMAIN attempts : attempts[a] \in AttemptRows
  BY TypeFacts
<1>2. \A a \in DOMAIN attempts : attempts[a].outcome = "open" =>
        ((\E t \in set : token[t] = a) <=> attempts[a].task \in set)
  <2> TAKE a \in DOMAIN attempts
  <2> HAVE attempts[a].outcome = "open"
  <2>1. token[attempts[a].task] = a
    BY DEF AttemptsAgree
  <2>2. ASSUME NEW t \in set, token[t] = a PROVE attempts[a].task = t
    <3>1. token[t] # None
      BY <1>1, <2>2, StoreAssumption
    <3>2. attempts[token[t]] = [task |-> t, outcome |-> "open"]
      BY <3>1 DEF AttemptsAgree
    <3> QED
      BY <2>2, <3>2
  <2> QED
    BY <2>1, <2>2
<1>3. /\ DOMAIN ended = 1..Len(attempts)
      /\ \A a \in 1..Len(attempts) : ended[a] =
           IF attempts[a].outcome = "open" /\ \E t \in set : token[t] = a
           THEN [attempts[a] EXCEPT !.outcome = outcome] ELSE attempts[a]
  BY <1>1 DEF Ended
<1> HIDE DEF ended
<1>4. \A a \in 1..Len(attempts) :
        IF attempts[a].outcome = "open" /\ attempts[a].task \in set
        THEN ended[a] = [task |-> attempts[a].task, outcome |-> outcome]
        ELSE ended[a] = attempts[a]
  BY <1>1, <1>2, <1>3 DEF AttemptRows
<1>5. \A a \in 1..Len(attempts) : ended[a] \in AttemptRows
  <2> TAKE a \in 1..Len(attempts)
  <2>1. CASE attempts[a].outcome = "open" /\ attempts[a].task \in set
    <3>1. attempts[a].task \in Tasks /\ outcome \in Outcomes
      BY <2>1
    <3>2. ended[a] = [task |-> attempts[a].task, outcome |-> outcome]
      BY <1>4, <2>1
    <3> QED
      BY <3>1, <3>2 DEF AttemptRows
  <2>2. CASE ~(attempts[a].outcome = "open" /\ attempts[a].task \in set)
    BY <1>1, <1>4, <2>2
  <2> QED
    BY <2>1, <2>2
<1>6. ended \in [1..Len(attempts) -> AttemptRows]
  <2>1. ended = [a \in 1..Len(attempts) |-> ended[a]]
    BY <1>1 DEF ended, Ended
  <2> QED
    BY <1>5, <2>1
<1>7. ended \in Seq(AttemptRows) /\ Len(ended) = Len(attempts)
  BY <1>1, <1>6
<1> QED
  BY <1>1, <1>3, <1>4, <1>7 DEF ended

-----------------------------------------------------------------------------
(* Running tasks stop running without a result: a lease ran out, or the    *)
(* attempt failed.                                                         *)
LEMMA Demoting ==
    ASSUME StoreTypeOK, Consistent(state, remaining, deps),
           NEW D \in SUBSET Tasks, NEW affected \in SUBSET Tasks, D \subseteq affected,
           NEW st \in StateMaps,
           \A t \in D : state[t] = "running" /\ st[t] \in {"pending", "failed"},
           \A t \in Tasks \ D : st[t] = state[t],
           \A t \in Tasks \ affected : \A p \in deps[t] \intersect affected :
               p \in D /\ st[p] = "pending"
    PROVE  LET new == Refreshed(affected, st, remaining, deps)
           IN  /\ Consistent(new.state, new.count, deps)
               /\ new.state \in StateMaps /\ new.count \in CountMaps
               /\ \A t \in D : new.state[t] \in Waiting \union {"failed"}
               /\ \A t \in Tasks \ D : new.state[t] # state[t] =>
                    state[t] \in Waiting /\ new.state[t] \in Waiting
<1> DEFINE new == Refreshed(affected, st, remaining, deps)
<1>1. state \in StateMaps /\ remaining \in CountMaps /\ deps \in DepMaps
  BY TypeFacts
<1>2. \A t \in Tasks : Unverified(t, st, deps) = Unverified(t, state, deps)
  <2>1. \A t \in Tasks : st[t] # "verified" <=> state[t] # "verified"
    OBVIOUS
  <2> QED
    BY <1>1, <2>1 DEF Unverified, DepMaps
<1>3. ASSUME NEW t \in Tasks
      PROVE  Grounded(t, st, deps) /\ Counted(t, st, remaining, deps) /\ Supported(t, st, deps)
  <2>1. Grounded(t, state, deps) /\ Counted(t, state, remaining, deps) /\ Supported(t, state, deps)
    BY DEF Consistent
  <2>2. \A p \in Tasks : st[p] = "absent" <=> state[p] = "absent"
    OBVIOUS
  <2> QED
    BY <1>1, <1>2, <2>1, <2>2 DEF Grounded, Counted, Supported, DepMaps
<1>4. Consistent(new.state, new.count, deps)
  <2>1. \A t \in affected : st[t] \in {"running", "verified"} => Unverified(t, st, deps) = {}
    BY <1>3 DEF Supported
  <2>2. \A t \in Tasks \ affected : \A p \in deps[t] \intersect affected :
          st[p] = "pending" /\ Unverified(p, st, deps) = {}
    BY <1>2 DEF Consistent, Supported
  <2>3. ASSUME NEW t \in Tasks \ affected PROVE Readied(t, st, deps)
    <3>1. Readied(t, state, deps) /\ st[t] = state[t]
      BY DEF Consistent
    <3>2. \A p \in deps[t] : st[p] \in {"failed", "blocked"} <=> state[p] \in {"failed", "blocked"}
      <4> TAKE p \in deps[t]
      <4>1. p \in Tasks
        BY <1>1 DEF DepMaps
      <4>2. CASE p \in D
        BY <4>2
      <4>3. CASE p \notin D
        BY <4>1, <4>3
      <4> QED
        BY <4>2, <4>3
    <3>3. Bad(t, st, deps) <=> Bad(t, state, deps)
      BY <3>2 DEF Bad
    <3> QED
      BY <1>2, <3>1, <3>3 DEF Readied
  <2> QED
    BY <1>1, <1>3, <2>1, <2>2, <2>3, Refreshing
<1>5. /\ new.state \in StateMaps /\ new.count \in CountMaps
      /\ \A t \in Tasks : new.state[t] # st[t] =>
           t \in affected /\ st[t] \in Waiting /\ new.state[t] \in Waiting
  BY <1>1, RefreshedFacts
<1> HIDE DEF new
<1> QED
  BY <1>4, <1>5 DEF new, Waiting

LEMMA Reaping ==
    ASSUME StoreTypeOK, Consistent(state, remaining, deps)
    PROVE  /\ Consistent(Reaped.state, Reaped.count, deps)
           /\ Reaped.state \in StateMaps /\ Reaped.count \in CountMaps
           /\ Expired \subseteq Tasks
           /\ \A t \in Expired : Reaped.state[t] \notin {"running", "verified", "absent"}
           /\ \A t \in Tasks \ Expired : Reaped.state[t] # state[t] =>
                state[t] \in Waiting /\ Reaped.state[t] \in Waiting
<1> DEFINE st == Without(Expired, state, "pending")
<1>1. Expired \in SUBSET Tasks /\ \A t \in Expired : state[t] = "running"
  BY DEF Expired
<1>2. st \in StateMaps /\ \A t \in Tasks : st[t] = IF t \in Expired THEN "pending" ELSE state[t]
  BY TypeFacts DEF Without, StateMaps, States
<1>3. Reaped = Refreshed(Expired, st, remaining, deps)
  BY DEF Reaped
<1> HIDE DEF st
<1>4. /\ Consistent(Reaped.state, Reaped.count, deps)
      /\ Reaped.state \in StateMaps /\ Reaped.count \in CountMaps
      /\ \A t \in Expired : Reaped.state[t] \in Waiting \union {"failed"}
      /\ \A t \in Tasks \ Expired : Reaped.state[t] # state[t] =>
           state[t] \in Waiting /\ Reaped.state[t] \in Waiting
  BY <1>1, <1>2, <1>3, Demoting
<1> QED
  BY <1>1, <1>4 DEF Waiting

-----------------------------------------------------------------------------
(* A graph step that keeps what was read: known tasks keep their contract, *)
(* and a task that is verified or running afterwards was so before.        *)
LEMMA GraphStep ==
    ASSUME StoreInv,
           UNCHANGED <<generation, text, result, session, worker>>,
           \A t \in Tasks : token'[t] # None => token'[t] = token[t],
           \A a \in DOMAIN attempts : a \in DOMAIN attempts' /\ attempts'[a].task = attempts[a].task,
           \A t \in Known : deps'[t] = deps[t] /\ state'[t] # "absent",
           \A t \in Tasks : state'[t] = "verified" => state[t] = "verified"
    PROVE  Hands' /\ Published' /\ Frozen'
<1> USE DEF StoreInv
<1>1. ASSUME NEW t \in Known PROVE t \in Tasks /\ Reading(t)' = Reading(t)
  BY <1>1, SameReading DEF Known
<1>2. ASSUME NEW w \in Workers PROVE HandAt(w)'
  <2> SUFFICES ASSUME worker[w] # Idle
               PROVE  /\ worker[w].token \in DOMAIN attempts'
                      /\ attempts'[worker[w].token].task = worker[w].task
                      /\ (worker[w].read # None /\ token'[worker[w].task] = worker[w].token) =>
                            worker[w].read = Reading(worker[w].task)'
    BY DEF HandAt
  <2>1. HandAt(w) /\ worker[w].task \in Tasks /\ worker[w].token \in Tokens
    BY WorkerFacts DEF Hands
  <2>2. ASSUME token'[worker[w].task] = worker[w].token
        PROVE  token[worker[w].task] = worker[w].token /\ worker[w].task \in Known
    <3>1. worker[w].token # None
      BY <2>1, StoreAssumption DEF Tokens
    <3>2. token[worker[w].task] = worker[w].token
      BY <2>1, <2>2, <3>1
    <3>3. state[worker[w].task] = "running"
      BY <2>1, <3>1, <3>2 DEF AttemptsAgree
    <3> QED
      BY <2>1, <3>2, <3>3 DEF Known
  <2> QED
    BY <1>1, <2>1, <2>2 DEF HandAt
<1>3. ASSUME NEW t \in Tasks PROVE PublishedAt(t)'
  <2>1. PublishedAt(t)
    BY DEF Published
  <2>2. state[t] = "verified" => t \in Known
    BY DEF Known
  <2> QED
    BY <1>1, <2>1, <2>2 DEF PublishedAt
<1>4. ASSUME NEW t \in Tasks PROVE FrozenAt(t)'
  <2>1. FrozenAt(t)
    BY DEF Frozen
  <2> QED
    BY <2>1 DEF FrozenAt, Known
<1> QED
  BY <1>2, <1>3, <1>4 DEF Hands, Published, Frozen

LEMMA AddTasksKeeps ==
    ASSUME StoreInv, AddTasks
    PROVE  StoreInv'
<1>a. PICK batch \in SUBSET (Tasks \ Known) : \E plan \in Plans(batch) :
        state' = Added(plan).state /\ remaining' = Added(plan).count /\ deps' = Merged(plan)
  BY DEF AddTasks
<1>1. PICK plan \in Plans(batch) :
        state' = Added(plan).state /\ remaining' = Added(plan).count /\ deps' = Merged(plan)
  BY <1>a
<1>2. UNCHANGED <<leaseVars, contractVars, result, session, worker>>
  BY DEF AddTasks
<1>3. /\ deps' \in DepMaps /\ state' \in StateMaps /\ remaining' \in CountMaps
      /\ Consistent(state', remaining', deps')
      /\ \A t \in Known : state'[t] = state[t] /\ deps'[t] = deps[t]
      /\ \A t \in batch : state'[t] \in Waiting
      /\ \A t \in Tasks \ batch : state'[t] = state[t]
  BY <1>1, Adding DEF StoreInv
<1>4. StoreTypeOK'
  BY <1>2, <1>3 DEF StoreInv, StoreTypeOK, StateMaps, CountMaps, DepMaps, leaseVars, contractVars
<1>5. Consistent(state, remaining, deps)'
  BY <1>3 DEF Consistent, Grounded, Counted, Supported, Readied, Bad, Unverified
<1>6. AttemptsAgree'
  BY <1>2, <1>3 DEF StoreInv, AttemptsAgree, Known, leaseVars
<1>7. Hands' /\ Published' /\ Frozen'
  <2>1. \A t \in Known : state'[t] # "absent"
    BY <1>3 DEF Known
  <2>2. \A t \in Tasks : state'[t] = "verified" => state[t] = "verified"
    BY <1>3 DEF Waiting
  <2> QED
    BY <1>2, <1>3, <2>1, <2>2, GraphStep DEF leaseVars, contractVars
<1> QED
  BY <1>4, <1>5, <1>6, <1>7 DEF StoreInv

LEMMA ClaimNothingKeeps ==
    ASSUME StoreInv, NEW w \in Workers, ClaimNothing(w)
    PROVE  StoreInv'
<1>1. /\ state' = Reaped.state /\ remaining' = Reaped.count
      /\ attempts' = Ended(Expired, "expired")
      /\ token' = Without(Expired, token, None)
      /\ UNCHANGED <<deps, left, contractVars, result, session, worker>>
  BY DEF ClaimNothing
<1>2. /\ Consistent(state', remaining', deps') /\ state' \in StateMaps /\ remaining' \in CountMaps
      /\ Expired \in SUBSET Tasks
      /\ \A t \in Expired : state[t] = "running" /\ state'[t] \notin {"running", "verified", "absent"}
      /\ \A t \in Tasks \ Expired : state'[t] # state[t] =>
           state[t] \in Waiting /\ state'[t] \in Waiting
  BY <1>1, Reaping DEF StoreInv, Expired
<1>3. token \in [Tasks -> Tokens \union {None}]
      /\ \A t \in Tasks : token'[t] = IF t \in Expired THEN None ELSE token[t]
  BY <1>1 DEF StoreInv, StoreTypeOK, Without
<1>4. /\ attempts' \in Seq(AttemptRows) /\ DOMAIN attempts' = DOMAIN attempts
      /\ \A a \in DOMAIN attempts :
           IF attempts[a].outcome = "open" /\ attempts[a].task \in Expired
           THEN attempts'[a] = [task |-> attempts[a].task, outcome |-> "expired"]
           ELSE attempts'[a] = attempts[a]
  BY <1>1, <1>2, EndedFacts DEF StoreInv, Outcomes
<1>5. StoreTypeOK'
  BY <1>1, <1>2, <1>3, <1>4
     DEF StoreInv, StoreTypeOK, StateMaps, CountMaps, AttemptRows, contractVars, Without
<1>6. Consistent(state, remaining, deps)'
  BY <1>2 DEF Consistent, Grounded, Counted, Supported, Readied, Bad, Unverified
<1>7. AttemptsAgree'
  <2>1. ASSUME NEW t \in Tasks, token'[t] # None
        PROVE  /\ state'[t] = "running" /\ token'[t] \in DOMAIN attempts'
               /\ attempts'[token'[t]] = [task |-> t, outcome |-> "open"]
    <3>1. t \notin Expired /\ token'[t] = token[t]
      BY <1>3, <2>1
    <3>2. /\ state[t] = "running" /\ token[t] \in DOMAIN attempts
          /\ attempts[token[t]] = [task |-> t, outcome |-> "open"]
      BY <2>1, <3>1 DEF StoreInv, AttemptsAgree
    <3> QED
      BY <1>2, <1>4, <3>1, <3>2 DEF Waiting
  <2>2. ASSUME NEW a \in DOMAIN attempts', attempts'[a].outcome = "open"
        PROVE  token'[attempts'[a].task] = a
    <3>1. attempts'[a] = attempts[a] /\ attempts[a].task \notin Expired
      BY <1>4, <2>2
    <3>2. attempts[a].task \in Tasks
      BY <1>4, TypeFacts DEF StoreInv, AttemptRows
    <3> QED
      BY <1>3, <1>4, <2>2, <3>1, <3>2 DEF StoreInv, AttemptsAgree
  <2> QED
    BY <2>1, <2>2 DEF AttemptsAgree
<1>8. Hands' /\ Published' /\ Frozen'
  <2>1. \A t \in Known : deps'[t] = deps[t] /\ state'[t] # "absent"
    BY <1>1, <1>2 DEF Known, Waiting
  <2>2. \A t \in Tasks : state'[t] = "verified" => state[t] = "verified"
    BY <1>2 DEF Waiting
  <2>3. \A a \in DOMAIN attempts : a \in DOMAIN attempts' /\ attempts'[a].task = attempts[a].task
    BY <1>4
  <2> QED
    BY <1>1, <1>3, <2>1, <2>2, <2>3, GraphStep DEF contractVars
<1> QED
  BY <1>5, <1>6, <1>7, <1>8 DEF StoreInv

(* Reaping, as both kinds of claim do it.                                  *)
LEMMA Reclaiming ==
    ASSUME StoreInv
    PROVE  LET ended == Ended(Expired, "expired")
               tokens == Without(Expired, token, None) IN
           /\ tokens \in [Tasks -> Tokens \union {None}]
           /\ ended \in Seq(AttemptRows) /\ Len(ended) = Len(attempts)
           /\ DOMAIN ended = DOMAIN attempts
           /\ \A a \in DOMAIN attempts : ended[a].task = attempts[a].task
           /\ \A t \in Tasks : tokens[t] # None =>
                 /\ tokens[t] = token[t] /\ Reaped.state[t] = "running"
                 /\ tokens[t] \in DOMAIN ended
                 /\ ended[tokens[t]] = [task |-> t, outcome |-> "open"]
           /\ \A a \in DOMAIN ended : ended[a].outcome = "open" => tokens[ended[a].task] = a
<1> DEFINE ended == Ended(Expired, "expired")
           tokens == Without(Expired, token, None)
<1>1. /\ Expired \in SUBSET Tasks
      /\ \A t \in Tasks \ Expired : Reaped.state[t] # state[t] => state[t] \in Waiting
  BY Reaping DEF StoreInv
<1>2. tokens \in [Tasks -> Tokens \union {None}]
      /\ \A t \in Tasks : tokens[t] = IF t \in Expired THEN None ELSE token[t]
  BY DEF StoreInv, StoreTypeOK, Without
<1>3. /\ ended \in Seq(AttemptRows) /\ Len(ended) = Len(attempts)
      /\ DOMAIN ended = DOMAIN attempts
      /\ \A a \in DOMAIN attempts :
           IF attempts[a].outcome = "open" /\ attempts[a].task \in Expired
           THEN ended[a] = [task |-> attempts[a].task, outcome |-> "expired"]
           ELSE ended[a] = attempts[a]
  BY <1>1, EndedFacts DEF StoreInv, Outcomes
<1> HIDE DEF ended, tokens
<1>a. ASSUME NEW a \in DOMAIN attempts
      PROVE  /\ ended[a].task = attempts[a].task
             /\ ended[a].outcome = "open" =>
                  ended[a] = attempts[a] /\ attempts[a].task \notin Expired
  <2>1. CASE attempts[a].outcome = "open" /\ attempts[a].task \in Expired
    <3>1. ended[a] = [task |-> attempts[a].task, outcome |-> "expired"]
      BY <1>3, <2>1
    <3> QED
      BY <3>1
  <2>2. CASE ~(attempts[a].outcome = "open" /\ attempts[a].task \in Expired)
    BY <1>3, <2>2
  <2> QED
    BY <2>1, <2>2
<1>4. ASSUME NEW t \in Tasks, tokens[t] # None
      PROVE  /\ tokens[t] = token[t] /\ Reaped.state[t] = "running"
             /\ tokens[t] \in DOMAIN ended
             /\ ended[tokens[t]] = [task |-> t, outcome |-> "open"]
  <2>1. t \notin Expired /\ tokens[t] = token[t]
    BY <1>2, <1>4
  <2>2. /\ state[t] = "running" /\ token[t] \in DOMAIN attempts
        /\ attempts[token[t]] = [task |-> t, outcome |-> "open"]
    BY <1>4, <2>1 DEF StoreInv, AttemptsAgree
  <2>3. ended[token[t]] = attempts[token[t]]
    <3>1. attempts[token[t]].task \notin Expired
      BY <2>1, <2>2
    <3> QED
      BY <1>3, <2>2, <3>1
  <2>4. Reaped.state[t] = state[t]
    BY <1>1, <2>1, <2>2 DEF Waiting
  <2> QED
    BY <1>3, <2>1, <2>2, <2>3, <2>4
<1>5. ASSUME NEW a \in DOMAIN ended, ended[a].outcome = "open"
      PROVE  tokens[ended[a].task] = a
  <2>1. ended[a] = attempts[a] /\ attempts[a].task \notin Expired
    BY <1>3, <1>5, <1>a
  <2>2. attempts[a].task \in Tasks
    BY <1>3, TypeFacts DEF StoreInv, AttemptRows
  <2> QED
    BY <1>2, <1>3, <1>5, <2>1, <2>2 DEF StoreInv, AttemptsAgree
<1> QED
  BY <1>2, <1>3, <1>a, <1>4, <1>5 DEF ended, tokens

LEMMA ClaimTaskKeeps ==
    ASSUME StoreInv, NEW w \in Workers, NEW t \in Tasks, ClaimTask(w, t)
    PROVE  StoreInv'
<1> DEFINE new == Len(attempts) + 1
           ended == Ended(Expired, "expired")
           tokens == Without(Expired, token, None)
           hand == [task |-> t, token |-> new, generation |-> generation[t], read |-> None]
<1>1. /\ worker[w] = Idle /\ Reaped.state[t] = "ready" /\ new \in Tokens
      /\ state' = [Reaped.state EXCEPT ![t] = "running"] /\ remaining' = Reaped.count
      /\ attempts' = Append(ended, [task |-> t, outcome |-> "open"])
      /\ token' = [tokens EXCEPT ![t] = new]
      /\ left' = [left EXCEPT ![t] = Lease]
      /\ worker' = [worker EXCEPT ![w] = hand]
      /\ UNCHANGED <<deps, contractVars, result, session>>
  BY DEF ClaimTask
<1>2. /\ Consistent(Reaped.state, Reaped.count, deps)
      /\ Reaped.state \in StateMaps /\ Reaped.count \in CountMaps
      /\ Expired \subseteq Tasks
      /\ \A d \in Expired : state[d] = "running" /\ Reaped.state[d] \notin {"running", "verified", "absent"}
      /\ \A d \in Tasks \ Expired : Reaped.state[d] # state[d] =>
           state[d] \in Waiting /\ Reaped.state[d] \in Waiting
  BY Reaping DEF StoreInv, Expired
<1>3. /\ tokens \in [Tasks -> Tokens \union {None}]
      /\ ended \in Seq(AttemptRows) /\ Len(ended) = Len(attempts)
      /\ DOMAIN ended = DOMAIN attempts
      /\ \A a \in DOMAIN attempts : ended[a].task = attempts[a].task
      /\ \A d \in Tasks : tokens[d] # None =>
            /\ tokens[d] = token[d] /\ Reaped.state[d] = "running"
            /\ tokens[d] \in DOMAIN ended
            /\ ended[tokens[d]] = [task |-> d, outcome |-> "open"]
      /\ \A a \in DOMAIN ended : ended[a].outcome = "open" => tokens[ended[a].task] = a
  BY Reclaiming
<1>4. /\ DOMAIN attempts = 1..Len(attempts) /\ Len(attempts) \in Nat
      /\ new \in Nat /\ new \notin DOMAIN attempts
  BY TypeFacts DEF StoreInv
<1> HIDE DEF ended, tokens
<1>5. /\ attempts' \in Seq(AttemptRows) /\ DOMAIN attempts' = DOMAIN attempts \union {new}
      /\ attempts'[new] = [task |-> t, outcome |-> "open"]
      /\ \A a \in DOMAIN attempts : attempts'[a] = ended[a]
  <2>1. [task |-> t, outcome |-> "open"] \in AttemptRows
    BY DEF AttemptRows, Outcomes
  <2>2. attempts' \in Seq(AttemptRows) /\ Len(attempts') = Len(ended) + 1
        /\ attempts'[Len(ended) + 1] = [task |-> t, outcome |-> "open"]
        /\ \A a \in 1..Len(ended) : attempts'[a] = ended[a]
    BY <1>1, <1>3, <2>1
  <2>3. DOMAIN attempts' = 1..(Len(attempts) + 1)
    BY <1>3, <2>2
  <2> QED
    BY <1>3, <1>4, <2>2, <2>3
<1>6. /\ \A d \in Tasks : state'[d] = IF d = t THEN "running" ELSE Reaped.state[d]
      /\ \A d \in Tasks : token'[d] = IF d = t THEN new ELSE tokens[d]
      /\ state' \in StateMaps /\ token' \in [Tasks -> Tokens \union {None}]
  BY <1>1, <1>2, <1>3 DEF StateMaps, States
<1>7. worker' \in [Workers -> {Idle} \union
         [task : Tasks, token : Tokens, generation : Nat, read : Readings \union {None}]]
      /\ worker'[w] = hand /\ \A v \in Workers \ {w} : worker'[v] = worker[v]
  <2>1. hand \in [task : Tasks, token : Tokens, generation : Nat, read : Readings \union {None}]
    BY <1>1 DEF StoreInv, StoreTypeOK
  <2> QED
    BY <1>1, <2>1 DEF StoreInv, StoreTypeOK
<1>8. StoreTypeOK'
  <2>1. left' \in [Tasks -> 0..Lease]
    BY <1>1, StoreAssumption DEF StoreInv, StoreTypeOK
  <2> QED
    BY <1>1, <1>2, <1>5, <1>6, <1>7, <2>1
       DEF StoreInv, StoreTypeOK, StateMaps, CountMaps, AttemptRows, contractVars
<1>9. \A d \in Tasks : Unverified(d, state', deps') = Unverified(d, Reaped.state, deps)
  <2>1. \A p \in Tasks : state'[p] # "verified" <=> Reaped.state[p] # "verified"
    BY <1>1, <1>6
  <2> QED
    BY <1>1, <2>1, TypeFacts DEF StoreInv, Unverified, DepMaps
<1>10. Consistent(state, remaining, deps)'
  <2>1. ASSUME NEW d \in Tasks
        PROVE  /\ Grounded(d, state', deps') /\ Counted(d, state', remaining', deps')
               /\ Supported(d, state', deps') /\ Readied(d, state', deps')
    <3>1. /\ Grounded(d, Reaped.state, deps) /\ Counted(d, Reaped.state, Reaped.count, deps)
          /\ Supported(d, Reaped.state, deps) /\ Readied(d, Reaped.state, deps)
      BY <1>2 DEF Consistent
    <3>2. \A p \in Tasks : state'[p] = "absent" <=> Reaped.state[p] = "absent"
      BY <1>1, <1>6
    <3>3. Grounded(d, state', deps')
      BY <1>1, <3>1, <3>2, TypeFacts DEF StoreInv, Grounded, DepMaps
    <3>4. Bad(d, state', deps') <=> Bad(d, Reaped.state, deps)
      <4>1. \A p \in Tasks : state'[p] \in {"failed", "blocked"} <=>
                             Reaped.state[p] \in {"failed", "blocked"}
        BY <1>1, <1>6
      <4> QED
        BY <1>1, <4>1, TypeFacts DEF StoreInv, Bad, DepMaps
    <3>5. Readied(d, state', deps')
      BY <1>6, <1>9, <3>1, <3>4 DEF Readied, Waiting
    <3> QED
      BY <1>1, <1>6, <1>9, <3>1, <3>2, <3>3, <3>5 DEF Counted, Supported
  <2> QED
    BY <2>1 DEF Consistent, Grounded, Counted, Supported, Readied, Bad, Unverified
<1>11. AttemptsAgree'
  <2>0. tokens[t] = None
    BY <1>1, <1>3
  <2>1. ASSUME NEW d \in Tasks, token'[d] # None
        PROVE  /\ state'[d] = "running" /\ token'[d] \in DOMAIN attempts'
               /\ attempts'[token'[d]] = [task |-> d, outcome |-> "open"]
    BY <1>3, <1>5, <1>6, <2>1
  <2>2. ASSUME NEW a \in DOMAIN attempts', attempts'[a].outcome = "open"
        PROVE  token'[attempts'[a].task] = a
    <3>1. CASE a = new
      BY <1>5, <1>6, <3>1
    <3>2. CASE a \in DOMAIN attempts
      <4>1. tokens[ended[a].task] = a /\ attempts'[a] = ended[a]
        BY <1>3, <1>5, <2>2, <3>2
      <4>2. ended[a].task \in Tasks /\ a # None
        BY <1>3, <1>4, <3>2, StoreAssumption, TypeFacts DEF StoreInv, AttemptRows
      <4> QED
        BY <1>6, <2>0, <4>1, <4>2
    <3> QED
      BY <1>5, <3>1, <3>2
  <2> QED
    BY <2>1, <2>2 DEF AttemptsAgree
<1>12. ASSUME NEW d \in Tasks PROVE Reading(d)' = Reading(d)
  BY <1>1, SameReading DEF contractVars
<1>13. Hands'
  <2>1. ASSUME NEW v \in Workers PROVE HandAt(v)'
    <3>1. CASE v = w
      BY <1>5, <1>7, <3>1 DEF HandAt
    <3>2. CASE v # w /\ worker[v] # Idle
      <4>1. HandAt(v) /\ worker[v].task \in Tasks /\ worker[v].token \in Tokens
        BY <3>2, WorkerFacts DEF StoreInv, Hands
      <4>2. worker'[v] = worker[v]
        BY <1>7, <3>2
      <4>3. worker[v].token \in DOMAIN attempts' /\ attempts'[worker[v].token].task = worker[v].task
        BY <1>3, <1>5, <3>2, <4>1 DEF HandAt
      <4>4. ASSUME token'[worker[v].task] = worker[v].token
            PROVE  token[worker[v].task] = worker[v].token
        <5>1. worker[v].token # None /\ worker[v].token # new
          BY <1>4, <3>2, <4>1, StoreAssumption DEF HandAt, Tokens
        <5> QED
          BY <1>3, <1>6, <4>1, <4>4, <5>1
      <4> QED
        BY <1>12, <3>2, <4>1, <4>2, <4>3, <4>4 DEF HandAt
    <3>3. CASE v # w /\ worker[v] = Idle
      BY <1>7, <3>3 DEF HandAt
    <3> QED
      BY <3>1, <3>2, <3>3
  <2> QED
    BY <2>1 DEF Hands
<1>14. Published'
  <2>1. ASSUME NEW d \in Tasks PROVE PublishedAt(d)'
    <3>1. state'[d] = "verified" => state[d] = "verified"
      BY <1>2, <1>6 DEF Waiting
    <3>2. PublishedAt(d)
      BY DEF StoreInv, Published
    <3> QED
      BY <1>1, <1>12, <3>1, <3>2 DEF PublishedAt
  <2> QED
    BY <2>1 DEF Published
<1>15. Frozen'
  <2>1. ASSUME NEW d \in Tasks PROVE FrozenAt(d)'
    <3>1. state[d] # "absent" => state'[d] # "absent"
      BY <1>2, <1>6 DEF Waiting
    <3>2. FrozenAt(d)
      BY DEF StoreInv, Frozen
    <3> QED
      BY <1>1, <3>1, <3>2 DEF FrozenAt, contractVars
  <2> QED
    BY <2>1 DEF Frozen
<1> QED
  BY <1>8, <1>10, <1>11, <1>13, <1>14, <1>15 DEF StoreInv

-----------------------------------------------------------------------------
(* Who holds a lease holds the open attempt of its task.                   *)
LEMMA LeasedFacts ==
    ASSUME StoreInv, NEW w \in Workers, Leased(w)
    PROVE  /\ worker[w] # Idle
           /\ worker[w] \in [task : Tasks, token : Tokens, generation : Nat,
                             read : Readings \union {None}]
           /\ worker[w].token \in DOMAIN attempts
           /\ token[worker[w].task] = worker[w].token /\ worker[w].token # None
           /\ state[worker[w].task] = "running"
           /\ attempts[worker[w].token] = [task |-> worker[w].task, outcome |-> "open"]
           /\ worker[w].read # None => worker[w].read = Reading(worker[w].task)
<1>1. /\ worker[w] # Idle /\ token[worker[w].task] = worker[w].token
      /\ state[worker[w].task] = "running"
  BY DEF Leased
<1>2. worker[w] \in [task : Tasks, token : Tokens, generation : Nat,
                     read : Readings \union {None}]
  BY <1>1, WorkerFacts DEF StoreInv
<1>3. worker[w].token # None /\ worker[w].task \in Tasks
  BY <1>2, StoreAssumption DEF Tokens
<1>4. HandAt(w)
  BY DEF StoreInv, Hands
<1> QED
  BY <1>1, <1>2, <1>3, <1>4 DEF StoreInv, AttemptsAgree, HandAt

LEMMA ReadKeeps ==
    ASSUME StoreInv, NEW w \in Workers, Read(w)
    PROVE  StoreInv'
<1> DEFINE t == worker[w].task
<1>1. /\ worker[w] # Idle
      /\ worker' = [worker EXCEPT ![w].read = Reading(t)]
      /\ UNCHANGED <<graphVars, leaseVars, contractVars, result, session>>
  BY DEF Read
<1>2. worker[w] \in [task : Tasks, token : Tokens, generation : Nat,
                     read : Readings \union {None}]
  BY <1>1, WorkerFacts DEF StoreInv
<1>3. t \in Tasks /\ Reading(t) \in Readings
  BY <1>2, ReadingTyped DEF StoreInv
<1>4. /\ worker'[w] = [worker[w] EXCEPT !.read = Reading(t)]
      /\ \A v \in Workers \ {w} : worker'[v] = worker[v]
      /\ worker' \in [Workers -> {Idle} \union
           [task : Tasks, token : Tokens, generation : Nat, read : Readings \union {None}]]
  <2>1. [worker[w] EXCEPT !.read = Reading(t)] \in
           [task : Tasks, token : Tokens, generation : Nat, read : Readings \union {None}]
    BY <1>2, <1>3
  <2> QED
    BY <1>1, <2>1 DEF StoreInv, StoreTypeOK
<1>5. StoreTypeOK'
  BY <1>1, <1>4 DEF StoreInv, StoreTypeOK, graphVars, leaseVars, contractVars
<1>6. Consistent(state, remaining, deps)' /\ AttemptsAgree' /\ Published' /\ Frozen'
  BY <1>1 DEF StoreInv, Consistent, Grounded, Counted, Supported, Readied, Bad, Unverified, AttemptsAgree,
     Published, PublishedAt, Frozen, FrozenAt, Reading, graphVars, leaseVars, contractVars
<1>7. ASSUME NEW d \in Tasks PROVE Reading(d)' = Reading(d)
  BY <1>1, SameReading DEF graphVars, contractVars
<1>8. Hands'
  <2>1. ASSUME NEW v \in Workers PROVE HandAt(v)'
    <3>1. CASE v = w
      <4>1. HandAt(w)
        BY DEF StoreInv, Hands
      <4>2. /\ worker'[w].task = t /\ worker'[w].token = worker[w].token
            /\ worker'[w].read = Reading(t)
        BY <1>2, <1>4
      <4> QED
        BY <1>1, <1>3, <1>7, <3>1, <4>1, <4>2 DEF HandAt, leaseVars
    <3>2. CASE v # w
      <4>1. HandAt(v) /\ worker'[v] = worker[v]
        BY <1>4, <3>2 DEF StoreInv, Hands
      <4>2. worker[v] # Idle => worker[v].task \in Tasks
        BY WorkerFacts DEF StoreInv
      <4> QED
        BY <1>1, <1>7, <4>1, <4>2 DEF HandAt, leaseVars
    <3> QED
      BY <3>1, <3>2
  <2> QED
    BY <2>1 DEF Hands
<1> QED
  BY <1>5, <1>6, <1>8 DEF StoreInv

(* A step that changes no more than what is left of leases.                *)
LEMMA ClockKeeps ==
    ASSUME StoreInv, left' \in [Tasks -> 0..Lease],
           UNCHANGED <<graphVars, token, attempts, contractVars, result, session, worker>>
    PROVE  StoreInv'
<1>1. StoreTypeOK'
  BY DEF StoreInv, StoreTypeOK, graphVars, contractVars
<1>2. Consistent(state, remaining, deps)' /\ AttemptsAgree'
  BY DEF StoreInv, Consistent, Grounded, Counted, Supported, Readied, Bad, Unverified, AttemptsAgree, graphVars
<1>3. Hands' /\ Published' /\ Frozen'
  BY DEF StoreInv, Hands, HandAt, Published, PublishedAt, Frozen, FrozenAt, Reading, graphVars,
     contractVars
<1> QED
  BY <1>1, <1>2, <1>3 DEF StoreInv

LEMMA HeartbeatKeeps ==
    ASSUME StoreInv, NEW w \in Workers, Heartbeat(w)
    PROVE  StoreInv'
<1>0. Lease \in 0..Lease
  BY StoreAssumption
<1>1. left' \in [Tasks -> 0..Lease]
  BY <1>0 DEF Heartbeat, StoreInv, StoreTypeOK
<1> QED
  BY <1>1, ClockKeeps DEF Heartbeat

LEMMA TickKeeps ==
    ASSUME StoreInv, Tick
    PROVE  StoreInv'
<1>1. left' \in [Tasks -> 0..Lease]
  BY StoreAssumption DEF Tick, StoreInv, StoreTypeOK
<1> QED
  BY <1>1, ClockKeeps DEF Tick

LEMMA LoseLeaseKeeps ==
    ASSUME StoreInv, NEW w \in Workers, LoseLease(w)
    PROVE  StoreInv'
<1>1. /\ worker' = [worker EXCEPT ![w] = Idle]
      /\ UNCHANGED <<graphVars, leaseVars, contractVars, result, session>>
  BY DEF LoseLease
<1>2. /\ worker' \in [Workers -> {Idle} \union
           [task : Tasks, token : Tokens, generation : Nat, read : Readings \union {None}]]
      /\ \A v \in Workers : worker'[v] = IF v = w THEN Idle ELSE worker[v]
  BY <1>1 DEF StoreInv, StoreTypeOK
<1>3. StoreTypeOK'
  BY <1>1, <1>2 DEF StoreInv, StoreTypeOK, graphVars, leaseVars, contractVars
<1>4. Consistent(state, remaining, deps)' /\ AttemptsAgree' /\ Published' /\ Frozen'
  BY <1>1 DEF StoreInv, Consistent, Grounded, Counted, Supported, Readied, Bad, Unverified, AttemptsAgree,
     Published, PublishedAt, Frozen, FrozenAt, Reading, graphVars, leaseVars, contractVars
<1>5. Hands'
  <2>1. ASSUME NEW v \in Workers PROVE HandAt(v)'
    <3>1. HandAt(v)
      BY DEF StoreInv, Hands
    <3>2. CASE v = w
      BY <1>2, <3>2 DEF HandAt
    <3>3. CASE v # w
      <4>1. worker'[v] = worker[v]
        BY <1>2, <3>3
      <4> QED
        BY <1>1, <3>1, <4>1 DEF HandAt, Reading, graphVars, leaseVars, contractVars
    <3> QED
      BY <3>2, <3>3
  <2> QED
    BY <2>1 DEF Hands
<1> QED
  BY <1>3, <1>4, <1>5 DEF StoreInv

LEMMA CheckpointKeeps ==
    ASSUME StoreInv, NEW w \in Workers, Checkpoint(w)
    PROVE  StoreInv'
<1> DEFINE t == worker[w].task
<1>1. /\ Leased(w) /\ worker[w].read # None
      /\ session' = [session EXCEPT ![t] = worker[w].read]
      /\ UNCHANGED <<graphVars, leaseVars, contractVars, result, worker>>
  BY DEF Checkpoint
<1>2. /\ t \in Tasks /\ worker[w].read = Reading(t) /\ state[t] = "running"
      /\ worker[w].read \in Readings
  BY <1>1, LeasedFacts
<1>3. /\ session' \in [Tasks -> Readings \union {None}]
      /\ \A d \in Tasks : session'[d] = IF d = t THEN Reading(t) ELSE session[d]
  BY <1>1, <1>2 DEF StoreInv, StoreTypeOK
<1>4. StoreTypeOK'
  BY <1>1, <1>3 DEF StoreInv, StoreTypeOK, graphVars, leaseVars, contractVars
<1>5. Consistent(state, remaining, deps)' /\ AttemptsAgree' /\ Published' /\ Hands'
  BY <1>1 DEF StoreInv, Consistent, Grounded, Counted, Supported, Readied, Bad, Unverified, AttemptsAgree,
     Published, PublishedAt, Hands, HandAt, Reading, graphVars, leaseVars, contractVars
<1>6. Frozen'
  <2>1. ASSUME NEW d \in Tasks PROVE FrozenAt(d)'
    <3>1. CASE d = t
      BY <1>1, <1>2, <1>3, <3>1, ReadingPieces DEF FrozenAt, graphVars, contractVars
    <3>2. CASE d # t
      <4>1. FrozenAt(d) /\ session'[d] = session[d]
        BY <1>3, <3>2 DEF StoreInv, Frozen
      <4> QED
        BY <1>1, <4>1 DEF FrozenAt, graphVars, contractVars
    <3> QED
      BY <3>1, <3>2
  <2> QED
    BY <2>1 DEF Frozen
<1> QED
  BY <1>4, <1>5, <1>6 DEF StoreInv

-----------------------------------------------------------------------------
(* The end of an attempt by its own worker: the lease is given up and the  *)
(* attempt gets its outcome.                                               *)
LEMMA Finishing ==
    ASSUME StoreInv, NEW w \in Workers, Leased(w), NEW outcome \in Outcomes \ {"open"},
           Finish(w, outcome), UNCHANGED <<deps, contractVars>>,
           \A d \in Tasks \ {worker[w].task} : state[d] = "running" => state'[d] = "running"
    PROVE  /\ token' \in [Tasks -> Tokens \union {None}] /\ left' \in [Tasks -> 0..Lease]
           /\ attempts' \in Seq(AttemptRows)
           /\ worker' \in [Workers -> {Idle} \union
                [task : Tasks, token : Tokens, generation : Nat, read : Readings \union {None}]]
           /\ AttemptsAgree' /\ Hands'
           /\ \A d \in Tasks : Reading(d)' = Reading(d)
<1> DEFINE t == worker[w].task
           mine == worker[w].token
<1>1. /\ t \in Tasks /\ mine \in DOMAIN attempts /\ mine \in Tokens
      /\ token[t] = mine /\ mine # None
      /\ attempts[mine] = [task |-> t, outcome |-> "open"]
  BY LeasedFacts
<1>2. /\ token' = [token EXCEPT ![t] = None]
      /\ left' = [left EXCEPT ![t] = 0]
      /\ attempts' = [attempts EXCEPT ![mine].outcome = outcome]
      /\ worker' = [worker EXCEPT ![w] = Idle]
  BY DEF Finish
<1>3. /\ token' \in [Tasks -> Tokens \union {None}]
      /\ \A d \in Tasks : token'[d] = IF d = t THEN None ELSE token[d]
  BY <1>1, <1>2 DEF StoreInv, StoreTypeOK
<1>4. left' \in [Tasks -> 0..Lease]
  <2>1. 0 \in 0..Lease
    BY StoreAssumption
  <2> QED
    BY <1>2, <2>1 DEF StoreInv, StoreTypeOK
<1>5. /\ attempts' \in Seq(AttemptRows) /\ DOMAIN attempts' = DOMAIN attempts
      /\ attempts'[mine] = [task |-> t, outcome |-> outcome]
      /\ \A a \in DOMAIN attempts \ {mine} : attempts'[a] = attempts[a]
  <2>1. /\ attempts \in Seq(AttemptRows) /\ DOMAIN attempts = 1..Len(attempts)
        /\ Len(attempts) \in Nat
    BY TypeFacts DEF StoreInv
  <2>2. [attempts[mine] EXCEPT !.outcome = outcome] = [task |-> t, outcome |-> outcome]
    BY <1>1
  <2>3. [task |-> t, outcome |-> outcome] \in AttemptRows
    BY <1>1 DEF AttemptRows
  <2>4. attempts' = [attempts EXCEPT ![mine] = [task |-> t, outcome |-> outcome]]
    BY <1>2, <2>2
  <2> QED
    BY <1>1, <2>1, <2>3, <2>4
<1>6. /\ worker' \in [Workers -> {Idle} \union
           [task : Tasks, token : Tokens, generation : Nat, read : Readings \union {None}]]
      /\ \A v \in Workers : worker'[v] = IF v = w THEN Idle ELSE worker[v]
  BY <1>2 DEF StoreInv, StoreTypeOK
<1>7. ASSUME NEW d \in Tasks PROVE Reading(d)' = Reading(d)
  BY SameReading DEF contractVars
<1>8. AttemptsAgree'
  <2>1. ASSUME NEW d \in Tasks, token'[d] # None
        PROVE  /\ state'[d] = "running" /\ token'[d] \in DOMAIN attempts'
               /\ attempts'[token'[d]] = [task |-> d, outcome |-> "open"]
    <3>1. d # t /\ token'[d] = token[d]
      BY <1>3, <2>1
    <3>2. /\ state[d] = "running" /\ token[d] \in DOMAIN attempts
          /\ attempts[token[d]] = [task |-> d, outcome |-> "open"]
      BY <2>1, <3>1 DEF StoreInv, AttemptsAgree
    <3>3. token[d] # mine
      BY <1>1, <3>1, <3>2
    <3> QED
      BY <1>5, <3>1, <3>2, <3>3
  <2>2. ASSUME NEW a \in DOMAIN attempts', attempts'[a].outcome = "open"
        PROVE  token'[attempts'[a].task] = a
    <3>1. a # mine /\ attempts'[a] = attempts[a]
      BY <1>5, <2>2
    <3>2. token[attempts[a].task] = a /\ attempts[a].task \in Tasks
      BY <1>5, <2>2, <3>1, TypeFacts DEF StoreInv, AttemptsAgree, AttemptRows
    <3> QED
      BY <1>1, <1>3, <3>1, <3>2
  <2> QED
    BY <2>1, <2>2 DEF AttemptsAgree
<1>9. Hands'
  <2>1. ASSUME NEW v \in Workers, v # w, worker[v] # Idle PROVE HandAt(v)'
    <3>1. /\ HandAt(v) /\ worker'[v] = worker[v]
          /\ worker[v].task \in Tasks /\ worker[v].token \in Tokens
      BY <1>6, <2>1, WorkerFacts DEF StoreInv, Hands
    <3>2. worker[v].token \in DOMAIN attempts' /\ attempts'[worker[v].token].task = worker[v].task
      <4>1. worker[v].token \in DOMAIN attempts /\ attempts[worker[v].token].task = worker[v].task
        BY <2>1, <3>1 DEF HandAt
      <4>2. attempts'[worker[v].token].task = attempts[worker[v].token].task
        BY <1>1, <1>5, <4>1
      <4> QED
        BY <1>5, <4>1, <4>2
    <3>3. ASSUME token'[worker[v].task] = worker[v].token
          PROVE  token[worker[v].task] = worker[v].token
      BY <1>3, <3>1, <3>3, StoreAssumption DEF Tokens
    <3> QED
      BY <1>7, <2>1, <3>1, <3>2, <3>3 DEF HandAt
  <2>2. ASSUME NEW v \in Workers, v = w \/ worker[v] = Idle PROVE HandAt(v)'
    BY <1>6, <2>2 DEF HandAt
  <2> QED
    BY <2>1, <2>2 DEF Hands
<1> QED
  BY <1>3, <1>4, <1>5, <1>6, <1>7, <1>8, <1>9

LEMMA CompleteKeeps ==
    ASSUME StoreInv, NEW w \in Workers, Complete(w)
    PROVE  StoreInv'
<1> DEFINE t == worker[w].task
           done == [state EXCEPT ![t] = "verified"]
<1>1. /\ Leased(w) /\ worker[w].read # None
      /\ state' = Unlocked(t, done)
      /\ remaining' = [d \in Tasks |->
           IF t \in deps[d] /\ remaining[d] > 0 THEN remaining[d] - 1 ELSE remaining[d]]
      /\ result' = [result EXCEPT ![t] = worker[w].read]
      /\ Finish(w, "verified")
      /\ UNCHANGED <<deps, contractVars, session>>
  BY DEF Complete
<1>2. /\ t \in Tasks /\ state[t] = "running" /\ worker[w].read = Reading(t)
      /\ worker[w].read \in Readings
  BY <1>1, LeasedFacts
<1>3. state \in StateMaps /\ remaining \in CountMaps /\ deps \in DepMaps
  BY TypeFacts DEF StoreInv
<1>4. /\ state' \in StateMaps
      /\ \A d \in Tasks : state'[d] =
           IF d = t THEN "verified"
           ELSE IF t \in deps[d] /\ remaining[d] = 1 /\ state[d] \in {"pending", "blocked"}
           THEN "ready" ELSE state[d]
  <2>1. done \in StateMaps /\ \A d \in Tasks : done[d] = IF d = t THEN "verified" ELSE state[d]
    BY <1>2, <1>3 DEF StateMaps, States
  <2> QED
    BY <1>1, <1>2, <2>1 DEF Unlocked, StateMaps, States
<1>5. /\ remaining' \in CountMaps
      /\ \A d \in Tasks : remaining'[d] =
           IF t \in deps[d] /\ remaining[d] > 0 THEN remaining[d] - 1 ELSE remaining[d]
  <2>1. \A d \in Tasks : remaining[d] \in Nat
    BY <1>3 DEF CountMaps
  <2> QED
    BY <1>1, <2>1 DEF CountMaps
<1>6. \A d \in Tasks : Unverified(d, state', deps') = Unverified(d, state, deps) \ {t}
  <2>1. \A p \in Tasks : state'[p] # "verified" <=> state[p] # "verified" /\ p # t
    BY <1>4
  <2> QED
    BY <1>1, <1>3, <2>1 DEF Unverified, DepMaps
<1>a. \A p \in Tasks : state'[p] \in {"failed", "blocked"} <=> state[p] \in {"failed", "blocked"}
  <2> SUFFICES ASSUME NEW p \in Tasks
               PROVE  state'[p] \in {"failed", "blocked"} <=> state[p] \in {"failed", "blocked"}
    OBVIOUS
  <2>0. CASE ~(t \in deps[p] /\ remaining[p] = 1 /\ state[p] = "blocked")
    BY <1>2, <1>4, <2>0
  <2> SUFFICES ASSUME t \in deps[p], remaining[p] = 1, state[p] = "blocked"
               PROVE  FALSE
    BY <2>0
  <2>1. Counted(p, state, remaining, deps) /\ Readied(p, state, deps)
    BY DEF StoreInv, Consistent
  <2>2. PICK q \in deps[p] : state[q] \in {"failed", "blocked"}
    BY <2>1 DEF Readied, Bad, Waiting
  <2> DEFINE U == Unverified(p, state, deps)
  <2>3. t \in U /\ q \in U /\ q # t
    BY <1>2, <2>2 DEF Unverified
  <2>4. IsFiniteSet(U) /\ Cardinality(U) = 1
    BY <1>3, <2>1, UnverifiedFinite DEF Counted
  <2> HIDE DEF U
  <2>5. IsFiniteSet(U \ {t}) /\ Cardinality(U \ {t}) = 0
    BY <2>3, <2>4, FS_RemoveElement
  <2> QED
    BY <2>3, <2>5, FS_EmptySet
<1>b. \A d \in Tasks : Bad(d, state', deps') <=> Bad(d, state, deps)
  BY <1>1, <1>3, <1>a DEF Bad, DepMaps
<1>7. ASSUME NEW d \in Tasks
      PROVE  /\ Grounded(d, state', deps') /\ Counted(d, state', remaining', deps')
             /\ Supported(d, state', deps') /\ Readied(d, state', deps')
  <2>1. /\ Grounded(d, state, deps) /\ Counted(d, state, remaining, deps)
        /\ Supported(d, state, deps) /\ Readied(d, state, deps)
    BY DEF StoreInv, Consistent
  <2>2. Grounded(d, state', deps')
    <3>1. \A p \in Tasks : state'[p] = "absent" <=> state[p] = "absent"
      BY <1>2, <1>4
    <3> QED
      BY <1>1, <1>3, <2>1, <3>1 DEF Grounded, DepMaps
  <2>3. /\ IsFiniteSet(Unverified(d, state, deps))
        /\ Cardinality(Unverified(d, state, deps)) \in Nat
        /\ Cardinality(Unverified(d, state, deps)) = 0 <=> Unverified(d, state, deps) = {}
    BY <1>3, UnverifiedFinite
  <2>4. CASE t \in deps[d]
    <3>1. t \in Unverified(d, state, deps) /\ state[d] # "absent"
      BY <1>2, <2>1, <2>4 DEF Unverified, Grounded
    <3>2. Cardinality(Unverified(d, state', deps')) = Cardinality(Unverified(d, state, deps)) - 1
      BY <1>6, <2>3, <3>1, FS_RemoveElement
    <3>3. remaining[d] = Cardinality(Unverified(d, state, deps)) /\ remaining[d] > 0
      BY <2>1, <2>3, <3>1 DEF Counted
    <3>4. remaining'[d] = Cardinality(Unverified(d, state', deps'))
      BY <1>5, <2>4, <3>2, <3>3
    <3>5. ASSUME state'[d] \in {"ready", "running", "verified"}
          PROVE  Unverified(d, state', deps') = {}
      <4>1. CASE remaining[d] = 1
        <5>1. Cardinality(Unverified(d, state', deps')) = 0
          BY <3>2, <3>3, <4>1
        <5>2. deps' \in DepMaps
          BY <1>1, <1>3
        <5> QED
          BY <5>1, <5>2, UnverifiedFinite
      <4>2. CASE remaining[d] # 1
        BY <1>2, <1>4, <1>6, <2>1, <3>5, <4>2 DEF Supported
      <4> QED
        BY <4>1, <4>2
    <3>6. deps' \in DepMaps /\ (Unverified(d, state', deps') = {} <=> remaining[d] = 1)
      BY <1>1, <1>3, <3>2, <3>3, UnverifiedFinite
    <3>7. CASE remaining[d] = 1
      <4>1. ~Bad(d, state', deps')
        BY <3>6, <3>7 DEF Bad, Unverified
      <4>2. state'[d] \in Waiting => state'[d] = "ready"
        BY <1>4, <2>4, <3>7 DEF Waiting
      <4> QED
        BY <2>2, <3>4, <3>5, <3>6, <3>7, <4>1, <4>2 DEF Counted, Supported, Readied
    <3>8. CASE remaining[d] # 1
      <4>1. d # t => state'[d] = state[d]
        BY <1>4, <3>8
      <4>2. state[d] # "ready"
        BY <2>1, <3>1 DEF Readied, Waiting
      <4>3. Readied(d, state', deps')
        BY <1>4, <1>b, <2>1, <3>6, <3>8, <4>1, <4>2 DEF Readied, Waiting
      <4> QED
        BY <2>2, <3>4, <3>5, <4>3 DEF Counted, Supported
    <3> QED
      BY <3>7, <3>8
  <2>5. CASE t \notin deps[d]
    <3>1. Unverified(d, state', deps') = Unverified(d, state, deps)
      BY <1>6, <2>5 DEF Unverified
    <3>2. Readied(d, state', deps')
      BY <1>2, <1>4, <1>b, <2>1, <2>5, <3>1 DEF Readied, Waiting
    <3> QED
      BY <1>2, <1>4, <1>5, <2>1, <2>2, <2>5, <3>1, <3>2 DEF Counted, Supported
  <2> QED
    BY <2>4, <2>5
<1>8. Consistent(state, remaining, deps)'
  BY <1>7 DEF Consistent, Grounded, Counted, Supported, Readied, Bad, Unverified
<1>9. /\ token' \in [Tasks -> Tokens \union {None}] /\ left' \in [Tasks -> 0..Lease]
      /\ attempts' \in Seq(AttemptRows)
      /\ worker' \in [Workers -> {Idle} \union
           [task : Tasks, token : Tokens, generation : Nat, read : Readings \union {None}]]
      /\ AttemptsAgree' /\ Hands'
      /\ \A d \in Tasks : Reading(d)' = Reading(d)
  <2>1. \A d \in Tasks \ {t} : state[d] = "running" => state'[d] = "running"
    BY <1>4
  <2>2. "verified" \in Outcomes \ {"open"}
    BY DEF Outcomes
  <2> QED
    BY <1>1, <2>1, <2>2, Finishing
<1>10. /\ result' \in [Tasks -> Readings \union {None}]
       /\ \A d \in Tasks : result'[d] = IF d = t THEN Reading(t) ELSE result[d]
  BY <1>1, <1>2 DEF StoreInv, StoreTypeOK
<1>11. StoreTypeOK'
  BY <1>1, <1>4, <1>5, <1>9, <1>10
     DEF StoreInv, StoreTypeOK, StateMaps, CountMaps, AttemptRows, contractVars
<1>12. Published'
  <2>1. ASSUME NEW d \in Tasks PROVE PublishedAt(d)'
    <3>1. PublishedAt(d)
      BY DEF StoreInv, Published
    <3> QED
      BY <1>2, <1>4, <1>9, <1>10, <3>1 DEF PublishedAt
  <2> QED
    BY <2>1 DEF Published
<1>13. Frozen'
  <2>1. ASSUME NEW d \in Tasks PROVE FrozenAt(d)'
    <3>1. FrozenAt(d) /\ (state[d] # "absent" => state'[d] # "absent")
      BY <1>4 DEF StoreInv, Frozen
    <3> QED
      BY <1>1, <3>1 DEF FrozenAt, contractVars
  <2> QED
    BY <2>1 DEF Frozen
<1> QED
  BY <1>8, <1>9, <1>11, <1>12, <1>13 DEF StoreInv

LEMMA FailKeeps ==
    ASSUME StoreInv, NEW w \in Workers, NEW retry \in BOOLEAN, Fail(w, retry)
    PROVE  StoreInv'
<1> DEFINE t == worker[w].task
           st == [state EXCEPT ![t] = IF retry THEN "pending" ELSE "failed"]
           affected == Descendants(t, deps)
           new == Refreshed(affected, st, remaining, deps)
<1>1. /\ Leased(w)
      /\ state' = new.state /\ remaining' = new.count /\ deps' = deps
      /\ Finish(w, IF retry THEN "retry" ELSE "failed")
      /\ UNCHANGED <<contractVars, result, session>>
  BY DEF Fail, Refresh
<1>2. t \in Tasks /\ state[t] = "running"
  BY <1>1, LeasedFacts
<1>3. state \in StateMaps /\ deps \in DepMaps
  BY TypeFacts DEF StoreInv
<1>4. /\ st \in StateMaps /\ st[t] \in {"pending", "failed"}
      /\ \A d \in Tasks \ {t} : st[d] = state[d]
  BY <1>2, <1>3 DEF StateMaps, States
<1>5. /\ affected \in SUBSET Tasks /\ {t} \subseteq affected
      /\ \A e \in Tasks, p \in affected : p \in deps[e] => e \in affected
  BY <1>2, <1>3, DescendantsClosed
<1> HIDE DEF st, affected
<1>6. /\ Consistent(state', remaining', deps') /\ state' \in StateMaps /\ remaining' \in CountMaps
      /\ state'[t] \in Waiting \union {"failed"}
      /\ \A d \in Tasks \ {t} : state'[d] # state[d] => state[d] \in Waiting /\ state'[d] \in Waiting
  <2> DEFINE D == {t}
  <2>1. /\ D \in SUBSET Tasks /\ D \subseteq affected
        /\ \A d \in D : state[d] = "running" /\ st[d] \in {"pending", "failed"}
        /\ \A d \in Tasks \ D : st[d] = state[d]
    BY <1>2, <1>4, <1>5
  <2>2. t \in D /\ Tasks \ D = Tasks \ {t}
    OBVIOUS
  <2>c. \A d \in Tasks \ affected : deps[d] \intersect affected = {}
    BY <1>5
  <2> HIDE DEF D
  <2>3. /\ Consistent(new.state, new.count, deps)
        /\ new.state \in StateMaps /\ new.count \in CountMaps
        /\ \A d \in D : new.state[d] \in Waiting \union {"failed"}
        /\ \A d \in Tasks \ D : new.state[d] # state[d] =>
             state[d] \in Waiting /\ new.state[d] \in Waiting
    BY <1>4, <1>5, <2>1, <2>c, Demoting DEF StoreInv
  <2> QED
    BY <1>1, <2>2, <2>3
<1>7. /\ token' \in [Tasks -> Tokens \union {None}] /\ left' \in [Tasks -> 0..Lease]
      /\ attempts' \in Seq(AttemptRows)
      /\ worker' \in [Workers -> {Idle} \union
           [task : Tasks, token : Tokens, generation : Nat, read : Readings \union {None}]]
      /\ AttemptsAgree' /\ Hands'
      /\ \A d \in Tasks : Reading(d)' = Reading(d)
  <2>1. \A d \in Tasks \ {t} : state[d] = "running" => state'[d] = "running"
    BY <1>6 DEF Waiting
  <2>2. (IF retry THEN "retry" ELSE "failed") \in Outcomes \ {"open"}
    BY DEF Outcomes
  <2> QED
    BY <1>1, <2>1, <2>2, Finishing
<1>8. StoreTypeOK'
  BY <1>1, <1>6, <1>7
     DEF StoreInv, StoreTypeOK, StateMaps, CountMaps, AttemptRows, contractVars
<1>9. Consistent(state, remaining, deps)'
  BY <1>6 DEF Consistent, Grounded, Counted, Supported, Readied, Bad, Unverified
<1>10. \A d \in Tasks : /\ state'[d] = "verified" => state[d] = "verified"
                        /\ state[d] # "absent" => state'[d] # "absent"
  BY <1>6 DEF Waiting
<1>11. Published'
  BY <1>1, <1>7, <1>10 DEF StoreInv, Published, PublishedAt
<1>12. Frozen'
  BY <1>1, <1>10 DEF StoreInv, Frozen, FrozenAt, contractVars
<1> QED
  BY <1>7, <1>8, <1>9, <1>11, <1>12 DEF StoreInv

-----------------------------------------------------------------------------
(* What rests on a changed task is thrown back and its leases are taken.   *)
(* The changed task may keep its frozen statement when it only gains       *)
(* prerequisites: those it had do not rest on it and are not thrown back.  *)
LEMMA Superseding ==
    ASSUME StoreInv, NEW t \in Tasks, NEW dep \in DepMaps, NEW mid \in DepMaps,
           NEW st \in StateMaps, NEW rem \in CountMaps, NEW keeps \in SUBSET {t},
           Consistent(st, rem, mid), st[t] # "absent",
           \A d \in Tasks : d # t => dep[d] = mid[d],
           \A p \in dep[t] : st[p] # "absent",
           \A d \in Tasks : IF d \in Known THEN st[d] = state[d] /\ mid[d] = deps[d]
                            ELSE st[d] \in Waiting \union {"absent"},
           Invalidate(Descendants(t, dep), keeps, dep, st, rem),
           NoCycleAt(t, dep),
           keeps # {} => deps[t] \subseteq dep[t] /\ text'[t] = text[t],
           \A d \in Tasks : d # t => text'[d] = text[d],
           text' \in [Tasks -> Nat], revisions' \in 0..MaxRevisions,
           worker' \in [Workers -> {Idle} \union
             [task : Tasks, token : Tokens, generation : Nat, read : Readings \union {None}]],
           \A w \in Workers : worker'[w] \in {worker[w], Idle}
    PROVE  StoreInv'
<1> DEFINE set == Descendants(t, dep)
           new == Refreshed(set, Without(set, st, "pending"), rem, dep)
<1>1. /\ set \in SUBSET Tasks /\ t \in set
      /\ \A e \in Tasks, p \in set : p \in dep[e] => e \in set
      /\ dep[t] \intersect set = {}
  BY DescendantsClosed DEF NoCycleAt
<1>2. /\ state' = new.state /\ remaining' = new.count /\ deps' = dep
      /\ generation' = [d \in Tasks |-> IF d \in set THEN generation[d] + 1 ELSE generation[d]]
      /\ result' = Without(set, result, None)
      /\ session' = Without(set \ keeps, session, None)
      /\ attempts' = Ended(set, "superseded")
      /\ token' = Without(set, token, None)
      /\ left' = Without(set, left, 0)
  BY DEF Invalidate
<1>3. /\ Consistent(state', remaining', deps')
      /\ state' \in StateMaps /\ remaining' \in CountMaps
      /\ \A d \in set : state'[d] \in Waiting /\ st[d] # "absent"
      /\ \A d \in Tasks \ set : state'[d] = st[d]
  BY <1>2, ThrowingBack
<1> HIDE DEF set
<1>4. /\ generation' \in [Tasks -> Nat]
      /\ \A d \in Tasks : d \notin set => generation'[d] = generation[d]
  BY <1>2 DEF StoreInv, StoreTypeOK
<1>5. /\ result' \in [Tasks -> Readings \union {None}]
      /\ \A d \in Tasks : d \notin set => result'[d] = result[d]
  BY <1>2 DEF Without, StoreInv, StoreTypeOK
<1>6. /\ session' \in [Tasks -> Readings \union {None}]
      /\ \A d \in Tasks : session'[d] # None =>
           session'[d] = session[d] /\ (d \notin set \/ d \in keeps)
  BY <1>2 DEF Without, StoreInv, StoreTypeOK
<1>7. /\ token' \in [Tasks -> Tokens \union {None}]
      /\ \A d \in Tasks : token'[d] = IF d \in set THEN None ELSE token[d]
  BY <1>2 DEF Without, StoreInv, StoreTypeOK
<1>8. left' \in [Tasks -> 0..Lease]
  <2>1. 0 \in 0..Lease
    BY StoreAssumption
  <2> QED
    BY <1>2, <2>1 DEF Without, StoreInv, StoreTypeOK
<1>9. /\ attempts' \in Seq(AttemptRows) /\ DOMAIN attempts' = DOMAIN attempts
      /\ \A a \in DOMAIN attempts :
           IF attempts[a].outcome = "open" /\ attempts[a].task \in set
           THEN attempts'[a] = [task |-> attempts[a].task, outcome |-> "superseded"]
           ELSE attempts'[a] = attempts[a]
  <2>0. set \in SUBSET Tasks
    BY <1>1
  <2>1. "superseded" \in Outcomes \ {"open"}
    BY DEF Outcomes
  <2>2. StoreTypeOK /\ AttemptsAgree
    BY DEF StoreInv
  <2>3. /\ Ended(set, "superseded") \in Seq(AttemptRows)
        /\ DOMAIN Ended(set, "superseded") = DOMAIN attempts
        /\ \A a \in DOMAIN attempts :
             IF attempts[a].outcome = "open" /\ attempts[a].task \in set
             THEN Ended(set, "superseded")[a] = [task |-> attempts[a].task, outcome |-> "superseded"]
             ELSE Ended(set, "superseded")[a] = attempts[a]
    BY <2>0, <2>1, <2>2, EndedFacts
  <2>4. attempts' = Ended(set, "superseded")
    BY <1>2
  <2> QED
    BY <2>3, <2>4
<1>10. ASSUME NEW a \in DOMAIN attempts
       PROVE  /\ attempts'[a].task = attempts[a].task
              /\ attempts'[a].outcome = "open" =>
                   attempts'[a] = attempts[a] /\ attempts[a].task \notin set
  <2>1. CASE attempts[a].outcome = "open" /\ attempts[a].task \in set
    <3>1. attempts'[a] = [task |-> attempts[a].task, outcome |-> "superseded"]
      BY <1>9, <2>1
    <3> QED
      BY <3>1
  <2>2. CASE ~(attempts[a].outcome = "open" /\ attempts[a].task \in set)
    BY <1>9, <2>2
  <2> QED
    BY <2>1, <2>2
<1>11. StoreTypeOK'
  BY <1>2, <1>3, <1>4, <1>5, <1>6, <1>7, <1>8, <1>9
     DEF StoreTypeOK, StateMaps, CountMaps, DepMaps, AttemptRows
<1>12. Consistent(state, remaining, deps)'
  BY <1>3 DEF Consistent, Grounded, Counted, Supported, Readied, Bad, Unverified
<1>13. ASSUME NEW d \in Known, d \notin set
       PROVE  /\ d \in Tasks /\ deps'[d] = deps[d] /\ text'[d] = text[d]
              /\ \A p \in deps[d] : generation'[p] = generation[p]
              /\ Reading(d)' = Reading(d)
  <2>1. d \in Tasks /\ d # t /\ deps'[d] = deps[d] /\ text'[d] = text[d]
    BY <1>1, <1>2, <1>13 DEF Known
  <2>2. ASSUME NEW p \in deps[d] PROVE generation'[p] = generation[p]
    <3>1. p \in Tasks /\ p \in dep[d]
      BY <1>2, <2>1, TypeFacts DEF StoreInv, DepMaps
    <3>2. p \notin set
      BY <1>1, <1>13, <2>1, <3>1
    <3> QED
      BY <1>4, <3>1, <3>2
  <2> QED
    BY <2>1, <2>2, SameReading
<1>14. AttemptsAgree'
  <2>1. ASSUME NEW d \in Tasks, token'[d] # None
        PROVE  /\ state'[d] = "running" /\ token'[d] \in DOMAIN attempts'
               /\ attempts'[token'[d]] = [task |-> d, outcome |-> "open"]
    <3>1. d \notin set /\ token'[d] = token[d]
      BY <1>7, <2>1
    <3>2. /\ state[d] = "running" /\ token[d] \in DOMAIN attempts
          /\ attempts[token[d]] = [task |-> d, outcome |-> "open"]
      BY <2>1, <3>1 DEF StoreInv, AttemptsAgree
    <3>3. state'[d] = "running"
      BY <1>3, <3>1, <3>2 DEF Known
    <3>4. attempts'[token[d]] = attempts[token[d]]
      <4>1. attempts[token[d]].task \notin set
        BY <3>1, <3>2
      <4> QED
        BY <1>9, <3>2, <4>1
    <3> QED
      BY <1>9, <3>1, <3>2, <3>3, <3>4
  <2>2. ASSUME NEW a \in DOMAIN attempts', attempts'[a].outcome = "open"
        PROVE  token'[attempts'[a].task] = a
    <3>1. a \in DOMAIN attempts /\ attempts'[a] = attempts[a] /\ attempts[a].task \notin set
      BY <1>9, <1>10, <2>2
    <3>2. attempts[a].task \in Tasks /\ token[attempts[a].task] = a
      BY <2>2, <3>1, TypeFacts DEF StoreInv, AttemptsAgree, AttemptRows
    <3> QED
      BY <1>7, <3>1, <3>2
  <2> QED
    BY <2>1, <2>2 DEF AttemptsAgree
<1>15. Hands'
  <2>1. ASSUME NEW w \in Workers, worker'[w] # Idle PROVE HandAt(w)'
    <3>1. /\ worker'[w] = worker[w] /\ worker[w] # Idle /\ HandAt(w)
          /\ worker[w].task \in Tasks /\ worker[w].token \in Tokens
      <4>1. worker'[w] = worker[w]
        BY <2>1
      <4>2. worker[w] # Idle
        BY <2>1, <4>1
      <4> QED
        BY <4>1, <4>2, WorkerFacts DEF StoreInv, Hands
    <3>2. worker[w].token \in DOMAIN attempts' /\ attempts'[worker[w].token].task = worker[w].task
      BY <1>9, <1>10, <3>1 DEF HandAt
    <3>3. ASSUME token'[worker[w].task] = worker[w].token
          PROVE  /\ token[worker[w].task] = worker[w].token
                 /\ Reading(worker[w].task)' = Reading(worker[w].task)
      <4>1. worker[w].token # None
        BY <3>1, StoreAssumption DEF Tokens
      <4>2. worker[w].task \notin set /\ token[worker[w].task] = worker[w].token
        BY <1>7, <3>1, <3>3, <4>1
      <4>3. worker[w].task \in Known
        BY <3>1, <4>1, <4>2 DEF StoreInv, AttemptsAgree, Known
      <4> QED
        BY <1>13, <3>1, <4>2, <4>3 DEF Reading
    <3> QED
      BY <3>1, <3>2, <3>3 DEF HandAt
  <2>2. ASSUME NEW w \in Workers, worker'[w] = Idle PROVE HandAt(w)'
    BY <2>2 DEF HandAt
  <2> QED
    BY <2>1, <2>2 DEF Hands
<1>16. Published'
  <2>1. ASSUME NEW d \in Tasks, state'[d] = "verified" PROVE result'[d] = Reading(d)'
    <3>1. d \notin set /\ st[d] = "verified"
      BY <1>3, <2>1 DEF Waiting
    <3>2. d \in Known /\ state[d] = "verified"
      BY <3>1 DEF Waiting
    <3>3. PublishedAt(d)
      BY DEF StoreInv, Published
    <3> QED
      BY <1>5, <1>13, <3>1, <3>2, <3>3 DEF PublishedAt
  <2> QED
    BY <2>1 DEF Published, PublishedAt
<1>17. Frozen'
  <2>1. ASSUME NEW d \in Tasks, session'[d] # None
        PROVE  /\ state'[d] # "absent"
               /\ session'[d].text = text'[d]
               /\ \A p \in Tasks : session'[d].basis[p] # None =>
                    p \in deps'[d] /\ generation'[p] = session'[d].basis[p]
    <3>1. session'[d] = session[d] /\ (d \notin set \/ d \in keeps)
      BY <1>6, <2>1
    <3>2. /\ d \in Known
          /\ session[d].text = text[d]
          /\ \A p \in Tasks : session[d].basis[p] # None =>
               p \in deps[d] /\ generation[p] = session[d].basis[p]
      BY <2>1, <3>1 DEF StoreInv, Frozen, FrozenAt, Known
    <3>3. CASE d \notin set
      <4>1. state'[d] # "absent"
        BY <1>3, <3>2, <3>3 DEF Known
      <4> QED
        BY <1>13, <3>1, <3>2, <3>3, <4>1
    <3>4. CASE d \in keeps
      <4>1. d = t /\ deps[t] \subseteq deps'[t] /\ text'[t] = text[t]
        BY <1>2, <3>4
      <4>2. \A p \in deps[t] : p \notin set
        BY <1>1, <1>2, <4>1
      <4>3. state'[d] # "absent"
        BY <1>1, <1>3, <4>1 DEF Waiting
      <4> QED
        BY <1>4, <3>1, <3>2, <4>1, <4>2, <4>3
    <3> QED
      BY <3>1, <3>3, <3>4
  <2> QED
    BY <2>1 DEF Frozen, FrozenAt
<1> QED
  BY <1>11, <1>12, <1>14, <1>15, <1>16, <1>17 DEF StoreInv

LEMMA ReviseKeeps ==
    ASSUME StoreInv, NEW t \in Tasks, NEW needs \in SUBSET Known, Revise(t, needs)
    PROVE  StoreInv'
<1> DEFINE dep == [deps EXCEPT ![t] = needs]
           none == {}
<1>1. /\ t \in Known /\ revisions < MaxRevisions /\ NoCycleAt(t, dep)
      /\ Invalidate(Descendants(t, dep), none, dep, state, remaining)
      /\ text' = [text EXCEPT ![t] = @ + 1] /\ revisions' = revisions + 1
      /\ UNCHANGED worker
  BY DEF Revise, InvalidatedBy
<1>2. state \in StateMaps /\ remaining \in CountMaps /\ deps \in DepMaps
  BY TypeFacts DEF StoreInv
<1>3. /\ dep \in DepMaps /\ dep[t] = needs
      /\ \A d \in Tasks : d # t => dep[d] = deps[d]
      /\ needs \subseteq Tasks /\ \A p \in needs : state[p] # "absent"
  BY <1>2 DEF DepMaps, Known
<1>4. /\ text' \in [Tasks -> Nat] /\ \A d \in Tasks : d # t => text'[d] = text[d]
  BY <1>1 DEF StoreInv, StoreTypeOK
<1>5. revisions' \in 0..MaxRevisions
  BY <1>1, StoreAssumption DEF StoreInv, StoreTypeOK
<1>6. \A d \in Tasks : d \notin Known => state[d] = "absent"
  BY DEF Known
<1>7. none \in SUBSET {t} /\ ~(none # {})
  OBVIOUS
<1>8. Consistent(state, remaining, deps) /\ state[t] # "absent"
  BY <1>1 DEF StoreInv, Known
<1>9. /\ worker' \in [Workers -> {Idle} \union
           [task : Tasks, token : Tokens, generation : Nat, read : Readings \union {None}]]
      /\ \A w \in Workers : worker'[w] \in {worker[w], Idle}
  BY <1>1 DEF StoreInv, StoreTypeOK
<1> HIDE DEF dep, none
<1> QED
  BY <1>1, <1>2, <1>3, <1>4, <1>5, <1>6, <1>7, <1>8, <1>9, Superseding

LEMMA ExpandKeeps ==
    ASSUME StoreInv, NEW w \in Workers, Expand(w)
    PROVE  StoreInv'
<1> DEFINE t == worker[w].task
           Dep(plan, more) == [Merged(plan) EXCEPT ![t] = deps[t] \union more]
<1>1. Leased(w) /\ worker' = [worker EXCEPT ![w] = Idle] /\ UNCHANGED <<text, revisions>>
  BY DEF Expand
<1>2. PICK batch \in SUBSET (Tasks \ Known) :
        \E plan \in Plans(batch) : \E more \in SUBSET (Known \union batch) :
          /\ NoCycleAt(t, Dep(plan, more))
          /\ Invalidate(Descendants(t, Dep(plan, more)), {t}, Dep(plan, more),
                        Added(plan).state, Added(plan).count)
  BY DEF Expand, InvalidatedBy
<1>3. PICK plan \in Plans(batch) : \E more \in SUBSET (Known \union batch) :
        /\ NoCycleAt(t, Dep(plan, more))
        /\ Invalidate(Descendants(t, Dep(plan, more)), {t}, Dep(plan, more),
                      Added(plan).state, Added(plan).count)
  BY <1>2
<1>4. PICK more \in SUBSET (Known \union batch) :
        /\ NoCycleAt(t, Dep(plan, more))
        /\ Invalidate(Descendants(t, Dep(plan, more)), {t}, Dep(plan, more),
                      Added(plan).state, Added(plan).count)
  BY <1>3
<1> DEFINE dep == Dep(plan, more)
           mid == Merged(plan)
           st == Added(plan).state
           rem == Added(plan).count
           keeps == {t}
<1>5. t \in Tasks /\ state[t] = "running" /\ t \in Known
  BY <1>1, LeasedFacts DEF Known
<1>6. /\ mid \in DepMaps /\ st \in StateMaps /\ rem \in CountMaps
      /\ Consistent(st, rem, mid)
      /\ \A d \in Known : st[d] = state[d] /\ mid[d] = deps[d]
      /\ \A d \in batch : st[d] \in Waiting
      /\ \A d \in Tasks \ batch : st[d] = state[d]
  BY Adding DEF StoreInv
<1>7. state \in StateMaps /\ deps \in DepMaps
  BY TypeFacts DEF StoreInv
<1> HIDE DEF st, rem, mid
<1>8. dep = [mid EXCEPT ![t] = deps[t] \union more]
  BY DEF mid
<1>9. /\ dep \in DepMaps /\ dep[t] = deps[t] \union more
      /\ \A d \in Tasks : d # t => dep[d] = mid[d]
  BY <1>5, <1>6, <1>7, <1>8 DEF DepMaps, Known
<1>10. /\ Invalidate(Descendants(t, dep), keeps, dep, st, rem)
       /\ NoCycleAt(t, dep)
  BY <1>4 DEF st, rem
<1> HIDE DEF dep, Dep
<1>11. \A p \in dep[t] : st[p] # "absent"
  <2>1. \A p \in deps[t] : p \in Known
    BY <1>5, <1>7 DEF StoreInv, Consistent, Grounded, Known, DepMaps
  <2>2. \A p \in Known : st[p] # "absent"
    BY <1>6 DEF Known
  <2>3. \A p \in batch : st[p] # "absent"
    BY <1>6 DEF Waiting
  <2> QED
    BY <1>9, <2>1, <2>2, <2>3
<1>12. \A d \in Tasks : IF d \in Known THEN st[d] = state[d] /\ mid[d] = deps[d]
                        ELSE st[d] \in Waiting \union {"absent"}
  BY <1>6 DEF Known
<1>13. st[t] # "absent" /\ keeps \in SUBSET {t} /\ deps[t] \subseteq dep[t] /\ text'[t] = text[t]
  BY <1>1, <1>5, <1>6, <1>9
<1>14. /\ text' \in [Tasks -> Nat] /\ revisions' \in 0..MaxRevisions
       /\ \A d \in Tasks : d # t => text'[d] = text[d]
       /\ worker' \in [Workers -> {Idle} \union
            [task : Tasks, token : Tokens, generation : Nat, read : Readings \union {None}]]
       /\ \A v \in Workers : worker'[v] \in {worker[v], Idle}
  BY <1>1 DEF StoreInv, StoreTypeOK
<1> HIDE DEF keeps
<1> QED
  BY <1>5, <1>6, <1>9, <1>10, <1>11, <1>12, <1>13, <1>14, Superseding

-----------------------------------------------------------------------------
LEMMA InitHolds ==
    ASSUME StoreInit
    PROVE  StoreInv
<1>1. StoreTypeOK
  <2>1. 0 \in 0..Lease /\ 0 \in 0..MaxRevisions
    BY StoreAssumption
  <2>2. attempts \in Seq([task : Tasks, outcome : Outcomes])
    BY DEF StoreInit
  <2> QED
    BY <2>1, <2>2 DEF StoreInit, StoreTypeOK, States
<1>2. Consistent(state, remaining, deps)
  BY DEF StoreInit, Consistent, Grounded, Counted, Supported, Readied, Waiting
<1>3. AttemptsAgree
  BY DEF StoreInit, AttemptsAgree
<1>4. Hands /\ Published /\ Frozen
  BY DEF StoreInit, Hands, HandAt, Published, PublishedAt, Frozen, FrozenAt
<1> QED
  BY <1>1, <1>2, <1>3, <1>4 DEF StoreInv

LEMMA StutterKeeps ==
    ASSUME StoreInv, UNCHANGED storeVars
    PROVE  StoreInv'
<1>1. StoreTypeOK'
  BY DEF StoreInv, StoreTypeOK, storeVars, graphVars, leaseVars, contractVars
<1>2. UNCHANGED <<graphVars, token, attempts, contractVars, result, session, worker>>
  BY DEF storeVars, leaseVars
<1> QED
  BY <1>1, <1>2, ClockKeeps DEF StoreTypeOK

LEMMA NextKeeps ==
    ASSUME StoreInv, [StoreNext]_storeVars
    PROVE  StoreInv'
<1>1. CASE AddTasks
  BY <1>1, AddTasksKeeps
<1>2. CASE \E t \in Tasks : \E needs \in SUBSET Known : Revise(t, needs)
  BY <1>2, ReviseKeeps
<1>3. ASSUME NEW w \in Workers, WorkerStep(w) PROVE StoreInv'
  <2>1. CASE ClaimNothing(w)
    BY <2>1, ClaimNothingKeeps
  <2>2. CASE \E t \in Tasks : ClaimTask(w, t)
    BY <2>2, ClaimTaskKeeps
  <2>3. CASE Read(w)
    BY <2>3, ReadKeeps
  <2>4. CASE Heartbeat(w)
    BY <2>4, HeartbeatKeeps
  <2>5. CASE Checkpoint(w)
    BY <2>5, CheckpointKeeps
  <2>6. CASE Complete(w)
    BY <2>6, CompleteKeeps
  <2>7. CASE \E retry \in BOOLEAN : Fail(w, retry)
    BY <2>7, FailKeeps
  <2>8. CASE Expand(w)
    BY <2>8, ExpandKeeps
  <2>9. CASE LoseLease(w)
    BY <2>9, LoseLeaseKeeps
  <2> QED
    BY <1>3, <2>1, <2>2, <2>3, <2>4, <2>5, <2>6, <2>7, <2>8, <2>9 DEF WorkerStep, Claim
<1>4. CASE Tick
  BY <1>4, TickKeeps
<1>5. CASE UNCHANGED storeVars
  BY <1>5, StutterKeeps
<1> QED
  BY <1>1, <1>2, <1>3, <1>4, <1>5 DEF StoreNext

LEMMA EndedKeeps ==
    ASSUME NEW set, NEW outcome
    PROVE  \A a \in DOMAIN attempts :
             /\ a \in DOMAIN Ended(set, outcome)
             /\ attempts[a].outcome # "open" => Ended(set, outcome)[a] = attempts[a]
BY DEF Ended

(* No step removes an attempt or touches one that has its outcome.         *)
LEMMA OutcomesStand ==
    ASSUME StoreInv, [StoreNext]_storeVars
    PROVE  \A a \in DOMAIN attempts :
             a \in DOMAIN attempts' /\ (attempts[a].outcome # "open" => attempts'[a] = attempts[a])
<1> DEFINE Goal == \A a \in DOMAIN attempts :
             a \in DOMAIN attempts' /\ (attempts[a].outcome # "open" => attempts'[a] = attempts[a])
<1>1. CASE UNCHANGED attempts
  BY <1>1
<1>2. ASSUME NEW set, NEW outcome, attempts' = Ended(set, outcome)
      PROVE  Goal
  BY <1>2, EndedKeeps
<1>3. ASSUME NEW w \in Workers, NEW t \in Tasks, ClaimTask(w, t)
      PROVE  Goal
  <2>1. /\ Expired \in SUBSET Tasks /\ "expired" \in Outcomes \ {"open"}
        /\ StoreTypeOK /\ AttemptsAgree
    BY DEF Expired, Outcomes, StoreInv
  <2> DEFINE ended == Ended(Expired, "expired")
  <2>2. /\ ended \in Seq(AttemptRows) /\ Len(ended) = Len(attempts)
        /\ DOMAIN ended = DOMAIN attempts
    BY <2>1, EndedFacts
  <2>a. \A a \in DOMAIN attempts : attempts[a].outcome # "open" => ended[a] = attempts[a]
    BY EndedKeeps
  <2>3. attempts' = Append(ended, [task |-> t, outcome |-> "open"])
    BY <1>3 DEF ClaimTask
  <2> HIDE DEF ended
  <2>4. \A a \in DOMAIN ended : a \in DOMAIN attempts' /\ attempts'[a] = ended[a]
    <3>1. [task |-> t, outcome |-> "open"] \in AttemptRows
      BY DEF AttemptRows, Outcomes
    <3> QED
      BY <2>2, <2>3, <3>1
  <2> QED
    BY <2>2, <2>a, <2>4
<1>4. ASSUME NEW w \in Workers, NEW outcome, Leased(w), Finish(w, outcome)
      PROVE  Goal
  <2>1. attempts[worker[w].token].outcome = "open"
    <3>1. attempts[worker[w].token] = [task |-> worker[w].task, outcome |-> "open"]
      BY <1>4, LeasedFacts
    <3> QED
      BY <3>1
  <2>2. attempts' = [attempts EXCEPT ![worker[w].token].outcome = outcome]
    BY <1>4 DEF Finish
  <2> QED
    BY <2>1, <2>2
<1>5. CASE \E t \in Tasks : \E needs \in SUBSET Known : Revise(t, needs)
  <2>1. PICK t \in Tasks : \E needs \in SUBSET Known : Revise(t, needs)
    BY <1>5
  <2>2. PICK needs \in SUBSET Known : Revise(t, needs)
    BY <2>1
  <2>3. attempts' = Ended(Descendants(t, [deps EXCEPT ![t] = needs]), "superseded")
    BY <2>2 DEF Revise, InvalidatedBy, Invalidate
  <2> QED
    BY <1>2, <2>3
<1>6. ASSUME NEW w \in Workers, WorkerStep(w) PROVE Goal
  <2>1. CASE ClaimNothing(w)
    BY <1>2, <2>1 DEF ClaimNothing
  <2>2. CASE \E t \in Tasks : ClaimTask(w, t)
    BY <1>3, <2>2
  <2>3. CASE Read(w) \/ Heartbeat(w) \/ Checkpoint(w) \/ LoseLease(w)
    BY <1>1, <2>3 DEF Read, Heartbeat, Checkpoint, LoseLease, leaseVars
  <2>4. CASE Complete(w)
    BY <1>4, <2>4 DEF Complete
  <2>5. CASE \E retry \in BOOLEAN : Fail(w, retry)
    BY <1>4, <2>5 DEF Fail
  <2>6. CASE Expand(w)
    <3>1. \E set : attempts' = Ended(set, "superseded")
      BY <2>6 DEF Expand, Invalidate
    <3> QED
      BY <1>2, <3>1
  <2> QED
    BY <1>6, <2>1, <2>2, <2>3, <2>4, <2>5, <2>6 DEF WorkerStep, Claim
<1>7. CASE AddTasks \/ Tick \/ UNCHANGED storeVars
  BY <1>1, <1>7 DEF AddTasks, Tick, storeVars, leaseVars
<1> QED
  BY <1>5, <1>6, <1>7 DEF StoreNext

-----------------------------------------------------------------------------
(* The inductive invariant of the campaign ledger.                         *)
THEOREM StoreInvariant == StoreSpec => []StoreInv
<1>1. StoreInit => StoreInv
  BY InitHolds
<1>2. StoreInv /\ [StoreNext]_storeVars => StoreInv'
  BY NextKeeps
<1> QED
  BY <1>1, <1>2, PTL DEF StoreSpec

(* The tables hold rows of their types (the schema in store.py).           *)
THEOREM StoreTyped == StoreSpec => []StoreTypeOK
<1>1. StoreInv => StoreTypeOK
  BY DEF StoreInv
<1> QED
  BY <1>1, StoreInvariant, PTL

(* The count that complete decrements and every other method recomputes is *)
(* the number of unverified prerequisites.                                 *)
THEOREM CountsAreTrue == StoreSpec => []CountsAgree
<1>1. StoreInv => CountsAgree
  BY DEF StoreInv, Consistent, Counted, CountsAgree, Known
<1> QED
  BY <1>1, StoreInvariant, PTL

(* Nothing is admitted before its prerequisites are verified, and nothing  *)
(* is left asleep after the last of them or behind one that can be tried   *)
(* again (_refresh_affected and the shortcut of complete).                 *)
THEOREM ReadinessIsTrue == StoreSpec => []ReadinessAgrees
<1>1. StoreInv => ReadinessAgrees
  BY DEF StoreInv, Consistent, Readied, Bad, ReadinessAgrees, Known
<1> QED
  BY <1>1, StoreInvariant, PTL

(* No late worker publishes what it made from a text or from results that  *)
(* no longer stand.                                                        *)
THEOREM ResultsAreCurrent == StoreSpec => []ResultIsCurrent
<1>1. StoreInv => ResultIsCurrent
  BY DEF StoreInv, Consistent, Supported, Published, PublishedAt, ResultIsCurrent, Known
<1> QED
  BY <1>1, StoreInvariant, PTL

(* No frozen statement outlives the text or the results it was made from.  *)
THEOREM FrozenAreCurrent == StoreSpec => []FrozenIsCurrent
<1>1. StoreInv => FrozenIsCurrent
  BY DEF StoreInv, Frozen, FrozenAt, FrozenIsCurrent, Known
<1> QED
  BY <1>1, StoreInvariant, PTL

(* The history of attempts is written once: an attempt ends with its lease *)
(* and its outcome stands.                                                 *)
THEOREM AttemptsEndOnce == StoreSpec => OneOutcome
<1>1. StoreInv /\ StoreInv' /\ [StoreNext]_storeVars =>
        [\A a \in DOMAIN attempts :
           /\ a \in DOMAIN attempts'
           /\ attempts'[a].outcome # attempts[a].outcome =>
                attempts[a].outcome = "open" /\ token[attempts[a].task] = a
                   /\ token'[attempts[a].task] # a]_storeVars
  <2> SUFFICES ASSUME StoreInv, StoreInv', [StoreNext]_storeVars, NEW a \in DOMAIN attempts
               PROVE  /\ a \in DOMAIN attempts'
                      /\ attempts'[a].outcome # attempts[a].outcome =>
                           attempts[a].outcome = "open" /\ token[attempts[a].task] = a
                              /\ token'[attempts[a].task] # a
    OBVIOUS
  <2>1. a \in DOMAIN attempts' /\ (attempts[a].outcome # "open" => attempts'[a] = attempts[a])
    BY OutcomesStand
  <2>2. ASSUME attempts'[a].outcome # attempts[a].outcome
        PROVE  attempts[a].outcome = "open" /\ token[attempts[a].task] = a
                  /\ token'[attempts[a].task] # a
    <3>1. attempts[a].outcome = "open" /\ token[attempts[a].task] = a
      BY <2>1, <2>2 DEF StoreInv, AttemptsAgree
    <3>2. attempts[a].task \in Tasks /\ a # None
      BY TypeFacts, StoreAssumption DEF StoreInv, AttemptRows
    <3>3. ASSUME token'[attempts[a].task] = a PROVE FALSE
      <4>1. attempts'[a] = [task |-> attempts[a].task, outcome |-> "open"]
        BY <3>2, <3>3 DEF StoreInv, AttemptsAgree
      <4> QED
        BY <2>2, <3>1, <4>1
    <3> QED
      BY <3>1, <3>3
  <2> QED
    BY <2>1, <2>2
<1> QED
  BY <1>1, StoreInvariant, PTL DEF StoreSpec, OneOutcome

-----------------------------------------------------------------------------
(***************************************************************************)
(* Proofs about TheoryLease, for any number of owners, observers and       *)
(* files.                                                                  *)
(*                                                                         *)
(* The invariant LeaseInv follows a file from its creation.  Until an      *)
(* owner has locked its file nobody else can open it, because whoever      *)
(* looks at the owner has either swept it under the cleanup lock or was    *)
(* told its identifier after its construction.  From then on an observer   *)
(* that opens the name of a living owner opens the very file the owner has *)
(* locked, so it can take that lock only when the life is over.            *)
(***************************************************************************)

(* Who works under .cleanup.lock.                                          *)
Guarded ==
    \A o \in Owners :
        pc[o] \in {"open", "lock", "sweep", "sweepLock", "sweepUnlink",
                   "probe", "probeOpen", "probeLock", "probeRelease"} => cleanup = o

Fresh ==
    /\ \A o \in Owners : name[o] <= created /\ own[o] <= created
    /\ \A a \in Observers : other[a] <= created
    /\ \A f \in Files : lock[f] # Nobody => f <= created

Distinct ==
    \A o, q \in Owners : (name[o] = name[q] /\ name[o] # Nameless) => o = q

Nascent ==
    \A o \in Owners :
        /\ pc[o] \in {"unborn", "open"} => name[o] = Nameless
        /\ pc[o] = "lock" => name[o] = own[o] /\ name[o] # Nameless

KnownBorn == \A o \in known : pc[o] \notin Making

SweptBorn == \A o \in Owners : \A q \in sweep[o] : q # o /\ pc[q] \notin Making

Sweeping ==
    \A o \in Owners : pc[o] \in {"sweepLock", "sweepUnlink"} =>
        /\ subject[o] \in Owners /\ subject[o] # o
        /\ pc[subject[o]] \notin Making
        /\ other[o] # Nameless /\ other[o] # own[o]
        /\ pc[subject[o]] \in Living => pc[o] = "sweepLock" /\ other[o] = own[subject[o]]

Probing ==
    \A a \in Observers :
        /\ pc[a] \in {"probe", "probeOpen", "probeLock", "probeRelease"} => subject[a] \in known
        /\ pc[a] \in {"probeLock", "probeRelease"} => other[a] # Nameless
        /\ (pc[a] = "probeLock" /\ pc[subject[a]] \in Living) => other[a] = own[subject[a]]
        /\ pc[a] = "probeRelease" =>
              /\ pc[subject[a]] \notin Living
              /\ a \in Owners => other[a] # own[a]

LeaseInv ==
    /\ LeaseTypeOK /\ Guarded /\ Fresh /\ Distinct /\ Nascent /\ LeaseKept
    /\ KnownBorn /\ SweptBorn /\ Sweeping /\ Probing

LEMMA BeginKeeps ==
    ASSUME LeaseInv, NEW o \in Owners, Begin(o)
    PROVE  LeaseInv'
<1> USE LeaseAssumption DEF LeaseInv, LeaseTypeOK, Begin, Goto, TakesCleanup, DropsCleanup, Opens, Unlinks, Frees, Verdict, Observers, Files, Nameless, Making, Living, Ending, Over
<1>1. LeaseTypeOK'
  OBVIOUS
<1>2. Guarded'
  BY DEF Guarded
<1>3. Fresh'
  BY DEF Fresh
<1>4. Distinct'
  BY DEF Distinct, Fresh, Nascent
<1>5. Nascent'
  BY DEF Nascent, Guarded, Fresh, SweptBorn, Sweeping, KnownBorn, Probing
<1>6. LeaseKept'
  BY DEF LeaseKept, Fresh, Guarded, Nascent, SweptBorn, KnownBorn, Sweeping, Probing, Distinct
<1>7. KnownBorn'
  BY DEF KnownBorn, Nascent
<1>8. SweptBorn'
  BY DEF SweptBorn, Nascent, Guarded
<1>9. Sweeping'
  BY DEF Sweeping, Guarded, LeaseKept, Fresh, SweptBorn, Distinct, Nascent
<1>10. Probing'
  BY DEF Probing, Guarded, LeaseKept, KnownBorn, Distinct, Fresh
<1> QED
  BY <1>1, <1>2, <1>3, <1>4, <1>5, <1>6, <1>7, <1>8, <1>9, <1>10

LEMMA CreateKeeps ==
    ASSUME LeaseInv, NEW o \in Owners, Create(o)
    PROVE  LeaseInv'
<1> USE LeaseAssumption DEF LeaseInv, LeaseTypeOK, Create, Goto, TakesCleanup, DropsCleanup, Opens, Unlinks, Frees, Verdict, Observers, Files, Nameless, Making, Living, Ending, Over
<1>1. LeaseTypeOK'
  OBVIOUS
<1>2. Guarded'
  BY DEF Guarded
<1>3. Fresh'
  <2>1. PICK f \in Files : Opens(o, f) /\ own' = [own EXCEPT ![o] = f]
    OBVIOUS
  <2>2. created \in Nat /\ created' \in Nat /\ created <= created'
    BY <2>1 DEF Fresh
  <2>3. \A p \in Owners : name'[p] <= created' /\ own'[p] <= created'
    BY <2>1, <2>2 DEF Fresh
  <2>4. \A p \in Observers : other'[p] <= created'
    BY <2>1, <2>2 DEF Fresh
  <2>5. \A g \in Files : lock'[g] # Nobody => g <= created'
    BY <2>2 DEF Fresh
  <2> QED
    BY <2>3, <2>4, <2>5 DEF Fresh
<1>4. Distinct'
  BY DEF Distinct, Fresh, Nascent
<1>5. Nascent'
  BY DEF Nascent, Guarded, Fresh, SweptBorn, Sweeping, KnownBorn, Probing
<1>6. LeaseKept'
  BY DEF LeaseKept, Fresh, Guarded, Nascent, SweptBorn, KnownBorn, Sweeping, Probing, Distinct
<1>7. KnownBorn'
  BY DEF KnownBorn, Nascent
<1>8. SweptBorn'
  BY DEF SweptBorn, Nascent, Guarded
<1>9. Sweeping'
  BY DEF Sweeping, Guarded, LeaseKept, Fresh, SweptBorn, Distinct, Nascent
<1>10. Probing'
  BY DEF Probing, Guarded, LeaseKept, KnownBorn, Distinct, Fresh
<1> QED
  BY <1>1, <1>2, <1>3, <1>4, <1>5, <1>6, <1>7, <1>8, <1>9, <1>10

LEMMA LockKeeps ==
    ASSUME LeaseInv, NEW o \in Owners, Lock(o)
    PROVE  LeaseInv'
<1> USE LeaseAssumption DEF LeaseInv, LeaseTypeOK, Lock, Goto, TakesCleanup, DropsCleanup, Opens, Unlinks, Frees, Verdict, Observers, Files, Nameless, Making, Living, Ending, Over
<1>1. LeaseTypeOK'
  OBVIOUS
<1>2. Guarded'
  BY DEF Guarded
<1>3. Fresh'
  BY DEF Fresh
<1>4. Distinct'
  BY DEF Distinct, Fresh, Nascent
<1>5. Nascent'
  BY DEF Nascent, Guarded, Fresh, SweptBorn, Sweeping, KnownBorn, Probing
<1>6. LeaseKept'
  BY DEF LeaseKept, Fresh, Guarded, Nascent, SweptBorn, KnownBorn, Sweeping, Probing, Distinct
<1>7. KnownBorn'
  BY DEF KnownBorn, Nascent
<1>8. SweptBorn'
  BY DEF SweptBorn, Nascent, Guarded
<1>9. Sweeping'
  BY DEF Sweeping, Guarded, LeaseKept, Fresh, SweptBorn, Distinct, Nascent
<1>10. Probing'
  BY DEF Probing, Guarded, LeaseKept, KnownBorn, Distinct, Fresh
<1> QED
  BY <1>1, <1>2, <1>3, <1>4, <1>5, <1>6, <1>7, <1>8, <1>9, <1>10

LEMMA LockFailsKeeps ==
    ASSUME LeaseInv, NEW o \in Owners, LockFails(o)
    PROVE  LeaseInv'
<1> USE LeaseAssumption DEF LeaseInv, LeaseTypeOK, LockFails, Goto, TakesCleanup, DropsCleanup, Opens, Unlinks, Frees, Verdict, Observers, Files, Nameless, Making, Living, Ending, Over
<1>1. LeaseTypeOK'
  OBVIOUS
<1>2. Guarded'
  BY DEF Guarded
<1>3. Fresh'
  BY DEF Fresh
<1>4. Distinct'
  BY DEF Distinct, Fresh, Nascent
<1>5. Nascent'
  BY DEF Nascent, Guarded, Fresh, SweptBorn, Sweeping, KnownBorn, Probing
<1>6. LeaseKept'
  BY DEF LeaseKept, Fresh, Guarded, Nascent, SweptBorn, KnownBorn, Sweeping, Probing, Distinct
<1>7. KnownBorn'
  BY DEF KnownBorn, Nascent
<1>8. SweptBorn'
  BY DEF SweptBorn, Nascent, Guarded
<1>9. Sweeping'
  BY DEF Sweeping, Guarded, LeaseKept, Fresh, SweptBorn, Distinct, Nascent
<1>10. Probing'
  BY DEF Probing, Guarded, LeaseKept, KnownBorn, Distinct, Fresh
<1> QED
  BY <1>1, <1>2, <1>3, <1>4, <1>5, <1>6, <1>7, <1>8, <1>9, <1>10

LEMMA BeginSweepKeeps ==
    ASSUME LeaseInv, NEW o \in Owners, BeginSweep(o)
    PROVE  LeaseInv'
<1> USE LeaseAssumption DEF LeaseInv, LeaseTypeOK, BeginSweep, Goto, TakesCleanup, DropsCleanup, Opens, Unlinks, Frees, Verdict, Observers, Files, Nameless, Making, Living, Ending, Over
<1>1. LeaseTypeOK'
  OBVIOUS
<1>2. Guarded'
  BY DEF Guarded
<1>3. Fresh'
  BY DEF Fresh
<1>4. Distinct'
  BY DEF Distinct, Fresh, Nascent
<1>5. Nascent'
  BY DEF Nascent, Guarded, Fresh, SweptBorn, Sweeping, KnownBorn, Probing
<1>6. LeaseKept'
  BY DEF LeaseKept, Fresh, Guarded, Nascent, SweptBorn, KnownBorn, Sweeping, Probing, Distinct
<1>7. KnownBorn'
  BY DEF KnownBorn, Nascent
<1>8. SweptBorn'
  BY DEF SweptBorn, Nascent, Guarded
<1>9. Sweeping'
  BY DEF Sweeping, Guarded, LeaseKept, Fresh, SweptBorn, Distinct, Nascent
<1>10. Probing'
  BY DEF Probing, Guarded, LeaseKept, KnownBorn, Distinct, Fresh
<1> QED
  BY <1>1, <1>2, <1>3, <1>4, <1>5, <1>6, <1>7, <1>8, <1>9, <1>10

LEMMA SweepOpenKeeps ==
    ASSUME LeaseInv, NEW o \in Owners, SweepOpen(o)
    PROVE  LeaseInv'
<1> USE LeaseAssumption DEF LeaseInv, LeaseTypeOK, SweepOpen, Goto, TakesCleanup, DropsCleanup, Opens, Unlinks, Frees, Verdict, Observers, Files, Nameless, Making, Living, Ending, Over
<1>1. LeaseTypeOK'
  <2>1. PICK q \in sweep[o], f \in Files :
            /\ Opens(q, f)
            /\ other' = [other EXCEPT ![o] = f]
            /\ subject' = [subject EXCEPT ![o] = q]
            /\ sweep' = [sweep EXCEPT ![o] = @ \ {q}]
    OBVIOUS
  <2>2. q \in Owners
    OBVIOUS
  <2>3. name' \in [Owners -> Files \union {Nameless}] /\ created' \in 0..MaxFiles
    BY <2>1, <2>2
  <2>4. other' \in [Observers -> Files \union {Nameless}]
    BY <2>1
  <2>5. subject' \in [Observers -> Owners \union {Nobody}]
    BY <2>1, <2>2
  <2>6. sweep' \in [Owners -> SUBSET Owners]
    BY <2>1
  <2>7. pc' \in [Observers -> Making \union Living \union Ending \union Over]
    OBVIOUS
  <2> QED
    BY <2>3, <2>4, <2>5, <2>6, <2>7
<1>2. Guarded'
  BY DEF Guarded
<1>3. Fresh'
  <2>1. PICK q \in sweep[o], f \in Files : q \in Owners /\ Opens(q, f) /\ other' = [other EXCEPT ![o] = f]
    OBVIOUS
  <2>2. created \in Nat /\ created' \in Nat /\ created <= created'
    BY <2>1 DEF Fresh
  <2>3. \A p \in Owners : name'[p] <= created' /\ own'[p] <= created'
    BY <2>1, <2>2 DEF Fresh
  <2>4. \A p \in Observers : other'[p] <= created'
    BY <2>1, <2>2 DEF Fresh
  <2>5. \A g \in Files : lock'[g] # Nobody => g <= created'
    BY <2>2 DEF Fresh
  <2> QED
    BY <2>3, <2>4, <2>5 DEF Fresh
<1>4. Distinct'
  BY DEF Distinct, Fresh, Nascent
<1>5. Nascent'
  BY DEF Nascent, Guarded, Fresh, SweptBorn, Sweeping, KnownBorn, Probing
<1>6. LeaseKept'
  BY DEF LeaseKept, Fresh, Guarded, Nascent, SweptBorn, KnownBorn, Sweeping, Probing, Distinct
<1>7. KnownBorn'
  BY DEF KnownBorn, Nascent
<1>8. SweptBorn'
  BY DEF SweptBorn, Nascent, Guarded
<1>9. Sweeping'
  BY DEF Sweeping, Guarded, LeaseKept, Fresh, SweptBorn, Distinct, Nascent
<1>10. Probing'
  BY DEF Probing, Guarded, LeaseKept, KnownBorn, Distinct, Fresh
<1> QED
  BY <1>1, <1>2, <1>3, <1>4, <1>5, <1>6, <1>7, <1>8, <1>9, <1>10

LEMMA SweepLockKeeps ==
    ASSUME LeaseInv, NEW o \in Owners, SweepLock(o)
    PROVE  LeaseInv'
<1> USE LeaseAssumption DEF LeaseInv, LeaseTypeOK, SweepLock, Goto, TakesCleanup, DropsCleanup, Opens, Unlinks, Frees, Verdict, Observers, Files, Nameless, Making, Living, Ending, Over
<1>1. LeaseTypeOK'
  <2>1. CASE lock[other[o]] = Nobody
    <3>1. lock' = [lock EXCEPT ![other[o]] = o] /\ UNCHANGED <<other, subject>>
      BY <2>1
    <3>2. pc' = [pc EXCEPT ![o] = "sweepUnlink"]
      BY <2>1
    <3> QED
      BY <3>1, <3>2
  <2>2. CASE lock[other[o]] # Nobody
    <3>1. /\ other' = [other EXCEPT ![o] = Nameless]
          /\ subject' = [subject EXCEPT ![o] = Nobody]
          /\ UNCHANGED lock
      BY <2>2
    <3>2. pc' = [pc EXCEPT ![o] = "sweep"]
      BY <2>2
    <3> QED
      BY <3>1, <3>2
  <2> QED
    BY <2>1, <2>2
<1>2. Guarded'
  BY DEF Guarded
<1>3. Fresh'
  BY DEF Fresh
<1>4. Distinct'
  BY DEF Distinct, Fresh, Nascent
<1>5. Nascent'
  BY DEF Nascent, Guarded, Fresh, SweptBorn, Sweeping, KnownBorn, Probing
<1>6. LeaseKept'
  BY DEF LeaseKept, Fresh, Guarded, Nascent, SweptBorn, KnownBorn, Sweeping, Probing, Distinct
<1>7. KnownBorn'
  BY DEF KnownBorn, Nascent
<1>8. SweptBorn'
  BY DEF SweptBorn, Nascent, Guarded
<1>9. Sweeping'
  BY DEF Sweeping, Guarded, LeaseKept, Fresh, SweptBorn, Distinct, Nascent
<1>10. Probing'
  BY DEF Probing, Guarded, LeaseKept, KnownBorn, Distinct, Fresh
<1> QED
  BY <1>1, <1>2, <1>3, <1>4, <1>5, <1>6, <1>7, <1>8, <1>9, <1>10

LEMMA SweepUnlinkKeeps ==
    ASSUME LeaseInv, NEW o \in Owners, SweepUnlink(o)
    PROVE  LeaseInv'
<1> USE LeaseAssumption DEF LeaseInv, LeaseTypeOK, SweepUnlink, Goto, TakesCleanup, DropsCleanup, Opens, Unlinks, Frees, Verdict, Observers, Files, Nameless, Making, Living, Ending, Over
<1>1. LeaseTypeOK'
  OBVIOUS
<1>2. Guarded'
  BY DEF Guarded
<1>3. Fresh'
  BY DEF Fresh
<1>4. Distinct'
  BY DEF Distinct, Fresh, Nascent
<1>5. Nascent'
  BY DEF Nascent, Guarded, Fresh, SweptBorn, Sweeping, KnownBorn, Probing
<1>6. LeaseKept'
  BY DEF LeaseKept, Fresh, Guarded, Nascent, SweptBorn, KnownBorn, Sweeping, Probing, Distinct
<1>7. KnownBorn'
  BY DEF KnownBorn, Nascent
<1>8. SweptBorn'
  BY DEF SweptBorn, Nascent, Guarded
<1>9. Sweeping'
  BY DEF Sweeping, Guarded, LeaseKept, Fresh, SweptBorn, Distinct, Nascent
<1>10. Probing'
  BY DEF Probing, Guarded, LeaseKept, KnownBorn, Distinct, Fresh
<1> QED
  BY <1>1, <1>2, <1>3, <1>4, <1>5, <1>6, <1>7, <1>8, <1>9, <1>10

LEMMA BornKeeps ==
    ASSUME LeaseInv, NEW o \in Owners, Born(o)
    PROVE  LeaseInv'
<1> USE LeaseAssumption DEF LeaseInv, LeaseTypeOK, Born, Goto, TakesCleanup, DropsCleanup, Opens, Unlinks, Frees, Verdict, Observers, Files, Nameless, Making, Living, Ending, Over
<1>1. LeaseTypeOK'
  OBVIOUS
<1>2. Guarded'
  BY DEF Guarded
<1>3. Fresh'
  BY DEF Fresh
<1>4. Distinct'
  BY DEF Distinct, Fresh, Nascent
<1>5. Nascent'
  BY DEF Nascent, Guarded, Fresh, SweptBorn, Sweeping, KnownBorn, Probing
<1>6. LeaseKept'
  BY DEF LeaseKept, Fresh, Guarded, Nascent, SweptBorn, KnownBorn, Sweeping, Probing, Distinct
<1>7. KnownBorn'
  BY DEF KnownBorn, Nascent
<1>8. SweptBorn'
  BY DEF SweptBorn, Nascent, Guarded
<1>9. Sweeping'
  BY DEF Sweeping, Guarded, LeaseKept, Fresh, SweptBorn, Distinct, Nascent
<1>10. Probing'
  BY DEF Probing, Guarded, LeaseKept, KnownBorn, Distinct, Fresh
<1> QED
  BY <1>1, <1>2, <1>3, <1>4, <1>5, <1>6, <1>7, <1>8, <1>9, <1>10

LEMMA SweepFailsKeeps ==
    ASSUME LeaseInv, NEW o \in Owners, SweepFails(o)
    PROVE  LeaseInv'
<1> USE LeaseAssumption DEF LeaseInv, LeaseTypeOK, SweepFails, Goto, TakesCleanup, DropsCleanup, Opens, Unlinks, Frees, Verdict, Observers, Files, Nameless, Making, Living, Ending, Over
<1>1. LeaseTypeOK'
  OBVIOUS
<1>2. Guarded'
  BY DEF Guarded
<1>3. Fresh'
  BY DEF Fresh
<1>4. Distinct'
  BY DEF Distinct, Fresh, Nascent
<1>5. Nascent'
  BY DEF Nascent, Guarded, Fresh, SweptBorn, Sweeping, KnownBorn, Probing
<1>6. LeaseKept'
  BY DEF LeaseKept, Fresh, Guarded, Nascent, SweptBorn, KnownBorn, Sweeping, Probing, Distinct
<1>7. KnownBorn'
  BY DEF KnownBorn, Nascent
<1>8. SweptBorn'
  BY DEF SweptBorn, Nascent, Guarded
<1>9. Sweeping'
  BY DEF Sweeping, Guarded, LeaseKept, Fresh, SweptBorn, Distinct, Nascent
<1>10. Probing'
  BY DEF Probing, Guarded, LeaseKept, KnownBorn, Distinct, Fresh
<1> QED
  BY <1>1, <1>2, <1>3, <1>4, <1>5, <1>6, <1>7, <1>8, <1>9, <1>10

LEMMA WithdrawKeeps ==
    ASSUME LeaseInv, NEW o \in Owners, Withdraw(o)
    PROVE  LeaseInv'
<1> USE LeaseAssumption DEF LeaseInv, LeaseTypeOK, Withdraw, Goto, TakesCleanup, DropsCleanup, Opens, Unlinks, Frees, Verdict, Observers, Files, Nameless, Making, Living, Ending, Over
<1>1. LeaseTypeOK'
  OBVIOUS
<1>2. Guarded'
  BY DEF Guarded
<1>3. Fresh'
  BY DEF Fresh
<1>4. Distinct'
  BY DEF Distinct, Fresh, Nascent
<1>5. Nascent'
  BY DEF Nascent, Guarded, Fresh, SweptBorn, Sweeping, KnownBorn, Probing
<1>6. LeaseKept'
  BY DEF LeaseKept, Fresh, Guarded, Nascent, SweptBorn, KnownBorn, Sweeping, Probing, Distinct
<1>7. KnownBorn'
  BY DEF KnownBorn, Nascent
<1>8. SweptBorn'
  BY DEF SweptBorn, Nascent, Guarded
<1>9. Sweeping'
  BY DEF Sweeping, Guarded, LeaseKept, Fresh, SweptBorn, Distinct, Nascent
<1>10. Probing'
  BY DEF Probing, Guarded, LeaseKept, KnownBorn, Distinct, Fresh
<1> QED
  BY <1>1, <1>2, <1>3, <1>4, <1>5, <1>6, <1>7, <1>8, <1>9, <1>10

LEMMA ReleaseKeeps ==
    ASSUME LeaseInv, NEW o \in Owners, Release(o)
    PROVE  LeaseInv'
<1> USE LeaseAssumption DEF LeaseInv, LeaseTypeOK, Release, Goto, TakesCleanup, DropsCleanup, Opens, Unlinks, Frees, Verdict, Observers, Files, Nameless, Making, Living, Ending, Over
<1>1. LeaseTypeOK'
  OBVIOUS
<1>2. Guarded'
  BY DEF Guarded
<1>3. Fresh'
  BY DEF Fresh
<1>4. Distinct'
  BY DEF Distinct, Fresh, Nascent
<1>5. Nascent'
  BY DEF Nascent, Guarded, Fresh, SweptBorn, Sweeping, KnownBorn, Probing
<1>6. LeaseKept'
  BY DEF LeaseKept, Fresh, Guarded, Nascent, SweptBorn, KnownBorn, Sweeping, Probing, Distinct
<1>7. KnownBorn'
  BY DEF KnownBorn, Nascent
<1>8. SweptBorn'
  BY DEF SweptBorn, Nascent, Guarded
<1>9. Sweeping'
  BY DEF Sweeping, Guarded, LeaseKept, Fresh, SweptBorn, Distinct, Nascent
<1>10. Probing'
  BY DEF Probing, Guarded, LeaseKept, KnownBorn, Distinct, Fresh
<1> QED
  BY <1>1, <1>2, <1>3, <1>4, <1>5, <1>6, <1>7, <1>8, <1>9, <1>10

LEMMA CrashKeeps ==
    ASSUME LeaseInv, NEW o \in Owners, Crash(o)
    PROVE  LeaseInv'
<1> USE LeaseAssumption DEF LeaseInv, LeaseTypeOK, Crash, Goto, TakesCleanup, DropsCleanup, Opens, Unlinks, Frees, Verdict, Observers, Files, Nameless, Making, Living, Ending, Over
<1>1. LeaseTypeOK'
  OBVIOUS
<1>2. Guarded'
  BY DEF Guarded
<1>3. Fresh'
  BY DEF Fresh
<1>4. Distinct'
  BY DEF Distinct, Fresh, Nascent
<1>5. Nascent'
  BY DEF Nascent, Guarded, Fresh, SweptBorn, Sweeping, KnownBorn, Probing
<1>6. LeaseKept'
  BY DEF LeaseKept, Fresh, Guarded, Nascent, SweptBorn, KnownBorn, Sweeping, Probing, Distinct
<1>7. KnownBorn'
  BY DEF KnownBorn, Nascent
<1>8. SweptBorn'
  BY DEF SweptBorn, Nascent, Guarded
<1>9. Sweeping'
  BY DEF Sweeping, Guarded, LeaseKept, Fresh, SweptBorn, Distinct, Nascent
<1>10. Probing'
  BY DEF Probing, Guarded, LeaseKept, KnownBorn, Distinct, Fresh
<1> QED
  BY <1>1, <1>2, <1>3, <1>4, <1>5, <1>6, <1>7, <1>8, <1>9, <1>10

LEMMA BeginProbeKeeps ==
    ASSUME LeaseInv, NEW a \in Observers, BeginProbe(a)
    PROVE  LeaseInv'
<1> USE LeaseAssumption DEF LeaseInv, LeaseTypeOK, BeginProbe, Goto, TakesCleanup, DropsCleanup, Opens, Unlinks, Frees, Verdict, Observers, Files, Nameless, Making, Living, Ending, Over
<1>1. LeaseTypeOK'
  OBVIOUS
<1>2. Guarded'
  BY DEF Guarded
<1>3. Fresh'
  BY DEF Fresh
<1>4. Distinct'
  BY DEF Distinct, Fresh, Nascent
<1>5. Nascent'
  BY DEF Nascent, Guarded, Fresh, SweptBorn, Sweeping, KnownBorn, Probing
<1>6. LeaseKept'
  BY DEF LeaseKept, Fresh, Guarded, Nascent, SweptBorn, KnownBorn, Sweeping, Probing, Distinct
<1>7. KnownBorn'
  BY DEF KnownBorn, Nascent
<1>8. SweptBorn'
  BY DEF SweptBorn, Nascent, Guarded
<1>9. Sweeping'
  BY DEF Sweeping, Guarded, LeaseKept, Fresh, SweptBorn, Distinct, Nascent
<1>10. Probing'
  BY DEF Probing, Guarded, LeaseKept, KnownBorn, Distinct, Fresh
<1> QED
  BY <1>1, <1>2, <1>3, <1>4, <1>5, <1>6, <1>7, <1>8, <1>9, <1>10

LEMMA ProbeNameKeeps ==
    ASSUME LeaseInv, NEW a \in Observers, ProbeName(a)
    PROVE  LeaseInv'
<1> USE LeaseAssumption DEF LeaseInv, LeaseTypeOK, ProbeName, Goto, TakesCleanup, DropsCleanup, Opens, Unlinks, Frees, Verdict, Observers, Files, Nameless, Making, Living, Ending, Over
<1>1. LeaseTypeOK'
  <2>1. subject[a] \in Owners
    BY DEF Probing
  <2>2. CASE name[subject[a]] = Nameless
    BY <2>1, <2>2
  <2>3. CASE name[subject[a]] # Nameless
    BY <2>3
  <2> QED
    BY <2>2, <2>3
<1>2. Guarded'
  BY DEF Guarded
<1>3. Fresh'
  BY DEF Fresh
<1>4. Distinct'
  BY DEF Distinct, Fresh, Nascent
<1>5. Nascent'
  BY DEF Nascent, Guarded, Fresh, SweptBorn, Sweeping, KnownBorn, Probing
<1>6. LeaseKept'
  BY DEF LeaseKept, Fresh, Guarded, Nascent, SweptBorn, KnownBorn, Sweeping, Probing, Distinct
<1>7. KnownBorn'
  BY DEF KnownBorn, Nascent
<1>8. SweptBorn'
  BY DEF SweptBorn, Nascent, Guarded
<1>9. Sweeping'
  BY DEF Sweeping, Guarded, LeaseKept, Fresh, SweptBorn, Distinct, Nascent
<1>10. Probing'
  BY DEF Probing, Guarded, LeaseKept, KnownBorn, Distinct, Fresh
<1> QED
  BY <1>1, <1>2, <1>3, <1>4, <1>5, <1>6, <1>7, <1>8, <1>9, <1>10

LEMMA ProbeOpenKeeps ==
    ASSUME LeaseInv, NEW a \in Observers, ProbeOpen(a)
    PROVE  LeaseInv'
<1> USE LeaseAssumption DEF LeaseInv, LeaseTypeOK, ProbeOpen, Goto, TakesCleanup, DropsCleanup, Opens, Unlinks, Frees, Verdict, Observers, Files, Nameless, Making, Living, Ending, Over
<1>1. LeaseTypeOK'
  OBVIOUS
<1>2. Guarded'
  BY DEF Guarded
<1>3. Fresh'
  <2>0. subject[a] \in Owners
    BY DEF Probing
  <2>1. PICK f \in Files : Opens(subject[a], f) /\ other' = [other EXCEPT ![a] = f]
    OBVIOUS
  <2>2. created \in Nat /\ created' \in Nat /\ created <= created'
    BY <2>0, <2>1 DEF Fresh
  <2>3. \A p \in Owners : name'[p] <= created' /\ own'[p] <= created'
    <3>1. own' = own /\ name' \in [Owners -> Files \union {0}]
      BY <1>1
    <3>2. CASE name[subject[a]] # Nameless
      <4>1. name' = name /\ created' = created
        BY <2>1, <3>2
      <4> QED
        BY <3>1, <4>1 DEF Fresh
    <3>3. CASE name[subject[a]] = Nameless
      <4>1. name' = [name EXCEPT ![subject[a]] = created']
        BY <2>1, <3>3
      <4>2. \A p \in Owners : name[p] <= created /\ own[p] <= created /\ name[p] \in Int /\ own[p] \in Int
        BY DEF Fresh
      <4>3. \A p \in Owners : name'[p] = name[p] \/ name'[p] = created'
        BY <4>1, <2>0
      <4> HIDE DEF ProbeOpen, Opens
      <4> QED
        BY <2>2, <3>1, <4>2, <4>3
    <3> QED
      BY <3>2, <3>3
  <2>4. \A p \in Observers : other'[p] <= created'
    BY <2>0, <2>1, <2>2 DEF Fresh
  <2>5. \A g \in Files : lock'[g] # Nobody => g <= created'
    BY <2>2 DEF Fresh
  <2> QED
    BY <2>3, <2>4, <2>5 DEF Fresh
<1>4. Distinct'
  BY DEF Distinct, Fresh, Nascent
<1>5. Nascent'
  BY DEF Nascent, Guarded, Fresh, SweptBorn, Sweeping, KnownBorn, Probing
<1>6. LeaseKept'
  BY DEF LeaseKept, Fresh, Guarded, Nascent, SweptBorn, KnownBorn, Sweeping, Probing, Distinct
<1>7. KnownBorn'
  BY DEF KnownBorn, Nascent
<1>8. SweptBorn'
  BY DEF SweptBorn, Nascent, Guarded
<1>9. Sweeping'
  BY DEF Sweeping, Guarded, LeaseKept, Fresh, SweptBorn, Distinct, Nascent
<1>10. Probing'
  BY DEF Probing, Guarded, LeaseKept, KnownBorn, Distinct, Fresh
<1> QED
  BY <1>1, <1>2, <1>3, <1>4, <1>5, <1>6, <1>7, <1>8, <1>9, <1>10

LEMMA ProbeLockKeeps ==
    ASSUME LeaseInv, NEW a \in Observers, ProbeLock(a)
    PROVE  LeaseInv'
<1> USE LeaseAssumption DEF LeaseInv, LeaseTypeOK, ProbeLock, Goto, TakesCleanup, DropsCleanup, Opens, Unlinks, Frees, Verdict, Observers, Files, Nameless, Making, Living, Ending, Over
<1>1. LeaseTypeOK'
  <2>0. subject[a] \in Owners /\ other[a] \in Files
    BY DEF Probing
  <2>1. CASE lock[other[a]] = Nobody
    <3>1. lock' = [lock EXCEPT ![other[a]] = a] /\ pc' = [pc EXCEPT ![a] = "probeRelease"]
      BY <2>0, <2>1
    <3>2. UNCHANGED <<name, created, cleanup, own, other, subject, sweep, known, judged>>
      BY <2>0, <2>1
    <3> QED
      BY <3>1, <3>2
  <2>2. CASE lock[other[a]] # Nobody
    <3>1. UNCHANGED <<name, lock, created, own, sweep, known, judged>>
      BY <2>0, <2>2
    <3>2. subject' = [subject EXCEPT ![a] = Nobody] /\ other' = [other EXCEPT ![a] = 0]
      BY <2>0, <2>2
    <3>3. pc' = [pc EXCEPT ![a] = "live"] /\ cleanup' \in {cleanup, Nobody}
      BY <2>0, <2>2
    <3> QED
      BY <3>1, <3>2, <3>3
  <2> QED
    BY <2>1, <2>2
<1>2. Guarded'
  BY DEF Guarded
<1>3. Fresh'
  BY DEF Fresh
<1>4. Distinct'
  BY DEF Distinct, Fresh, Nascent
<1>5. Nascent'
  BY DEF Nascent, Guarded, Fresh, SweptBorn, Sweeping, KnownBorn, Probing
<1>6. LeaseKept'
  BY DEF LeaseKept, Fresh, Guarded, Nascent, SweptBorn, KnownBorn, Sweeping, Probing, Distinct
<1>7. KnownBorn'
  BY DEF KnownBorn, Nascent
<1>8. SweptBorn'
  BY DEF SweptBorn, Nascent, Guarded
<1>9. Sweeping'
  BY DEF Sweeping, Guarded, LeaseKept, Fresh, SweptBorn, Distinct, Nascent
<1>10. Probing'
  BY DEF Probing, Guarded, LeaseKept, KnownBorn, Distinct, Fresh
<1> QED
  BY <1>1, <1>2, <1>3, <1>4, <1>5, <1>6, <1>7, <1>8, <1>9, <1>10

LEMMA ProbeReleaseKeeps ==
    ASSUME LeaseInv, NEW a \in Observers, ProbeRelease(a)
    PROVE  LeaseInv'
<1> USE LeaseAssumption DEF LeaseInv, LeaseTypeOK, ProbeRelease, Goto, TakesCleanup, DropsCleanup, Opens, Unlinks, Frees, Verdict, Observers, Files, Nameless, Making, Living, Ending, Over
<1>1. LeaseTypeOK'
  <2>1. subject[a] \in Owners
    BY DEF Probing
  <2> QED
    BY <2>1
<1>2. Guarded'
  BY DEF Guarded
<1>3. Fresh'
  BY DEF Fresh
<1>4. Distinct'
  BY DEF Distinct, Fresh, Nascent
<1>5. Nascent'
  BY DEF Nascent, Guarded, Fresh, SweptBorn, Sweeping, KnownBorn, Probing
<1>6. LeaseKept'
  BY DEF LeaseKept, Fresh, Guarded, Nascent, SweptBorn, KnownBorn, Sweeping, Probing, Distinct
<1>7. KnownBorn'
  BY DEF KnownBorn, Nascent
<1>8. SweptBorn'
  BY DEF SweptBorn, Nascent, Guarded
<1>9. Sweeping'
  BY DEF Sweeping, Guarded, LeaseKept, Fresh, SweptBorn, Distinct, Nascent
<1>10. Probing'
  BY DEF Probing, Guarded, LeaseKept, KnownBorn, Distinct, Fresh
<1> QED
  BY <1>1, <1>2, <1>3, <1>4, <1>5, <1>6, <1>7, <1>8, <1>9, <1>10

LEMMA LeaseInitHolds == LeaseInit => LeaseInv
<1> USE LeaseAssumption DEF LeaseInit, LeaseInv, Observers, Files, Nameless, Making, Living, Ending, Over
<1>1. ASSUME LeaseInit PROVE LeaseTypeOK
  BY <1>1 DEF LeaseTypeOK
<1>2. ASSUME LeaseInit PROVE Guarded /\ Fresh /\ Distinct /\ Nascent
  BY <1>2 DEF Guarded, Fresh, Distinct, Nascent
<1>3. ASSUME LeaseInit PROVE LeaseKept /\ KnownBorn /\ SweptBorn /\ Sweeping /\ Probing
  BY <1>3 DEF LeaseKept, KnownBorn, SweptBorn, Sweeping, Probing
<1> QED
  BY <1>1, <1>2, <1>3

LEMMA LeaseStepHolds == LeaseInv /\ [LeaseNext]_ownerVars => LeaseInv'
<1> SUFFICES ASSUME LeaseInv, [LeaseNext]_ownerVars PROVE LeaseInv'
  OBVIOUS
<1>1. ASSUME NEW o \in Owners,
             Begin(o) \/ Create(o) \/ Lock(o) \/ LockFails(o) \/ BeginSweep(o)
             \/ SweepOpen(o) \/ SweepLock(o) \/ SweepUnlink(o)
      PROVE  LeaseInv'
  BY <1>1, BeginKeeps, CreateKeeps, LockKeeps, LockFailsKeeps, BeginSweepKeeps,
     SweepOpenKeeps, SweepLockKeeps, SweepUnlinkKeeps
<1>2. ASSUME NEW o \in Owners,
             Born(o) \/ SweepFails(o) \/ Withdraw(o) \/ Release(o) \/ Crash(o)
      PROVE  LeaseInv'
  BY <1>2, BornKeeps, SweepFailsKeeps, WithdrawKeeps, ReleaseKeeps, CrashKeeps
<1>3. ASSUME NEW a \in Observers,
             BeginProbe(a) \/ ProbeName(a) \/ ProbeOpen(a) \/ ProbeLock(a) \/ ProbeRelease(a)
      PROVE  LeaseInv'
  BY <1>3, BeginProbeKeeps, ProbeNameKeeps, ProbeOpenKeeps, ProbeLockKeeps, ProbeReleaseKeeps
<1>4. CASE UNCHANGED ownerVars
  BY <1>4 DEF ownerVars, LeaseInv, LeaseTypeOK, Guarded, Fresh, Distinct, Nascent,
              LeaseKept, KnownBorn, SweptBorn, Sweeping, Probing
<1> QED
  BY <1>1, <1>2, <1>3, <1>4 DEF LeaseNext

(* The invariant holds in every state of every behaviour of the lease.     *)
THEOREM LeaseInvariant == LeaseSpec => []LeaseInv
<1>1. LeaseInit => LeaseInv
  BY LeaseInitHolds
<1>2. LeaseInv /\ [LeaseNext]_ownerVars => LeaseInv'
  BY LeaseStepHolds
<1> QED
  BY <1>1, <1>2, PTL DEF LeaseSpec

(* Every step keeps the types: a descriptor, a lock and a name always lead *)
(* to a file that was created or to nothing.                               *)
THEOREM LeaseTyped == LeaseSpec => []LeaseTypeOK
<1>1. LeaseInv => LeaseTypeOK
  BY DEF LeaseInv
<1> QED
  BY <1>1, LeaseInvariant, PTL

(* No sweep, probe, close or crash of others takes a living owner's        *)
(* pathname or lock, for any number of processes (lease.py, LeaseKept).    *)
THEOREM LeaseIsKept == LeaseSpec => []LeaseKept
<1>1. LeaseInv => LeaseKept
  BY DEF LeaseInv
<1> QED
  BY <1>1, LeaseInvariant, PTL

(***************************************************************************)
(* Refinement.  A life starts when the new file is locked and ends when    *)
(* its pathname is withdrawn or its process dies; a probe that took the    *)
(* lock, or found no name, looked at a life that was over.                 *)
(***************************************************************************)
LEMMA JudgementStands ==
    ASSUME LeaseInv, NEW a \in Observers,
           \/ pc[a] = "probe" /\ name[subject[a]] = Nameless
           \/ pc[a] = "probeRelease"
    PROVE  subject[a] \in Owners /\ life[subject[a]] = "gone"
<1>1. subject[a] \in known /\ subject[a] \in Owners
  BY DEF LeaseInv, Probing, LeaseTypeOK
<1>2. pc[subject[a]] \notin Making
  BY <1>1 DEF LeaseInv, KnownBorn
<1>3. pc[subject[a]] \notin Living
  BY <1>1 DEF LeaseInv, Probing, LeaseKept
<1> QED
  BY <1>1, <1>2, <1>3 DEF life

LEMMA OwnerStepsRefine ==
    ASSUME LeaseInv, NEW o \in Owners,
           Begin(o) \/ Create(o) \/ Lock(o) \/ LockFails(o) \/ BeginSweep(o)
           \/ SweepOpen(o) \/ SweepLock(o) \/ SweepUnlink(o)
           \/ Born(o) \/ SweepFails(o) \/ Withdraw(o) \/ Release(o) \/ Crash(o)
    PROVE  Liveness!Start(o) \/ Liveness!End(o) \/ UNCHANGED <<life, judged>>
<1> USE LeaseAssumption DEF Goto, Making, Living, Ending, Over, life, Observers
<1>0. pc \in [Observers -> Making \union Living \union Ending \union Over]
  BY DEF LeaseInv, LeaseTypeOK
<1>1. CASE Begin(o) \/ Create(o) \/ BeginSweep(o) \/ SweepOpen(o) \/ SweepLock(o)
           \/ SweepUnlink(o) \/ Born(o)
  <2>1. PICK step : /\ pc' = [pc EXCEPT ![o] = step]
                    /\ \/ pc[o] \in Making /\ step \in Making
                       \/ pc[o] \in Living /\ step \in Living
    BY <1>1 DEF Begin, Create, BeginSweep, SweepOpen, SweepLock, SweepUnlink, Born
  <2>2. judged' = judged
    BY <1>1 DEF Begin, Create, BeginSweep, SweepOpen, SweepLock, SweepUnlink, Born
  <2>3. \A q \in Owners : life'[q] = life[q]
    BY <1>0, <2>1
  <2> QED
    BY <2>2, <2>3
<1>2. CASE Lock(o)
  BY <1>0, <1>2 DEF Lock, Liveness!Start
<1>3. CASE LockFails(o) \/ SweepFails(o) \/ Crash(o)
  BY <1>0, <1>3 DEF LockFails, SweepFails, Crash, Liveness!End
<1>4. CASE Withdraw(o)
  BY <1>0, <1>4 DEF Withdraw, Liveness!End
<1>5. CASE Release(o)
  BY <1>0, <1>5 DEF Release
<1> QED
  BY <1>1, <1>2, <1>3, <1>4, <1>5

LEMMA ProbeStepsRefine ==
    ASSUME LeaseInv, NEW a \in Observers,
           BeginProbe(a) \/ ProbeName(a) \/ ProbeOpen(a) \/ ProbeLock(a) \/ ProbeRelease(a)
    PROVE  (\E q \in Owners : Liveness!Judge(q)) \/ UNCHANGED <<life, judged>>
<1> USE LeaseAssumption DEF Goto, Verdict, Making, Living, Ending, Over, Observers
<1>0. pc \in [Observers -> Making \union Living \union Ending \union Over]
  BY DEF LeaseInv, LeaseTypeOK
<1>1. UNCHANGED life
  <2>1. PICK step \in Living : pc' = [pc EXCEPT ![a] = step]
    BY DEF BeginProbe, ProbeName, ProbeOpen, ProbeLock, ProbeRelease
  <2>2. pc[a] \in Living
    BY DEF BeginProbe, ProbeName, ProbeOpen, ProbeLock, ProbeRelease
  <2>3. \A q \in Owners : life'[q] = life[q]
    BY <1>0, <2>1, <2>2 DEF life
  <2> QED
    BY <2>3 DEF life
<1>2. UNCHANGED judged \/ /\ judged' = judged \union {subject[a]}
                          /\ \/ pc[a] = "probe" /\ name[subject[a]] = Nameless
                             \/ pc[a] = "probeRelease"
  BY DEF BeginProbe, ProbeName, ProbeOpen, ProbeLock, ProbeRelease
<1> QED
  BY <1>1, <1>2, JudgementStands DEF Liveness!Judge

(* The lease implements OwnerLiveness: an owner is judged abandoned only   *)
(* after its life ended, whatever the interleaving (owner_abandoned and    *)
(* _producer_abandoned).                                                   *)
THEOREM LeaseImplementsOwnerLiveness == LeaseSpec => JudgesOnlyTheDead
<1>1. LeaseInit => Liveness!LivenessInit
  BY LeaseAssumption DEF LeaseInit, Liveness!LivenessInit, life, Making, Observers
<1>2. LeaseInv /\ [LeaseNext]_ownerVars => [Liveness!LivenessNext]_<<life, judged>>
  <2> SUFFICES ASSUME LeaseInv, [LeaseNext]_ownerVars
               PROVE  [Liveness!LivenessNext]_<<life, judged>>
    OBVIOUS
  <2>1. CASE UNCHANGED ownerVars
    BY <2>1 DEF ownerVars, life
  <2>2. ASSUME NEW o \in Owners,
               Begin(o) \/ Create(o) \/ Lock(o) \/ LockFails(o) \/ BeginSweep(o)
               \/ SweepOpen(o) \/ SweepLock(o) \/ SweepUnlink(o)
               \/ Born(o) \/ SweepFails(o) \/ Withdraw(o) \/ Release(o) \/ Crash(o)
        PROVE  [Liveness!LivenessNext]_<<life, judged>>
    BY <2>2, OwnerStepsRefine DEF Liveness!LivenessNext
  <2>3. ASSUME NEW a \in Observers,
               BeginProbe(a) \/ ProbeName(a) \/ ProbeOpen(a) \/ ProbeLock(a) \/ ProbeRelease(a)
        PROVE  [Liveness!LivenessNext]_<<life, judged>>
    BY <2>3, ProbeStepsRefine DEF Liveness!LivenessNext
  <2> QED
    BY <2>1, <2>2, <2>3 DEF LeaseNext
<1> QED
  BY <1>1, <1>2, LeaseInvariant, PTL
     DEF LeaseSpec, JudgesOnlyTheDead, Liveness!LivenessSpec, Liveness!livenessVars

=============================================================================
