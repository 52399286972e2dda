----------------------------- MODULE RequestGate -----------------------------
(***************************************************************************)
(* The calls of one model client (models.py, _gated_chat_entrypoint): each *)
(* first waits while another call finds out whether the provider lets      *)
(* reasoning be turned off, then enters the shared/exclusive gate          *)
(* (request_gate.py), makes its request and leaves the gate.               *)
(*                                                                         *)
(* All calls run in one event loop.  The gate's condition is never held    *)
(* across an await, so its lock is always free when it is wanted and a     *)
(* coroutine's code between two suspensions is one step.  asyncio decides  *)
(* nothing else here: calls resume, and are cancelled, in any order.       *)
(***************************************************************************)
EXTENDS Integers, FiniteSets

CONSTANTS
    Calls,        \* coroutines that use the client, one request at a time
    None          \* Python's None

ASSUME GateAssumption == IsFiniteSet(Calls) /\ None \notin Calls

VARIABLES
    pc,             \* where each coroutine is
    ask,            \* what its present request asks for
    readers,        \* _readers
    writer,         \* _writer
    writersWaiting, \* _writers_waiting
    negotiator,     \* the owner of _reasoning_disable_negotiation_future
    known           \* _reasoning_disable_supported or _reasoning_disable_rejected is set

gateVars == <<readers, writer, writersWaiting>>
vars == <<pc, ask, gateVars, negotiator, known>>

(***************************************************************************)
(* out        no request under way                                         *)
(* pending    awaits the negotiation of another call; answered: resumed    *)
(* asleep     waits on the gate's condition; awake: notified               *)
(* cancelled  will find a CancelledError where it waited for the gate      *)
(* inside     holds the gate                                               *)
(* leaving    its release task has not run yet; left: it has               *)
(***************************************************************************)
AtGate == {"asleep", "awake", "cancelled"}
Holding == {"inside", "leaving"}
Places == {"out", "pending", "answered", "left"} \cup AtGate \cup Holding

\* exclusive: formal_provider_exclusive_scope; off: reasoning is to be turned off;
\* served: the request was answered and nothing has cancelled the call since.
Asks == [exclusive : BOOLEAN, off : BOOLEAN, served : BOOLEAN]

NoAsk == [exclusive |-> FALSE, off |-> FALSE, served |-> FALSE]

Init ==
    /\ pc = [c \in Calls |-> "out"]
    /\ ask = [c \in Calls |-> NoAsk]
    /\ readers = 0 /\ writer = FALSE /\ writersWaiting = 0
    /\ negotiator = None
    /\ known = FALSE

(***************************************************************************)
(* The predicates _acquire_shared and _acquire_exclusive wait for.         *)
(***************************************************************************)
\* Mutant: a shared request does not stand back for one that waits exclusively.
OpenToEveryReader(exclusive) ==
    /\ ~writer
    /\ exclusive => readers = 0

\* Mutant: an exclusive request does not wait for the shared ones to leave.
OpenBesideReaders(exclusive) ==
    /\ ~writer
    /\ exclusive \/ writersWaiting = 0

Open(exclusive) ==
    /\ ~writer
    /\ IF exclusive THEN readers = 0 ELSE writersWaiting = 0

\* Condition.notify_all.
NotifyAll(at) == [c \in Calls |-> IF at[c] = "asleep" THEN "awake" ELSE at[c]]

Move(c, place) == [pc EXCEPT ![c] = place]

EnterShared(c) ==
    /\ Open(FALSE)
    /\ pc' = Move(c, "inside")
    /\ readers' = readers + 1
    /\ UNCHANGED <<writer, writersWaiting>>

\* `waiting` is what _writers_waiting becomes.
EnterExclusive(c, waiting) ==
    /\ Open(TRUE)
    /\ pc' = Move(c, "inside")
    /\ writer' = TRUE
    /\ writersWaiting' = waiting
    /\ UNCHANGED readers

\* The first evaluation of wait_for.
Join(c, exclusive) ==
    \/ ~exclusive /\ EnterShared(c)
    \/ exclusive /\ EnterExclusive(c, writersWaiting)
    \/ /\ ~Open(exclusive)
       /\ pc' = Move(c, "asleep")
       /\ writersWaiting' = IF exclusive THEN writersWaiting + 1 ELSE writersWaiting
       /\ UNCHANGED <<readers, writer>>

(***************************************************************************)
(* A call, up to its first suspension.                                     *)
(***************************************************************************)
\* discovery_needed.
Undiscovered(off) == off /\ ~known

\* Mutant: a call whose negotiation has ended goes on without looking again.
BeginWithoutLook(c, exclusive, off) ==
    \/ /\ pc[c] = "out" /\ Undiscovered(off) /\ negotiator # None
       /\ pc' = Move(c, "pending")
       /\ UNCHANGED <<gateVars, negotiator>>
    \/ /\ pc[c] # "out" \/ ~Undiscovered(off) \/ negotiator = None
       /\ Join(c, exclusive)
       /\ negotiator' = IF Undiscovered(off) THEN c ELSE negotiator

Begin(c, exclusive, off) ==
    \/ /\ Undiscovered(off) /\ negotiator # None
       /\ pc' = Move(c, "pending")
       /\ UNCHANGED <<gateVars, negotiator>>
    \/ /\ ~Undiscovered(off) \/ negotiator = None
       /\ Join(c, exclusive)
       /\ negotiator' = IF Undiscovered(off) THEN c ELSE negotiator

Request(c) ==
    /\ pc[c] = "out"
    /\ \E exclusive, off \in BOOLEAN :
          /\ ask' = [ask EXCEPT ![c] = [NoAsk EXCEPT !.exclusive = exclusive, !.off = off]]
          /\ Begin(c, exclusive, off)
    /\ UNCHANGED known

\* The awaited negotiation is over: look again.
LookAgain(c) ==
    /\ pc[c] = "answered"
    /\ Begin(c, ask[c].exclusive, ask[c].off)
    /\ UNCHANGED <<ask, known>>

(***************************************************************************)
(* The end of a call, with the `finally` that ends its negotiation.        *)
(***************************************************************************)
End(c, at) ==
    /\ pc' = [w \in Calls |->
                 CASE w = c -> "out"
                   [] w # c /\ negotiator = c /\ at[w] = "pending" -> "answered"
                   [] OTHER -> at[w]]
    /\ negotiator' = IF negotiator = c THEN None ELSE negotiator
    /\ ask' = [ask EXCEPT ![c] = NoAsk]

\* Cancelled, or past the operation's deadline, before the gate.
GiveUp(c) ==
    /\ pc[c] \in {"pending", "answered"}
    /\ End(c, pc)
    /\ UNCHANGED <<gateVars, known>>

(***************************************************************************)
(* Waiting at the gate.                                                    *)
(***************************************************************************)
Resume(c) ==
    /\ pc[c] = "awake"
    /\ \/ ~ask[c].exclusive /\ EnterShared(c)
       \/ ask[c].exclusive /\ EnterExclusive(c, writersWaiting - 1)
       \/ /\ ~Open(ask[c].exclusive)
          /\ pc' = Move(c, "asleep")
          /\ UNCHANGED gateVars
    /\ UNCHANGED <<ask, negotiator, known>>

Cancel(c) ==
    /\ pc[c] \in {"asleep", "awake"}
    /\ pc' = Move(c, "cancelled")
    /\ UNCHANGED <<ask, gateVars, negotiator, known>>

\* Mutant: a cancelled exclusive call leaves without waking those it held back.
UnwindSilently(c) ==
    /\ pc[c] = "cancelled"
    /\ writersWaiting' = IF ask[c].exclusive THEN writersWaiting - 1 ELSE writersWaiting
    /\ End(c, pc)
    /\ UNCHANGED <<readers, writer, known>>

\* The cancellation is raised where the call waited.
Unwind(c) ==
    /\ pc[c] = "cancelled"
    /\ IF ask[c].exclusive
       THEN writersWaiting' = writersWaiting - 1 /\ End(c, NotifyAll(pc))
       ELSE UNCHANGED writersWaiting /\ End(c, pc)
    /\ UNCHANGED <<readers, writer, known>>

(***************************************************************************)
(* The request, and _complete_release.                                     *)
(***************************************************************************)
\* The provider's answer to an attempt shows whether reasoning can be off.
Learn(c) ==
    /\ pc[c] = "inside" /\ ask[c].off /\ ~known
    /\ known' = TRUE
    /\ UNCHANGED <<pc, ask, gateVars, negotiator>>

\* The request ends, with an answer, an error or a cancellation.
Leave(c) ==
    /\ pc[c] = "inside"
    /\ pc' = Move(c, "leaving")
    /\ \E served \in BOOLEAN : ask' = [ask EXCEPT ![c].served = served]
    /\ UNCHANGED <<gateVars, negotiator, known>>

\* Mutant: a cancellation during the release abandons it.
CancelReleaseToo(c) ==
    /\ pc[c] \in {"leaving", "left"}
    /\ End(c, pc)
    /\ UNCHANGED <<gateVars, known>>

\* A cancellation that arrives during the release is remembered and raised after it.
CancelLate(c) ==
    /\ pc[c] \in {"leaving", "left"}
    /\ ask[c].served
    /\ ask' = [ask EXCEPT ![c].served = FALSE]
    /\ UNCHANGED <<pc, gateVars, negotiator, known>>

\* _release_shared or _release_exclusive, in its own task.
Release(c) ==
    /\ pc[c] = "leaving"
    /\ pc' = [NotifyAll(pc) EXCEPT ![c] = "left"]
    /\ IF ask[c].exclusive THEN writer' = FALSE /\ UNCHANGED readers
                           ELSE readers' = readers - 1 /\ UNCHANGED writer
    /\ UNCHANGED <<writersWaiting, ask, negotiator, known>>

Return(c) ==
    /\ pc[c] = "left"
    /\ known' = (known \/ (ask[c].off /\ ask[c].served))
    /\ End(c, pc)
    /\ UNCHANGED gateVars

\* What a call does by itself once it has begun.
Step(c) == LookAgain(c) \/ Resume(c) \/ Unwind(c) \/ Leave(c) \/ Release(c) \/ Return(c)

Next ==
    \E c \in Calls :
        Request(c) \/ Step(c) \/ GiveUp(c) \/ Cancel(c) \/ Learn(c) \/ CancelLate(c)

Spec == Init /\ [][Next]_vars

\* The event loop runs what is ready, and every request ends.
FairSpec == Spec /\ \A c \in Calls : WF_vars(Step(c))

(***************************************************************************)
(* Safety.                                                                 *)
(***************************************************************************)
Inside(exclusive) == {c \in Calls : pc[c] \in Holding /\ ask[c].exclusive = exclusive}

\* The exclusive calls that wait at the gate.
Waiting == {c \in Calls : pc[c] \in AtGate /\ ask[c].exclusive}

GateTypeOK ==
    /\ pc \in [Calls -> Places]
    /\ ask \in [Calls -> Asks]
    /\ readers \in Nat /\ writer \in BOOLEAN /\ writersWaiting \in Nat
    /\ negotiator \in Calls \cup {None}
    /\ known \in BOOLEAN

(***************************************************************************)
(* The counters agree with the calls that hold or want the gate, whatever  *)
(* is cancelled where: "a leaked reader/writer count can poison this       *)
(* client permanently" (_complete_release).                                *)
(***************************************************************************)
CountsAgree ==
    /\ readers = Cardinality(Inside(FALSE))
    /\ writer <=> Inside(TRUE) # {}
    /\ writersWaiting = Cardinality(Waiting)

(***************************************************************************)
(* "Allow concurrent ordinary calls while isolating formal-search tails":  *)
(* a call that holds the gate exclusively holds it alone, from the moment  *)
(* it enters until its release has run.                                    *)
(***************************************************************************)
Isolated ==
    \A c, w \in Calls :
        (c # w /\ pc[c] \in Holding /\ pc[w] \in Holding) => ~ask[c].exclusive

(***************************************************************************)
(* Nobody sleeps through what it waits for: a call asleep at the gate      *)
(* finds it closed, and a call that awaits a negotiation awaits one that   *)
(* somebody will still end.                                                *)
(***************************************************************************)
NoLostWakeup ==
    \A c \in Calls :
        /\ pc[c] = "asleep" => ~Open(ask[c].exclusive)
        /\ pc[c] = "pending" => negotiator \notin {None, c}

(***************************************************************************)
(* While it is not known whether reasoning can be turned off, at most one  *)
(* call at a time tries it, although calls fail, are cancelled and look    *)
(* again in any order.                                                     *)
(***************************************************************************)
OneProbe ==
    ~known =>
        \A c \in Calls :
            (ask[c].off /\ pc[c] \in AtGate \cup Holding \cup {"left"}) => negotiator = c

(***************************************************************************)
(* Exclusive calls are not starved by a stream of shared ones: if any      *)
(* waits, one enters unless all of them are cancelled.                     *)
(***************************************************************************)
ExclusiveEnters == (writersWaiting > 0) ~> (writer \/ writersWaiting = 0)

=============================================================================
