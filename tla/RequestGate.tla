---------------------------- MODULE RequestGate ----------------------------
(***************************************************************************)
(* The bounded, serialising gate in front of every stateful POST           *)
(* (clozn/server/request_gate.py), driven the way do_POST drives it        *)
(* (clozn/server/app.py): a semaphore of Capacity slots admits a request   *)
(* without blocking, a single lock (the "turn") serialises dispatch, and a *)
(* queued request polls the lock and probes its client between polls.      *)
(*                                                                         *)
(* One element of Requests is one handler thread serving one POST.  Each   *)
(* step below is one lock, semaphore or _state_lock section of the code;   *)
(* the state between two of them is visible to every other thread.         *)
(***************************************************************************)
EXTENDS Naturals, FiniteSets

CONSTANTS
    Requests,   \* handler threads of ThreadingHTTPServer
    Capacity,   \* RequestGate.capacity
    MaxPolls,   \* polls of poll_interval that fit in wait_timeout
    NoOne       \* the turn lock is free

ASSUME GateAssumption ==
    /\ IsFiniteSet(Requests)
    /\ Capacity \in Nat \ {0}
    /\ MaxPolls \in Nat \ {0}
    /\ NoOne \notin Requests

VARIABLES
    slots,      \* value of the bounded semaphore _slots
    turn,       \* holder of the lock _turn, or NoOne
    active,     \* _active, guarded by _state_lock
    waiting,    \* _waiting, guarded by _state_lock
    pc,         \* where each thread is
    polls,      \* failed polls of the current wait: its elapsed time
    gone,       \* the client's TCP connection has closed
    outcome     \* what acquire() returned, or what do_POST answered

vars == <<slots, turn, active, waiting, pc, polls, gone, outcome>>

Outcomes == {"none", "admitted", "full", "timeout", "cancelled"}

\* Where a thread can be.  "queued" is at the top of the poll loop, "polled"
\* has just seen _turn.acquire time out, "granted" owns the turn but has not yet run the
\* finally block, "counted" has run it and has not yet set _active.
Locations ==
    {"idle", "admitted", "queued", "polled", "granted", "counted",
     "dispatching", "cleared", "turnFreed", "giveUp", "freeSlot", "answered"}

Init ==
    /\ slots = Capacity
    /\ turn = NoOne
    /\ active = 0
    /\ waiting = 0
    /\ pc = [r \in Requests |-> "idle"]
    /\ polls = [r \in Requests |-> 0]
    /\ gone = [r \in Requests |-> FALSE]
    /\ outcome = [r \in Requests |-> "none"]

Goto(r, here, there) ==
    /\ pc[r] = here
    /\ pc' = [pc EXCEPT ![r] = there]

-----------------------------------------------------------------------------
(* acquire() *)

\* `if not self._slots.acquire(blocking=False): return "full"`: the reply is
\* 429 and the thread never touches the turn or the counters.
RejectFull(r) ==
    /\ Goto(r, "idle", "answered")
    /\ slots = 0
    /\ outcome' = [outcome EXCEPT ![r] = "full"]
    /\ UNCHANGED <<slots, turn, active, waiting, polls, gone>>

TakeSlot(r) ==
    /\ Goto(r, "idle", "admitted")
    /\ slots > 0
    /\ slots' = slots - 1
    /\ UNCHANGED <<turn, active, waiting, polls, gone, outcome>>

CountWaiting(r) ==
    /\ Goto(r, "admitted", "queued")
    /\ waiting' = waiting + 1
    /\ UNCHANGED <<slots, turn, active, polls, gone, outcome>>

\* Mutant: the turn lock is dropped and the semaphore alone admits.
TakeTurnUnlocked(r) ==
    /\ Goto(r, "queued", "granted")
    /\ polls[r] < MaxPolls
    /\ turn' = r
    /\ UNCHANGED <<slots, active, waiting, polls, gone, outcome>>

\* _turn.acquire(timeout=min(poll_interval, remaining)) succeeds.
TakeTurn(r) ==
    /\ Goto(r, "queued", "granted")
    /\ polls[r] < MaxPolls
    /\ turn = NoOne
    /\ turn' = r
    /\ UNCHANGED <<slots, active, waiting, polls, gone, outcome>>

\* ... or the poll interval passes with the turn still held by another thread.
PollFails(r) ==
    /\ Goto(r, "queued", "polled")
    /\ polls[r] < MaxPolls
    /\ turn # NoOne
    /\ polls' = [polls EXCEPT ![r] = @ + 1]
    /\ UNCHANGED <<slots, turn, active, waiting, gone, outcome>>

\* The liveness probe runs after every failed poll, before the deadline is
\* looked at again: a vanished client is "cancelled", never "timeout".
ProbeCancels(r) ==
    /\ Goto(r, "polled", "giveUp")
    /\ gone[r]
    /\ outcome' = [outcome EXCEPT ![r] = "cancelled"]
    /\ UNCHANGED <<slots, turn, active, waiting, polls, gone>>

PollAgain(r) ==
    /\ Goto(r, "polled", "queued")
    /\ ~gone[r]
    /\ UNCHANGED <<slots, turn, active, waiting, polls, gone, outcome>>

\* Mutant: the deadline is pushed back by every poll, so it is never reached
\* while the turn is held.
DeadlineSlides(r) ==
    /\ Goto(r, "queued", "giveUp")
    /\ turn = NoOne
    /\ outcome' = [outcome EXCEPT ![r] = "timeout"]
    /\ UNCHANGED <<slots, turn, active, waiting, polls, gone>>

\* `remaining <= 0` at the top of the loop.  A thread can be descheduled for
\* any length of time, so the deadline may be found passed on any turn of the
\* loop, the first included; after MaxPolls polls it has passed.
DeadlinePasses(r) ==
    /\ Goto(r, "queued", "giveUp")
    /\ outcome' = [outcome EXCEPT ![r] = "timeout"]
    /\ UNCHANGED <<slots, turn, active, waiting, polls, gone>>

\* The finally block: _waiting drops on every path, the slot is given back
\* only when the turn was not acquired.
LeaveQueueGranted(r) ==
    /\ Goto(r, "granted", "counted")
    /\ waiting' = waiting - 1
    /\ UNCHANGED <<slots, turn, active, polls, gone, outcome>>

LeaveQueueEmpty(r) ==
    /\ Goto(r, "giveUp", "freeSlot")
    /\ waiting' = waiting - 1
    /\ UNCHANGED <<slots, turn, active, polls, gone, outcome>>

\* Mutant: the finally block forgets `if not acquired: self._slots.release()`.
LeakSlot(r) ==
    /\ Goto(r, "freeSlot", "answered")
    /\ UNCHANGED <<slots, turn, active, waiting, polls, gone, outcome>>

GiveSlotBack(r) ==
    /\ Goto(r, "freeSlot", "answered")
    /\ slots' = slots + 1
    /\ UNCHANGED <<turn, active, waiting, polls, gone, outcome>>

MarkActive(r) ==
    /\ Goto(r, "counted", "dispatching")
    /\ active' = 1
    /\ outcome' = [outcome EXCEPT ![r] = "admitted"]
    /\ UNCHANGED <<slots, turn, waiting, polls, gone>>

-----------------------------------------------------------------------------
(* release(), in do_POST's finally block *)

\* _dispatch_post returns or raises; either way release() runs and first
\* clears _active.
ClearActive(r) ==
    /\ Goto(r, "dispatching", "cleared")
    /\ active' = 0
    /\ UNCHANGED <<slots, turn, waiting, polls, gone, outcome>>

ReleaseTurn(r) ==
    /\ Goto(r, "cleared", "turnFreed")
    /\ turn' = NoOne
    /\ UNCHANGED <<slots, active, waiting, polls, gone, outcome>>

ReleaseSlot(r) ==
    /\ Goto(r, "turnFreed", "answered")
    /\ slots' = slots + 1
    /\ UNCHANGED <<turn, active, waiting, polls, gone, outcome>>

-----------------------------------------------------------------------------
(* The client *)

\* The peer closes its connection while the request is in flight.
ClientLeaves(r) ==
    /\ pc[r] \notin {"idle", "answered"}
    /\ ~gone[r]
    /\ gone' = [gone EXCEPT ![r] = TRUE]
    /\ UNCHANGED <<slots, turn, active, waiting, pc, polls, outcome>>

\* A new POST arrives on this thread.
NextPost(r) ==
    /\ Goto(r, "answered", "idle")
    /\ polls' = [polls EXCEPT ![r] = 0]
    /\ gone' = [gone EXCEPT ![r] = FALSE]
    /\ outcome' = [outcome EXCEPT ![r] = "none"]
    /\ UNCHANGED <<slots, turn, active, waiting>>

-----------------------------------------------------------------------------
\* The steps of acquire() once a slot is held: a running thread takes them.
Wait(r) ==
    \/ CountWaiting(r) \/ TakeTurn(r) \/ PollFails(r) \/ ProbeCancels(r)
    \/ DeadlinePasses(r) \/ PollAgain(r) \/ LeaveQueueGranted(r)
    \/ LeaveQueueEmpty(r) \/ GiveSlotBack(r) \/ MarkActive(r)

Admit(r) == RejectFull(r) \/ TakeSlot(r)
FinishRelease(r) == ReleaseTurn(r) \/ ReleaseSlot(r)

Step(r) ==
    \/ Admit(r) \/ Wait(r) \/ ClearActive(r) \/ FinishRelease(r)
    \/ ClientLeaves(r) \/ NextPost(r)

Next == \E r \in Requests : Step(r)

\* The operating system runs every thread that is ready.  Nothing is assumed
\* of ClearActive: a generation may hold the turn for ever.
Fairness == \A r \in Requests : WF_vars(Wait(r)) /\ WF_vars(FinishRelease(r))

Spec == Init /\ [][Next]_vars
FairSpec == Spec /\ Fairness

-----------------------------------------------------------------------------
(* Properties *)

TypeOK ==
    /\ slots \in 0..Capacity
    /\ turn \in Requests \cup {NoOne}
    /\ active \in {0, 1}
    /\ waiting \in 0..Capacity
    /\ pc \in [Requests -> Locations]
    /\ polls \in [Requests -> 0..MaxPolls]
    /\ gone \in [Requests -> BOOLEAN]
    /\ outcome \in [Requests -> Outcomes]

HasSlot(r) == pc[r] \notin {"idle", "answered"}
HasTurn(r) == pc[r] \in {"granted", "counted", "dispatching", "cleared"}
IsWaiting(r) == pc[r] \in {"queued", "polled", "granted", "giveUp"}

SlotHolders == {r \in Requests : HasSlot(r)}
Waiters == {r \in Requests : IsWaiting(r)}

\* "This gate admits a bounded queue and executes one POST at a time": two
\* handlers are never inside _dispatch_post together.
OneAtATime ==
    \A r, s \in Requests :
        pc[r] = "dispatching" /\ pc[s] = "dispatching" => r = s

\* Every path out of acquire() and release() gives back exactly the slot it
\* took: the semaphore never leaks a slot (429 for ever) and is never released
\* above its bound (BoundedSemaphore would raise in the finally block).
SlotsBalance == slots + Cardinality(SlotHolders) = Capacity

\* What /health reports through snapshot(): `waiting` is the number of threads
\* between the two counter updates, and `active` is never left over from, or
\* cleared by, another request while this one dispatches.
SnapshotHonest ==
    /\ waiting = Cardinality(Waiters)
    /\ active = 1 <=> \E r \in Requests : pc[r] = "dispatching"

\* The books of the gate, as one invariant: what release() and the exit paths
\* of acquire() rely on, and what /health reports.
Balanced == TypeOK /\ SlotsBalance /\ SnapshotHonest

\* The turn belongs to exactly the thread between _turn.acquire and
\* _turn.release.
TurnHeld == \A r \in Requests : turn = r <=> HasTurn(r)

\* The inductive invariant: OneAtATime follows from the lock's ownership, and
\* the ranges in TypeOK from the two balances.
GateInv == TypeOK /\ TurnHeld /\ SlotsBalance /\ SnapshotHonest

\* A queued request is answered, dispatched or not, even when the request
\* holding the turn never finishes: the wait is bounded by its own deadline.
QueuedIsAnswered ==
    \A r \in Requests :
        pc[r] = "admitted" ~> pc[r] \in {"dispatching", "answered"}

=============================================================================
