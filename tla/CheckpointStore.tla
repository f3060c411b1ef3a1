-------------------------- MODULE CheckpointStore --------------------------
(***************************************************************************)
(* The worker's checkpoint store (engine/core/serve/server_main.cpp): a    *)
(* std::map from ids to snapshots, bounded by evicting its first key.  Ids *)
(* carry a counter that every request of the process shares, and the map   *)
(* orders them as strings: "ckpt-10" comes before "ckpt-9".                *)
(*                                                                         *)
(* A restore or branch copies its snapshot under the lock and generates    *)
(* from the copy: it leaves the store alone and needs nothing more of it.  *)
(***************************************************************************)
EXTENDS Naturals, Sequences, FiniteSets, FiniteSetsExt

CONSTANTS
    MaxCheckpoints,  \* kMaxCheckpoints
    FirstId,         \* g_req_counter when the behaviour begins
    LastId           \* bound of the model

ASSUME StoreAssumption ==
    /\ MaxCheckpoints \in Nat \ {0}
    /\ FirstId \in Nat /\ LastId \in Nat

VARIABLES
    counter,    \* g_req_counter
    stored,     \* ids in the map
    returned    \* history: ids whose save has answered

storeVars == <<counter, stored, returned>>

\* std::to_string, and the order of std::string.
Digits[n \in Nat] ==
    IF n < 10 THEN <<n>> ELSE Append(Digits[n \div 10], n % 10)

StringBefore(a, b) ==
    LET x == Digits[a] y == Digits[b]
    IN  \E i \in 1..Len(y) : /\ \A j \in 1..(i - 1) : j <= Len(x) /\ x[j] = y[j]
                             /\ i > Len(x) \/ x[i] < y[i]

\* checkpoints.begin().
FirstKey(ids) == CHOOSE a \in ids : \A b \in ids \ {a} : StringBefore(a, b)

StoreInit ==
    /\ counter = FirstId
    /\ stored = {} /\ returned = {}

\* Mutant: the new one is inserted first.
EvictAfter(id) ==
    LET all == stored \cup {id}
    IN  IF Cardinality(all) > MaxCheckpoints THEN all \ {FirstKey(all)} ELSE all

\* Under ckpt_mtx: a full map loses its first key, then the new one goes in.
Evict(id) ==
    (IF Cardinality(stored) >= MaxCheckpoints THEN stored \ {FirstKey(stored)}
     ELSE stored) \cup {id}

\* /v1/checkpoint, or a completion with checkpoint_on_finish.
Save ==
    /\ counter <= LastId
    /\ counter' = counter + 1
    /\ stored' = Evict(counter)
    /\ returned' = returned \cup {counter}

\* Any other request takes a number, too.
OtherRequest ==
    /\ counter <= LastId
    /\ counter' = counter + 1
    /\ UNCHANGED <<stored, returned>>

StoreNext == Save \/ OtherRequest

StoreSpec == StoreInit /\ [][StoreNext]_storeVars

-----------------------------------------------------------------------------
(* Properties *)

\* A checkpoint can be restored at least until the next one is saved, also when
\* the counter gains a digit and the new id sorts before all others.
NewestSurvives ==
    returned # {} => Max(returned) \in stored

=============================================================================
