--------------------------- MODULE BackgroundProofs ---------------------------
(***************************************************************************)
(* What runs around the replies, for every value of the constants.         *)
(*                                                                         *)
(* `clozn watch` shows every run that matches exactly once, for any number *)
(* of writers and of runs, any limit per page and any bound on the rows    *)
(* kept, unless one was committed after a run with a later key.  What is   *)
(* needed besides: what is shown is behind the cursor; the cursor is the   *)
(* key of a run that nobody is recording any more; and some row of the     *)
(* journal is not before it, so that a run committed behind the cursor was *)
(* overtaken (WatchInv).  Pruning keeps that, for it keeps the newest.     *)
(* Nothing is needed of the clock: equal stamps are told apart by the id.  *)
(*                                                                         *)
(* The migrations keep a truthful ledger, for any number of openers and of *)
(* migrations: what an opener lists as pending contains what the ledger    *)
(* does not claim, and what the writer is about to apply stays missing.    *)
(*                                                                         *)
(* The supervisor leaves no child behind, unless a signal cuts its cleanup *)
(* short.  A chat keeps the prefix it started with.  The log of corrective *)
(* policies accounts for those in force, and an undo takes back its own    *)
(* activation.  `clozn connect` and its undo keep the user's text.         *)
(***************************************************************************)
EXTENDS RuntimeSupervisor, RunWatch, RunMigrations, PrefixRetrain,
        CorrectivePolicy, AppConnect, FiniteSetTheorems, WellFoundedInduction, TLAPS

-----------------------------------------------------------------------------
(* The watcher *)

WatchTypes ==
    /\ stamp \in [RunIds -> Nat]
    /\ committed \in SUBSET RunIds /\ shown \in SUBSET RunIds
    /\ pending \in [Writers -> RunIds \cup {NoRun}]

\* A run is stamped once, by one writer, before it is committed.
StampsOK ==
    /\ \A r \in committed \cup shown : stamp[r] # 0
    /\ \A w \in Writers : pending[w] # NoRun =>
          stamp[pending[w]] # 0 /\ pending[w] \notin committed
    /\ \A v, w \in Writers : pending[v] = pending[w] /\ pending[v] # NoRun => v = w

CursorOK ==
    \/ cursor = <<0, 0>>
    \/ \E c \in RunIds : /\ cursor = Key(c) /\ stamp[c] # 0
                         /\ \A w \in Writers : pending[w] # c
                         /\ \E q \in committed : ~Before(Key(q), cursor)

ShownBehind == \A r \in shown : ~Before(cursor, Key(r))

WatchInv == WatchTypes /\ StampsOK /\ CursorOK /\ ShownBehind /\ NoRunSkipped

-----------------------------------------------------------------------------
(* Keys *)

LEMMA RunIdsAreNumbers == RunIds \subseteq Nat /\ IsFiniteSet(RunIds) /\ NoRun \notin RunIds
BY WatchAssumption DEF WatchAssumption

LEMMA KeyOrder ==
    ASSUME WatchTypes, NEW r \in RunIds, NEW q \in RunIds, NEW x \in RunIds
    PROVE  /\ ~Before(Key(r), Key(q)) /\ ~Before(Key(q), Key(r)) => r = q
           /\ Before(Key(r), Key(q)) /\ ~Before(Key(x), Key(q)) => Before(Key(r), Key(x))
           /\ ~Before(Key(q), Key(r)) /\ Before(Key(q), Key(x)) => Before(Key(r), Key(x))
           /\ ~Before(Key(r), Key(r))
           /\ Before(Key(r), Key(q)) => ~Before(Key(q), Key(r))
BY RunIdsAreNumbers DEF WatchTypes, Before, Key

LEMMA KeyAfterStart ==
    ASSUME WatchTypes, NEW r \in RunIds, stamp[r] # 0
    PROVE  Before(<<0, 0>>, Key(r))
BY RunIdsAreNumbers DEF WatchTypes, Before, Key

\* The cursor moves on like a key, wherever it is.
LEMMA CursorOrder ==
    ASSUME WatchTypes, CursorOK, NEW r \in RunIds, NEW q \in RunIds,
           Before(cursor, Key(q)), ~Before(cursor, Key(r))
    PROVE  ~Before(Key(q), Key(r))
<1>1. CASE cursor = <<0, 0>>
  BY <1>1, RunIdsAreNumbers DEF WatchTypes, Before, Key
<1>2. CASE \E c \in RunIds : cursor = Key(c)
  BY <1>2, KeyOrder
<1> QED
  BY <1>1, <1>2 DEF CursorOK

\* A set of runs that is not empty has a newest one.
LEMMA NewestExists ==
    ASSUME WatchTypes, NEW S \in SUBSET RunIds, S # {}
    PROVE  \E m \in S : \A q \in S : ~Before(Key(m), Key(q))
<1> DEFINE above(x) == {q \in S : Before(Key(x), Key(q))}
           D == {Cardinality(above(x)) : x \in S}
<1>1. IsFiniteSet(S)
  BY RunIdsAreNumbers, FS_Subset
<1>2. \A x \in S : above(x) \in SUBSET S /\ IsFiniteSet(above(x)) /\ Cardinality(above(x)) \in Nat
  BY <1>1, FS_Subset, FS_CardinalityType
<1>3. D \in SUBSET Nat /\ D # {}
  BY <1>2
<1>4. PICK n \in D : \A k \in D : n <= k
  <2> HIDE DEF D
  <2>1. \E n \in D : \A k \in D : ~(<<k, n>> \in OpToRel(<, Nat))
    BY <1>3, WFMin, NatLessThanWellFounded, Zenon
  <2>2. PICK n \in D : \A k \in D : ~(<<k, n>> \in OpToRel(<, Nat))
    BY <2>1
  <2>3. \A k \in D : k \in Nat /\ n \in Nat
    BY <1>3, <2>2
  <2>4. \A k \in D : n <= k
    <3> SUFFICES ASSUME NEW k \in D PROVE n <= k
      OBVIOUS
    <3>1. ~(k < n)
      BY <2>2, <2>3, Zenon DEF OpToRel
    <3> QED
      BY <2>3, <3>1
  <2> QED
    BY <2>4
<1>5. PICK m \in S : n = Cardinality(above(m))
  BY <1>4
<1>6. ASSUME NEW q \in S, Before(Key(m), Key(q)) PROVE FALSE
  <2>1. above(q) \in SUBSET above(m) /\ q \in above(m) /\ q \notin above(q)
    BY <1>6, KeyOrder
  <2>2. Cardinality(above(q)) \in D
    OBVIOUS
  <2> HIDE DEF above, D
  <2>3. /\ Cardinality(above(q)) <= Cardinality(above(m))
        /\ Cardinality(above(q)) # Cardinality(above(m))
    BY <2>1, <1>2, FS_Subset
  <2>4. Cardinality(above(m)) <= Cardinality(above(q))
    BY <1>4, <1>5, <2>2
  <2> QED
    BY <2>3, <2>4, <1>2
<1> QED
  BY <1>6

-----------------------------------------------------------------------------
(* The writers *)

LEMMA StampKeeps ==
    ASSUME WatchInv, NEW w \in Writers, NEW r \in RunIds, Stamp(w, r)
    PROVE  WatchInv'
<1>1. PICK now \in Times :
            /\ pending[w] = NoRun /\ stamp[r] = 0
            /\ stamp' = [stamp EXCEPT ![r] = now]
            /\ pending' = [pending EXCEPT ![w] = r]
            /\ committed' = committed /\ cursor' = cursor /\ shown' = shown
            /\ overtaken' = overtaken
  BY DEF Stamp
<1>2. /\ stamp'[r] = now /\ \A q \in RunIds : q # r => stamp'[q] = stamp[q]
      /\ pending'[w] = r /\ \A v \in Writers : v # w => pending'[v] = pending[v]
      /\ now \in Nat \ {0}
  BY <1>1, WatchAssumption DEF WatchInv, WatchTypes, WatchAssumption
<1>3. WatchTypes'
  BY <1>1, <1>2 DEF WatchInv, WatchTypes
<1>4. r \notin committed \cup shown /\ \A v \in Writers : pending[v] # r
  BY <1>1, RunIdsAreNumbers DEF WatchInv, StampsOK
<1>5. StampsOK'
  <2>1. \A q \in committed' \cup shown' : stamp'[q] # 0
    BY <1>1, <1>2, <1>4 DEF WatchInv, StampsOK, WatchTypes
  <2>2. \A v \in Writers : pending'[v] # NoRun =>
            stamp'[pending'[v]] # 0 /\ pending'[v] \notin committed'
    <3> SUFFICES ASSUME NEW v \in Writers, pending'[v] # NoRun
                 PROVE  stamp'[pending'[v]] # 0 /\ pending'[v] \notin committed'
      OBVIOUS
    <3>1. CASE v = w
      BY <3>1, <1>1, <1>2, <1>4
    <3>2. CASE v # w
      BY <3>2, <1>1, <1>2, <1>4 DEF WatchInv, StampsOK, WatchTypes
    <3> QED
      BY <3>1, <3>2
  <2>3. \A u, v \in Writers : pending'[u] = pending'[v] /\ pending'[u] # NoRun => u = v
    BY <1>2, <1>4 DEF WatchInv, StampsOK
  <2> QED
    BY <2>1, <2>2, <2>3 DEF StampsOK
<1>6. \A q \in RunIds : q # r => Key(q)' = Key(q)
  BY <1>2 DEF Key
<1>7. CursorOK'
  <2>1. CASE cursor = <<0, 0>>
    BY <2>1, <1>1 DEF CursorOK
  <2>2. ASSUME NEW c \in RunIds, cursor = Key(c), stamp[c] # 0,
               \A v \in Writers : pending[v] # c,
               NEW q \in committed, ~Before(Key(q), cursor)
        PROVE  CursorOK'
    <3>1. c # r /\ q # r /\ q \in RunIds
      BY <2>2, <1>1, <1>4 DEF WatchInv, WatchTypes
    <3>2. \A v \in Writers : pending'[v] # c
      BY <2>2, <1>2, <3>1
    <3> QED
      BY <2>2, <1>1, <1>2, <1>6, <3>1, <3>2 DEF CursorOK
  <2> QED
    BY <2>1, <2>2 DEF WatchInv, CursorOK
<1>8. ShownBehind' /\ NoRunSkipped'
  <2>1. \A q \in committed \cup shown : q # r /\ q \in RunIds
    BY <1>4 DEF WatchInv, WatchTypes
  <2> QED
    BY <1>1, <1>6, <2>1 DEF WatchInv, ShownBehind, NoRunSkipped
<1> QED
  BY <1>3, <1>5, <1>7, <1>8 DEF WatchInv

LEMMA CommitKeeps ==
    ASSUME WatchInv, NEW w \in Writers, Commit(w)
    PROVE  WatchInv'
<1> DEFINE r == pending[w]
<1>1. /\ r # NoRun /\ committed' = committed \cup {r}
      /\ overtaken' = IF \E q \in committed : Before(Key(r), Key(q))
                      THEN overtaken \cup {r} ELSE overtaken
      /\ pending' = [pending EXCEPT ![w] = NoRun]
      /\ stamp' = stamp /\ cursor' = cursor /\ shown' = shown
  BY DEF Commit
<1>2. r \in RunIds /\ r \notin committed /\ stamp[r] # 0
  BY <1>1 DEF WatchInv, WatchTypes, StampsOK
<1>3. \A x \in RunIds : Key(x)' = Key(x)
  BY <1>1 DEF Key
<1> HIDE DEF r
<1>4. /\ pending'[w] = NoRun /\ \A v \in Writers : v # w => pending'[v] = pending[v]
      /\ pending' \in [Writers -> RunIds \cup {NoRun}]
  BY <1>1 DEF WatchInv, WatchTypes
<1>5. WatchTypes'
  BY <1>1, <1>2, <1>4 DEF WatchInv, WatchTypes
<1>6. StampsOK'
  <2>1. \A q \in committed' \cup shown' : stamp'[q] # 0
    BY <1>1, <1>2 DEF WatchInv, StampsOK
  <2>2. \A v \in Writers : pending'[v] # NoRun =>
            stamp'[pending'[v]] # 0 /\ pending'[v] \notin committed'
    BY <1>1, <1>4 DEF WatchInv, StampsOK, r
  <2>3. \A u, v \in Writers : pending'[u] = pending'[v] /\ pending'[u] # NoRun => u = v
    BY <1>4 DEF WatchInv, StampsOK
  <2> QED
    BY <2>1, <2>2, <2>3 DEF StampsOK
<1>7. CursorOK'
  <2>1. CASE cursor = <<0, 0>>
    BY <2>1, <1>1 DEF CursorOK
  <2>2. ASSUME NEW c \in RunIds, cursor = Key(c), stamp[c] # 0,
               \A v \in Writers : pending[v] # c,
               NEW q \in committed, ~Before(Key(q), cursor)
        PROVE  CursorOK'
    <3>1. \A v \in Writers : pending'[v] # c
      BY <2>2, <1>4, RunIdsAreNumbers
    <3>2. q \in RunIds /\ q \in committed' /\ ~Before(Key(q)', cursor')
      BY <1>1, <1>3, <2>2 DEF WatchInv, WatchTypes
    <3>3. cursor' = Key(c)' /\ stamp'[c] # 0
      BY <1>1, <1>3, <2>2
    <3> QED
      BY <3>1, <3>2, <3>3 DEF CursorOK
  <2> QED
    BY <2>1, <2>2 DEF WatchInv, CursorOK
<1>8. ShownBehind'
  BY <1>1, <1>3 DEF WatchInv, WatchTypes, ShownBehind
<1>9. NoRunSkipped'
  <2> SUFFICES ASSUME NEW x \in committed' \cap Wanted, ~Before(cursor, Key(x))
               PROVE  x \in shown' \cup overtaken'
    BY <1>1, <1>2, <1>3 DEF WatchInv, WatchTypes, NoRunSkipped
  <2>1. CASE x \in committed
    BY <2>1, <1>1 DEF WatchInv, NoRunSkipped
  <2>2. CASE x = r
    <3>1. CASE cursor = <<0, 0>>
      BY <3>1, <2>2, <1>2, KeyAfterStart DEF WatchInv
    <3>2. ASSUME NEW c \in RunIds, cursor = Key(c), \A v \in Writers : pending[v] # c,
                 NEW q \in committed, ~Before(Key(q), cursor)
          PROVE  x \in shown' \cup overtaken'
      <4>1. c # r /\ q \in RunIds
        BY <3>2 DEF r, WatchInv, WatchTypes
      <4>2. Before(Key(r), Key(c))
        BY <4>1, <3>2, <2>2, <1>2, KeyOrder DEF WatchInv
      <4>3. Before(Key(r), Key(q))
        BY <4>1, <4>2, <3>2, <1>2, KeyOrder DEF WatchInv
      <4> QED
        BY <4>3, <1>1, <2>2
    <3> QED
      BY <3>1, <3>2 DEF WatchInv, CursorOK
  <2> QED
    BY <2>1, <2>2, <1>1
<1> QED
  BY <1>5, <1>6, <1>7, <1>8, <1>9 DEF WatchInv

\* What is pruned is not the newest row, so that the cursor keeps one that is
\* not before it.
LEMMA PruneKeeps ==
    ASSUME WatchInv, NEW w \in Writers, Prune(w)
    PROVE  WatchInv'
<1>1. /\ committed' = Newest
      /\ stamp' = stamp /\ pending' = pending /\ cursor' = cursor /\ shown' = shown
      /\ overtaken' = overtaken
  BY DEF Prune
<1>2. Newest \subseteq committed /\ committed \in SUBSET RunIds
  BY DEF Newest, WatchInv, WatchTypes
<1>3. committed # {} => \E m \in Newest : \A q \in committed : ~Before(Key(m), Key(q))
  <2> SUFFICES ASSUME committed # {}
               PROVE  \E m \in Newest : \A q \in committed : ~Before(Key(m), Key(q))
    OBVIOUS
  <2>1. PICK m \in committed : \A q \in committed : ~Before(Key(m), Key(q))
    BY <1>2, NewestExists DEF WatchInv
  <2>2. {q \in committed : Before(Key(m), Key(q))} = {}
    BY <2>1
  <2>3. Cardinality({q \in committed : Before(Key(m), Key(q))}) < Keep
    BY <2>2, FS_EmptySet, WatchAssumption DEF WatchAssumption
  <2> QED
    BY <2>1, <2>3 DEF Newest
<1>4. \A x \in RunIds : Key(x)' = Key(x)
  BY <1>1 DEF Key
<1>5. WatchTypes' /\ StampsOK'
  BY <1>1, <1>2 DEF WatchInv, WatchTypes, StampsOK
<1>6. CursorOK'
  <2>1. CASE cursor = <<0, 0>>
    BY <2>1, <1>1 DEF CursorOK
  <2>2. ASSUME NEW c \in RunIds, cursor = Key(c), stamp[c] # 0,
               \A v \in Writers : pending[v] # c,
               NEW q \in committed, ~Before(Key(q), cursor)
        PROVE  CursorOK'
    <3>1. PICK m \in Newest : ~Before(Key(m), Key(q))
      BY <2>2, <1>3
    <3>2. m \in RunIds /\ q \in RunIds /\ m \in committed'
      BY <3>1, <2>2, <1>1, <1>2
    <3>3. ~Before(Key(m), cursor)
      BY <2>2, <3>1, <3>2, KeyOrder DEF WatchInv
    <3>4. cursor' = Key(c)' /\ stamp'[c] # 0 /\ ~Before(Key(m)', cursor')
          /\ \A v \in Writers : pending'[v] # c
      BY <1>1, <1>4, <2>2, <3>2, <3>3
    <3> QED
      BY <3>2, <3>4 DEF CursorOK
  <2> QED
    BY <2>1, <2>2 DEF WatchInv, CursorOK
<1>7. ShownBehind' /\ NoRunSkipped'
  BY <1>1, <1>2, <1>4 DEF WatchInv, WatchTypes, ShownBehind, NoRunSkipped
<1> QED
  BY <1>5, <1>6, <1>7 DEF WatchInv

LEMMA AbandonKeeps ==
    ASSUME WatchInv, NEW w \in Writers, Abandon(w)
    PROVE  WatchInv'
<1>1. /\ pending' = [pending EXCEPT ![w] = NoRun]
      /\ stamp' = stamp /\ cursor' = cursor /\ shown' = shown
      /\ committed' = committed /\ overtaken' = overtaken
  BY DEF Abandon
<1>2. /\ pending'[w] = NoRun /\ \A v \in Writers : v # w => pending'[v] = pending[v]
      /\ pending' \in [Writers -> RunIds \cup {NoRun}]
  BY <1>1 DEF WatchInv, WatchTypes
<1>3. \A x \in RunIds : Key(x)' = Key(x)
  BY <1>1 DEF Key
<1>4. WatchTypes'
  BY <1>1, <1>2 DEF WatchInv, WatchTypes
<1>5. StampsOK'
  BY <1>1, <1>2 DEF WatchInv, StampsOK
<1>6. CursorOK'
  BY <1>1, <1>2, RunIdsAreNumbers DEF WatchInv, CursorOK, Key
<1>7. ShownBehind' /\ NoRunSkipped'
  BY <1>1 DEF WatchInv, ShownBehind, NoRunSkipped, Key
<1> QED
  BY <1>4, <1>5, <1>6, <1>7 DEF WatchInv

-----------------------------------------------------------------------------
(* The watcher *)

LEMMA PollKeeps ==
    ASSUME WatchInv, Poll
    PROVE  WatchInv'
<1>1. PICK last \in Scanned(cursor) :
            /\ \A r \in Scanned(cursor) : ~Before(Key(last), Key(r))
            /\ cursor' = Key(last)
  BY DEF Poll
<1>2. /\ shown' = shown \cup Page(cursor)
      /\ stamp' = stamp /\ committed' = committed
      /\ pending' = pending /\ overtaken' = overtaken
  BY DEF Poll
<1>3. /\ last \in committed /\ last \in RunIds /\ Before(cursor, Key(last))
      /\ MatchesBefore(cursor, last) < Limit
      /\ Page(cursor) \subseteq Scanned(cursor) /\ Scanned(cursor) \subseteq committed
  BY <1>1 DEF Scanned, RowsAfter, Page, Matches, WatchInv, WatchTypes
<1>4. \A x \in RunIds : Key(x)' = Key(x)
  BY <1>2 DEF Key
<1>5. WatchTypes'
  BY <1>2, <1>3 DEF WatchInv, WatchTypes
<1>6. StampsOK'
  BY <1>2, <1>3 DEF WatchInv, StampsOK
<1>7. CursorOK'
  <2>1. /\ cursor' = Key(last)' /\ stamp'[last] # 0
        /\ \A v \in Writers : pending'[v] # last
    BY <1>1, <1>2, <1>3, <1>4, RunIdsAreNumbers DEF WatchInv, StampsOK
  <2>2. ~Before(Key(last)', cursor')
    BY <1>1, <1>3, <1>4, KeyOrder DEF WatchInv
  <2> QED
    BY <1>2, <1>3, <2>1, <2>2 DEF CursorOK
<1>8. ShownBehind'
  <2> SUFFICES ASSUME NEW r \in shown \cup Page(cursor) PROVE ~Before(Key(last), Key(r))
    BY <1>1, <1>2, <1>3, <1>4 DEF ShownBehind, WatchInv, WatchTypes
  <2>1. CASE r \in shown
    BY <2>1, <1>3, CursorOrder DEF WatchInv, WatchTypes, ShownBehind
  <2>2. CASE r \in Page(cursor)
    BY <2>2, <1>1, <1>3
  <2> QED
    BY <2>1, <2>2
<1>9. NoRunSkipped'
  <2> SUFFICES ASSUME NEW r \in committed \cap Wanted, ~Before(Key(last), Key(r))
               PROVE  r \in shown \cup Page(cursor) \cup overtaken
    BY <1>1, <1>2, <1>3, <1>4 DEF NoRunSkipped, WatchInv, WatchTypes
  <2>1. CASE ~Before(cursor, Key(r))
    BY <2>1 DEF WatchInv, NoRunSkipped
  <2>2. CASE Before(cursor, Key(r))
    <3> DEFINE A == {q \in Matches(cursor) : Before(Key(q), Key(r))}
               B == {q \in Matches(cursor) : Before(Key(q), Key(last))}
    <3>1. r \in Matches(cursor) /\ Matches(cursor) \subseteq RunIds /\ r \in RunIds
      BY <2>2 DEF Matches, RowsAfter, WatchInv, WatchTypes
    <3>2. A \subseteq B
      BY <3>1, <1>3, KeyOrder DEF WatchInv
    <3>3. IsFiniteSet(B)
      BY <3>1, RunIdsAreNumbers, FS_Subset
    <3>4. Cardinality(A) \in Nat /\ Cardinality(B) \in Nat /\ Cardinality(A) <= Cardinality(B)
      BY <3>2, <3>3, FS_Subset, FS_CardinalityType
    <3>5. Cardinality(B) < Limit
      BY <1>3 DEF MatchesBefore
    <3> HIDE DEF A, B
    <3>6. Cardinality(A) < Limit
      BY <3>4, <3>5, WatchAssumption DEF WatchAssumption
    <3> QED
      BY <3>1, <3>6 DEF Page, MatchesBefore, A
  <2> QED
    BY <2>1, <2>2
<1> QED
  BY <1>5, <1>6, <1>7, <1>8, <1>9 DEF WatchInv

LEMMA WatchStep ==
    ASSUME WatchInv, [WatchNext]_watchVars
    PROVE  WatchInv'
<1>1. CASE UNCHANGED watchVars
  BY <1>1 DEF watchVars, WatchInv, WatchTypes, StampsOK, CursorOK, ShownBehind,
              NoRunSkipped, Key
<1> QED
  BY <1>1, StampKeeps, CommitKeeps, PruneKeeps, AbandonKeeps, PollKeeps DEF WatchNext

\* Behind the cursor nothing that matches is left unprinted but what was
\* committed after a run with a later key, and ahead of it nothing has been printed: a matching run is shown
\* exactly once.
THEOREM WatchExact == WatchSpec => []WatchedExactly
<1>1. WatchInit => WatchInv
  BY DEF WatchInit, WatchInv, WatchTypes, StampsOK, CursorOK, ShownBehind, NoRunSkipped
<1>2. WatchInv => WatchedExactly
  BY DEF WatchInv, ShownBehind, WatchedExactly, PrintedOnce, Page, Matches, RowsAfter
<1> QED
  BY <1>1, <1>2, WatchStep, PTL DEF WatchSpec

-----------------------------------------------------------------------------
(* Migrations *)

\* One opener at most is in a transaction.  An opener has the versions the
\* ledger does not claim still to look at.  Nobody but the writer changes what
\* a version is applied for: it is missing until the commit.
OpenersInv ==
    /\ writer \in Openers \cup {NoTx}
    /\ migAt \in [Openers -> {"closed", "loop", "apply", "open"}]
    /\ list \in [Openers -> SUBSET Versions]
    /\ ledger \subseteq Versions
    /\ \A o \in Openers : migAt[o] = "apply" <=> writer = o
    /\ \A o \in Openers : migAt[o] \in {"loop", "apply"}
          => \A u \in Versions \ list[o] : u \in ledger
    /\ \A o \in Openers : migAt[o] = "apply"
          => /\ list[o] # {}
             /\ ~(Step(o) \in ledger /\ Verified(Step(o)))

LedgerInv ==
    /\ dropped \in BOOLEAN /\ schemaVersion \in Nat
    /\ \A v \in ledger, u \in Versions : u < v => u \in ledger
    /\ ~dropped =>
          /\ \A v \in ledger : Verified(v)
          /\ \A v \in ledger : v <= schemaVersion
          /\ IF ledger = {} THEN schemaVersion = 0 ELSE schemaVersion \in ledger

CommitsInv ==
    /\ commits \in [Versions -> Nat]
    /\ \A v \in Versions :
          /\ v \notin ledger => commits[v] = 0
          /\ ~dropped => commits[v] <= 1
          /\ commits[v] <= 2 /\ (~Verified(v) => commits[v] <= 1)

MigInv == OpenersInv /\ LedgerInv /\ CommitsInv

LEMMA StepIsLowest ==
  ASSUME NEW todo \in SUBSET Versions, todo # {}
  PROVE  Min(todo) \in todo /\ \A u \in todo : Min(todo) <= u
<1>1. todo \subseteq Nat
  BY MigrationsAssumption DEF MigrationsAssumption
<1>2. PICK least \in todo : \A u \in todo : <<u, least>> \notin OpToRel(<, Nat)
  BY <1>1, WFMin, NatLessThanWellFounded
<1>3. \A u \in todo : least <= u
  <2> SUFFICES ASSUME NEW u \in todo PROVE least <= u
    OBVIOUS
  <2>1. u \in Nat /\ least \in Nat /\ ~(u < least)
    BY <1>1, <1>2, Zenon DEF OpToRel
  <2> QED
    BY <2>1
<1>4. \A w \in todo : (\A u \in todo : w <= u) => w = least
  BY <1>1, <1>3
<1> QED
  BY <1>3, <1>4 DEF Min

\* The step of an opener in a transaction is one it has listed, and every
\* version below it is in the ledger.
LEMMA StepIsNext ==
  ASSUME OpenersInv, NEW o \in Openers, migAt[o] \in {"loop", "apply"},
         list[o] # {}
  PROVE  /\ Step(o) \in list[o] /\ Step(o) \in Versions /\ Step(o) \in Nat
         /\ \A u \in Versions : u < Step(o) => u \in ledger
<1>1. list[o] \subseteq Versions /\ Versions \subseteq Nat
  BY MigrationsAssumption DEF OpenersInv, MigrationsAssumption
<1>2. Step(o) \in list[o] /\ \A u \in list[o] : Step(o) <= u
  BY <1>1, StepIsLowest DEF Step
<1>3. Step(o) \in Versions /\ Step(o) \in Nat
  BY <1>1, <1>2
<1>4. ASSUME NEW u \in Versions, u < Step(o) PROVE u \in ledger
  <2>1. u \notin list[o]
    BY <1>1, <1>2, <1>3, <1>4
  <2> QED
    BY <2>1 DEF OpenersInv
<1> QED
  BY <1>2, <1>3, <1>4

LEMMA OpenersStep ==
  ASSUME OpenersInv, [MigNext]_migVars
  PROVE  OpenersInv'
<1> USE DEF OpenersInv
<1>1. NoTx \notin Openers
  BY MigrationsAssumption DEF MigrationsAssumption
<1>2. CASE DropObjects
  BY <1>1, <1>2 DEF DropObjects, Step, Verified
<1>3. ASSUME NEW o \in Openers, ListPending(o) PROVE OpenersInv'
  <2>1. Pending \in SUBSET Versions /\ \A u \in Versions \ Pending : u \in ledger
    BY DEF Pending
  <2>2. \A p \in Openers : p # o => Step(p)' = Step(p)
    BY <1>3 DEF ListPending, Step
  <2> QED
    BY <1>3, <2>1, <2>2 DEF ListPending, Verified
<1>4. ASSUME NEW o \in Openers, BeginStep(o) PROVE OpenersInv'
  <2> DEFINE v == Step(o)
             already == v \in ledger /\ Verified(v)
  <2>1. /\ migAt[o] = "loop" /\ list[o] # {} /\ writer = NoTx
        /\ writer' = IF already THEN NoTx ELSE o
        /\ list' = IF already THEN [list EXCEPT ![o] = list[o] \ {v}] ELSE list
        /\ migAt' = IF already THEN migAt ELSE [migAt EXCEPT ![o] = "apply"]
        /\ objects' = objects /\ ledger' = ledger
    BY <1>4 DEF BeginStep
  <2>2. \A p \in Openers : migAt[p] # "apply"
    BY <1>1, <2>1
  <2>3. CASE already
    BY <1>1, <2>1, <2>2, <2>3
  <2>4. CASE ~already
    <3>1. /\ list' = list /\ \A p \in Openers : Step(p)' = Step(p)
          /\ \A u : Verified(u)' = Verified(u)
      BY <2>1, <2>4 DEF Step, Verified
    <3> QED
      BY <1>1, <2>1, <2>2, <2>4, <3>1
  <2> QED
    BY <2>3, <2>4
<1>5. ASSUME NEW o \in Openers, Execute(o) PROVE OpenersInv'
  BY <1>5 DEF Execute, Step, Verified
<1>6. ASSUME NEW o \in Openers, CommitStep(o) PROVE OpenersInv'
  <2> DEFINE v == Step(o)
  <2>1. /\ migAt[o] = "apply" /\ writer' = NoTx
        /\ ledger' = ledger \cup {v}
        /\ list' = [list EXCEPT ![o] = list[o] \ {v}]
        /\ migAt' = [migAt EXCEPT ![o] = "loop"]
    BY <1>6 DEF CommitStep
  <2>2. v \in Versions /\ \A p \in Openers : p # o => migAt[p] # "apply"
    BY <2>1, StepIsNext
  <2> HIDE DEF v
  <2> QED
    BY <1>1, <2>1, <2>2
<1>7. ASSUME NEW o \in Openers, StepFails(o) PROVE OpenersInv'
  <2>1. /\ migAt[o] = "apply" /\ writer' = NoTx /\ ledger' = ledger
        /\ list' = [list EXCEPT ![o] = {}]
        /\ migAt' = [migAt EXCEPT ![o] = "closed"]
    BY <1>7 DEF StepFails, GiveUpOpening
  <2>2. \A p \in Openers : migAt'[p] # "apply"
    BY <2>1
  <2> QED
    BY <1>1, <2>1, <2>2
<1>8. ASSUME NEW o \in Openers, BeginTimesOut(o) PROVE OpenersInv'
  <2>1. /\ migAt[o] = "loop" /\ writer' = writer /\ ledger' = ledger
        /\ objects' = objects
        /\ list' = [list EXCEPT ![o] = {}]
        /\ migAt' = [migAt EXCEPT ![o] = "closed"]
    BY <1>8 DEF BeginTimesOut, GiveUpOpening
  <2>2. /\ \A p \in Openers : p # o => Step(p)' = Step(p)
        /\ \A u : Verified(u)' = Verified(u)
    BY <2>1 DEF Step, Verified
  <2> QED
    BY <1>1, <2>1, <2>2
<1>9. ASSUME NEW o \in Openers, Migrated(o) PROVE OpenersInv'
  BY <1>9 DEF Migrated, Step, Verified
<1>10. CASE UNCHANGED migVars
  BY <1>10 DEF migVars, Step, Verified
<1> QED
  BY <1>2, <1>3, <1>4, <1>5, <1>6, <1>7, <1>8, <1>9, <1>10 DEF MigNext, Opener

\* What a commit does to the store.
LEMMA CommitIs ==
  ASSUME OpenersInv, NEW o \in Openers, CommitStep(o)
  PROVE  /\ Step(o) \in Versions /\ Step(o) \in Nat
         /\ ~(Step(o) \in ledger /\ Verified(Step(o)))
         /\ \A u \in Versions : u < Step(o) => u \in ledger
         /\ ledger' = ledger \cup {Step(o)} /\ schemaVersion' = Step(o)
         /\ commits' = [commits EXCEPT ![Step(o)] = @ + 1]
         /\ dropped' = dropped
         /\ \A u : u = Step(o) \/ Verified(u) => Verified(u)'
<1>1. /\ migAt[o] = "apply" /\ draft = StepParts(Step(o))
      /\ objects' = objects \cup draft
      /\ ledger' = ledger \cup {Step(o)} /\ schemaVersion' = Step(o)
      /\ commits' = [commits EXCEPT ![Step(o)] = @ + 1]
      /\ dropped' = dropped
  BY DEF CommitStep
<1>2. \A u : Verified(u) => Verified(u)'
  BY <1>1 DEF Verified
<1>3. StepParts(Step(o)) \subseteq objects'
  BY <1>1
<1>4. /\ Step(o) \in Versions /\ Step(o) \in Nat
      /\ \A u \in Versions : u < Step(o) => u \in ledger
      /\ ~(Step(o) \in ledger /\ Verified(Step(o)))
  BY <1>1, StepIsNext DEF OpenersInv
<1>5. ASSUME NEW u, u = Step(o) PROVE Verified(u)'
  BY <1>3, <1>5 DEF Verified, StepParts
<1> QED
  BY <1>1, <1>2, <1>4, <1>5

\* Only a commit and another program change the store.
LEMMA StoreKept ==
  ASSUME NEW o \in Openers,
         \/ ListPending(o) \/ BeginStep(o) \/ Execute(o) \/ Migrated(o)
         \/ StepFails(o) \/ BeginTimesOut(o)
  PROVE  UNCHANGED <<objects, ledger, schemaVersion, commits, dropped>>
BY DEF ListPending, BeginStep, Execute, Migrated, StepFails, BeginTimesOut,
       GiveUpOpening

LEMMA LedgerStep ==
  ASSUME OpenersInv, LedgerInv, [MigNext]_migVars
  PROVE  LedgerInv'
<1>1. Versions \subseteq Nat /\ ledger \subseteq Versions
  BY MigrationsAssumption DEF MigrationsAssumption, OpenersInv
<1>2. ASSUME UNCHANGED <<objects, ledger, schemaVersion, commits, dropped>>
      PROVE  LedgerInv'
  BY <1>2 DEF LedgerInv, Verified
<1>3. CASE DropObjects
  BY <1>3 DEF DropObjects, LedgerInv
<1>4. ASSUME NEW o \in Openers, CommitStep(o) PROVE LedgerInv'
  <2> DEFINE v == Step(o)
  <2>1. /\ v \in Versions /\ v \in Nat /\ ~(v \in ledger /\ Verified(v))
        /\ \A u \in Versions : u < v => u \in ledger
        /\ ledger' = ledger \cup {v} /\ schemaVersion' = v
        /\ dropped' = dropped
        /\ \A u : u = v \/ Verified(u) => Verified(u)'
    BY <1>4, CommitIs
  <2> HIDE DEF v
  <2>2. \A w \in ledger', u \in Versions : u < w => u \in ledger'
    BY <2>1 DEF LedgerInv
  <2>3. ASSUME ~dropped PROVE v \notin ledger /\ \A w \in ledger' : w <= v
    <3>1. v \notin ledger
      BY <2>1, <2>3 DEF LedgerInv
    <3>2. \A w \in ledger : ~(v < w)
      BY <2>1, <3>1 DEF LedgerInv
    <3> QED
      BY <1>1, <2>1, <3>1, <3>2
  <2> QED
    BY <2>1, <2>2, <2>3 DEF LedgerInv
<1>5. CASE UNCHANGED migVars
  BY <1>2, <1>5 DEF migVars
<1> QED
  BY <1>2, <1>3, <1>4, <1>5, StoreKept DEF MigNext, Opener

LEMMA CommitsStep ==
  ASSUME OpenersInv, LedgerInv, CommitsInv, [MigNext]_migVars
  PROVE  CommitsInv'
<1>1. ASSUME UNCHANGED <<objects, ledger, schemaVersion, commits, dropped>>
      PROVE  CommitsInv'
  BY <1>1 DEF CommitsInv, Verified
<1>2. CASE DropObjects
  BY <1>2 DEF DropObjects, CommitsInv
<1>3. ASSUME NEW o \in Openers, CommitStep(o) PROVE CommitsInv'
  <2> DEFINE v == Step(o)
  <2>1. /\ v \in Versions /\ ~(v \in ledger /\ Verified(v))
        /\ ledger' = ledger \cup {v} /\ dropped' = dropped
        /\ commits' = [commits EXCEPT ![v] = commits[v] + 1]
        /\ \A u : u = v \/ Verified(u) => Verified(u)'
    BY <1>3, CommitIs
  <2> HIDE DEF v
  <2>2. /\ commits \in [Versions -> Nat] /\ commits' \in [Versions -> Nat]
        /\ commits'[v] = commits[v] + 1
        /\ \A u \in Versions : u # v => commits'[u] = commits[u]
    BY <2>1 DEF CommitsInv
  <2>3. commits[v] <= 1 /\ (~dropped => commits[v] = 0)
    BY <2>1, <2>2 DEF CommitsInv, LedgerInv
  <2> QED
    BY <2>1, <2>2, <2>3 DEF CommitsInv
<1>4. CASE UNCHANGED migVars
  BY <1>1, <1>4 DEF migVars
<1> QED
  BY <1>1, <1>2, <1>3, <1>4, StoreKept DEF MigNext, Opener

\* For any openers and any migrations: the ledger skips no version and claims
\* none whose objects are not there, schema_version is its newest, and a step
\* is committed once, or once more to repair what another program dropped.
THEOREM MigrationsSound == MigSpec => []LedgerSound
<1>1. MigInit => MigInv
  <2> SUFFICES ASSUME MigInit PROVE MigInv
    OBVIOUS
  <2>1. /\ ledger = {} /\ schemaVersion = 0 /\ writer = NoTx /\ dropped = FALSE
        /\ list = [o \in Openers |-> {}]
        /\ migAt = [o \in Openers |-> "closed"]
        /\ commits = [v \in Versions |-> 0] /\ NoTx \notin Openers
    BY MigrationsAssumption DEF MigInit, MigrationsAssumption
  <2>2. OpenersInv
    BY <2>1 DEF OpenersInv
  <2>3. LedgerInv
    BY <2>1 DEF LedgerInv
  <2>4. commits \in [Versions -> Nat] /\ \A v \in Versions : commits[v] = 0
    BY <2>1
  <2>5. CommitsInv
    BY <2>4 DEF CommitsInv
  <2> QED
    BY <2>2, <2>3, <2>5 DEF MigInv
<1>2. MigInv /\ [MigNext]_migVars => MigInv'
  BY OpenersStep, LedgerStep, CommitsStep DEF MigInv
<1>3. MigInv => LedgerSound
  <2> SUFFICES ASSUME MigInv PROVE LedgerSound
    OBVIOUS
  <2>1. LedgerTruthful
    BY DEF MigInv, LedgerInv, LedgerTruthful
  <2>2. AppliedOnce
    BY DEF MigInv, CommitsInv, AppliedOnce
  <2>3. StampIsNewest
    <3>1. ASSUME ~dropped, ledger # {} PROVE schemaVersion = Max(ledger)
      <4>1. schemaVersion \in ledger /\ \A v \in ledger : schemaVersion >= v
        BY <3>1, MigrationsAssumption
        DEF MigInv, LedgerInv, OpenersInv, MigrationsAssumption
      <4>2. \A w \in ledger : (\A v \in ledger : w >= v) => w = schemaVersion
        BY <4>1, MigrationsAssumption DEF MigInv, OpenersInv, MigrationsAssumption
      <4> QED
        BY <4>1, <4>2 DEF Max
    <3> QED
      BY <3>1 DEF MigInv, LedgerInv, StampIsNewest
  <2> QED
    BY <2>1, <2>2, <2>3 DEF LedgerSound
<1> QED
  BY <1>1, <1>2, <1>3, PTL DEF MigSpec

-----------------------------------------------------------------------------
(* The supervisor *)

USE DEF Alive, Child, Locations

\* Type correctness, for every restart limit: in particular the restarts that
\* _restart_worker counts within its window never exceed the limit.
THEOREM SupervisorTyped == Spec => []TypeOK
<1>a. RestartLimit \in Nat \ {0}
  BY SupervisorAssumption DEF SupervisorAssumption
<1>b. 0 \in 0..RestartLimit
  BY <1>a
<1>1. Init => TypeOK
  BY <1>b DEF Init, TypeOK
<1>2. TypeOK /\ [Next]_vars => TypeOK'
  <2> SUFFICES ASSUME TypeOK, [Next]_vars PROVE TypeOK'
    OBVIOUS
  <2> USE <1>a DEF TypeOK
  <2>1. CASE PortTaken \/ LaunchWorker \/ WorkerHealthy \/ WorkerBootFails
    BY <2>1 DEF PortTaken, LaunchWorker, WorkerHealthy, WorkerBootFails
  <2>2. CASE LaunchGateway \/ GatewayReady \/ GatewayBootFails
    BY <2>2 DEF LaunchGateway, GatewayReady, GatewayBootFails
  <2>3. CASE Register \/ Mark \/ GatewayExited \/ GiveUp
    BY <2>3, ZenonT(30) DEF Register, Mark, GatewayExited, GiveUp
  <2>4. CASE RestartWorker
    <3>1. recent' \in 0..RestartLimit
      BY <2>4 DEF RestartWorker
    <3>2. /\ pc' \in Locations /\ worker' \in Child /\ gateway' \in Child
          /\ row' \in {"none", "current", "stale"}
      BY <2>4 DEF RestartWorker
    <3>3. /\ held' = FALSE /\ registered' = registered /\ outcome' = outcome
      BY <2>4 DEF RestartWorker
    <3> QED
      BY <3>1, <3>2, <3>3
  <2>5. CASE Restarted \/ RestartFails \/ Reregister
    BY <2>5 DEF Restarted, RestartFails, Reregister
  <2>6. CASE Terminated
    BY <2>6 DEF Terminated, Terminating, After
  <2>7. CASE Kill \/ Unregister
    BY <2>7 DEF Kill, Unregister
  <2>8. CASE Signal
    BY <2>8 DEF Signal, Interrupted
  <2>9. CASE BecomesReady \/ ChildDies
    BY <2>9 DEF BecomesReady, ChildDies
  <2>10. CASE WindowPasses
    <3>1. recent' \in 0..RestartLimit
      BY <2>10 DEF WindowPasses
    <3>2. /\ pc' = pc /\ worker' = worker /\ gateway' = gateway
          /\ held' = held /\ row' = row /\ registered' = registered
          /\ outcome' = outcome
      BY <2>10 DEF WindowPasses
    <3> QED
      BY <3>1, <3>2
  <2>11. CASE UNCHANGED vars
    BY <2>11 DEF vars
  <2> QED
    BY <2>1, <2>2, <2>3, <2>4, <2>5, <2>6, <2>7, <2>8, <2>9, <2>10, <2>11
    DEF Next, Supervise
<1> QED
  BY <1>1, <1>2, PTL DEF Spec

\* Every step keeps the ownership of the children, or cuts a cleanup short.
LEMMA OwnershipStep ==
  ASSUME TypeOK, OwnershipInv, [Next]_vars
  PROVE  OwnershipInv'
<1> USE DEF TypeOK, OwnershipInv, Owned
<1>1. CASE PortTaken \/ LaunchWorker \/ WorkerHealthy \/ WorkerBootFails
  BY <1>1 DEF PortTaken, LaunchWorker, WorkerHealthy, WorkerBootFails
<1>2. CASE LaunchGateway \/ GatewayReady \/ GatewayBootFails
  BY <1>2 DEF LaunchGateway, GatewayReady, GatewayBootFails
<1>3. CASE Register \/ Mark \/ GatewayExited \/ GiveUp
  BY <1>3 DEF Register, Mark, GatewayExited, GiveUp
<1>4. CASE RestartWorker \/ Restarted \/ RestartFails \/ Reregister
  BY <1>4 DEF RestartWorker, Restarted, RestartFails, Reregister
\* The one step that hands a child over to nobody: its target is gone.
<1>5. CASE Terminated
  <2>1. CASE pc \in {"abortEngine", "abortReboot", "abortWorker"}
    BY <1>5, <2>1 DEF Terminated, Terminating, After, Target
  <2>2. CASE pc \in {"abortGateway", "stopGateway", "stopWorker"}
    BY <1>5, <2>2 DEF Terminated, Terminating, After, Target
  <2> QED
    BY <1>5, <2>1, <2>2 DEF Terminated, Terminating
<1>6. CASE Kill
  BY <1>6 DEF Kill, Terminating
<1>7. CASE Unregister
  BY <1>7 DEF Unregister
<1>8. CASE Signal
  BY <1>8 DEF Signal, Interrupted, Terminating
<1>9. CASE BecomesReady \/ ChildDies
  BY <1>9 DEF BecomesReady, ChildDies
<1>10. CASE WindowPasses
  BY <1>10 DEF WindowPasses
<1>11. CASE UNCHANGED vars
  BY <1>11 DEF vars
<1> QED
  BY <1>1, <1>2, <1>3, <1>4, <1>5, <1>6, <1>7, <1>8, <1>9, <1>10, <1>11
  DEF Next, Supervise

\* `clozn serve` leaves neither the worker nor the gateway running when it
\* exits, whatever its restart limit and whichever step failed, a child crashed
\* in or a signal arrived at, unless a signal cut the cleanup itself short.
THEOREM ServeOwnsChildren == Spec => []NoOrphan
<1>1. Init => OwnershipInv
  BY DEF Init, OwnershipInv, Owned
<1>2. TypeOK /\ OwnershipInv /\ [Next]_vars => OwnershipInv'
  BY OwnershipStep
<1>3. OwnershipInv => NoOrphan
  BY DEF OwnershipInv, Owned, NoOrphan
<1> QED
  BY <1>1, <1>2, <1>3, SupervisorTyped, PTL DEF Spec

-----------------------------------------------------------------------------
(* The lab's prefix *)

\* The retrain thread holds _train_lock exactly while it may touch the prefix,
\* and the banner is up for as long as there is a retrain thread: a second one
\* is not started.
RetrainInv ==
    /\ trainer \in {"none", "started", "sync", "train", "ended", "unlocked"}
    /\ trainer \in {"sync", "train", "ended"} <=> trainLock = "trainer"
    /\ trainer # "none" => banner

LEMMA RetrainStep ==
  ASSUME RetrainInv, [RetrainNext]_retrainVars
  PROVE  RetrainInv'
<1> USE DEF RetrainInv
<1>1. ASSUME NEW set \in SUBSET Traits, ChangeCards(set) PROVE RetrainInv'
  BY <1>1 DEF ChangeCards
<1>2. ASSUME NEW mode \in {"prompt", "internalized"}, SetMode(mode)
      PROVE  RetrainInv'
  BY <1>2 DEF SetMode
<1>3. CASE Poster
  BY <1>3 DEF Poster, SyncOnly, PreCheck, Busy, Launch
<1>4. CASE TakeTrainLock
  BY <1>4 DEF TakeTrainLock
<1>5. CASE Trainer
  BY <1>5 DEF Trainer, SyncRules, Train, TrainFails, FreeTrainLock, ClearBanner
<1>6. CASE StartChat \/ EndChat
  BY <1>6 DEF StartChat, EndChat
<1>7. CASE UNCHANGED retrainVars
  BY <1>7 DEF retrainVars
<1> QED
  BY <1>1, <1>2, <1>3, <1>4, <1>5, <1>6, <1>7 DEF RetrainNext

\* For any cards and any number of changes, mode switches, retrains that
\* succeed or raise, and chats: a reply is generated under one prefix.
THEOREM PrefixFixed == RetrainSpec => PrefixFixedDuringChat
<1>1. RetrainInit => RetrainInv
  BY DEF RetrainInit, RetrainInv
<1>2. RetrainInv /\ [RetrainNext]_retrainVars => RetrainInv'
  BY RetrainStep
<1>3. RetrainInv /\ [RetrainNext]_retrainVars
      => [trainLock = "chat" => prefix' = prefix]_retrainVars
  <2> SUFFICES ASSUME RetrainInv, RetrainNext, trainLock = "chat"
               PROVE  prefix' = prefix
    OBVIOUS
  <2>1. trainer \notin {"sync", "train", "ended"}
    BY DEF RetrainInv
  <2> QED
    BY <2>1 DEF RetrainNext, ChangeCards, SetMode, Poster, SyncOnly, PreCheck,
                Busy, Launch, TakeTrainLock, Trainer, SyncRules, Train,
                TrainFails, FreeTrainLock, ClearBanner, StartChat, EndChat
<1> QED
  BY <1>1, <1>2, <1>3, PTL DEF RetrainSpec, PrefixFixedDuringChat

-----------------------------------------------------------------------------
(* Corrective policies *)

TxRecords == [id : Nat, target : Targets, before : Seq(Presets),
              after : Seq(Presets), rev : Nat, undone : BOOLEAN]

PolicyTyped ==
    /\ policy \in [Targets -> Seq(Presets)]
    /\ revision \in [Sessions -> Nat]
    /\ log \in Seq(TxRecords)
    /\ given \in Nat
    /\ at \in {"idle", "record"}
    /\ lastWrite \in [Targets -> Nat]
    /\ at = "record" => /\ work.target \in Profiles
                        /\ work.old \in Seq(Presets)
                        /\ work.log \in Seq(TxRecords)

\* What holds of the transactions of the file, and of those about to be written
\* to it.  The revisions of a session grow while it keeps its entry: of its
\* transactions at most the one that made its policy has its revision.
LogSound(txs) ==
    /\ Len(txs) <= given
    /\ \A i \in 1..Len(txs) : txs[i].id <= given
    /\ \A i, j \in 1..Len(txs) : txs[i].id = txs[j].id => i = j
    /\ \A i \in 1..Len(txs) :
          txs[i].target \in Sessions /\ txs[i].id \notin orphaned
          => /\ 1 <= txs[i].rev /\ txs[i].rev <= revision[txs[i].target]
             /\ txs[i].rev = revision[txs[i].target] /\ ~txs[i].undone
                => lastWrite[txs[i].target] = txs[i].id

\* A target's policy is what one of its transactions left.
Accounts(txs, t, presets) ==
    \E i \in 1..Len(txs) :
       /\ txs[i].target = t
       /\ presets = IF txs[i].undone THEN txs[i].before ELSE txs[i].after

Excused(t) == t \in torn \/ given > TxKept

\* Only transactions of profiles are marked on the way through two files.
MarksProfiles(txs) ==
    \A k \in 1..Len(txs), j \in 1..Len(log) :
       txs[k].id = log[j].id /\ txs[k].undone # log[j].undone
       => log[j].target \in Profiles

PolicyInv ==
    /\ LogSound(log)
    /\ \A t \in Targets :
          \/ policy[t] = <<>> \/ Excused(t) \/ Accounts(log, t, policy[t])
          \/ at = "record" /\ t = work.target
    /\ at = "record" =>
          /\ LogSound(work.log) /\ MarksProfiles(work.log)
          /\ \A t \in Targets : \/ policy[t] = <<>> \/ Excused(t)
                                \/ Accounts(work.log, t, policy[t])
          /\ \/ work.old = <<>> \/ Excused(work.target)
             \/ Accounts(log, work.target, work.old)

LEMMA KeptIs ==
  ASSUME NEW txs \in Seq(TxRecords)
  PROVE  /\ Kept(txs) \in Seq(TxRecords)
         /\ Len(Kept(txs)) <= Len(txs)
         /\ \A i \in 1..Len(Kept(txs)) :
               /\ i + (Len(txs) - Len(Kept(txs))) \in 1..Len(txs)
               /\ Kept(txs)[i] = txs[i + (Len(txs) - Len(Kept(txs)))]
         /\ Len(txs) <= TxKept => Kept(txs) = txs
<1> TxKept \in Nat \ {0}
  BY PolicyAssumption DEF PolicyAssumption
<1>1. CASE Len(txs) > TxKept
  <2> DEFINE first == Len(txs) - TxKept + 1
  <2>1. first \in 1..Len(txs) /\ Kept(txs) = SubSeq(txs, first, Len(txs))
    BY <1>1 DEF Kept
  <2>2. /\ Kept(txs) \in Seq(TxRecords)
        /\ Len(Kept(txs)) = TxKept
        /\ \A i \in 1..TxKept : Kept(txs)[i] = txs[first + i - 1]
    BY <1>1, <2>1
  <2> QED
    BY <1>1, <2>1, <2>2
<1>2. CASE ~(Len(txs) > TxKept)
  BY <1>2 DEF Kept
<1> QED
  BY <1>1, <1>2

LEMMA UndoneIs ==
  ASSUME PolicyTyped, NEW i, Live(i)
  PROVE  /\ Undone(i) \in Seq(TxRecords)
         /\ Len(Undone(i)) = Len(Kept(log))
         /\ \A k \in 1..Len(Undone(i)) :
               /\ k # i => Undone(i)[k] = Kept(log)[k]
               /\ k = i => Undone(i)[k] = [Kept(log)[k] EXCEPT !.undone = TRUE]
         /\ i \in 1..Len(Undone(i))
         /\ Kept(log)[i] \in TxRecords
<1> DEFINE kept == Kept(log)
<1>1. kept \in Seq(TxRecords) /\ i \in 1..Len(kept)
  BY KeptIs DEF PolicyTyped, Live
<1>2. kept[i] \in TxRecords
  BY <1>1
<1>3. [kept[i] EXCEPT !.undone = TRUE] \in TxRecords
  BY <1>2 DEF TxRecords
<1>4. Undone(i) = [kept EXCEPT ![i] = [kept[i] EXCEPT !.undone = TRUE]]
  BY DEF Undone
<1> HIDE DEF kept
<1>5. /\ Undone(i) \in Seq(TxRecords) /\ Len(Undone(i)) = Len(kept)
      /\ \A k \in 1..Len(kept) :
            Undone(i)[k] = IF k = i THEN [kept[i] EXCEPT !.undone = TRUE]
                           ELSE kept[k]
  BY <1>1, <1>2, <1>3, <1>4
<1>6. kept = Kept(log)
  BY DEF kept
<1> QED
  BY <1>1, <1>2, <1>5, <1>6

LEMMA PolicyTypedStep ==
  ASSUME PolicyTyped, [PolicyNext]_policyVars
  PROVE  PolicyTyped'
<1> USE DEF PolicyTyped
<1>a. Kept(log) \in Seq(TxRecords)
  BY KeptIs
<1>b. Sessions \subseteq Targets /\ Profiles \subseteq Targets
  BY DEF Targets
<1>1. ASSUME NEW preset \in Presets, NEW s \in Sessions,
             ActivateSession(s, preset)
      PROVE  PolicyTyped'
  <2> DEFINE rec == Transaction(s, Append(policy[s], preset), revision[s] + 1)
  <2>1. Append(policy[s], preset) \in Seq(Presets) /\ revision[s] + 1 \in Nat
    BY <1>b
  <2>2. rec \in TxRecords
    BY <1>b, <2>1 DEF Transaction, TxRecords
  <2>3. Append(Kept(log), rec) \in Seq(TxRecords)
    BY <1>a, <2>2
  <2>4. /\ log' = Append(Kept(log), rec) /\ given' = given + 1
        /\ policy' = [policy EXCEPT ![s] = Append(policy[s], preset)]
        /\ revision' = [revision EXCEPT ![s] = revision[s] + 1]
        /\ lastWrite' = [lastWrite EXCEPT ![s] = given + 1]
        /\ at' = "idle"
    BY <1>1 DEF ActivateSession
  <2> HIDE DEF rec
  <2> QED
    BY <1>b, <2>1, <2>3, <2>4
<1>2. ASSUME NEW preset \in Presets, NEW p \in Profiles,
             ActivateProfile(p, preset)
      PROVE  PolicyTyped'
  <2> DEFINE rec == Transaction(p, Append(policy[p], preset), 0)
  <2>1. Append(policy[p], preset) \in Seq(Presets) /\ policy[p] \in Seq(Presets)
    BY <1>b
  <2>2. rec \in TxRecords
    BY <1>b, <2>1 DEF Transaction, TxRecords
  <2>3. Append(Kept(log), rec) \in Seq(TxRecords)
    BY <1>a, <2>2
  <2>4. /\ log' = log /\ given' = given + 1 /\ revision' = revision
        /\ policy' = [policy EXCEPT ![p] = Append(policy[p], preset)]
        /\ lastWrite' = [lastWrite EXCEPT ![p] = given + 1]
        /\ at' = "record"
        /\ work' = [target |-> p, old |-> policy[p],
                    log |-> Append(Kept(log), rec)]
    BY <1>2 DEF ActivateProfile
  <2> HIDE DEF rec
  <2> QED
    BY <1>b, <2>1, <2>3, <2>4
<1>3. ASSUME NEW i \in 1..TxKept, UndoSession(i)
      PROVE  PolicyTyped'
  <2> DEFINE rec == Kept(log)[i]
  <2>1. Undone(i) \in Seq(TxRecords) /\ rec \in TxRecords
    BY <1>3, UndoneIs DEF UndoSession
  <2>2. rec.before \in Seq(Presets)
    BY <2>1 DEF TxRecords
  <2>3. /\ log' = Undone(i) /\ given' = given
        /\ rec.target \in Sessions
        /\ policy' = [policy EXCEPT ![rec.target] = rec.before]
        /\ lastWrite' = [lastWrite EXCEPT ![rec.target] = 0]
        /\ at' = "idle"
    BY <1>3 DEF UndoSession
  <2>4. revision' \in [Sessions -> Nat]
    BY <1>3, <2>3 DEF UndoSession
  <2> HIDE DEF rec
  <2> QED
    BY <1>b, <2>1, <2>2, <2>3, <2>4
<1>4. ASSUME NEW i \in 1..TxKept, UndoProfile(i)
      PROVE  PolicyTyped'
  <2> DEFINE rec == Kept(log)[i]
  <2>1. Undone(i) \in Seq(TxRecords) /\ rec \in TxRecords
    BY <1>4, UndoneIs DEF UndoProfile
  <2>2. rec.before \in Seq(Presets)
    BY <2>1 DEF TxRecords
  <2>3. /\ log' = log /\ given' = given /\ revision' = revision
        /\ rec.target \in Profiles
        /\ policy' = [policy EXCEPT ![rec.target] = rec.before]
        /\ lastWrite' = [lastWrite EXCEPT ![rec.target] = 0]
        /\ at' = "record"
        /\ work' = [target |-> rec.target, old |-> policy[rec.target],
                    log |-> Undone(i)]
    BY <1>4 DEF UndoProfile
  <2> HIDE DEF rec
  <2> QED
    BY <1>b, <2>1, <2>2, <2>3
<1>5. CASE Record \/ Tear
  BY <1>5 DEF Record, Tear
<1>6. CASE PutProfileBack
  BY <1>6, <1>b DEF PutProfileBack
<1>7. ASSUME NEW s \in Sessions, Expire(s)
      PROVE  PolicyTyped'
  BY <1>7, <1>b DEF Expire
<1>8. CASE UNCHANGED policyVars
  BY <1>8 DEF policyVars
<1> QED
  BY <1>1, <1>2, <1>3, <1>4, <1>5, <1>6, <1>7, <1>8 DEF PolicyNext

LEMMA KeptSound ==
  ASSUME PolicyTyped, LogSound(log)
  PROVE  LogSound(Kept(log))
<1> DEFINE kept == Kept(log)
           shift == Len(log) - Len(kept)
<1>1. /\ kept \in Seq(TxRecords) /\ Len(kept) <= Len(log)
      /\ \A i \in 1..Len(kept) : i + shift \in 1..Len(log)
                                 /\ kept[i] = log[i + shift]
  BY KeptIs DEF PolicyTyped
<1>2. Len(log) \in Nat /\ Len(kept) \in Nat /\ shift \in Nat
  BY <1>1 DEF PolicyTyped
<1>3. kept = Kept(log)
  OBVIOUS
<1> HIDE DEF kept, shift
<1>4. Len(kept) <= given
  BY <1>1, <1>2 DEF LogSound, PolicyTyped
<1>5. \A i \in 1..Len(kept) : kept[i].id <= given
  BY <1>1 DEF LogSound
<1>6. ASSUME NEW i \in 1..Len(kept), NEW j \in 1..Len(kept),
             kept[i].id = kept[j].id
      PROVE  i = j
  <2>1. log[i + shift].id = log[j + shift].id
    BY <1>1, <1>6
  <2>2. i + shift = j + shift
    BY <1>1, <2>1 DEF LogSound
  <2> QED
    BY <1>2, <2>2
<1>7. \A i \in 1..Len(kept) :
         kept[i].target \in Sessions /\ kept[i].id \notin orphaned
         => /\ 1 <= kept[i].rev /\ kept[i].rev <= revision[kept[i].target]
            /\ kept[i].rev = revision[kept[i].target] /\ ~kept[i].undone
               => lastWrite[kept[i].target] = kept[i].id
  BY <1>1 DEF LogSound
<1>8. LogSound(kept)
  BY <1>4, <1>5, <1>6, <1>7 DEF LogSound
<1> QED
  BY <1>3, <1>8

\* Another transaction, or one marked as undone, accounts as before.
LEMMA AccountsMore ==
  ASSUME NEW txs \in Seq(TxRecords), NEW rec, NEW t, NEW presets,
         Accounts(txs, t, presets)
  PROVE  Accounts(Append(txs, rec), t, presets)
<1>1. PICK i \in 1..Len(txs) :
         /\ txs[i].target = t
         /\ presets = IF txs[i].undone THEN txs[i].before ELSE txs[i].after
  BY DEF Accounts
<1>2. i \in 1..Len(Append(txs, rec)) /\ Append(txs, rec)[i] = txs[i]
  OBVIOUS
<1> QED
  BY <1>1, <1>2 DEF Accounts

LEMMA AccountsNew ==
  ASSUME NEW txs \in Seq(TxRecords), NEW rec, ~rec.undone
  PROVE  Accounts(Append(txs, rec), rec.target, rec.after)
<1>1. /\ Len(txs) + 1 \in 1..Len(Append(txs, rec))
      /\ Append(txs, rec)[Len(txs) + 1] = rec
  OBVIOUS
<1> QED
  BY <1>1 DEF Accounts

LEMMA AccountsUndone ==
  ASSUME PolicyTyped, NEW i, Live(i)
  PROVE  /\ Accounts(Undone(i), Kept(log)[i].target, Kept(log)[i].before)
         /\ \A t, presets : t # Kept(log)[i].target /\ Accounts(Kept(log), t, presets)
                            => Accounts(Undone(i), t, presets)
<1>1. /\ i \in 1..Len(Undone(i))
      /\ Undone(i)[i] = [Kept(log)[i] EXCEPT !.undone = TRUE]
      /\ Kept(log)[i] \in TxRecords
      /\ Len(Undone(i)) = Len(Kept(log))
      /\ \A k \in 1..Len(Kept(log)) : k # i => Undone(i)[k] = Kept(log)[k]
  BY UndoneIs
<1>2. /\ Undone(i)[i].undone /\ Undone(i)[i].target = Kept(log)[i].target
      /\ Undone(i)[i].before = Kept(log)[i].before
  BY <1>1 DEF TxRecords
<1>3. Accounts(Undone(i), Kept(log)[i].target, Kept(log)[i].before)
  BY <1>1, <1>2 DEF Accounts
<1>4. ASSUME NEW t, NEW presets, t # Kept(log)[i].target,
             Accounts(Kept(log), t, presets)
      PROVE  Accounts(Undone(i), t, presets)
  <2>1. PICK k \in 1..Len(Kept(log)) :
           /\ Kept(log)[k].target = t
           /\ presets = IF Kept(log)[k].undone THEN Kept(log)[k].before
                        ELSE Kept(log)[k].after
    BY <1>4 DEF Accounts
  <2>2. k # i
    BY <1>4, <2>1
  <2> QED
    BY <1>1, <2>1, <2>2 DEF Accounts
<1> QED
  BY <1>3, <1>4

LEMMA KeptWhole ==
  ASSUME PolicyTyped, Len(log) <= given, given <= TxKept
  PROVE  Kept(log) = log
<1> TxKept \in Nat
  BY PolicyAssumption DEF PolicyAssumption
<1> QED
  BY KeptIs DEF PolicyTyped

LEMMA RecordsTyped ==
  ASSUME NEW txs \in Seq(TxRecords)
  PROVE  /\ Len(txs) \in Nat
         /\ \A i \in 1..Len(txs) : txs[i].id \in Nat /\ txs[i].rev \in Nat
                                  /\ txs[i].target \in Targets
<1>1. \A i \in 1..Len(txs) : txs[i] \in TxRecords
  OBVIOUS
<1> QED
  BY <1>1, SMTT(30) DEF TxRecords

LEMMA ActivateSessionStep ==
  ASSUME PolicyTyped, PolicyInv, NEW preset \in Presets, NEW s \in Sessions,
         ActivateSession(s, preset)
  PROVE  PolicyInv'
<1> DEFINE kept == Kept(log)
           rec == Transaction(s, Append(policy[s], preset), revision[s] + 1)
<1>1. /\ log' = Append(kept, rec) /\ given' = given + 1 /\ at' = "idle"
      /\ policy' = [policy EXCEPT ![s] = Append(policy[s], preset)]
      /\ revision' = [revision EXCEPT ![s] = revision[s] + 1]
      /\ lastWrite' = [lastWrite EXCEPT ![s] = given + 1]
      /\ orphaned' = orphaned /\ torn' = torn /\ at = "idle"
  BY DEF ActivateSession
<1>2. kept \in Seq(TxRecords) /\ LogSound(kept)
  BY KeptIs, KeptSound DEF PolicyTyped, PolicyInv
<1>3. /\ rec.id = given + 1 /\ rec.target = s /\ rec.rev = revision[s] + 1
      /\ rec.after = Append(policy[s], preset) /\ ~rec.undone
  BY DEF Transaction
<1>4. s \in Targets /\ Sessions \subseteq Targets
  BY DEF Targets
<1>5. given <= TxKept => kept = log
  BY KeptWhole DEF PolicyInv, LogSound
<1>e. /\ Len(kept) \in Nat /\ given \in Nat
      /\ \A i \in 1..Len(kept) : /\ kept[i].id \in Nat /\ kept[i].rev \in Nat
                                 /\ kept[i].target \in Targets
                                 /\ kept[i].id <= given
      /\ revision \in [Sessions -> Nat] /\ lastWrite \in [Targets -> Nat]
  BY <1>2, RecordsTyped DEF LogSound, PolicyTyped
<1> HIDE DEF kept, rec
<1>6. LogSound(log)'
  <2>1. /\ Len(log') = Len(kept) + 1
        /\ \A i \in 1..Len(log') :
              /\ i \in 1..Len(kept) => log'[i] = kept[i]
              /\ i \notin 1..Len(kept) => log'[i] = rec /\ i = Len(kept) + 1
    BY <1>1, <1>2
  <2>2. ASSUME NEW i \in 1..Len(log')
        PROVE  log'[i].id <= given'
    <3>1. CASE i \in 1..Len(kept)
      BY <1>1, <1>e, <2>1, <3>1
    <3>2. CASE i \notin 1..Len(kept)
      BY <1>1, <1>3, <1>e, <2>1, <3>2
    <3> QED
      BY <3>1, <3>2
  <2>3. ASSUME NEW i \in 1..Len(log'), NEW j \in 1..Len(log'),
               log'[i].id = log'[j].id
        PROVE  i = j
    <3>1. \A k \in 1..Len(kept) : log'[k].id = kept[k].id /\ kept[k].id < rec.id
      BY <1>3, <1>e, <2>1
    <3>2. \A k \in 1..Len(log') :
             k \notin 1..Len(kept) => log'[k].id = rec.id /\ k = Len(kept) + 1
      BY <2>1
    <3>3. \A k, l \in 1..Len(kept) : kept[k].id = kept[l].id => k = l
      BY <1>2 DEF LogSound
    <3>4. CASE i \in 1..Len(kept) /\ j \in 1..Len(kept)
      BY <2>3, <3>1, <3>3, <3>4
    <3>5. CASE i \notin 1..Len(kept) /\ j \notin 1..Len(kept)
      BY <2>3, <3>2, <3>5
    <3>6. rec.id \in Nat /\ \A k \in 1..Len(kept) : kept[k].id \in Nat
      BY <1>3, <1>e
    <3> QED
      BY <2>3, <3>1, <3>2, <3>4, <3>5, <3>6
  <2>4. ASSUME NEW i \in 1..Len(log'), log'[i].target \in Sessions,
               log'[i].id \notin orphaned'
        PROVE  /\ 1 <= log'[i].rev /\ log'[i].rev <= revision'[log'[i].target]
               /\ log'[i].rev = revision'[log'[i].target] /\ ~log'[i].undone
                  => lastWrite'[log'[i].target] = log'[i].id
    <3>1. CASE i \in 1..Len(kept) /\ kept[i].target = s
      BY <1>1, <1>2, <1>4, <1>e, <2>1, <2>4, <3>1 DEF LogSound
    <3>2. CASE i \in 1..Len(kept) /\ kept[i].target # s
      BY <1>1, <1>2, <1>4, <1>e, <2>1, <2>4, <3>2 DEF LogSound
    <3>3. CASE i \notin 1..Len(kept)
      BY <1>1, <1>3, <1>4, <2>1, <3>3 DEF PolicyTyped
    <3> QED
      BY <3>1, <3>2, <3>3
  <2>5. Len(log') <= given'
    BY <1>1, <1>2, <2>1 DEF LogSound, PolicyTyped
  <2> QED
    BY <2>2, <2>3, <2>4, <2>5 DEF LogSound
<1>7. ASSUME NEW t \in Targets
      PROVE  policy'[t] = <<>> \/ Excused(t)' \/ Accounts(log', t, policy'[t])
  <2>1. CASE t = s
    BY <1>1, <1>2, <1>3, <1>4, <2>1, AccountsNew DEF PolicyTyped
  <2>2. CASE t # s /\ given <= TxKept
    <3>1. policy'[t] = policy[t]
      BY <1>1, <2>2 DEF PolicyTyped
    <3>2. policy[t] = <<>> \/ t \in torn \/ Accounts(kept, t, policy[t])
      BY <1>1, <1>5, <2>2, PolicyAssumption
      DEF PolicyInv, Excused, PolicyAssumption, PolicyTyped
    <3> QED
      BY <1>1, <1>2, <3>1, <3>2, AccountsMore DEF Excused
  <2>3. CASE given > TxKept
    BY <1>1, <2>3, PolicyAssumption DEF Excused, PolicyAssumption, PolicyTyped
  <2> QED
    BY <2>1, <2>2, <2>3, PolicyAssumption DEF PolicyAssumption, PolicyTyped
<1> QED
  BY <1>1, <1>6, <1>7 DEF PolicyInv

LEMMA ActivateProfileStep ==
  ASSUME PolicyTyped, PolicyInv, NEW preset \in Presets, NEW p \in Profiles,
         ActivateProfile(p, preset)
  PROVE  PolicyInv'
<1> DEFINE kept == Kept(log)
           rec == Transaction(p, Append(policy[p], preset), 0)
<1>1. /\ log' = log /\ given' = given + 1 /\ at' = "record" /\ at = "idle"
      /\ policy' = [policy EXCEPT ![p] = Append(policy[p], preset)]
      /\ revision' = revision
      /\ lastWrite' = [lastWrite EXCEPT ![p] = given + 1]
      /\ orphaned' = orphaned /\ torn' = torn
      /\ work' = [target |-> p, old |-> policy[p], log |-> Append(kept, rec)]
  BY DEF ActivateProfile
<1>2. kept \in Seq(TxRecords) /\ LogSound(kept) /\ LogSound(log)
  BY KeptIs, KeptSound DEF PolicyTyped, PolicyInv
<1>3. /\ rec.id = given + 1 /\ rec.target = p
      /\ rec.after = Append(policy[p], preset) /\ ~rec.undone
  BY DEF Transaction
<1>4. p \in Targets /\ p \notin Sessions /\ Sessions \subseteq Targets
  BY PolicyAssumption DEF Targets, PolicyAssumption
<1>5. given <= TxKept => kept = log
  BY KeptWhole DEF PolicyInv, LogSound
<1>f. /\ Len(log) \in Nat
      /\ \A i \in 1..Len(log) : log[i].id \in Nat
  BY RecordsTyped DEF PolicyTyped
<1>a. \A i \in 1..Len(kept) : \E j \in 1..Len(log) : kept[i] = log[j]
  BY KeptIs DEF PolicyTyped
<1>b. \A q \in Sessions : lastWrite'[q] = lastWrite[q]
  BY <1>1, <1>4 DEF PolicyTyped
<1>e. /\ Len(kept) \in Nat /\ given \in Nat
      /\ \A i \in 1..Len(kept) : /\ kept[i].id \in Nat /\ kept[i].rev \in Nat
                                 /\ kept[i].target \in Targets
                                 /\ kept[i].id <= given
      /\ revision \in [Sessions -> Nat] /\ lastWrite \in [Targets -> Nat]
  BY <1>2, RecordsTyped DEF LogSound, PolicyTyped
<1> HIDE DEF kept, rec
<1>6. LogSound(log)'
  BY <1>1, <1>2, <1>b, <1>e, <1>f DEF LogSound
<1>c. work'.log = Append(kept, rec) /\ work'.target = p /\ work'.old = policy[p]
  BY <1>1
<1>d. /\ Len(work'.log) = Len(kept) + 1
      /\ \A i \in 1..Len(work'.log) :
            /\ i \in 1..Len(kept) => work'.log[i] = kept[i]
            /\ i \notin 1..Len(kept) => work'.log[i] = rec /\ i = Len(kept) + 1
  BY <1>2, <1>c
<1>7. LogSound(work.log)'
  <2>1. \A i \in 1..Len(work'.log) : work'.log[i].id <= given'
    BY <1>1, <1>3, <1>d, <1>e, SMTT(30)
  <2>2. ASSUME NEW i \in 1..Len(work'.log), NEW j \in 1..Len(work'.log),
               work'.log[i].id = work'.log[j].id
        PROVE  i = j
    <3>1. CASE i \in 1..Len(kept) /\ j \in 1..Len(kept)
      BY <1>2, <1>d, <2>2, <3>1 DEF LogSound
    <3>2. CASE i \notin 1..Len(kept) \/ j \notin 1..Len(kept)
      <4>1. \A k \in 1..Len(kept) : kept[k].id # rec.id
        BY <1>3, <1>e
      <4> QED
        BY <1>d, <2>2, <3>2, <4>1
    <3> QED
      BY <3>1, <3>2
  <2>3. ASSUME NEW i \in 1..Len(work'.log), work'.log[i].target \in Sessions,
               work'.log[i].id \notin orphaned'
        PROVE  /\ 1 <= work'.log[i].rev
               /\ work'.log[i].rev <= revision'[work'.log[i].target]
               /\ work'.log[i].rev = revision'[work'.log[i].target]
                  /\ ~work'.log[i].undone
                  => lastWrite'[work'.log[i].target] = work'.log[i].id
    <3>1. i \in 1..Len(kept) /\ work'.log[i] = kept[i]
      BY <1>3, <1>4, <1>d, <2>3
    <3> QED
      BY <1>1, <1>2, <1>b, <2>3, <3>1 DEF LogSound
  <2>4. Len(work'.log) <= given'
    BY <1>1, <1>2, <1>d DEF LogSound, PolicyTyped
  <2> QED
    BY <2>1, <2>2, <2>3, <2>4 DEF LogSound
<1>8. MarksProfiles(work.log)'
  <2> SUFFICES ASSUME NEW k \in 1..Len(work'.log), NEW j \in 1..Len(log),
                      work'.log[k].id = log[j].id
               PROVE  work'.log[k].undone = log[j].undone
    BY <1>1 DEF MarksProfiles
  <2>1. log[j].id # rec.id
    BY <1>2, <1>3, <1>e, <1>f DEF LogSound
  <2>2. k \in 1..Len(kept) /\ work'.log[k] = kept[k]
    BY <1>d, <2>1
  <2>3. PICK i \in 1..Len(log) : kept[k] = log[i]
    BY <1>a, <2>2
  <2>4. i = j
    BY <1>2, <2>2, <2>3 DEF LogSound
  <2> QED
    BY <2>2, <2>3, <2>4
<1>9. ASSUME NEW t \in Targets
      PROVE  /\ \/ policy'[t] = <<>> \/ Excused(t)'
                \/ Accounts(work'.log, t, policy'[t])
             /\ t # p => \/ policy'[t] = <<>> \/ Excused(t)'
                         \/ Accounts(log', t, policy'[t])
  <2>1. CASE t = p
    BY <1>1, <1>2, <1>3, <1>4, <1>c, <2>1, AccountsNew DEF PolicyTyped
  <2>2. CASE t # p /\ given <= TxKept
    <3>1. policy'[t] = policy[t]
      BY <1>1, <2>2 DEF PolicyTyped
    <3>2. policy[t] = <<>> \/ t \in torn \/ Accounts(kept, t, policy[t])
      BY <1>1, <1>5, <2>2, PolicyAssumption
      DEF PolicyInv, Excused, PolicyAssumption, PolicyTyped
    <3> QED
      BY <1>1, <1>2, <1>5, <1>c, <2>2, <3>1, <3>2, AccountsMore DEF Excused
  <2>3. CASE given > TxKept
    BY <1>1, <2>3, PolicyAssumption DEF Excused, PolicyAssumption, PolicyTyped
  <2> QED
    BY <2>1, <2>2, <2>3, PolicyAssumption DEF PolicyAssumption, PolicyTyped
<1>10. work'.old = <<>> \/ Excused(work.target)' \/ Accounts(log', p, work'.old)
  <2>1. policy[p] = <<>> \/ Excused(p) \/ Accounts(log, p, policy[p])
    BY <1>1, <1>4 DEF PolicyInv
  <2>2. Excused(p) => Excused(work.target)'
    BY <1>1, <1>c, PolicyAssumption DEF Excused, PolicyAssumption, PolicyTyped
  <2> QED
    BY <1>1, <1>c, <2>1, <2>2
<1> QED
  BY <1>1, <1>c, <1>6, <1>7, <1>8, <1>9, <1>10 DEF PolicyInv

\* The transactions with one of them marked are as sound as before, when the
\* target of the one marked has moved on.
LEMMA UndoneSound ==
  ASSUME PolicyTyped, PolicyInv, NEW i, Live(i)
  PROVE  /\ Len(Undone(i)) <= given
         /\ \A k \in 1..Len(Undone(i)) : Undone(i)[k].id <= given
         /\ \A j, k \in 1..Len(Undone(i)) :
               Undone(i)[j].id = Undone(i)[k].id => j = k
         /\ \A k \in 1..Len(Undone(i)) :
               /\ k \in 1..Len(Kept(log))
               /\ Undone(i)[k].id = Kept(log)[k].id
               /\ Undone(i)[k].target = Kept(log)[k].target
               /\ Undone(i)[k].rev = Kept(log)[k].rev
               /\ k # i => Undone(i)[k] = Kept(log)[k]
<1> DEFINE kept == Kept(log)
           und == Undone(i)
<1>1. LogSound(kept)
  BY KeptSound DEF PolicyInv
<1>2. /\ Len(und) = Len(kept) /\ kept[i] \in TxRecords
      /\ \A k \in 1..Len(und) :
            /\ k # i => und[k] = kept[k]
            /\ k = i => und[k] = [kept[k] EXCEPT !.undone = TRUE]
  BY UndoneIs
<1> HIDE DEF kept, und
<1>3. \A k \in 1..Len(und) : /\ k \in 1..Len(kept)
                             /\ und[k].id = kept[k].id
                             /\ und[k].target = kept[k].target
                             /\ und[k].rev = kept[k].rev
                             /\ k # i => und[k] = kept[k]
  BY <1>2 DEF TxRecords
<1>4. /\ Len(und) <= given
      /\ \A k \in 1..Len(und) : und[k].id <= given
      /\ \A j, k \in 1..Len(und) : und[j].id = und[k].id => j = k
  BY <1>1, <1>2, <1>3 DEF LogSound
<1> QED
  BY <1>3, <1>4 DEF kept, und

LEMMA UndoSessionStep ==
  ASSUME PolicyTyped, PolicyInv, NEW i, UndoSession(i)
  PROVE  PolicyInv'
<1> DEFINE kept == Kept(log)
           rec == kept[i]
           s == rec.target
<1>1. /\ Live(i) /\ s \in Sessions /\ log' = Undone(i) /\ given' = given
      /\ policy' = [policy EXCEPT ![s] = rec.before]
      /\ revision' = [revision EXCEPT ![s] = IF rec.before = <<>> THEN 0
                                             ELSE revision[s] + 1]
      /\ lastWrite' = [lastWrite EXCEPT ![s] = 0]
      /\ orphaned' = orphaned \cup (IF rec.before = <<>> THEN Of(s) ELSE {})
      /\ at' = "idle" /\ at = "idle" /\ torn' = torn
  BY DEF UndoSession
<1>2. kept \in Seq(TxRecords) /\ LogSound(kept)
  BY KeptIs, KeptSound DEF PolicyTyped, PolicyInv
<1>3. /\ Len(log') <= given
      /\ \A k \in 1..Len(log') : log'[k].id <= given
      /\ \A j, k \in 1..Len(log') : log'[j].id = log'[k].id => j = k
      /\ \A k \in 1..Len(log') :
            /\ k \in 1..Len(kept)
            /\ log'[k].id = kept[k].id
            /\ log'[k].target = kept[k].target
            /\ log'[k].rev = kept[k].rev
            /\ k # i => log'[k] = kept[k]
  BY <1>1, UndoneSound
<1>4. s \in Targets /\ Sessions \subseteq Targets
  BY <1>1 DEF Targets
<1>5. given <= TxKept => kept = log
  BY KeptWhole DEF PolicyInv, LogSound
<1>6. /\ Accounts(log', s, rec.before)
      /\ \A t, presets : t # s /\ Accounts(kept, t, presets)
                         => Accounts(log', t, presets)
  BY <1>1, AccountsUndone
<1>7. \A k \in 1..Len(kept) : kept[k].target = s => kept[k].id \in Of(s)
  <2> SUFFICES ASSUME NEW k \in 1..Len(kept), kept[k].target = s
               PROVE  kept[k].id \in Of(s)
    OBVIOUS
  <2>1. PICK j \in 1..Len(log) : kept[k] = log[j]
    BY KeptIs DEF PolicyTyped
  <2> QED
    BY <2>1 DEF Of
<1>e. /\ revision \in [Sessions -> Nat] /\ lastWrite \in [Targets -> Nat]
      /\ policy \in [Targets -> Seq(Presets)]
      /\ \A k \in 1..Len(kept) : kept[k].rev \in Nat
      /\ given \in Nat /\ TxKept \in Nat
  BY <1>2, RecordsTyped, PolicyAssumption DEF PolicyTyped, PolicyAssumption
<1> HIDE DEF kept, rec, s
<1>8. ASSUME NEW k \in 1..Len(log'), log'[k].target \in Sessions,
             log'[k].id \notin orphaned'
      PROVE  /\ 1 <= log'[k].rev /\ log'[k].rev <= revision'[log'[k].target]
             /\ log'[k].rev = revision'[log'[k].target] /\ ~log'[k].undone
                => lastWrite'[log'[k].target] = log'[k].id
  <2>1. /\ k \in 1..Len(kept) /\ kept[k].target \in Sessions
        /\ kept[k].id \notin orphaned
        /\ 1 <= kept[k].rev /\ kept[k].rev <= revision[kept[k].target]
    BY <1>1, <1>2, <1>3, <1>8 DEF LogSound
  <2>2. CASE kept[k].target = s
    <3>1. rec.before # <<>>
      BY <1>1, <1>3, <1>7, <1>8, <2>1, <2>2
    <3>2. revision'[s] = revision[s] + 1
      BY <1>1, <1>e, <3>1
    <3> QED
      BY <1>1, <1>3, <1>e, <2>1, <2>2, <3>2
  <2>3. CASE kept[k].target # s
    <3>1. /\ revision'[kept[k].target] = revision[kept[k].target]
          /\ lastWrite'[kept[k].target] = lastWrite[kept[k].target]
      BY <1>1, <1>4, <1>e, <2>1, <2>3
    <3>2. log'[k] = kept[k] \/ k = i
      BY <1>3
    <3>3. k # i
      BY <2>3 DEF s, rec
    <3> QED
      BY <1>2, <1>3, <2>1, <3>1, <3>2, <3>3 DEF LogSound
  <2> QED
    BY <2>2, <2>3
<1>9. LogSound(log)'
  BY <1>1, <1>3, <1>8 DEF LogSound
<1>10. ASSUME NEW t \in Targets
       PROVE  policy'[t] = <<>> \/ Excused(t)' \/ Accounts(log', t, policy'[t])
  <2>1. CASE t = s
    BY <1>1, <1>4, <1>6, <1>e, <2>1
  <2>2. CASE t # s
    <3>1. policy'[t] = policy[t]
      BY <1>1, <1>e, <2>2
    <3>2. policy[t] = <<>> \/ Excused(t) \/ Accounts(log, t, policy[t])
      BY <1>1 DEF PolicyInv
    <3>3. Excused(t)' = Excused(t) /\ (~Excused(t) => kept = log)
      BY <1>1, <1>5, <1>e DEF Excused
    <3> QED
      BY <1>6, <2>2, <3>1, <3>2, <3>3
  <2> QED
    BY <2>1, <2>2
<1> QED
  BY <1>1, <1>9, <1>10 DEF PolicyInv

LEMMA UndoProfileStep ==
  ASSUME PolicyTyped, PolicyInv, NEW i, UndoProfile(i)
  PROVE  PolicyInv'
<1> DEFINE kept == Kept(log)
           rec == kept[i]
           p == rec.target
           und == Undone(i)
<1>1. /\ Live(i) /\ p \in Profiles /\ log' = log /\ given' = given
      /\ policy' = [policy EXCEPT ![p] = rec.before]
      /\ revision' = revision /\ orphaned' = orphaned
      /\ lastWrite' = [lastWrite EXCEPT ![p] = 0]
      /\ at' = "record" /\ at = "idle" /\ torn' = torn
      /\ work' = [target |-> p, old |-> policy[p], log |-> und]
  BY DEF UndoProfile
<1>2. kept \in Seq(TxRecords) /\ LogSound(kept) /\ LogSound(log)
  BY KeptIs, KeptSound DEF PolicyTyped, PolicyInv
<1>3. /\ Len(und) <= given
      /\ \A k \in 1..Len(und) : und[k].id <= given
      /\ \A j, k \in 1..Len(und) : und[j].id = und[k].id => j = k
      /\ \A k \in 1..Len(und) :
            /\ k \in 1..Len(kept)
            /\ und[k].id = kept[k].id
            /\ und[k].target = kept[k].target
            /\ und[k].rev = kept[k].rev
            /\ k # i => und[k] = kept[k]
  BY <1>1, UndoneSound
<1>4. p \in Targets /\ p \notin Sessions /\ Sessions \subseteq Targets
  BY <1>1, PolicyAssumption DEF Targets, PolicyAssumption
<1>5. given <= TxKept => kept = log
  BY KeptWhole DEF PolicyInv, LogSound
<1>6. /\ Accounts(und, p, rec.before)
      /\ \A t, presets : t # p /\ Accounts(kept, t, presets)
                         => Accounts(und, t, presets)
  BY <1>1, AccountsUndone
<1>7. \A k \in 1..Len(kept) : \E j \in 1..Len(log) : kept[k] = log[j]
  BY KeptIs DEF PolicyTyped
<1>e. /\ lastWrite \in [Targets -> Nat] /\ policy \in [Targets -> Seq(Presets)]
      /\ given \in Nat /\ TxKept \in Nat
  BY PolicyAssumption DEF PolicyTyped, PolicyAssumption
<1>b. \A q \in Sessions : lastWrite'[q] = lastWrite[q]
  BY <1>1, <1>4, <1>e
<1>c. work'.log = und /\ work'.target = p /\ work'.old = policy[p]
  BY <1>1
<1> HIDE DEF kept, rec, p, und
<1>8. LogSound(log)'
  BY <1>1, <1>2, <1>b DEF LogSound
<1>9. LogSound(work.log)'
  <2>1. ASSUME NEW k \in 1..Len(und), und[k].target \in Sessions,
               und[k].id \notin orphaned
        PROVE  /\ 1 <= und[k].rev /\ und[k].rev <= revision[und[k].target]
               /\ und[k].rev = revision[und[k].target] /\ ~und[k].undone
                  => lastWrite'[und[k].target] = und[k].id
    <3>1. k # i
      BY <1>3, <1>4, <2>1 DEF p, rec
    <3>2. k \in 1..Len(kept) /\ und[k] = kept[k]
      BY <1>3, <3>1
    <3> QED
      BY <1>2, <1>b, <2>1, <3>2 DEF LogSound
  <2> QED
    BY <1>1, <1>3, <1>c, <2>1 DEF LogSound
<1>10. MarksProfiles(work.log)'
  <2> SUFFICES ASSUME NEW k \in 1..Len(und), NEW j \in 1..Len(log),
                      und[k].id = log[j].id, und[k].undone # log[j].undone
               PROVE  log[j].target \in Profiles
    BY <1>1, <1>c DEF MarksProfiles
  <2>1. PICK m \in 1..Len(log) : kept[k] = log[m]
    BY <1>3, <1>7
  <2>2. m = j
    BY <1>2, <1>3, <2>1 DEF LogSound
  <2>3. CASE k = i
    BY <1>1, <2>1, <2>2, <2>3 DEF p, rec
  <2>4. CASE k # i
    BY <1>3, <2>1, <2>2, <2>4
  <2> QED
    BY <2>3, <2>4
<1>11. ASSUME NEW t \in Targets
       PROVE  /\ \/ policy'[t] = <<>> \/ Excused(t)'
                 \/ Accounts(und, t, policy'[t])
              /\ t # p => \/ policy'[t] = <<>> \/ Excused(t)'
                          \/ Accounts(log', t, policy'[t])
  <2>1. CASE t = p
    BY <1>1, <1>4, <1>6, <1>e, <2>1
  <2>2. CASE t # p
    <3>1. policy'[t] = policy[t]
      BY <1>1, <1>e, <2>2
    <3>2. policy[t] = <<>> \/ Excused(t) \/ Accounts(log, t, policy[t])
      BY <1>1 DEF PolicyInv
    <3>3. Excused(t)' = Excused(t) /\ (~Excused(t) => kept = log)
      BY <1>1, <1>5, <1>e DEF Excused
    <3> QED
      BY <1>1, <1>6, <2>2, <3>1, <3>2, <3>3
  <2> QED
    BY <2>1, <2>2
<1>12. work'.old = <<>> \/ Excused(work.target)' \/ Accounts(log', p, work'.old)
  <2>1. policy[p] = <<>> \/ Excused(p) \/ Accounts(log, p, policy[p])
    BY <1>1, <1>4 DEF PolicyInv
  <2> QED
    BY <1>1, <1>c, <2>1 DEF Excused
<1> QED
  BY <1>1, <1>c, <1>8, <1>9, <1>10, <1>11, <1>12 DEF PolicyInv

LEMMA ExpireStep ==
  ASSUME PolicyTyped, PolicyInv, NEW s \in Sessions, Expire(s)
  PROVE  PolicyInv'
<1>1. /\ policy' = [policy EXCEPT ![s] = <<>>]
      /\ revision' = [revision EXCEPT ![s] = 0]
      /\ lastWrite' = [lastWrite EXCEPT ![s] = 0]
      /\ orphaned' = orphaned \cup Of(s)
      /\ log' = log /\ given' = given /\ torn' = torn
      /\ at' = at /\ at = "idle"
  BY DEF Expire
<1>2. s \in Targets /\ Sessions \subseteq Targets
  BY DEF Targets
<1>3. \A k \in 1..Len(log) : log[k].target = s => log[k].id \in orphaned'
  BY <1>1 DEF Of
<1>e. /\ revision \in [Sessions -> Nat] /\ lastWrite \in [Targets -> Nat]
      /\ policy \in [Targets -> Seq(Presets)] /\ LogSound(log)
  BY DEF PolicyTyped, PolicyInv
<1>4. ASSUME NEW k \in 1..Len(log), log[k].target \in Sessions,
             log[k].id \notin orphaned'
      PROVE  /\ 1 <= log[k].rev /\ log[k].rev <= revision'[log[k].target]
             /\ log[k].rev = revision'[log[k].target] /\ ~log[k].undone
                => lastWrite'[log[k].target] = log[k].id
  <2>1. /\ revision'[log[k].target] = revision[log[k].target]
        /\ lastWrite'[log[k].target] = lastWrite[log[k].target]
    BY <1>1, <1>2, <1>3, <1>4, <1>e
  <2> QED
    BY <1>1, <1>4, <1>e, <2>1 DEF LogSound
<1>5. LogSound(log)'
  BY <1>1, <1>4, <1>e DEF LogSound
<1>6. \A t \in Targets :
         policy'[t] = <<>> \/ Excused(t)' \/ Accounts(log', t, policy'[t])
  BY <1>1, <1>e DEF PolicyInv, Excused
<1> QED
  BY <1>1, <1>5, <1>6 DEF PolicyInv

LEMMA PolicyStep ==
  ASSUME PolicyTyped, PolicyInv, [PolicyNext]_policyVars
  PROVE  PolicyInv'
<1>1. ASSUME NEW preset \in Presets, NEW s \in Sessions,
             ActivateSession(s, preset)
      PROVE  PolicyInv'
  BY <1>1, ActivateSessionStep
<1>2. ASSUME NEW preset \in Presets, NEW p \in Profiles,
             ActivateProfile(p, preset)
      PROVE  PolicyInv'
  BY <1>2, ActivateProfileStep
<1>3. ASSUME NEW i \in 1..TxKept, UndoSession(i) \/ UndoProfile(i)
      PROVE  PolicyInv'
  BY <1>3, UndoSessionStep, UndoProfileStep
<1>4. CASE Record
  BY <1>4 DEF Record, PolicyInv, LogSound, Accounts, Excused
<1>5. CASE PutProfileBack
  <2>1. /\ policy' = [policy EXCEPT ![work.target] = work.old]
        /\ at' = "idle" /\ at = "record"
        /\ revision' = revision /\ log' = log /\ given' = given
        /\ lastWrite' = lastWrite /\ orphaned' = orphaned /\ torn' = torn
    BY <1>5 DEF PutProfileBack
  <2>2. \A t \in Targets :
           policy'[t] = <<>> \/ Excused(t) \/ Accounts(log, t, policy'[t])
    BY <2>1 DEF PolicyInv, PolicyTyped
  <2> QED
    BY <2>1, <2>2 DEF PolicyInv, LogSound, Excused
<1>6. CASE Tear
  BY <1>6 DEF Tear, PolicyInv, LogSound, Excused
<1>7. ASSUME NEW s \in Sessions, Expire(s)
      PROVE  PolicyInv'
  BY <1>7, ExpireStep
<1>8. CASE UNCHANGED policyVars
  BY <1>8 DEF policyVars, PolicyInv, LogSound, Excused, MarksProfiles
<1> QED
  BY <1>1, <1>2, <1>3, <1>4, <1>5, <1>6, <1>7, <1>8 DEF PolicyNext

\* A step marks a session's transaction only if that one made its policy.
LEMMA UndoOwnStep ==
  ASSUME PolicyTyped, PolicyInv, PolicyNext,
         NEW rec \in NowUndone, rec.target \in Sessions, rec.id \notin orphaned
  PROVE  lastWrite[rec.target] = rec.id
<1>1. Sessions \cap Profiles = {}
  BY PolicyAssumption DEF PolicyAssumption
<1>2. PICK j \in 1..Len(log), k \in 1..Len(log') :
         rec = log[j] /\ log'[k].id = log[j].id /\ log'[k].undone # log[j].undone
  BY DEF NowUndone
<1>3. LogSound(log) /\ LogSound(Kept(log))
  BY KeptSound DEF PolicyInv
<1>4. \A i \in 1..Len(Kept(log)) :
         \E m \in 1..Len(log) : Kept(log)[i] = log[m]
  BY KeptIs DEF PolicyTyped
<1>5. \A i \in 1..Len(Kept(log)) :
         Kept(log)[i].id = log[j].id => Kept(log)[i] = log[j]
  BY <1>3, <1>4 DEF LogSound
<1>6. ASSUME NEW i, UndoSession(i)
      PROVE  lastWrite[rec.target] = rec.id
  <2>1. /\ Live(i) /\ log' = Undone(i)
        /\ revision[Kept(log)[i].target] = Kept(log)[i].rev
    BY <1>6 DEF UndoSession
  <2>2. /\ k \in 1..Len(Kept(log)) /\ Kept(log)[k].id = log[j].id
        /\ k # i => log'[k] = Kept(log)[k]
    BY <1>2, <2>1, UndoneSound
  <2>3. Kept(log)[k] = log[j]
    BY <1>5, <2>2
  <2>4. k = i
    BY <1>2, <2>2, <2>3
  <2>5. ~Kept(log)[i].undone
    BY <2>1 DEF Live
  <2> QED
    BY <1>2, <1>3, <2>1, <2>3, <2>4, <2>5 DEF LogSound
<1>7. CASE Record
  BY <1>1, <1>2, <1>7 DEF Record, PolicyInv, MarksProfiles
<1>8. ASSUME NEW preset \in Presets, NEW s \in Sessions,
             ActivateSession(s, preset)
      PROVE  FALSE
  <2> DEFINE new == Transaction(s, Append(policy[s], preset), revision[s] + 1)
             kept == Kept(log)
  <2>1. log' = Append(kept, new) /\ new.id = given + 1
    BY <1>8 DEF ActivateSession, Transaction
  <2>2. kept \in Seq(TxRecords)
    BY KeptIs DEF PolicyTyped
  <2>3. log[j].id \in Nat /\ log[j].id <= given /\ given \in Nat
    BY <1>3, RecordsTyped DEF LogSound, PolicyTyped
  <2> HIDE DEF new, kept
  <2>4. k \in 1..Len(kept) /\ log'[k] = kept[k]
    BY <1>2, <2>1, <2>2, <2>3
  <2> QED
    BY <1>2, <1>5, <2>4 DEF kept
<1>9. ASSUME log' = log PROVE FALSE
  BY <1>2, <1>3, <1>9 DEF LogSound
<1>10. ASSUME NEW preset \in Presets, NEW p \in Profiles,
             ActivateProfile(p, preset)
      PROVE  FALSE
  BY <1>9, <1>10 DEF ActivateProfile
<1>11. ASSUME NEW i, UndoProfile(i) PROVE FALSE
  BY <1>9, <1>11 DEF UndoProfile
<1>12. CASE PutProfileBack \/ Tear
  BY <1>9, <1>12 DEF PutProfileBack, Tear
<1>13. ASSUME NEW s \in Sessions, Expire(s) PROVE FALSE
  BY <1>9, <1>13 DEF Expire
<1> QED
  BY <1>6, <1>7, <1>8, <1>10, <1>11, <1>12, <1>13 DEF PolicyNext

\* For any sessions, profiles, presets and number of transactions kept: while the
\* log has dropped no transaction, it accounts for the policy in force of every
\* target but those whose policy and log were torn apart, the one file written
\* and the other not; and as long as a session keeps its entry, an undo is
\* accepted for the activation that made its policy in force and no other.
THEOREM PolicyKept == PolicySpec => PolicySound
<1>1. PolicyInit => PolicyTyped /\ PolicyInv
  <2> SUFFICES ASSUME PolicyInit PROVE PolicyTyped /\ PolicyInv
    OBVIOUS
  <2>1. /\ policy = [t \in Targets |-> <<>>] /\ log = <<>> /\ given = 0
        /\ at = "idle" /\ revision = [s \in Sessions |-> 0]
        /\ lastWrite = [t \in Targets |-> 0]
    BY DEF PolicyInit
  <2>2. PolicyTyped
    BY <2>1 DEF PolicyTyped
  <2>3. Len(log) = 0
    BY <2>1
  <2>4. LogSound(log)
    BY <2>1, <2>3 DEF LogSound
  <2> QED
    BY <2>1, <2>2, <2>4 DEF PolicyInv
<1>2. PolicyTyped /\ PolicyInv /\ [PolicyNext]_policyVars
      => (PolicyTyped /\ PolicyInv)'
  BY PolicyTypedStep, PolicyStep
<1>3. PolicyInv => PolicyAccounted
  <2> SUFFICES ASSUME PolicyInv, NEW t \in Targets,
                      policy[t] # <<>>, t \notin torn, at # "record",
                      ~(given > TxKept)
               PROVE  Accounts(log, t, policy[t])
    BY DEF PolicyAccounted, Accounts
  <2> QED
    BY DEF PolicyInv, Excused
<1>4. PolicyTyped /\ PolicyInv /\ [PolicyNext]_policyVars
      => [\A rec \in NowUndone :
            rec.target \in Sessions /\ rec.id \notin orphaned
            => lastWrite[rec.target] = rec.id]_policyVars
  BY UndoOwnStep
<1> QED
  <2>1. PolicySpec => []PolicyAccounted
    BY <1>1, <1>2, <1>3, PTL DEF PolicySpec
  <2>2. PolicySpec => UndoTakesItsOwn
    BY <1>1, <1>2, <1>4, PTL DEF PolicySpec, UndoTakesItsOwn
  <2> QED
    BY <2>1, <2>2 DEF PolicySound

-----------------------------------------------------------------------------
(* `clozn connect` and its undo *)

Content == [user : Nat, conn : Settings \cup {NoFile}]
Writing == {"write", "hash", "record", "rollback"}

Commands == [at : {"backup"} \cup Writing, existing : Content \cup {NoFile},
             rendered : Content, backup : Nat,
             before : Content \cup {NoFile}, after : Content \cup {NoFile}]

ConnectTyped ==
    /\ config \in Content \cup {NoFile}
    /\ backups \in Seq(Content \cup {Torn})
    /\ edits \in Nat /\ raced \in BOOLEAN /\ own \subseteq Nat
    /\ cmd.at \in {"idle", "backup", "undo", "forget"} \cup Writing
    /\ cmd.at \in {"backup"} \cup Writing => cmd \in Commands
    /\ cmd.at \in Writing /\ cmd.existing # NoFile
       => cmd.backup \in 1..Len(backups) /\ backups[cmd.backup] \in Content
    /\ cmd.at = "record" => cmd.after # NoFile
    /\ tx # NoFile => /\ tx.after \in Content
                      /\ tx.before \in Content \cup {NoFile}
                      /\ tx.existed = (tx.before # NoFile)
                      /\ tx.existed => tx.backup \in 1..Len(backups)
    /\ cmd.at = "undo" => /\ tx # NoFile
                          /\ tx.existed => backups[tx.backup] = tx.before

\* A version is in a backup.
Saved(v) == \E i \in DOMAIN backups : backups[i] # Torn /\ backups[i].user = v

\* Once a command may write the file, what the user has of his own is in the
\* backups; and so is what a transaction record says was in the file.
SavedInv ==
    /\ \A v \in own : v <= edits
    /\ config # NoFile => config.user <= edits
    /\ \A i \in DOMAIN backups : backups[i] # Torn => backups[i].user <= edits
    /\ cmd.at \in {"backup"} \cup Writing =>
          /\ cmd.rendered.user <= edits
          /\ cmd.after # NoFile => cmd.after.user <= edits
    /\ cmd.at \in Writing \cup {"undo", "forget"} => \A v \in own : Saved(v)
    /\ tx # NoFile => /\ tx.after.user <= edits
                      /\ tx.after.user \in own => Saved(tx.after.user)

\* While nobody else touches the files, a command works on what it has read.
UndisturbedInv ==
    /\ cmd.at \in {"backup", "write"} /\ ~raced => config = cmd.existing
    /\ cmd.at \in Writing /\ ~raced /\ cmd.existing # NoFile
       => backups[cmd.backup] = cmd.existing
    /\ cmd.at \in {"hash", "record"} /\ ~raced
       => cmd.before = cmd.existing /\ config = cmd.rendered
    /\ cmd.at = "rollback" /\ ~raced => config \in {cmd.existing, cmd.rendered}
    /\ tx # NoFile /\ ~told.raced => tx.before = told.prior
    /\ ended = "failed" => cmd.at = "idle"

ConnectInv ==
    /\ ConnectTyped /\ SavedInv /\ UndisturbedInv
    /\ UndoRestores /\ EditsSurvive /\ FailureLeavesNothing

LEMMA NoSuchContent ==
  NoFile \notin Content /\ Torn \notin Content /\ MostEdits \in Nat
BY ConnectAssumption DEF ConnectAssumption, Content

LEMMA RenderedIs ==
  ASSUME NEW content \in Content \cup {NoFile}, NEW s \in Settings
  PROVE  /\ Rendered(content, s) \in Content
         /\ content # NoFile => Rendered(content, s).user = content.user
         /\ content = NoFile => Rendered(content, s).user = 0
BY NoSuchContent DEF Rendered, Content

\* A command's local variables go on as they were, but for those it sets.
LEMMA CommandMoves ==
  ASSUME NEW c \in Commands, NEW l \in {"backup"} \cup Writing,
         NEW f \in Content \cup {NoFile}
  PROVE  /\ [c EXCEPT !.at = l] \in Commands
         /\ [c EXCEPT !.at = l, !.before = f] \in Commands
         /\ [c EXCEPT !.at = l, !.after = f] \in Commands
BY DEF Commands, Writing

LEMMA ConnectTypedStep ==
  ASSUME ConnectTyped, [ConnectNext]_connectVars
  PROVE  ConnectTyped'
<1> USE DEF ConnectTyped, Writing
<1>1. ASSUME NEW s \in Settings, ReadConfig(s) PROVE ConnectTyped'
  <2>1. /\ cmd' = [at |-> IF config = NoFile THEN "write" ELSE "backup",
                   existing |-> config, rendered |-> Rendered(config, s),
                   backup |-> 0, before |-> NoFile, after |-> NoFile]
        /\ config' = config /\ backups' = backups /\ edits' = edits
        /\ tx' = tx /\ raced' = FALSE /\ own' = own
    BY <1>1 DEF ReadConfig
  <2>2. cmd' \in Commands
    BY <2>1, RenderedIs DEF Commands
  <2>3. /\ cmd'.at = IF config = NoFile THEN "write" ELSE "backup"
        /\ cmd'.existing = config
    BY <2>1
  <2> QED
    BY <2>1, <2>2, <2>3
<1>2. CASE Copy
  <2>1. /\ cmd.at = "backup" /\ config # NoFile
        /\ backups' = Append(backups, config)
        /\ cmd' = [cmd EXCEPT !.at = "write", !.backup = Len(backups) + 1]
        /\ config' = config /\ tx' = tx /\ edits' = edits /\ raced' = raced
        /\ own' = own
    BY <1>2 DEF Copy
  <2>2. cmd \in Commands /\ Len(backups) \in Nat /\ config \in Content
    BY <2>1
  <2>a. cmd' \in Commands
    <3>1. Len(backups) + 1 \in Nat /\ "write" \in {"backup"} \cup Writing
      BY <2>2
    <3>2. [cmd EXCEPT !.at = "write", !.backup = Len(backups) + 1] \in Commands
      BY <2>2, <3>1 DEF Commands
    <3> QED
      BY <2>1, <3>2
  <2>3. cmd' \in Commands /\ cmd'.at = "write" /\ cmd'.backup = Len(backups) + 1
    BY <2>1, <2>2, <2>a DEF Commands
  <2>4. /\ backups' \in Seq(Content \cup {Torn})
        /\ Len(backups') = Len(backups) + 1
        /\ backups'[Len(backups) + 1] = config
        /\ \A i \in 1..Len(backups) : backups'[i] = backups[i]
    BY <2>1
  <2> QED
    BY <2>1, <2>2, <2>3, <2>4
<1>3. CASE CopyFails
  <2>1. /\ cmd' = [at |-> "idle", existing |-> cmd.existing]
        /\ backups' \in {backups, Append(backups, Torn)}
        /\ config' = config /\ tx' = tx /\ edits' = edits /\ raced' = raced
        /\ own' = own
    BY <1>3 DEF CopyFails, Fail
  <2>2. /\ backups' \in Seq(Content \cup {Torn}) /\ cmd'.at = "idle"
        /\ Len(backups') >= Len(backups) /\ Len(backups') \in Nat
    BY <2>1
  <2> QED
    BY <2>1, <2>2
<1>4. CASE WriteConfig
  <2>1. /\ cmd.at = "write" /\ cmd \in Commands
        /\ cmd' = [cmd EXCEPT !.at = "hash", !.before = config]
        /\ config' = cmd.rendered /\ backups' = backups /\ tx' = tx
        /\ edits' = edits /\ raced' = raced /\ own' = own
    BY <1>4 DEF WriteConfig
  <2>2. cmd' \in Commands
    BY <2>1, CommandMoves
  <2>3. /\ cmd'.at = "hash" /\ cmd'.existing = cmd.existing
        /\ cmd'.backup = cmd.backup /\ cmd.rendered \in Content
    BY <2>1 DEF Commands
  <2> QED
    BY <2>1, <2>2, <2>3
<1>5. CASE Hash
  <2>1. /\ cmd.at = "hash" /\ cmd \in Commands /\ config # NoFile
        /\ cmd' = [cmd EXCEPT !.at = "record", !.after = config]
        /\ config' = config /\ backups' = backups /\ tx' = tx
        /\ edits' = edits /\ raced' = raced /\ own' = own
    BY <1>5 DEF Hash
  <2>2. cmd' \in Commands
    BY <2>1, CommandMoves
  <2>3. /\ cmd'.at = "record" /\ cmd'.existing = cmd.existing
        /\ cmd'.backup = cmd.backup /\ cmd'.after = config
    BY <2>1 DEF Commands
  <2> QED
    BY <2>1, <2>2, <2>3
<1>6. ASSUME cmd.at = "record", Recorded
      PROVE  tx' # NoFile => /\ tx'.after \in Content
                             /\ tx'.before \in Content \cup {NoFile}
                             /\ tx'.existed = (tx'.before # NoFile)
                             /\ tx'.existed => tx'.backup \in 1..Len(backups)
  BY <1>6 DEF Recorded, Commands
<1>7. CASE RecordTx
  BY <1>6, <1>7 DEF RecordTx, End, Idle
<1>8. CASE ConnectStepFails
  <2>1. /\ cmd.at \in {"write", "hash", "record"} /\ cmd \in Commands
        /\ cmd' = [cmd EXCEPT !.at = "rollback"]
        /\ config' = config /\ backups' = backups
        /\ edits' = edits /\ raced' = raced /\ own' = own
    BY <1>8 DEF ConnectStepFails
  <2>2. cmd' \in Commands
    BY <2>1, CommandMoves
  <2>3. /\ cmd'.at = "rollback" /\ cmd'.existing = cmd.existing
        /\ cmd'.backup = cmd.backup
    BY <2>1 DEF Commands
  <2>4. tx' = tx \/ (cmd.at = "record" /\ Recorded)
    BY <1>8 DEF ConnectStepFails
  <2> QED
    BY <1>6, <2>1, <2>2, <2>3, <2>4
<1>9. CASE RollBack
  BY <1>9 DEF RollBack, Fail
<1>10. CASE RollBackFails \/ ConnectKilled
  <2>1. /\ cmd' = [at |-> "idle"] /\ config' = config /\ backups' = backups
        /\ tx' = tx /\ edits' = edits /\ own' = own /\ raced' = raced
    BY <1>10 DEF RollBackFails, ConnectKilled, End, Idle
  <2> QED
    BY <2>1
<1>11. CASE StartUndo
  BY <1>11 DEF StartUndo, UndoChecked
<1>12. CASE PutConfigBack
  BY <1>12 DEF PutConfigBack
<1>13. CASE Forget
  BY <1>13 DEF Forget, End, Idle
<1>14. CASE EditConfig
  <2>1. /\ edits' = edits + 1 /\ backups' = backups /\ tx' = tx /\ cmd' = cmd
        /\ raced' = (raced \/ cmd.at # "idle")
    BY <1>14 DEF EditConfig, Race
  <2>a. own' \subseteq Nat
    <3>1. own' \subseteq own \cup {edits + 1}
      BY <1>14 DEF EditConfig
    <3> QED
      BY <3>1
  <2>2. PICK conn \in {NoFile, IF config = NoFile THEN NoFile ELSE config.conn} :
           config' = [user |-> edits + 1, conn |-> conn]
    BY <1>14 DEF EditConfig
  <2>3. conn \in Settings \cup {NoFile}
    BY <2>2 DEF Content
  <2>4. config' \in Content
    BY <2>2, <2>3 DEF Content
  <2> QED
    BY <2>1, <2>4, <2>a
<1>15. CASE DeleteConfig
  <2>1. /\ config' = NoFile /\ own' \subseteq own /\ edits' = edits + 1
        /\ backups' = backups /\ tx' = tx /\ cmd' = cmd
        /\ raced' = (raced \/ cmd.at # "idle")
    BY <1>15 DEF DeleteConfig, Race
  <2> QED
    BY <2>1
<1>16. CASE SpoilBackup
  <2>1. PICK i \in DOMAIN backups : backups' = [backups EXCEPT ![i] = Torn]
    BY <1>16 DEF SpoilBackup
  <2>2. backups' \in Seq(Content \cup {Torn}) /\ Len(backups') = Len(backups)
    BY <2>1
  <2> QED
    BY <1>16, <2>2 DEF SpoilBackup, Race
<1>17. CASE UNCHANGED connectVars
  BY <1>17 DEF connectVars
<1> QED
  BY <1>1, <1>2, <1>3, <1>4, <1>5, <1>7, <1>8, <1>9, <1>10, <1>11, <1>12,
     <1>13, <1>14, <1>15, <1>16, <1>17 DEF ConnectNext

LEMMA AppendedIs ==
  ASSUME ConnectTyped, NEW file, backups' = Append(backups, file)
  PROVE  /\ Len(backups) + 1 \in DOMAIN backups'
         /\ backups'[Len(backups) + 1] = file
         /\ \A i \in DOMAIN backups' :
               \/ backups'[i] = file
               \/ (i \in DOMAIN backups /\ backups'[i] = backups[i])
<1>1. backups \in Seq(Content \cup {Torn})
  BY DEF ConnectTyped
<1>2. /\ DOMAIN backups' = 1..(Len(backups) + 1)
      /\ DOMAIN backups = 1..Len(backups)
      /\ backups'[Len(backups) + 1] = file
  BY <1>1
<1>3. \A i \in 1..Len(backups) : backups'[i] = backups[i]
  BY <1>1
<1>4. \A i \in 1..(Len(backups) + 1) : i = Len(backups) + 1 \/ i \in 1..Len(backups)
  BY <1>1
<1>5. Len(backups) + 1 \in 1..(Len(backups) + 1)
  BY <1>1
<1> QED
  BY <1>2, <1>3, <1>4, <1>5

\* A backup that is not altered keeps what it saves, and a copy saves its file.
LEMMA SavedKept ==
  ASSUME ConnectTyped, NEW v, Saved(v),
         \/ backups' = backups
         \/ \E file \in Content \cup {Torn} : backups' = Append(backups, file)
  PROVE  Saved(v)'
<1>1. PICK i \in DOMAIN backups : backups[i] # Torn /\ backups[i].user = v
  BY DEF Saved
<1>2. i \in DOMAIN backups' /\ backups'[i] = backups[i]
  BY <1>1 DEF ConnectTyped
<1> QED
  BY <1>1, <1>2 DEF Saved

LEMMA SavedStep ==
  ASSUME ConnectTyped, SavedInv, EditsSurvive, [ConnectNext]_connectVars
  PROVE  SavedInv' /\ EditsSurvive'
<1> DEFINE AllSaved == \A v \in own : Saved(v)
<1> USE DEF Writing
<1>a. EditsSurvive <=> \A v \in own : (config # NoFile /\ config.user = v) \/ Saved(v)
  BY DEF EditsSurvive, Saved
<1>b. EditsSurvive' <=> \A v \in own' : (config' # NoFile /\ config'.user = v) \/ Saved(v)'
  BY DEF EditsSurvive, Saved
<1>c. /\ edits \in Nat /\ own \subseteq Nat
      /\ config # NoFile => config \in Content /\ config.user \in Nat
      /\ tx # NoFile => tx.after.user \in Nat
      /\ \A v \in own : v \in Nat
  BY DEF ConnectTyped, Content
<1>1. ASSUME NEW s \in Settings, ReadConfig(s) PROVE SavedInv' /\ EditsSurvive'
  <2>1. /\ cmd' = [at |-> IF config = NoFile THEN "write" ELSE "backup",
                   existing |-> config, rendered |-> Rendered(config, s),
                   backup |-> 0, before |-> NoFile, after |-> NoFile]
        /\ config' = config /\ backups' = backups /\ edits' = edits
        /\ tx' = tx /\ own' = own
    BY <1>1 DEF ReadConfig
  <2>2. Rendered(config, s).user <= edits
    BY <1>c, RenderedIs DEF ConnectTyped, SavedInv
  <2>3. config = NoFile => AllSaved
    BY <1>a
  <2>4. /\ cmd'.at = IF config = NoFile THEN "write" ELSE "backup"
        /\ cmd'.rendered = Rendered(config, s) /\ cmd'.after = NoFile
    BY <2>1
  <2> QED
    BY <1>a, <1>b, <2>1, <2>2, <2>3, <2>4 DEF SavedInv, Saved
<1>2. CASE Copy
  <2>1. /\ cmd.at = "backup" /\ config # NoFile /\ config \in Content
        /\ backups' = Append(backups, config)
        /\ cmd' = [cmd EXCEPT !.at = "write", !.backup = Len(backups) + 1]
        /\ config' = config /\ tx' = tx /\ edits' = edits /\ own' = own
    BY <1>2, <1>c DEF Copy
  <2>2. \A v : Saved(v) => Saved(v)'
    BY <2>1, SavedKept
  <2>3. /\ Len(backups) + 1 \in DOMAIN backups'
        /\ backups'[Len(backups) + 1] = config
        /\ \A i \in DOMAIN backups' : backups'[i] = config
                                      \/ (i \in DOMAIN backups /\ backups'[i] = backups[i])
    <3>1. backups' = Append(backups, config)
      BY <2>1
    <3> QED
      BY <3>1, AppendedIs
  <2>4. Saved(config.user)'
    BY <2>1, <2>3, NoSuchContent DEF Saved
  <2>5. cmd \in Commands
    BY <2>1 DEF ConnectTyped
  <2>6. cmd'.at = "write" /\ cmd'.rendered = cmd.rendered /\ cmd'.after = cmd.after
    BY <2>1, <2>5 DEF Commands
  <2>7. \A v \in own' : Saved(v)'
    BY <1>a, <2>1, <2>2, <2>4
  <2> QED
    BY <1>b, <2>1, <2>2, <2>3, <2>6, <2>7 DEF SavedInv
<1>3. CASE CopyFails
  <2>1. /\ cmd' = [at |-> "idle", existing |-> cmd.existing]
        /\ backups' \in {backups, Append(backups, Torn)}
        /\ config' = config /\ tx' = tx /\ edits' = edits /\ own' = own
    BY <1>3 DEF CopyFails, Fail
  <2>2. \A v : Saved(v) => Saved(v)'
    BY <2>1, SavedKept
  <2>3. \A i \in DOMAIN backups' : backups'[i] = Torn
                                   \/ (i \in DOMAIN backups /\ backups'[i] = backups[i])
    <3>1. backups' = backups \/ backups' = Append(backups, Torn)
      BY <2>1
    <3> QED
      BY <3>1, AppendedIs
  <2> QED
    BY <1>a, <1>b, <2>1, <2>2, <2>3 DEF SavedInv
<1>4. CASE WriteConfig
  <2>1. /\ cmd.at = "write" /\ cmd \in Commands
        /\ cmd' = [cmd EXCEPT !.at = "hash", !.before = config]
        /\ config' = cmd.rendered /\ backups' = backups /\ tx' = tx
        /\ edits' = edits /\ own' = own
    BY <1>4 DEF WriteConfig, ConnectTyped
  <2>2. cmd'.at = "hash" /\ cmd'.rendered = cmd.rendered /\ cmd'.after = cmd.after
    BY <2>1 DEF Commands
  <2> QED
    BY <1>b, <2>1, <2>2 DEF SavedInv, Saved
<1>5. CASE Hash
  <2>1. /\ cmd.at = "hash" /\ cmd \in Commands /\ config # NoFile
        /\ cmd' = [cmd EXCEPT !.at = "record", !.after = config]
        /\ config' = config /\ backups' = backups /\ tx' = tx
        /\ edits' = edits /\ own' = own
    BY <1>5 DEF Hash, ConnectTyped
  <2>2. cmd'.at = "record" /\ cmd'.rendered = cmd.rendered /\ cmd'.after = config
    BY <2>1 DEF Commands
  <2> QED
    BY <1>b, <2>1, <2>2 DEF SavedInv, Saved
<1>6. ASSUME cmd.at = "record", Recorded
      PROVE  /\ tx'.after.user <= edits /\ (tx'.after.user \in own => Saved(tx'.after.user))
  <2>1. tx'.after = cmd.after /\ cmd.after # NoFile
    BY <1>6 DEF Recorded, ConnectTyped
  <2> QED
    BY <1>6, <2>1 DEF SavedInv
<1>7. CASE RecordTx
  BY <1>6, <1>7, <1>b DEF RecordTx, End, Idle, SavedInv, Saved
<1>8. CASE ConnectStepFails
  <2>1. /\ cmd.at \in {"write", "hash", "record"} /\ cmd \in Commands
        /\ cmd' = [cmd EXCEPT !.at = "rollback"]
        /\ config' = config /\ backups' = backups
        /\ edits' = edits /\ own' = own
    BY <1>8 DEF ConnectStepFails, ConnectTyped
  <2>2. /\ cmd'.at = "rollback" /\ cmd'.rendered = cmd.rendered
        /\ cmd'.after = cmd.after
    BY <2>1 DEF Commands
  <2>3. tx' = tx \/ (cmd.at = "record" /\ Recorded)
    BY <1>8 DEF ConnectStepFails
  <2>4. AllSaved
    BY <2>1 DEF SavedInv
  <2>5. tx' # NoFile => /\ tx'.after.user <= edits
                        /\ tx'.after.user \in own => Saved(tx'.after.user)
    BY <1>6, <2>3 DEF SavedInv
  <2> QED
    BY <1>b, <2>1, <2>2, <2>4, <2>5 DEF SavedInv, Saved
<1>9. CASE RollBack
  <2>1. /\ cmd.at = "rollback" /\ cmd'.at = "idle" /\ backups' = backups
        /\ edits' = edits /\ own' = own /\ tx' = tx
        /\ config' = IF cmd.existing # NoFile THEN backups[cmd.backup]
                     ELSE IF config = cmd.rendered THEN NoFile ELSE config
    BY <1>9 DEF RollBack, Fail
  <2>2. config' # NoFile => config'.user <= edits
    BY <2>1, NoSuchContent DEF ConnectTyped, SavedInv
  <2>3. AllSaved
    BY <2>1 DEF SavedInv
  <2> QED
    BY <1>b, <2>1, <2>2, <2>3 DEF SavedInv, Saved
<1>10. CASE RollBackFails \/ ConnectKilled
  BY <1>10, <1>a, <1>b DEF RollBackFails, ConnectKilled, End, Idle, SavedInv, Saved
<1>11. CASE StartUndo
  <2>1. /\ config # NoFile /\ tx # NoFile /\ config = tx.after
        /\ cmd'.at = "undo"
        /\ config' = config /\ backups' = backups /\ tx' = tx
        /\ edits' = edits /\ own' = own
    BY <1>11 DEF StartUndo, UndoChecked
  <2>2. AllSaved
    BY <1>a, <2>1 DEF SavedInv
  <2> QED
    BY <1>b, <2>1, <2>2 DEF SavedInv, Saved
<1>12. CASE PutConfigBack
  <2>1. /\ cmd.at = "undo" /\ cmd'.at = "forget" /\ backups' = backups
        /\ edits' = edits /\ own' = own /\ tx' = tx
        /\ config' = IF tx.existed THEN backups[tx.backup] ELSE NoFile
    BY <1>12 DEF PutConfigBack
  <2>2. config' # NoFile => config'.user <= edits
    BY <2>1, NoSuchContent DEF ConnectTyped, SavedInv
  <2>3. AllSaved
    BY <2>1 DEF SavedInv
  <2> QED
    BY <1>b, <2>1, <2>2, <2>3 DEF SavedInv, Saved
<1>13. CASE Forget
  BY <1>13, <1>b DEF Forget, End, Idle, SavedInv, Saved
<1>14. CASE EditConfig
  <2>1. /\ edits' = edits + 1 /\ backups' = backups /\ tx' = tx /\ cmd' = cmd
        /\ own' = (IF config = NoFile THEN own ELSE own \ {config.user})
                     \cup (IF cmd.at = "idle" THEN {edits + 1} ELSE {})
    BY <1>14 DEF EditConfig
  <2>2. PICK conn \in {NoFile, IF config = NoFile THEN NoFile ELSE config.conn} :
           config' = [user |-> edits + 1, conn |-> conn]
    BY <1>14 DEF EditConfig
  <2>a. config' \in Content \cup {NoFile} /\ conn \in Settings \cup {NoFile}
    BY <1>14, <1>c, <2>2, ConnectTypedStep DEF ConnectTyped, ConnectNext, Content
  <2>b. config' \in Content
    BY <1>c, <2>2, <2>a DEF Content
  <2>3. config'.user = edits + 1 /\ config' # NoFile
    BY <2>2, <2>b, NoSuchContent
  <2>4. \A v : Saved(v)' = Saved(v)
    BY <2>1 DEF Saved
  <2>5. \A v \in own' : v = edits + 1 \/ (v \in own /\ Saved(v))
    BY <1>a, <2>1
  <2>6. cmd.at # "idle" => \A v \in own' : v \in own
    BY <2>1
  <2>7. \A v \in own' : v <= edits'
    BY <1>c, <2>1, <2>5 DEF SavedInv
  <2>8. EditsSurvive'
    BY <1>b, <2>3, <2>4, <2>5
  <2>9. /\ config' # NoFile => config'.user <= edits'
        /\ \A i \in DOMAIN backups' : backups'[i] # Torn => backups'[i].user <= edits'
    BY <1>c, <2>1, <2>3 DEF SavedInv, ConnectTyped, Content
  <2>10. cmd'.at \in {"backup"} \cup Writing =>
            /\ cmd'.rendered.user <= edits'
            /\ cmd'.after # NoFile => cmd'.after.user <= edits'
    BY <1>c, <2>1 DEF SavedInv, ConnectTyped, Content, Commands
  <2>11. cmd'.at \in Writing \cup {"undo", "forget"} => \A v \in own' : Saved(v)'
    BY <2>1, <2>4, <2>6 DEF SavedInv
  <2>12. tx' # NoFile => /\ tx'.after.user <= edits'
                         /\ tx'.after.user \in own' => Saved(tx.after.user)'
    BY <1>c, <2>1, <2>4, <2>5 DEF SavedInv
  <2> QED
    BY <2>7, <2>8, <2>9, <2>10, <2>11, <2>12 DEF SavedInv
<1>15. CASE DeleteConfig
  <2>1. /\ edits' = edits + 1 /\ backups' = backups /\ tx' = tx /\ cmd' = cmd
        /\ own' = own \ {config.user} /\ config' = NoFile /\ config # NoFile
    BY <1>15 DEF DeleteConfig
  <2>2. \A v : Saved(v)' = Saved(v)
    BY <2>1 DEF Saved
  <2>3. \A v \in own' : v \in own /\ Saved(v)
    BY <1>a, <2>1
  <2>4. EditsSurvive' /\ (\A v \in own' : v <= edits' /\ Saved(v)')
    BY <1>b, <1>c, <2>1, <2>2, <2>3 DEF SavedInv
  <2>5. \A i \in DOMAIN backups' : backups'[i] # Torn => backups'[i].user <= edits'
    BY <1>c, <2>1 DEF SavedInv, ConnectTyped, Content
  <2>6. cmd'.at \in {"backup"} \cup Writing =>
            /\ cmd'.rendered.user <= edits'
            /\ cmd'.after # NoFile => cmd'.after.user <= edits'
    BY <1>c, <2>1 DEF SavedInv, ConnectTyped, Content, Commands
  <2>7. tx' # NoFile => tx'.after.user <= edits'
    BY <1>c, <2>1 DEF SavedInv
  <2> QED
    BY <2>1, <2>4, <2>5, <2>6, <2>7 DEF SavedInv
<1>16. CASE SpoilBackup
  <2>1. PICK i \in DOMAIN backups :
           /\ backups[i] # Torn /\ backups' = [backups EXCEPT ![i] = Torn]
           /\ own' = own \ {backups[i].user}
    BY <1>16 DEF SpoilBackup
  <2>2. /\ cmd.at = "idle" /\ edits' = edits + 1 /\ config' = config
        /\ tx' = tx /\ cmd' = cmd
    BY <1>16 DEF SpoilBackup
  <2>3. /\ DOMAIN backups' = DOMAIN backups /\ backups'[i] = Torn
        /\ \A k \in DOMAIN backups : k # i => backups'[k] = backups[k]
    BY <2>1 DEF ConnectTyped
  <2>4. ASSUME NEW v, v # backups[i].user, Saved(v) PROVE Saved(v)'
    <3>1. PICK k \in DOMAIN backups : backups[k] # Torn /\ backups[k].user = v
      BY <2>4 DEF Saved
    <3> QED
      BY <2>3, <2>4, <3>1 DEF Saved
  <2>5. EditsSurvive'
    BY <1>a, <1>b, <2>1, <2>2, <2>4
  <2>6. /\ \A v \in own' : v <= edits'
        /\ config' # NoFile => config'.user <= edits'
    BY <1>c, <2>1, <2>2 DEF SavedInv
  <2>7. \A k \in DOMAIN backups' : backups'[k] # Torn => backups'[k].user <= edits'
    <3>1. \A k \in DOMAIN backups : backups[k] # Torn => backups[k].user \in Nat
      BY DEF ConnectTyped, Content
    <3> QED
      BY <1>c, <2>2, <2>3, <3>1 DEF SavedInv
  <2>8. tx' # NoFile => /\ tx'.after.user <= edits'
                        /\ tx'.after.user \in own' => Saved(tx.after.user)'
    BY <1>c, <2>1, <2>2, <2>4 DEF SavedInv
  <2> QED
    BY <2>2, <2>5, <2>6, <2>7, <2>8 DEF SavedInv
<1>17. CASE UNCHANGED connectVars
  BY <1>17, <1>a, <1>b DEF connectVars, SavedInv, Saved
<1> QED
  BY <1>1, <1>2, <1>3, <1>4, <1>5, <1>7, <1>8, <1>9, <1>10, <1>11, <1>12,
     <1>13, <1>14, <1>15, <1>16, <1>17 DEF ConnectNext

LEMMA UndisturbedStep ==
  ASSUME ConnectTyped, UndisturbedInv, UndoRestores, FailureLeavesNothing,
         [ConnectNext]_connectVars
  PROVE  UndisturbedInv' /\ UndoRestores' /\ FailureLeavesNothing'
<1> USE DEF Writing, UndisturbedInv, UndoRestores, FailureLeavesNothing
<1>1. ASSUME NEW s \in Settings, ReadConfig(s)
      PROVE  UndisturbedInv' /\ UndoRestores' /\ FailureLeavesNothing'
  <2>1. /\ cmd' = [at |-> IF config = NoFile THEN "write" ELSE "backup",
                   existing |-> config, rendered |-> Rendered(config, s),
                   backup |-> 0, before |-> NoFile, after |-> NoFile]
        /\ config' = config /\ backups' = backups /\ tx' = tx /\ told' = told
        /\ ended' = "no"
    BY <1>1 DEF ReadConfig
  <2>2. /\ cmd'.at = IF config = NoFile THEN "write" ELSE "backup"
        /\ cmd'.existing = config
    BY <2>1
  <2> QED
    BY <2>1, <2>2
<1>2. CASE Copy
  <2>1. /\ cmd.at = "backup" /\ config # NoFile /\ cmd \in Commands
        /\ backups' = Append(backups, config)
        /\ cmd' = [cmd EXCEPT !.at = "write", !.backup = Len(backups) + 1]
        /\ config' = config /\ tx' = tx /\ told' = told /\ raced' = raced
        /\ ended' = ended
    BY <1>2 DEF Copy, ConnectTyped
  <2>2. /\ cmd'.at = "write" /\ cmd'.existing = cmd.existing
        /\ cmd'.backup = Len(backups) + 1
    BY <2>1 DEF Commands
  <2>3. backups'[Len(backups) + 1] = config
    BY <2>1, AppendedIs
  <2> QED
    BY <2>1, <2>2, <2>3
<1>3. CASE CopyFails
  <2>1. /\ cmd.at = "backup" /\ cmd'.at = "idle" /\ cmd'.existing = cmd.existing
        /\ config' = config /\ tx' = tx /\ told' = told /\ raced' = raced
    BY <1>3 DEF CopyFails, Fail
  <2> QED
    BY <2>1
<1>4. CASE WriteConfig
  <2>1. /\ cmd.at = "write" /\ cmd \in Commands
        /\ cmd' = [cmd EXCEPT !.at = "hash", !.before = config]
        /\ config' = cmd.rendered /\ backups' = backups
        /\ tx' = tx /\ told' = told /\ raced' = raced /\ ended' = ended
    BY <1>4 DEF WriteConfig, ConnectTyped
  <2>2. /\ cmd'.at = "hash" /\ cmd'.existing = cmd.existing
        /\ cmd'.backup = cmd.backup /\ cmd'.before = config
        /\ cmd'.rendered = cmd.rendered
    BY <2>1 DEF Commands
  <2> QED
    BY <2>1, <2>2
<1>5. CASE Hash
  <2>1. /\ cmd.at = "hash" /\ cmd \in Commands
        /\ cmd' = [cmd EXCEPT !.at = "record", !.after = config]
        /\ config' = config /\ backups' = backups
        /\ tx' = tx /\ told' = told /\ raced' = raced /\ ended' = ended
    BY <1>5 DEF Hash, ConnectTyped
  <2>2. /\ cmd'.at = "record" /\ cmd'.existing = cmd.existing
        /\ cmd'.backup = cmd.backup /\ cmd'.before = cmd.before
        /\ cmd'.rendered = cmd.rendered
    BY <2>1 DEF Commands
  <2> QED
    BY <2>1, <2>2
<1>6. ASSUME cmd.at = "record", Recorded
      PROVE  ~told'.raced => tx'.before = told'.prior
  BY <1>6 DEF Recorded
<1>7. CASE RecordTx
  BY <1>6, <1>7 DEF RecordTx, End, Idle
<1>8. CASE ConnectStepFails
  <2>1. /\ cmd.at \in {"write", "hash", "record"} /\ cmd \in Commands
        /\ cmd' = [cmd EXCEPT !.at = "rollback"]
        /\ config' = config /\ backups' = backups
        /\ raced' = raced /\ ended' = ended
    BY <1>8 DEF ConnectStepFails, ConnectTyped
  <2>2. /\ cmd'.at = "rollback" /\ cmd'.existing = cmd.existing
        /\ cmd'.backup = cmd.backup /\ cmd'.rendered = cmd.rendered
    BY <2>1 DEF Commands
  <2>3. (tx' = tx /\ told' = told) \/ (cmd.at = "record" /\ Recorded)
    BY <1>8 DEF ConnectStepFails
  <2> QED
    BY <1>6, <2>1, <2>2, <2>3
<1>9. CASE RollBack
  <2>1. /\ cmd.at = "rollback" /\ cmd'.at = "idle"
        /\ cmd'.existing = cmd.existing
        /\ tx' = tx /\ told' = told /\ raced' = raced
        /\ config' = IF cmd.existing # NoFile THEN backups[cmd.backup]
                     ELSE IF config = cmd.rendered THEN NoFile ELSE config
    BY <1>9 DEF RollBack, Fail
  <2> QED
    BY <2>1
<1>10. CASE RollBackFails \/ ConnectKilled
  <2>1. /\ cmd'.at = "idle" /\ tx' = tx /\ told' = told /\ raced' = raced
        /\ ended' # "failed"
    BY <1>10 DEF RollBackFails, ConnectKilled, End, Idle
  <2> QED
    BY <2>1
<1>11. CASE StartUndo
  BY <1>11 DEF StartUndo
<1>12. CASE PutConfigBack
  <2>1. /\ cmd.at = "undo" /\ cmd'.at = "forget"
        /\ tx' = tx /\ told' = told /\ raced' = raced /\ ended' = ended
        /\ config' = IF tx.existed THEN backups[tx.backup] ELSE NoFile
    BY <1>12 DEF PutConfigBack
  <2>2. config' = tx.before /\ tx # NoFile
    BY <2>1 DEF ConnectTyped
  <2> QED
    BY <2>1, <2>2
<1>13. CASE Forget
  BY <1>13 DEF Forget, End, Idle
<1>14. CASE EditConfig \/ DeleteConfig \/ SpoilBackup
  <2>1. /\ raced' = (raced \/ cmd.at # "idle") /\ ended' = "no"
        /\ tx' = tx /\ cmd' = cmd /\ told' = told
    BY <1>14 DEF EditConfig, DeleteConfig, SpoilBackup, Race
  <2> QED
    BY <2>1 DEF ConnectTyped
<1>15. CASE UNCHANGED connectVars
  BY <1>15 DEF connectVars
<1> QED
  BY <1>1, <1>2, <1>3, <1>4, <1>5, <1>7, <1>8, <1>9, <1>10, <1>11, <1>12,
     <1>13, <1>14, <1>15 DEF ConnectNext

\* For any settings and any number of connects, undos, backups, failures, kills
\* and edits: an undo gives back the file it is to give back, what the user
\* wrote of his own is in the file or in a backup, and a connect that reports
\* failure has left the file as it was.
THEOREM ConnectKeeps == ConnectSpec => []ConnectSafe
<1>1. ConnectInit => ConnectInv
  <2> SUFFICES ASSUME ConnectInit PROVE ConnectInv
    OBVIOUS
  <2>1. /\ config \in {NoFile, [user |-> 0, conn |-> NoFile]}
        /\ backups = <<>> /\ tx = NoFile /\ cmd.at = "idle" /\ ended = "no"
        /\ edits = 0 /\ own = {} /\ raced = FALSE
    BY DEF ConnectInit, Idle
  <2>2. config # NoFile => config \in Content /\ config.user = 0
    BY <2>1 DEF Content
  <2>3. ConnectTyped
    <3>1. backups \in Seq(Content \cup {Torn}) /\ own \subseteq Nat
      BY <2>1
    <3> QED
      BY <2>1, <2>2, <3>1 DEF ConnectTyped, Writing
  <2>4. SavedInv /\ EditsSurvive
    BY <2>1, <2>2 DEF SavedInv, EditsSurvive, Writing
  <2>5. UndisturbedInv /\ UndoRestores /\ FailureLeavesNothing
    BY <2>1 DEF UndisturbedInv, UndoRestores, FailureLeavesNothing, Writing
  <2> QED
    BY <2>3, <2>4, <2>5 DEF ConnectInv
<1>2. ConnectInv /\ [ConnectNext]_connectVars => ConnectInv'
  BY ConnectTypedStep, SavedStep, UndisturbedStep DEF ConnectInv
<1>3. ConnectInv => ConnectSafe
  BY DEF ConnectInv, ConnectSafe
<1> QED
  BY <1>1, <1>2, <1>3, PTL DEF ConnectSpec

=============================================================================
