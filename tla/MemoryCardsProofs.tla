------------------------- MODULE MemoryCardsProofs -------------------------
(***************************************************************************)
(* The gateway and any number of `clozn memory` processes, whatever they   *)
(* ask for and wherever they die, implement the atomic card store: every   *)
(* change of the file is one operation on the cards of that moment.        *)
(*                                                                         *)
(* The argument: a process between the load and the save of a transaction  *)
(* holds the lock, and what it loaded is what the file still holds         *)
(* (LockOK); so the list it saves is the operation applied to the file.    *)
(*                                                                         *)
(* And no card enters by a side door: what a request has still to do       *)
(* keeps what it saw when it started (GateInv, SeedInv), because no writer *)
(* changes where a card came from.                                         *)
(***************************************************************************)
EXTENDS MemoryCards, FiniteSetTheorems, SequenceTheorems, TLAPS

\* The documents `clozn memory import` prepares.
Prepared == UNION {{FreshCards(cards, verified) : verified \in SUBSET DOMAIN cards} :
                      cards \in Imports}

\* The transactions a request may consist of.
ValidOps ==
    {Create(c) : c \in S!Card}
    \cup {Delete(id) : id \in Ids}
    \cup {Merge(cards) : cards \in Prepared}
    \cup {Patch(id, "status", s) : id \in Ids, s \in S!Statuses}
    \cup {Patch(id, "text", t) : id \in Ids, t \in Texts}
    \cup {Patch(id, "scope", k) : id \in Ids, k \in {"global", "overlay"}}

Shapes ==
    /\ txTodo \in [Procs -> Seq(ValidOps)]
    /\ txCopy = [p \in Procs |-> txCopy[p]]
    /\ cardReq = [p \in Procs |-> cardReq[p]]

FileOK ==
    /\ DOMAIN file \subseteq drawn /\ drawn \subseteq Ids
    /\ file \in [DOMAIN file -> S!Card]
    /\ fileOk \in BOOLEAN

\* An idle process has nothing to do, and only the holder of the lock has loaded
\* the file, which has not changed since.
LockOK ==
    \A p \in Procs :
        /\ cardReq[p] = "none" => txTodo[p] = <<>>
        /\ txCopy[p] # <<>> => /\ txLock = p /\ txCopy[p] = <<Load>>
                               /\ txTodo[p] # <<>>
                               /\ txTodo[p][1].kind = "import" => fileOk

CardInv == Shapes /\ FileOK /\ LockOK

-----------------------------------------------------------------------------
(* Lemmas *)

LEMMA NobodyIsNoProcess == Nobody \notin Procs
BY CardsAssumption DEF CardsAssumption, Procs

\* SetToSeq lists the elements of a finite set.
LEMMA SetToSeqType ==
    ASSUME NEW T, IsFiniteSet(T)
    PROVE  /\ Cardinality(T) \in Nat
           /\ SetToSeq(T) \in [1..Cardinality(T) -> T]
           /\ \A i, j \in 1..Cardinality(T) :
                 SetToSeq(T)[i] = SetToSeq(T)[j] => i = j
<1>1. Cardinality(T) \in Nat /\ ExistsBijection(1..Cardinality(T), T)
  BY FS_NatBijection, FS_CountingElements
<1>2. PICK f \in [1..Cardinality(T) -> T] : IsInjective(f)
  BY <1>1 DEF ExistsBijection, Bijection, Injection
<1>3. SetToSeq(T) \in [1..Cardinality(T) -> T] /\ IsInjective(SetToSeq(T))
  BY <1>1, <1>2 DEF SetToSeq
<1> QED
  BY <1>1, <1>3 DEF IsInjective

\* What a valid transaction carries.
LEMMA OpKinds ==
    ASSUME NEW op \in ValidOps
    PROVE  \/ op.kind = "create" /\ op.with \in S!Card
           \/ op.kind = "delete" /\ op.id \in Ids
           \/ op.kind = "import" /\ op.with \in Prepared
           \/ op.kind = "status" /\ op.id \in Ids /\ op.with \in S!Statuses
           \/ op.kind = "text" /\ op.id \in Ids /\ op.with \in Texts
           \/ op.kind = "scope" /\ op.id \in Ids /\ op.with \in {"global", "overlay"}
BY DEF ValidOps, Create, Delete, Merge, Patch, Op

\* The first of a sequence that is not empty is one of its elements.
LEMMA FirstIsElement ==
    ASSUME NEW T, NEW s \in Seq(T), s # <<>>
    PROVE  s[1] \in T /\ Tail(s) \in Seq(T)
<1>1. Len(s) \in Nat \ {0}
  OBVIOUS
<1> QED
  BY <1>1

\* Each entry of a prepared document is a card that cites nothing it does not
\* quote.
LEMMA PreparedCards ==
    ASSUME NEW cards \in Prepared, NEW i \in DOMAIN cards
    PROVE  cards[i].id \in Ids /\ cards[i].card \in S!Card /\ ~Unbacked(cards[i].card)
<1>1. PICK parsed \in Imports :
        \E verified \in SUBSET DOMAIN parsed : cards = FreshCards(parsed, verified)
  BY DEF Prepared
<1>2. PICK verified \in SUBSET DOMAIN parsed : cards = FreshCards(parsed, verified)
  BY <1>1
<1>3. i \in DOMAIN parsed
  BY <1>2 DEF FreshCards
<1>4. parsed[i].id \in Ids /\ parsed[i].card \in S!Card
  BY <1>3, ImportsAssumption DEF ImportsAssumption
<1> DEFINE backed == parsed[i].card.claims /\ parsed[i].card.quoted /\ i \in verified
<1>5. cards[i] = [id |-> parsed[i].id,
                  card |-> [parsed[i].card EXCEPT !.claims = backed, !.quoted = backed]]
  BY <1>2, <1>3 DEF FreshCards
<1> DEFINE old == parsed[i].card
           new == [old EXCEPT !.claims = backed, !.quoted = backed]
<1>6. backed \in BOOLEAN /\ old \in S!Card
  BY <1>4
<1> HIDE DEF backed, old
<1>7. new \in S!Card /\ (new.claims <=> backed) /\ (new.quoted <=> backed)
  BY <1>6, Zenon DEF S!Card
<1> HIDE DEF new
<1>8. cards[i].id = parsed[i].id /\ cards[i].card = new
  BY <1>5 DEF new, old
<1> QED
  BY <1>4, <1>7, <1>8 DEF Unbacked

\* An import adds cards of its own under their ids and touches no other.
LEMMA MergedExtends ==
    ASSUME NEW cards \in Prepared, NEW loaded, loaded \in [DOMAIN loaded -> S!Card],
           DOMAIN loaded \subseteq Ids
    PROVE  LET out == Merged(cards, loaded)
           IN  /\ out \in [DOMAIN out -> S!Card]
               /\ DOMAIN loaded \subseteq DOMAIN out /\ DOMAIN out \subseteq Ids
               /\ \A id \in DOMAIN loaded : out[id] = loaded[id]
               /\ \A id \in DOMAIN out \ DOMAIN loaded : ~Unbacked(out[id])
<1> DEFINE added == Added(cards, loaded)
           new == {cards[i].id : i \in added}
           card(id) == cards[CHOOSE i \in added : cards[i].id = id].card
<1>1. added \subseteq DOMAIN cards
  BY DEF Added
<1>2. new \subseteq Ids /\ \A id \in new : card(id) \in S!Card /\ ~Unbacked(card(id))
  <2> SUFFICES ASSUME NEW id \in new
               PROVE  id \in Ids /\ card(id) \in S!Card /\ ~Unbacked(card(id))
    OBVIOUS
  <2>1. PICK i \in added : cards[i].id = id
    OBVIOUS
  <2> DEFINE j == CHOOSE k \in added : cards[k].id = id
  <2>2. j \in added /\ cards[j].id = id
    BY <2>1
  <2>3. j \in DOMAIN cards
    BY <1>1, <2>2
  <2>4. cards[j].id \in Ids /\ cards[j].card \in S!Card /\ ~Unbacked(cards[j].card)
    BY <2>3, PreparedCards
  <2> QED
    BY <2>2, <2>4
<1>3. Merged(cards, loaded) = [id \in DOMAIN loaded \cup new |->
                                  IF id \in DOMAIN loaded THEN loaded[id] ELSE card(id)]
  BY DEF Merged
<1> HIDE DEF added, new, card
<1> QED
  BY <1>2, <1>3

\* A patch leaves a card a card, and where it came from as it was.
LEMMA PatchKeeps ==
    ASSUME NEW op, NEW card \in S!Card,
           \/ op.kind = "status" /\ op.with \in S!Statuses
           \/ op.kind = "text" /\ op.with \in Texts
           \/ op.kind = "scope" /\ op.with \in {"global", "overlay"}
    PROVE  /\ Patched(op, card) \in S!Card
           /\ S!Provenance(Patched(op, card)) = S!Provenance(card)
BY DEF Patched, S!Card, S!Provenance

-----------------------------------------------------------------------------
(* The steps that write the file *)

\* What a transaction makes of the file it loaded is one operation of the store
\* or nothing, and leaves cards under ids that are known.
LEMMA SaveWrites ==
    ASSUME CardInv, NEW p \in Procs, CardsSave(p)
    PROVE  /\ S!StoreNext \/ UNCHANGED <<file, fileOk>>
           /\ FileOK'
<1> DEFINE op == txTodo[p][1]
           loaded == Load
<1>1. /\ txCopy[p] = <<loaded>> /\ txCopy[p][1] = loaded
      /\ op \in ValidOps
      /\ op.kind = "import" => fileOk
  <2>1. txCopy[p] # <<>>
    BY DEF CardsSave, Unlock
  <2>2. /\ txCopy[p] = <<Load>> /\ txTodo[p] # <<>>
        /\ txTodo[p][1].kind = "import" => fileOk
    BY <2>1 DEF CardInv, LockOK
  <2>3. txTodo[p] \in Seq(ValidOps)
    BY DEF CardInv, Shapes
  <2>4. txTodo[p][1] \in ValidOps
    BY <2>2, <2>3, FirstIsElement
  <2>5. txCopy[p][1] = Load
    BY <2>2
  <2> QED
    BY <2>2, <2>4, <2>5
<1>2. /\ loaded \in [DOMAIN loaded -> S!Card] /\ DOMAIN loaded \subseteq Ids
      /\ fileOk => loaded = file
      /\ ~fileOk => loaded = <<>> /\ DOMAIN loaded = {}
  BY DEF Load, CardInv, FileOK
<1> HIDE DEF op, loaded
<1>3. PICK id \in (IF op.kind = "create" THEN {FreshId} \cap Ids ELSE {Nobody}) :
          LET out == Rewritten(op, id, loaded)
          IN  /\ drawn' = IF op.kind = "create" THEN drawn \cup {id}
                          ELSE drawn \cup DOMAIN out
              /\ file' = IF out = loaded THEN file ELSE out
              /\ fileOk' = (fileOk \/ out # loaded)
  BY <1>1 DEF CardsSave, op
<1> DEFINE out == Rewritten(op, id, loaded)
<1>4. /\ drawn' = IF op.kind = "create" THEN drawn \cup {id}
                  ELSE drawn \cup DOMAIN out
      /\ file' = IF out = loaded THEN file ELSE out
      /\ fileOk' = (fileOk \/ out # loaded)
  BY <1>3
<1>5. /\ DOMAIN file \subseteq drawn /\ drawn \subseteq Ids
      /\ file \in [DOMAIN file -> S!Card] /\ fileOk \in BOOLEAN
  BY DEF CardInv, FileOK
<1> SUFFICES /\ out # loaded => S!Write
             /\ out \in [DOMAIN out -> S!Card]
             /\ DOMAIN out \subseteq IF op.kind = "create" THEN drawn \cup {id} ELSE Ids
             /\ op.kind = "create" => id \in Ids
  <2> HIDE DEF out
  <2> SUFFICES ASSUME /\ out # loaded => S!Write
                      /\ out \in [DOMAIN out -> S!Card]
                      /\ DOMAIN out \subseteq IF op.kind = "create" THEN drawn \cup {id} ELSE Ids
                      /\ op.kind = "create" => id \in Ids
               PROVE  /\ S!StoreNext \/ UNCHANGED <<file, fileOk>>
                      /\ FileOK'
    OBVIOUS
  <2>1. CASE out = loaded
    <3>1. file' = file /\ fileOk' = fileOk
      BY <1>4, <1>5, <2>1
    <3>2. drawn \subseteq drawn' /\ drawn' \subseteq Ids
      BY <1>4, <1>5, <2>1
    <3> QED
      BY <3>1, <3>2, <1>5 DEF FileOK
  <2>2. CASE out # loaded
    <3>1. file' = out /\ fileOk' = TRUE
      BY <1>4, <1>5, <2>2
    <3>2. DOMAIN out \subseteq drawn' /\ drawn' \subseteq Ids
      BY <1>4, <1>5, <2>2
    <3> QED
      BY <3>1, <3>2, <2>2 DEF FileOK, S!StoreNext
  <2> QED
    BY <2>1, <2>2
<1>6. CASE op.kind = "create" /\ op.with \in S!Card
  <2>1. id = FreshId /\ id \in Ids
    BY <1>3, <1>6
  <2>2. Nobody \notin Ids
    BY CardsAssumption DEF CardsAssumption
  <2>3. \E i \in Ids \cup {Nobody} : i \notin drawn /\ (i = Nobody => Ids \subseteq drawn)
    BY <2>2, <1>5
  <2>4. id \notin drawn
    BY <2>1, <2>3 DEF FreshId
  <2>5. out = S!With(loaded, id, op.with)
    BY <1>6 DEF Rewritten
  <2>6. DOMAIN loaded \subseteq drawn
    BY <1>2, <1>5
  <2>7. /\ DOMAIN out = DOMAIN loaded \cup {id} /\ out # loaded
        /\ out \in [DOMAIN out -> S!Card]
    BY <2>4, <2>5, <2>6, <1>2, <1>6 DEF S!With
  <2>8. S!Write
    <3>1. file' = out /\ fileOk' = TRUE
      BY <1>4, <1>5, <2>7
    <3>2. CASE fileOk
      BY <3>1, <3>2, <2>1, <2>4, <2>5, <1>2, <1>5, <1>6 DEF S!Write, S!Created
    <3>3. CASE ~fileOk
      <4>1. out = [i \in {id} |-> op.with]
        BY <3>3, <2>5, <1>2 DEF S!With
      <4> QED
        BY <3>1, <3>3, <4>1, <2>1, <1>6 DEF S!Write, S!StartedOver
    <3> QED
      BY <3>2, <3>3
  <2> HIDE DEF out
  <2> QED
    BY <2>1, <2>6, <2>7, <2>8, <1>6
<1>7. CASE op.kind = "delete" /\ op.id \in Ids
  <2>1. out = [i \in DOMAIN loaded \ {op.id} |-> loaded[i]]
    BY <1>7 DEF Rewritten
  <2> HIDE DEF out
  <2>2. out \in [DOMAIN out -> S!Card] /\ DOMAIN out \subseteq Ids
    BY <2>1, <1>2
  <2>3. ASSUME out # loaded PROVE S!Write
    <3>1. op.id \in DOMAIN loaded
      BY <2>1, <2>3, <1>2
    <3>2. fileOk /\ loaded = file
      BY <3>1, <1>2, <1>5
    <3>3. file' = out /\ fileOk' = TRUE
      BY <1>4, <1>5, <2>3
    <3> QED
      BY <3>1, <3>2, <3>3, <2>1, <1>7 DEF S!Write, S!Removed
  <2> QED
    BY <2>2, <2>3, <1>7
<1>8. CASE op.kind = "import" /\ op.with \in Prepared
  <2>1. out = Merged(op.with, loaded)
    BY <1>8 DEF Rewritten
  <2> HIDE DEF out
  <2>2. /\ out \in [DOMAIN out -> S!Card]
        /\ DOMAIN loaded \subseteq DOMAIN out /\ DOMAIN out \subseteq Ids
        /\ \A i \in DOMAIN loaded : out[i] = loaded[i]
    BY <2>1, <1>2, <1>8, MergedExtends
  <2>3. ASSUME out # loaded PROVE S!Write
    <3>1. file' = out /\ fileOk' = TRUE /\ fileOk /\ loaded = file
      BY <1>1, <1>2, <1>4, <1>5, <1>8, <2>3
    <3> QED
      BY <3>1, <2>2 DEF S!Write, S!Imported
  <2> QED
    BY <2>2, <2>3, <1>8
<1>9. CASE op.kind \in {"status", "text", "scope"}
  <2> DEFINE c == Patched(op, loaded[op.id])
  <2>1. out = [i \in DOMAIN loaded |-> IF i = op.id THEN Patched(op, loaded[i])
                                       ELSE loaded[i]]
    BY <1>9 DEF Rewritten
  <2>2. CASE op.id \notin DOMAIN loaded
    <3>1. out = loaded
      BY <2>1, <2>2, <1>2
    <3> HIDE DEF out
    <3> QED
      BY <3>1, <1>2, <1>9
  <2>3. CASE op.id \in DOMAIN loaded
    <3>1. fileOk /\ loaded = file
      BY <2>3, <1>2, <1>5
    <3>2. c \in S!Card /\ S!Provenance(c) = S!Provenance(loaded[op.id])
      BY <1>1, <1>2, <2>3, <1>9, OpKinds, PatchKeeps
    <3>x. out = [loaded EXCEPT ![op.id] = c]
      BY <2>1, <2>3, <1>2
    <3> HIDE DEF out, c
    <3>3. out \in [DOMAIN out -> S!Card] /\ DOMAIN out = DOMAIN loaded
      BY <3>2, <3>x, <1>2
    <3>4. ASSUME out # loaded PROVE S!Write
      <4>1. file' = out /\ fileOk' = TRUE
        BY <1>4, <1>5, <3>4
      <4>2. S!Changed(op.id, c)
        BY <4>1, <3>1, <3>2, <3>x, <2>3 DEF S!Changed
      <4> QED
        BY <4>1, <4>2, <3>2, <2>3, <1>2 DEF S!Write
    <3> QED
      BY <3>3, <3>4, <1>2, <1>9
  <2> QED
    BY <2>2, <2>3
<1> QED
  BY <1>1, <1>6, <1>7, <1>8, <1>9, OpKinds

-----------------------------------------------------------------------------
(* The steps that take or give up the lock, and the requests *)

\* While nobody holds the lock, nobody has loaded the file.
LEMMA FreeMeansNoCopy ==
    ASSUME LockOK, txLock = Nobody
    PROVE  \A p \in Procs : txCopy[p] = <<>>
BY NobodyIsNoProcess DEF LockOK

\* A request starts on an idle process, which has loaded nothing.
LEMMA ServeKeeps ==
    ASSUME CardInv, NEW p \in Procs, NEW req, req # "none",
           NEW todo \in Seq(ValidOps), Serve(p, req, todo)
    PROVE  CardInv' /\ UNCHANGED <<file, fileOk>>
<1>1. /\ file' = file /\ fileOk' = fileOk /\ drawn' = drawn
      /\ txLock' = txLock /\ txCopy' = txCopy /\ Load' = Load
  BY DEF Serve, Load
<1>2. FileOK'
  BY <1>1 DEF CardInv, FileOK
<1>3. Shapes'
  BY <1>1 DEF CardInv, Shapes, Serve
<1>4. ASSUME NEW q \in Procs, q # p
      PROVE  cardReq'[q] = cardReq[q] /\ txTodo'[q] = txTodo[q]
  BY <1>4 DEF CardInv, Shapes, Serve
<1>5. /\ cardReq[p] = "none" /\ txTodo'[p] = todo
      /\ cardReq'[p] = IF todo = <<>> THEN "none" ELSE req
  BY DEF CardInv, Shapes, Serve
<1>6. txCopy[p] = <<>>
  BY <1>5 DEF CardInv, LockOK
<1>7. LockOK'
  <2> SUFFICES ASSUME NEW q \in Procs
               PROVE  /\ cardReq'[q] = "none" => txTodo'[q] = <<>>
                      /\ txCopy'[q] # <<>> =>
                            /\ txLock' = q /\ txCopy'[q] = <<Load'>>
                            /\ txTodo'[q] # <<>>
                            /\ txTodo'[q][1].kind = "import" => fileOk'
    BY DEF LockOK
  <2>1. CASE q = p
    BY <2>1, <1>1, <1>5, <1>6
  <2>2. CASE q # p
    BY <2>2, <1>1, <1>4 DEF CardInv, LockOK
  <2> QED
    BY <2>1, <2>2
<1> QED
  BY <1>1, <1>2, <1>3, <1>7 DEF CardInv

\* When the first transaction is done, the request goes on to the next or ends.
LEMMA DoneKeeps ==
    ASSUME CardInv, NEW p \in Procs, txTodo[p] # <<>>, Done(p)
    PROVE  /\ txTodo' \in [Procs -> Seq(ValidOps)]
           /\ cardReq' = [q \in Procs |-> cardReq'[q]]
           /\ \A q \in Procs : cardReq'[q] = "none" => txTodo'[q] = <<>>
<1>1. txTodo[p] \in Seq(ValidOps) /\ Tail(txTodo[p]) \in Seq(ValidOps)
  BY FirstIsElement DEF CardInv, Shapes
<1>2. Len(txTodo[p]) = 1 => Tail(txTodo[p]) = <<>>
  <2> SUFFICES ASSUME Len(txTodo[p]) = 1 PROVE Len(Tail(txTodo[p])) = 0
    BY <1>1, EmptySeq
  <2> QED
    BY <1>1, HeadTailProperties
<1>3. cardReq[p] # "none"
  BY DEF CardInv, LockOK
<1>4. txTodo' \in [Procs -> Seq(ValidOps)] /\ cardReq' = [q \in Procs |-> cardReq'[q]]
  BY <1>1 DEF CardInv, Shapes, Done
<1>5. /\ txTodo'[p] = Tail(txTodo[p])
      /\ cardReq'[p] = IF Len(txTodo[p]) = 1 THEN "none" ELSE cardReq[p]
  BY DEF CardInv, Shapes, Done
<1>6. ASSUME NEW q \in Procs, q # p
      PROVE  cardReq'[q] = cardReq[q] /\ txTodo'[q] = txTodo[q]
  BY <1>6 DEF CardInv, Shapes, Done
<1>7. ASSUME NEW q \in Procs, cardReq'[q] = "none" PROVE txTodo'[q] = <<>>
  <2>1. CASE q = p
    BY <2>1, <1>2, <1>3, <1>5, <1>7
  <2>2. CASE q # p
    BY <2>2, <1>6, <1>7 DEF CardInv, LockOK
  <2> QED
    BY <2>1, <2>2
<1> QED
  BY <1>4, <1>7

\* The holder gives the lock up: nobody has a copy of the file any more.
LEMMA UnlockKeeps ==
    ASSUME CardInv, NEW p \in Procs, Unlock(p), FileOK'
    PROVE  CardInv'
<1>1. txCopy[p] # <<>> /\ txLock = p /\ txTodo[p] # <<>>
  BY DEF CardInv, LockOK, Unlock
<1>2. \A q \in Procs : q # p => txCopy[q] = <<>>
  BY <1>1 DEF CardInv, LockOK
<1>3. txCopy' = [txCopy EXCEPT ![p] = <<>>] /\ Done(p)
  BY DEF Unlock
<1>4. /\ txCopy' = [q \in Procs |-> txCopy'[q]]
      /\ \A q \in Procs : txCopy'[q] = <<>>
  BY <1>2, <1>3 DEF CardInv, Shapes
<1> QED
  BY <1>1, <1>3, <1>4, DoneKeeps DEF CardInv, Shapes, LockOK

\* Loading the file takes the lock, so no other process has a copy of it.
LEMMA LockKeeps ==
    ASSUME CardInv, NEW p \in Procs, CardsLock(p)
    PROVE  CardInv'
<1>1. \A q \in Procs : txCopy[q] = <<>>
  BY FreeMeansNoCopy DEF CardInv, CardsLock
<1>2. /\ file' = file /\ fileOk' = fileOk /\ drawn' = drawn /\ Load' = Load
      /\ txTodo' = txTodo /\ cardReq' = cardReq /\ txLock' = p
      /\ txCopy' = [txCopy EXCEPT ![p] = <<Load>>]
  BY DEF CardsLock, Load
<1>3. FileOK' /\ Shapes'
  BY <1>2 DEF CardInv, FileOK, Shapes
<1>4. txCopy'[p] = <<Load>> /\ \A q \in Procs : q # p => txCopy'[q] = <<>>
  BY <1>1, <1>2 DEF CardInv, Shapes
<1>5. txTodo[p] # <<>> /\ (txTodo[p][1].kind = "import" => fileOk)
  BY DEF CardsLock
<1>6. LockOK'
  BY <1>2, <1>4, <1>5 DEF CardInv, LockOK
<1> QED
  BY <1>3, <1>6 DEF CardInv

\* A dead process holds nothing and has nothing to do.
LEMMA CrashKeeps ==
    ASSUME CardInv, NEW p \in Procs, CardsCrash(p)
    PROVE  CardInv'
<1>1. /\ file' = file /\ fileOk' = fileOk /\ drawn' = drawn /\ Load' = Load
      /\ txLock' = IF txLock = p THEN Nobody ELSE txLock
  BY DEF CardsCrash, Load
<1>2. FileOK'
  BY <1>1 DEF CardInv, FileOK
<1>3. <<>> \in Seq(ValidOps)
  OBVIOUS
<1>4. Shapes'
  BY <1>3 DEF CardInv, Shapes, CardsCrash
<1>5. cardReq'[p] = "none" /\ txTodo'[p] = <<>> /\ txCopy'[p] = <<>>
  BY DEF CardInv, Shapes, CardsCrash
<1>6. ASSUME NEW q \in Procs, q # p
      PROVE  /\ cardReq'[q] = cardReq[q] /\ txTodo'[q] = txTodo[q]
             /\ txCopy'[q] = txCopy[q]
  BY <1>6 DEF CardInv, Shapes, CardsCrash
<1>7. LockOK'
  BY <1>1, <1>5, <1>6 DEF CardInv, LockOK
<1> QED
  BY <1>2, <1>4, <1>7 DEF CardInv

\* An import that is refused, or a file that turns bad or good again, while the
\* lock is free.
LEMMA FreeStepsKeep ==
    ASSUME CardInv,
           FlipReadable \/ \E p \in Procs : ImportRefused(p)
    PROVE  CardInv'
<1>1. \A q \in Procs : txCopy[q] = <<>>
  BY FreeMeansNoCopy DEF CardInv, FlipReadable, ImportRefused
<1>2. CASE FlipReadable
  <2>1. /\ file' = file /\ fileOk' = ~fileOk /\ drawn' = drawn /\ txCopy' = txCopy
        /\ txTodo' = txTodo /\ cardReq' = cardReq
    BY <1>2 DEF FlipReadable
  <2> QED
    BY <1>1, <2>1 DEF CardInv, Shapes, FileOK, LockOK
<1>3. ASSUME NEW p \in Procs, ImportRefused(p) PROVE CardInv'
  <2>1. /\ file' = file /\ fileOk' = fileOk /\ drawn' = drawn /\ txCopy' = txCopy
        /\ txTodo[p] # <<>> /\ Done(p)
    BY <1>3 DEF ImportRefused
  <2>2. FileOK'
    BY <2>1 DEF CardInv, FileOK
  <2> QED
    BY <1>1, <2>1, <2>2, DoneKeeps DEF CardInv, Shapes, LockOK
<1> QED
  BY <1>2, <1>3

-----------------------------------------------------------------------------
(* Each request is a sequence of valid transactions *)

LEMMA SingleOp ==
    ASSUME NEW op \in ValidOps PROVE <<op>> \in Seq(ValidOps)
OBVIOUS

LEMMA CreateIsValid ==
    ASSUME NEW text \in Texts, NEW status \in S!Statuses,
           NEW scope \in {"global", "overlay"}, NEW claims \in BOOLEAN,
           NEW quoted \in BOOLEAN
    PROVE  Create(NewCard(text, status, scope, claims, quoted)) \in ValidOps
<1>1. NewCard(text, status, scope, claims, quoted) \in S!Card
  BY DEF NewCard, S!Card
<1> QED
  BY <1>1 DEF ValidOps

\* A list with one operation per number is a sequence of operations.
LEMMA NumberedOps ==
    ASSUME NEW n \in Nat, NEW f \in [1..n -> ValidOps]
    PROVE  f \in Seq(ValidOps)
OBVIOUS

LEMMA SeedKeeps ==
    ASSUME CardInv, SeedLegacy
    PROVE  CardInv' /\ UNCHANGED <<file, fileOk>>
<1> DEFINE creates == [i \in 1..Cardinality(Legacy) |->
                          Create(NewCard(SetToSeq(Legacy)[i], "active", "global",
                                         FALSE, FALSE))]
           todo == IF DOMAIN Load # {} THEN <<>> ELSE creates
<1>1. IsFiniteSet(Legacy) /\ Legacy \subseteq Texts
  BY CardsAssumption, FS_Subset DEF CardsAssumption
<1>2. creates \in Seq(ValidOps)
  <2>1. Cardinality(Legacy) \in Nat
    BY <1>1, SetToSeqType
  <2>2. ASSUME NEW i \in 1..Cardinality(Legacy)
        PROVE  Create(NewCard(SetToSeq(Legacy)[i], "active", "global", FALSE, FALSE))
                  \in ValidOps
    <3>1. SetToSeq(Legacy)[i] \in Texts
      BY <1>1, SetToSeqType
    <3>2. "active" \in S!Statuses
      BY DEF S!Statuses
    <3> QED
      BY <3>1, <3>2, CreateIsValid
  <2>3. creates \in [1..Cardinality(Legacy) -> ValidOps]
    BY <2>2
  <2> HIDE DEF creates
  <2> QED
    BY <2>1, <2>3, NumberedOps
<1>3. todo \in Seq(ValidOps)
  BY <1>2
<1>4. Serve(Gateway, "seed", todo)
  BY DEF SeedLegacy
<1> HIDE DEF todo
<1> QED
  BY <1>3, <1>4, ServeKeeps DEF Procs

LEMMA SwitchKeeps ==
    ASSUME CardInv, SwitchProfile
    PROVE  CardInv' /\ UNCHANGED <<file, fileOk>>
<1> DEFINE globals == {id \in DOMAIN Load : file[id].scope = "global"}
           deletes == [i \in 1..Cardinality(globals) |->
                          Delete(SetToSeq(globals)[i])]
           creates == [i \in 1..Cardinality(Persona) |->
                          Create(NewCard(SetToSeq(Persona)[i], "active", "global",
                                         FALSE, FALSE))]
<1>1. IsFiniteSet(Persona) /\ Persona \subseteq Texts /\ IsFiniteSet(Ids)
  BY CardsAssumption, FS_Subset DEF CardsAssumption
<1>2. creates \in Seq(ValidOps)
  <2>1. Cardinality(Persona) \in Nat
    BY <1>1, SetToSeqType
  <2>2. ASSUME NEW i \in 1..Cardinality(Persona)
        PROVE  Create(NewCard(SetToSeq(Persona)[i], "active", "global", FALSE, FALSE))
                  \in ValidOps
    <3>1. SetToSeq(Persona)[i] \in Texts
      BY <1>1, SetToSeqType
    <3>2. "active" \in S!Statuses
      BY DEF S!Statuses
    <3> QED
      BY <3>1, <3>2, CreateIsValid
  <2>3. creates \in [1..Cardinality(Persona) -> ValidOps]
    BY <2>2
  <2> HIDE DEF creates
  <2> QED
    BY <2>1, <2>3, NumberedOps
<1>3. deletes \in Seq(ValidOps)
  <2>1. globals \subseteq Ids
    BY DEF CardInv, FileOK, Load
  <2>2. IsFiniteSet(globals)
    BY <1>1, <2>1, FS_Subset
  <2>3. Cardinality(globals) \in Nat
    BY <2>2, SetToSeqType
  <2> HIDE DEF globals
  <2>4. ASSUME NEW i \in 1..Cardinality(globals)
        PROVE  Delete(SetToSeq(globals)[i]) \in ValidOps
    <3>1. SetToSeq(globals)[i] \in Ids
      BY <2>1, <2>2, SetToSeqType
    <3> HIDE DEF deletes
    <3> QED
      BY <3>1 DEF ValidOps
  <2>5. deletes \in [1..Cardinality(globals) -> ValidOps]
    BY <2>4
  <2> HIDE DEF deletes
  <2> QED
    BY <2>3, <2>5, NumberedOps
<1>4. Serve(Gateway, "switch", deletes \o creates)
  BY DEF SwitchProfile
<1>5. deletes \o creates \in Seq(ValidOps)
  <2> HIDE DEF deletes, creates
  <2> QED
    BY <1>2, <1>3
<1> HIDE DEF deletes, creates
<1> QED
  BY <1>4, <1>5, ServeKeeps DEF Procs

LEMMA GatewayKeeps ==
    ASSUME CardInv, GatewayRequest
    PROVE  CardInv' /\ UNCHANGED <<file, fileOk>>
<1> USE DEF Procs
<1>1. {"pending", "active", "disabled", "rejected"} = S!Statuses
  BY DEF S!Statuses
<1>2. CASE SeedLegacy
  BY <1>2, SeedKeeps
<1>3. CASE SwitchProfile
  BY <1>3, SwitchKeeps
<1>4. ASSUME NEW t \in Texts, NEW c \in BOOLEAN, NEW s \in {"global", "overlay"},
             AddPending(t, s, c)
      PROVE  CardInv' /\ UNCHANGED <<file, fileOk>>
  BY <1>1, <1>4, CreateIsValid, SingleOp, ServeKeeps DEF AddPending
<1>5. ASSUME NEW t \in Texts, NEW q \in BOOLEAN, Propose(t, q)
      PROVE  CardInv' /\ UNCHANGED <<file, fileOk>>
  BY <1>1, <1>5, CreateIsValid, SingleOp, ServeKeeps DEF Propose
<1>6. ASSUME NEW t \in Texts, NEW id \in Ids, EditCard(id, t)
      PROVE  CardInv' /\ UNCHANGED <<file, fileOk>>
  <2>1. Patch(id, "text", t) \in ValidOps
    BY DEF ValidOps
  <2> QED
    BY <1>6, <2>1, SingleOp, ServeKeeps DEF EditCard
<1>7. ASSUME NEW id \in Ids, Approve(id)
      PROVE  CardInv' /\ UNCHANGED <<file, fileOk>>
  <2>1. Patch(id, "status", "active") \in ValidOps
    BY <1>1 DEF ValidOps
  <2>2. <<Patch(id, "status", "active")>> \in Seq(ValidOps) /\ <<>> \in Seq(ValidOps)
    BY <2>1, SingleOp
  <2> QED
    BY <1>7, <2>2, ServeKeeps DEF Approve
<1>8. ASSUME NEW id \in Ids, RemoveCard(id)
      PROVE  CardInv' /\ UNCHANGED <<file, fileOk>>
  <2>1. Delete(id) \in ValidOps
    BY DEF ValidOps
  <2> QED
    BY <1>8, <2>1, SingleOp, ServeKeeps DEF RemoveCard
<1>9. ASSUME NEW id \in Ids, NEW req \in {"enable", "disable", "reject"},
             NEW status \in S!Statuses, SetStatus(id, req, status)
      PROVE  CardInv' /\ UNCHANGED <<file, fileOk>>
  <2>1. Patch(id, "status", status) \in ValidOps
    BY DEF ValidOps
  <2> QED
    BY <1>9, <2>1, SingleOp, ServeKeeps DEF SetStatus
<1> QED
  BY <1>1, <1>2, <1>3, <1>4, <1>5, <1>6, <1>7, <1>8, <1>9 DEF GatewayRequest

LEMMA OthersKeep ==
    ASSUME CardInv, NEW p \in Procs,
           \/ CliRequest(p)
           \/ \E id \in Ids, s \in {"global", "overlay"} : Rescope(p, id, s)
    PROVE  CardInv' /\ UNCHANGED <<file, fileOk>>
<1>1. ASSUME NEW t \in Texts, NEW k \in {"global", "overlay"},
             CliAdd(p, t, "active", k)
      PROVE  CardInv' /\ UNCHANGED <<file, fileOk>>
  <2>1. "active" \in S!Statuses
    BY DEF S!Statuses
  <2> QED
    BY <1>1, <2>1, CreateIsValid, SingleOp, ServeKeeps DEF CliAdd
<1>2. ASSUME NEW cards \in Imports, NEW verified \in SUBSET DOMAIN cards,
             CliImport(p, cards, verified)
      PROVE  CardInv' /\ UNCHANGED <<file, fileOk>>
  <2>1. Merge(FreshCards(cards, verified)) \in ValidOps
    BY DEF ValidOps, Prepared
  <2> QED
    BY <1>2, <2>1, SingleOp, ServeKeeps DEF CliImport
<1>3. ASSUME NEW id \in Ids, NEW s \in {"global", "overlay"}, Rescope(p, id, s)
      PROVE  CardInv' /\ UNCHANGED <<file, fileOk>>
  <2>1. Patch(id, "scope", s) \in ValidOps
    BY DEF ValidOps
  <2> QED
    BY <1>3, <2>1, SingleOp, ServeKeeps DEF Rescope
<1> QED
  BY <1>1, <1>2, <1>3 DEF CliRequest

-----------------------------------------------------------------------------
(* The refinement *)

LEMMA CardInvHolds == CardsInit => CardInv
<1> SUFFICES ASSUME CardsInit PROVE CardInv
  OBVIOUS
<1>1. Shapes
  BY DEF CardsInit, Shapes
<1>2. FileOK
  BY DEF CardsInit, FileOK
<1>3. LockOK
  BY DEF CardsInit, LockOK
<1> QED
  BY <1>1, <1>2, <1>3 DEF CardInv

\* Every step of the processes keeps the invariant and is, on the file, a step
\* of the store or none.
LEMMA CardsStep ==
    ASSUME CardInv, [CardsNext]_cardVars
    PROVE  CardInv' /\ [S!StoreNext]_<<file, fileOk>>
<1>1. CASE GatewayRequest
  BY <1>1, GatewayKeeps
<1>2. ASSUME NEW p \in Clis, CliRequest(p)
      PROVE  CardInv' /\ UNCHANGED <<file, fileOk>>
  BY <1>2, OthersKeep DEF Procs
<1>3. ASSUME NEW p \in Procs, CardsLock(p)
      PROVE  CardInv' /\ UNCHANGED <<file, fileOk>>
  BY <1>3, LockKeeps DEF CardsLock
<1>4. ASSUME NEW p \in Procs, ImportRefused(p)
      PROVE  CardInv' /\ UNCHANGED <<file, fileOk>>
  BY <1>4, FreeStepsKeep DEF ImportRefused
<1>5. ASSUME NEW p \in Procs, CardsSave(p)
      PROVE  CardInv' /\ [S!StoreNext]_<<file, fileOk>>
  BY <1>5, SaveWrites, UnlockKeeps DEF CardsSave
<1>6. ASSUME NEW p \in Procs, SaveFails(p)
      PROVE  CardInv' /\ UNCHANGED <<file, fileOk>>
  <2>1. UNCHANGED <<file, fileOk, drawn>> /\ Unlock(p)
    BY <1>6 DEF SaveFails
  <2>2. FileOK'
    BY <2>1 DEF CardInv, FileOK
  <2> QED
    BY <2>1, <2>2, UnlockKeeps
<1>7. ASSUME NEW p \in Procs, CardsCrash(p)
      PROVE  CardInv' /\ UNCHANGED <<file, fileOk>>
  BY <1>7, CrashKeeps DEF CardsCrash
<1>8. ASSUME NEW p \in Procs,
             \E id \in Ids, s \in {"global", "overlay"} : Rescope(p, id, s)
      PROVE  CardInv' /\ UNCHANGED <<file, fileOk>>
  BY <1>8, OthersKeep
<1>9. CASE FlipReadable
  <2>1. S!Flip
    BY <1>9 DEF FlipReadable, S!Flip
  <2> QED
    BY <1>9, <2>1, FreeStepsKeep DEF S!StoreNext
<1>10. CASE UNCHANGED cardVars
  BY <1>10 DEF cardVars, CardInv, Shapes, FileOK, LockOK, Load
<1> QED
  BY <1>1, <1>2, <1>3, <1>4, <1>5, <1>6, <1>7, <1>8, <1>9, <1>10
  DEF CardsNext, Transact

\* Whatever the gateway and the `clozn memory` commands interleave, and wherever
\* they crash, each change of the card file is one operation of the abstract
\* store applied to the cards that were there.
THEOREM CardsImplementStore == CardsSpec => CardsAreAtomic
<1>1. CardsInit => S!StoreInit
  BY DEF CardsInit, S!StoreInit
<1>2. CardInv /\ [CardsNext]_cardVars => CardInv' /\ [S!StoreNext]_<<file, fileOk>>
  BY CardsStep
<1> QED
  BY <1>1, <1>2, CardInvHolds, PTL DEF CardsSpec, CardsAreAtomic, S!StoreSpec

-----------------------------------------------------------------------------
(* No card comes in by a side door: the invariant *)

Backed(id) == ~Unbacked(file[id]) \/ id \in ungated

\* An unbacked card is only ever created as pending, by a request of the
\* gateway.
CreateOK(p, req, op) ==
    op.kind = "create" /\ Unbacked(op.with)
    => op.with.status = "pending" /\ p = Gateway /\ req \in {"add", "propose"}

\* Only /memory/enable and /memory/approve make a card active, and what approve
\* is about to make active has a quote or came in by a way that has no gate.
ActiveOK(p, req, op, unseen) ==
    op.kind = "status" /\ op.with = "active"
    => /\ p = Gateway /\ req \in {"enable", "approve"}
       /\ req = "approve" /\ op.id \in DOMAIN file => unseen \/ Backed(op.id)

GateInv ==
    \A p \in Procs : \A i \in DOMAIN txTodo[p] :
        /\ CreateOK(p, cardReq[p], txTodo[p][i])
        /\ ActiveOK(p, cardReq[p], txTodo[p][i], blind)

\* A seeding has one card for each rule, and none for a rule that is seeded.
Seeding(todo, unseen) ==
    /\ \A i \in DOMAIN todo : todo[i].kind = "create"
    /\ \A i, j \in DOMAIN todo : todo[i].with.text = todo[j].with.text => i = j
    /\ unseen \/ \A i \in DOMAIN todo, e \in seeded : e.text # todo[i].with.text

SeedInv ==
    /\ \A e \in seeded : e.id \in DOMAIN file
    /\ \A p \in Procs :
          cardReq[p] = "seed" => p = Gateway /\ Seeding(txTodo[p], blind)

DoorInv == GateInv /\ SeedInv /\ ApprovalNeedsProvenance /\ SeededOnce

-----------------------------------------------------------------------------
(* Requests *)

\* A request that asks for nothing the gates forbid, and a seeding that found no
\* card, open no side door.
LEMMA ServeDoor ==
    ASSUME CardInv, DoorInv, NEW p \in Procs, NEW req,
           NEW todo, Serve(p, req, todo),
           blind => blind',
           \A i \in DOMAIN todo : /\ CreateOK(p, req, todo[i])
                                  /\ ActiveOK(p, req, todo[i], blind'),
           req = "seed" => p = Gateway /\ Seeding(todo, blind')
    PROVE  DoorInv'
<1>1. /\ file' = file /\ ungated' = ungated /\ seeded' = seeded
      /\ txTodo'[p] = todo
      /\ cardReq'[p] = IF todo = <<>> THEN "none" ELSE req
      /\ \A q \in Procs : q # p => cardReq'[q] = cardReq[q] /\ txTodo'[q] = txTodo[q]
  BY DEF CardInv, Shapes, Serve
<1>2. \A q \in Procs : q # p =>
          /\ \A i \in DOMAIN txTodo'[q] :
                /\ CreateOK(q, cardReq'[q], txTodo'[q][i])
                /\ ActiveOK(q, cardReq'[q], txTodo'[q][i], blind')
          /\ cardReq'[q] = "seed" => q = Gateway /\ Seeding(txTodo'[q], blind')
  BY <1>1 DEF DoorInv, GateInv, SeedInv, ActiveOK, Seeding
<1>3. \A i \in DOMAIN txTodo'[p] : /\ CreateOK(p, cardReq'[p], txTodo'[p][i])
                                   /\ ActiveOK(p, cardReq'[p], txTodo'[p][i], blind')
  <2>1. CASE todo = <<>>
    BY <1>1, <2>1
  <2>2. CASE todo # <<>>
    BY <1>1, <2>2
  <2> QED
    BY <2>1, <2>2
<1>4. cardReq'[p] = "seed" => p = Gateway /\ Seeding(txTodo'[p], blind')
  BY <1>1
<1>5. GateInv'
  <2> SUFFICES ASSUME NEW q \in Procs, NEW i \in DOMAIN txTodo'[q]
               PROVE  /\ CreateOK(q, cardReq'[q], txTodo'[q][i])
                      /\ ActiveOK(q, cardReq'[q], txTodo'[q][i], blind')
    BY <1>1 DEF GateInv, CreateOK, ActiveOK, Backed
  <2> QED
    BY <1>2, <1>3
<1>6. SeedInv'
  <2> SUFFICES ASSUME NEW q \in Procs, cardReq'[q] = "seed"
               PROVE  q = Gateway /\ Seeding(txTodo'[q], blind')
    BY <1>1 DEF DoorInv, SeedInv, Seeding
  <2> QED
    BY <1>2, <1>4
<1>7. ApprovalNeedsProvenance' /\ SeededOnce'
  BY <1>1 DEF DoorInv, ApprovalNeedsProvenance, SeededOnce
<1> QED
  BY <1>5, <1>6, <1>7 DEF DoorInv

\* A single operation that neither creates an unbacked card nor activates one.
LEMMA PlainDoor ==
    ASSUME CardInv, DoorInv, NEW p \in Procs, NEW req, req # "seed", NEW op,
           Serve(p, req, <<op>>), blind => blind',
           CreateOK(p, req, op), ActiveOK(p, req, op, blind')
    PROVE  DoorInv'
<1>1. \A i \in DOMAIN <<op>> : <<op>>[i] = op
  OBVIOUS
<1> QED
  BY <1>1, ServeDoor

\* migrate_from_rules creates one card per rule, and only when it found no card:
\* then nothing that was seeded is left.
LEMMA SeedDoor ==
    ASSUME CardInv, DoorInv, SeedLegacy
    PROVE  DoorInv'
<1> DEFINE creates == [i \in 1..Cardinality(Legacy) |->
                          Create(NewCard(SetToSeq(Legacy)[i], "active", "global",
                                         FALSE, FALSE))]
           todo == IF DOMAIN Load # {} THEN <<>> ELSE creates
<1>1. IsFiniteSet(Legacy)
  BY CardsAssumption, FS_Subset DEF CardsAssumption
<1>2. /\ DOMAIN creates = 1..Cardinality(Legacy)
      /\ \A i \in DOMAIN creates :
            /\ creates[i].kind = "create" /\ ~Unbacked(creates[i].with)
            /\ creates[i].with.text = SetToSeq(Legacy)[i]
  BY DEF Create, NewCard, Op, Unbacked
<1>3. \A i, j \in DOMAIN creates : creates[i].with.text = creates[j].with.text => i = j
  <2> HIDE DEF creates
  <2> QED
    BY <1>1, <1>2, SetToSeqType
<1>4. /\ Serve(Gateway, "seed", todo) /\ blind' = (blind \/ ~fileOk)
  BY DEF SeedLegacy, Blind
<1>5. blind' \/ todo = <<>> \/ seeded = {}
  <2>1. CASE ~fileOk
    BY <1>4, <2>1
  <2>2. CASE fileOk /\ DOMAIN Load # {}
    BY <2>2
  <2>3. CASE fileOk /\ DOMAIN Load = {}
    <3>1. DOMAIN file = {}
      BY <2>3 DEF Load
    <3> QED
      BY <3>1 DEF DoorInv, SeedInv
  <2> QED
    BY <2>1, <2>2, <2>3
<1>6. /\ \A i \in DOMAIN todo : todo[i].kind = "create" /\ ~Unbacked(todo[i].with)
      /\ \A i, j \in DOMAIN todo : todo[i].with.text = todo[j].with.text => i = j
  <2> HIDE DEF creates
  <2>1. CASE todo = <<>>
    <3> HIDE DEF todo
    <3> QED
      BY <2>1
  <2>2. CASE todo = creates
    <3> HIDE DEF todo
    <3> QED
      BY <1>2, <1>3, <2>2
  <2> QED
    BY <2>1, <2>2
<1> HIDE DEF todo
<1>7. Seeding(todo, blind')
  <2>1. CASE blind'
    BY <1>6, <2>1 DEF Seeding
  <2>2. CASE todo = <<>>
    BY <1>6, <2>2 DEF Seeding
  <2>3. CASE seeded = {}
    BY <1>6, <2>3 DEF Seeding
  <2> QED
    BY <1>5, <2>1, <2>2, <2>3
<1>8. \A i \in DOMAIN todo : /\ CreateOK(Gateway, "seed", todo[i])
                             /\ ActiveOK(Gateway, "seed", todo[i], blind')
  BY <1>6 DEF CreateOK, ActiveOK
<1>9. Gateway \in Procs /\ (blind => blind')
  BY <1>4 DEF Procs
<1> QED
  BY <1>4, <1>7, <1>8, <1>9, ServeDoor

\* A switch deletes cards and creates some that claim no run.
LEMMA SwitchDoor ==
    ASSUME CardInv, DoorInv, SwitchProfile
    PROVE  DoorInv'
<1> DEFINE globals == {id \in DOMAIN Load : file[id].scope = "global"}
           deletes == [i \in 1..Cardinality(globals) |->
                          Delete(SetToSeq(globals)[i])]
           creates == [i \in 1..Cardinality(Persona) |->
                          Create(NewCard(SetToSeq(Persona)[i], "active", "global",
                                         FALSE, FALSE))]
           todo == deletes \o creates
           Plain(op) == \/ op.kind = "delete"
                        \/ op.kind = "create" /\ ~Unbacked(op.with)
<1>1. \A i \in DOMAIN creates : Plain(creates[i])
  BY DEF Create, NewCard, Op, Unbacked
<1>2. \A i \in DOMAIN deletes : Plain(deletes[i])
  <2> SUFFICES ASSUME NEW i \in DOMAIN deletes PROVE deletes[i].kind = "delete"
    OBVIOUS
  <2> QED
    BY DEF Delete, Op
<1>3. IsFiniteSet(Persona) /\ IsFiniteSet(globals)
  <2>1. globals \subseteq Ids
    BY DEF CardInv, FileOK, Load
  <2> HIDE DEF globals
  <2> QED
    BY <2>1, CardsAssumption, FS_Subset DEF CardsAssumption
<1>4. Cardinality(Persona) \in Nat /\ Cardinality(globals) \in Nat
  BY <1>3, SetToSeqType
<1>5. /\ Len(deletes) = Cardinality(globals) /\ DOMAIN deletes = 1..Len(deletes)
      /\ Len(creates) = Cardinality(Persona) /\ DOMAIN creates = 1..Len(creates)
  <2> HIDE DEF globals
  <2> QED
    BY <1>4
<1> HIDE DEF globals, deletes, creates
<1>6. \A i \in DOMAIN todo : Plain(todo[i])
  <2> SUFFICES ASSUME NEW i \in DOMAIN todo PROVE Plain(todo[i])
    OBVIOUS
  <2> HIDE DEF Plain
  <2>1. i \in 1..(Len(deletes) + Len(creates))
    OBVIOUS
  <2>2. todo[i] = IF i <= Len(deletes) THEN deletes[i] ELSE creates[i - Len(deletes)]
    BY <2>1
  <2>3. CASE i <= Len(deletes)
    BY <1>2, <1>4, <1>5, <2>1, <2>2, <2>3
  <2>4. CASE i > Len(deletes)
    BY <1>1, <1>4, <1>5, <2>1, <2>2, <2>4
  <2> QED
    BY <1>4, <1>5, <2>1, <2>3, <2>4
<1>7. /\ Serve(Gateway, "switch", todo) /\ blind' = (blind \/ ~fileOk)
  BY DEF SwitchProfile, Blind, globals, deletes, creates
<1> HIDE DEF todo
<1>8. \A i \in DOMAIN todo : /\ CreateOK(Gateway, "switch", todo[i])
                             /\ ActiveOK(Gateway, "switch", todo[i], blind')
  BY <1>6 DEF CreateOK, ActiveOK
<1> QED
  BY <1>7, <1>8, ServeDoor DEF Procs

\* The handlers of the gateway.  Only add and propose create an unbacked card,
\* and it is pending; approve looks at the card before it asks for anything.
LEMMA GatewayDoor ==
    ASSUME CardInv, DoorInv, GatewayRequest
    PROVE  DoorInv'
<1>1. Gateway \in Procs
  BY DEF Procs
<1>2. CASE SeedLegacy
  BY <1>2, SeedDoor
<1>3. CASE SwitchProfile
  BY <1>3, SwitchDoor
<1>4. ASSUME NEW t \in Texts, NEW c \in BOOLEAN, NEW s \in {"global", "overlay"},
             AddPending(t, s, c)
      PROVE  DoorInv'
  <2> DEFINE op == Create(NewCard(t, "pending", s, c, FALSE))
  <2>1. op.kind = "create" /\ op.with.status = "pending"
    BY DEF Create, Op, NewCard
  <2>2. Serve(Gateway, "add", <<op>>) /\ blind' = blind
    BY <1>4 DEF AddPending
  <2> HIDE DEF op
  <2>3. CreateOK(Gateway, "add", op) /\ ActiveOK(Gateway, "add", op, blind')
    BY <2>1 DEF CreateOK, ActiveOK
  <2> QED
    BY <1>1, <2>2, <2>3, PlainDoor
<1>5. ASSUME NEW t \in Texts, NEW q \in BOOLEAN, Propose(t, q)
      PROVE  DoorInv'
  <2> DEFINE op == Create(NewCard(t, "pending", "global", TRUE, q))
  <2>1. op.kind = "create" /\ op.with.status = "pending"
    BY DEF Create, Op, NewCard
  <2>2. Serve(Gateway, "propose", <<op>>) /\ blind' = blind
    BY <1>5 DEF Propose
  <2> HIDE DEF op
  <2>3. CreateOK(Gateway, "propose", op) /\ ActiveOK(Gateway, "propose", op, blind')
    BY <2>1 DEF CreateOK, ActiveOK
  <2> QED
    BY <1>1, <2>2, <2>3, PlainDoor
<1>6. ASSUME NEW t \in Texts, NEW id \in Ids, EditCard(id, t)
      PROVE  DoorInv'
  <2> DEFINE op == Patch(id, "text", t)
  <2>1. op.kind = "text"
    BY DEF Patch, Op
  <2>2. Serve(Gateway, "edit", <<op>>) /\ blind' = blind
    BY <1>6 DEF EditCard
  <2> HIDE DEF op
  <2>3. CreateOK(Gateway, "edit", op) /\ ActiveOK(Gateway, "edit", op, blind')
    BY <2>1 DEF CreateOK, ActiveOK
  <2> QED
    BY <1>1, <2>2, <2>3, PlainDoor
<1>7. ASSUME NEW id \in Ids, Approve(id)
      PROVE  DoorInv'
  <2> DEFINE op == Patch(id, "status", "active")
             gated == id \in DOMAIN Load /\ Unbacked(file[id])
  <2>1. op.kind = "status" /\ op.id = id
    BY DEF Patch, Op
  <2>2. /\ Serve(Gateway, "approve", IF gated THEN <<>> ELSE <<op>>)
        /\ blind' = (blind \/ ~fileOk)
    BY <1>7 DEF Approve, Blind
  <2>3. ~gated /\ ~blind' /\ id \in DOMAIN file => Backed(id)
    BY <2>2 DEF Load, Backed
  <2> HIDE DEF op, gated
  <2>4. CASE gated
    <3>1. \A i \in DOMAIN <<>> : /\ CreateOK(Gateway, "approve", <<>>[i])
                                 /\ ActiveOK(Gateway, "approve", <<>>[i], blind')
      OBVIOUS
    <3> QED
      BY <1>1, <2>2, <2>4, <3>1, ServeDoor
  <2>5. CASE ~gated
    <3>1. CreateOK(Gateway, "approve", op) /\ ActiveOK(Gateway, "approve", op, blind')
      BY <2>1, <2>3, <2>5 DEF CreateOK, ActiveOK
    <3> QED
      BY <1>1, <2>2, <2>5, <3>1, PlainDoor
  <2> QED
    BY <2>4, <2>5
<1>8. ASSUME NEW id \in Ids, RemoveCard(id)
      PROVE  DoorInv'
  <2> DEFINE op == Delete(id)
  <2>1. op.kind = "delete"
    BY DEF Delete, Op
  <2>2. Serve(Gateway, "remove", <<op>>) /\ blind' = blind
    BY <1>8 DEF RemoveCard
  <2> HIDE DEF op
  <2>3. CreateOK(Gateway, "remove", op) /\ ActiveOK(Gateway, "remove", op, blind')
    BY <2>1 DEF CreateOK, ActiveOK
  <2> QED
    BY <1>1, <2>2, <2>3, PlainDoor
<1>9. ASSUME NEW id \in Ids, NEW req \in {"enable", "disable", "reject"}, NEW status,
             status = "active" => req = "enable", SetStatus(id, req, status)
      PROVE  DoorInv'
  <2> DEFINE op == Patch(id, "status", status)
  <2>1. op.kind = "status" /\ op.with = status
    BY DEF Patch, Op
  <2>2. Serve(Gateway, req, <<op>>) /\ blind' = blind
    BY <1>9 DEF SetStatus
  <2> HIDE DEF op
  <2>3. CreateOK(Gateway, req, op) /\ ActiveOK(Gateway, req, op, blind')
    BY <1>9, <2>1 DEF CreateOK, ActiveOK
  <2> QED
    BY <1>1, <2>2, <2>3, PlainDoor
<1> QED
  BY <1>2, <1>3, <1>4, <1>5, <1>6, <1>7, <1>8, <1>9 DEF GatewayRequest

\* `clozn memory add` claims no run; imports and scopes activate nothing here.
LEMMA OthersDoor ==
    ASSUME CardInv, DoorInv, NEW p \in Procs,
           \/ CliRequest(p)
           \/ \E id \in Ids, s \in {"global", "overlay"} : Rescope(p, id, s)
    PROVE  DoorInv'
<1>1. ASSUME NEW t \in Texts, NEW k \in {"global", "overlay"},
             CliAdd(p, t, "active", k)
      PROVE  DoorInv'
  <2> DEFINE op == Create(NewCard(t, "active", k, FALSE, FALSE))
  <2>1. op.kind = "create" /\ ~Unbacked(op.with)
    BY DEF Create, Op, NewCard, Unbacked
  <2>2. Serve(p, "add", <<op>>) /\ blind' = blind
    BY <1>1 DEF CliAdd
  <2> HIDE DEF op
  <2>3. CreateOK(p, "add", op) /\ ActiveOK(p, "add", op, blind')
    BY <2>1 DEF CreateOK, ActiveOK
  <2> QED
    BY <2>2, <2>3, PlainDoor
<1>2. ASSUME NEW cards \in Imports, NEW verified \in SUBSET DOMAIN cards,
             CliImport(p, cards, verified)
      PROVE  DoorInv'
  <2> DEFINE op == Merge(FreshCards(cards, verified))
  <2>1. op.kind = "import"
    BY DEF Merge, Op
  <2>2. Serve(p, "import", <<op>>) /\ blind' = blind
    BY <1>2 DEF CliImport
  <2> HIDE DEF op
  <2>3. CreateOK(p, "import", op) /\ ActiveOK(p, "import", op, blind')
    BY <2>1 DEF CreateOK, ActiveOK
  <2> QED
    BY <2>2, <2>3, PlainDoor
<1>3. ASSUME NEW id \in Ids, NEW s \in {"global", "overlay"}, Rescope(p, id, s)
      PROVE  DoorInv'
  <2> DEFINE op == Patch(id, "scope", s)
  <2>1. op.kind = "scope"
    BY DEF Patch, Op
  <2>2. Serve(p, "scope", <<op>>) /\ blind' = (blind \/ ~fileOk)
    BY <1>3 DEF Rescope, Blind
  <2> HIDE DEF op
  <2>3. CreateOK(p, "scope", op) /\ ActiveOK(p, "scope", op, blind')
    BY <2>1 DEF CreateOK, ActiveOK
  <2> QED
    BY <2>2, <2>3, PlainDoor
<1> QED
  BY <1>1, <1>2, <1>3 DEF CliRequest

-----------------------------------------------------------------------------
(* Transactions *)

\* When a transaction is done, what is left to do was to be done before, for the
\* same request.
Later(p, q) == IF q = p THEN 1 ELSE 0

LEMMA DoneShifts ==
    ASSUME CardInv, NEW p \in Procs, txTodo[p] # <<>>, Done(p), NEW q \in Procs
    PROVE  /\ \A i \in DOMAIN txTodo'[q] :
                 /\ i \in Nat \ {0} /\ i + Later(p, q) \in DOMAIN txTodo[q]
                 /\ txTodo'[q][i] = txTodo[q][i + Later(p, q)]
                 /\ cardReq'[q] = cardReq[q]
           /\ cardReq'[q] = "seed" => cardReq[q] = "seed"
<1>1. /\ txTodo'[p] = Tail(txTodo[p])
      /\ cardReq'[p] = IF Len(txTodo[p]) = 1 THEN "none" ELSE cardReq[p]
      /\ q # p => cardReq'[q] = cardReq[q] /\ txTodo'[q] = txTodo[q]
  BY DEF CardInv, Shapes, Done
<1>2. txTodo[q] \in Seq(ValidOps)
  BY DEF CardInv, Shapes
<1>3. CASE q # p
  BY <1>1, <1>2, <1>3 DEF Later
<1>4. CASE q = p
  <2>1. Len(txTodo[p]) \in Nat \ {0}
    BY <1>2, <1>4, EmptySeq
  <2>2. /\ Len(Tail(txTodo[p])) = Len(txTodo[p]) - 1
        /\ DOMAIN Tail(txTodo[p]) = 1..(Len(txTodo[p]) - 1)
        /\ \A i \in 1..(Len(txTodo[p]) - 1) : Tail(txTodo[p])[i] = txTodo[p][i + 1]
    BY <1>2, <1>4, <2>1, HeadTailProperties
  <2>3. DOMAIN txTodo[p] = 1..Len(txTodo[p])
    BY <1>2, <1>4
  <2>4. Later(p, q) = 1
    BY <1>4 DEF Later
  <2>5. ASSUME NEW i \in DOMAIN txTodo'[q]
        PROVE  /\ i \in Nat \ {0} /\ i + 1 \in DOMAIN txTodo[q]
               /\ txTodo'[q][i] = txTodo[q][i + 1]
               /\ cardReq'[q] = cardReq[q]
    <3>1. i \in 1..(Len(txTodo[p]) - 1)
      BY <1>1, <1>4, <2>2, <2>5
    <3> DEFINE n == Len(txTodo[p])
    <3>2. i \in Nat \ {0} /\ i + 1 \in 1..n /\ n # 1
      <4>1. n \in Nat \ {0} /\ i \in 1..(n - 1)
        BY <2>1, <3>1
      <4> HIDE DEF n
      <4> QED
        BY <4>1
    <3> QED
      BY <1>1, <1>4, <2>2, <2>3, <3>1, <3>2
  <2>6. cardReq'[q] = "seed" => cardReq[q] = "seed"
    BY <1>1, <1>4
  <2> QED
    BY <2>4, <2>5, <2>6
<1> QED
  BY <1>3, <1>4

\* What becomes of a card when the file is written: it is an old card whose
\* provenance is as it was, and whose status is as it was unless this very
\* transaction sets it; or it is the card that is created, under an id that was
\* never drawn; or it is imported.
Survives(id, op) ==
    /\ id \in DOMAIN file
    /\ Unbacked(file'[id]) = Unbacked(file[id])
    /\ \/ file'[id].status = file[id].status
       \/ op.kind = "status" /\ op.id = id /\ file'[id].status = op.with

LEMMA SaveShape ==
    ASSUME CardInv, NEW p \in Procs, CardsSave(p)
    PROVE  LET op == txTodo[p][1]
           IN  /\ txTodo[p] # <<>> /\ 1 \in DOMAIN txTodo[p]
               /\ \A id \in DOMAIN file' :
                     \/ Survives(id, op)
                     \/ op.kind = "create" /\ file'[id] = op.with
                     \/ op.kind = "import" /\ ~Unbacked(file'[id])
               /\ op.kind = "create" =>
                     \E id : id \in DOMAIN file' /\ drawn' \ drawn = {id}
<1> DEFINE op == txTodo[p][1]
           loaded == Load
<1>1. /\ txCopy[p] = <<loaded>> /\ txCopy[p][1] = loaded
      /\ txTodo[p] # <<>> /\ 1 \in DOMAIN txTodo[p]
      /\ op \in ValidOps
      /\ op.kind = "import" => fileOk
  <2>1. txCopy[p] # <<>>
    BY DEF CardsSave, Unlock
  <2>2. /\ txCopy[p] = <<Load>> /\ txTodo[p] # <<>>
        /\ txTodo[p][1].kind = "import" => fileOk
    BY <2>1 DEF CardInv, LockOK
  <2>3. txTodo[p] \in Seq(ValidOps)
    BY DEF CardInv, Shapes
  <2>4. txTodo[p][1] \in ValidOps
    BY <2>2, <2>3, FirstIsElement
  <2>5. txCopy[p][1] = Load
    BY <2>2
  <2>6. 1 \in DOMAIN txTodo[p]
    <3>1. Len(txTodo[p]) \in Nat \ {0} /\ DOMAIN txTodo[p] = 1..Len(txTodo[p])
      BY <2>2, <2>3, EmptySeq
    <3> QED
      BY <3>1
  <2> QED
    BY <2>2, <2>4, <2>5, <2>6
<1>2. /\ loaded \in [DOMAIN loaded -> S!Card] /\ DOMAIN loaded \subseteq DOMAIN file
      /\ DOMAIN loaded \subseteq Ids
      /\ \A id \in DOMAIN loaded : loaded[id] = file[id]
      /\ fileOk => loaded = file
      /\ DOMAIN file \subseteq drawn /\ drawn \subseteq Ids
  BY DEF Load, CardInv, FileOK
<1> HIDE DEF op, loaded
<1>3. PICK id \in (IF op.kind = "create" THEN {FreshId} \cap Ids ELSE {Nobody}) :
          LET out == Rewritten(op, id, loaded)
          IN  /\ drawn' = IF op.kind = "create" THEN drawn \cup {id}
                          ELSE drawn \cup DOMAIN out
              /\ file' = IF out = loaded THEN file ELSE out
  BY <1>1 DEF CardsSave, op
<1> DEFINE out == Rewritten(op, id, loaded)
           Fate(i, f) ==
               \/ /\ i \in DOMAIN file
                  /\ Unbacked(f[i]) = Unbacked(file[i])
                  /\ \/ f[i].status = file[i].status
                     \/ op.kind = "status" /\ op.id = i /\ f[i].status = op.with
               \/ op.kind = "create" /\ f[i] = op.with
               \/ op.kind = "import" /\ ~Unbacked(f[i])
<1>4. ASSUME \A i \in DOMAIN out : Fate(i, out)
      PROVE  \A i \in DOMAIN file' : Fate(i, file')
  <2> HIDE DEF out
  <2>1. file' = IF out = loaded THEN file ELSE out
    BY <1>3 DEF out
  <2>2. CASE file' = file
    BY <2>2
  <2>3. CASE file' = out
    BY <1>4, <2>3
  <2> QED
    BY <2>1, <2>2, <2>3
<1>5. /\ \A i \in DOMAIN out : Fate(i, out)
      /\ op.kind = "create" =>
            /\ id \in DOMAIN out /\ id \notin drawn /\ out # loaded
  <2>1. CASE op.kind = "create"
    <3>1. id = FreshId /\ id \in Ids
      BY <1>3, <2>1
    <3>2. \E i \in Ids \cup {Nobody} : i \notin drawn /\ (i = Nobody => Ids \subseteq drawn)
      BY <1>2, CardsAssumption DEF CardsAssumption
    <3>3. id \notin drawn
      BY <3>1, <3>2, CardsAssumption DEF FreshId, CardsAssumption
    <3>4. out = S!With(loaded, id, op.with)
      BY <2>1 DEF Rewritten
    <3> HIDE DEF out
    <3>5. /\ DOMAIN out = DOMAIN loaded \cup {id} /\ out[id] = op.with
          /\ \A i \in DOMAIN loaded : out[i] = loaded[i]
      BY <3>3, <3>4, <1>2 DEF S!With
    <3> QED
      BY <2>1, <3>3, <3>5, <1>2
  <2>2. CASE op.kind = "delete"
    <3>1. out = [i \in DOMAIN loaded \ {op.id} |-> loaded[i]]
      BY <2>2 DEF Rewritten
    <3> HIDE DEF out
    <3> QED
      BY <2>2, <3>1, <1>2
  <2>3. CASE op.kind = "import" /\ op.with \in Prepared
    <3>1. out = Merged(op.with, loaded)
      BY <2>3 DEF Rewritten
    <3> HIDE DEF out
    <3>2. /\ \A i \in DOMAIN loaded : out[i] = loaded[i]
          /\ \A i \in DOMAIN out \ DOMAIN loaded : ~Unbacked(out[i])
          /\ loaded = file
      BY <1>1, <1>2, <2>3, <3>1, MergedExtends
    <3> QED
      BY <2>3, <3>2
  <2>4. CASE op.kind \in {"status", "text", "scope"}
    <3>1. out = [i \in DOMAIN loaded |-> IF i = op.id THEN Patched(op, loaded[i])
                                         ELSE loaded[i]]
      BY <2>4 DEF Rewritten
    <3> HIDE DEF out
    <3> SUFFICES ASSUME NEW i \in DOMAIN loaded PROVE Fate(i, out)
      BY <2>4, <3>1
    <3>2. i \in DOMAIN file /\ loaded[i] = file[i] /\ loaded[i] \in S!Card
      BY <1>2
    <3>3. CASE i # op.id
      BY <3>1, <3>2, <3>3
    <3>4. CASE i = op.id
      <4>1. out[i] = Patched(op, loaded[i])
        BY <3>1, <3>4
      <4>2. S!Provenance(out[i]) = S!Provenance(loaded[i])
        BY <4>1, <1>1, <2>4, <3>2, OpKinds, PatchKeeps
      <4>3. Unbacked(out[i]) = Unbacked(file[i])
        BY <4>2, <3>2 DEF S!Provenance, Unbacked
      <4>4. \/ out[i].status = file[i].status
            \/ op.kind = "status" /\ out[i].status = op.with
        BY <4>1, <3>2 DEF Patched, S!Card
      <4> QED
        BY <3>2, <3>4, <4>3, <4>4
    <3> QED
      BY <3>3, <3>4
  <2> QED
    BY <1>1, <2>1, <2>2, <2>3, <2>4, OpKinds
<1>6. \A i \in DOMAIN file' : Fate(i, file')
  BY <1>4, <1>5
<1>7. ASSUME op.kind = "create"
      PROVE  \E i : i \in DOMAIN file' /\ drawn' \ drawn = {i}
  <2>1. file' = out
    BY <1>3, <1>5, <1>7
  <2>2. drawn' \ drawn = {id}
    BY <1>3, <1>5, <1>7
  <2> HIDE DEF out
  <2> QED
    BY <1>5, <1>7, <2>1, <2>2
<1> QED
  BY <1>1, <1>6, <1>7 DEF Survives, op

\* A save opens no side door: the card it creates or activates was allowed when
\* the request started and still is, and no card another request is about to
\* approve loses its quote.
LEMMA SaveDoor ==
    ASSUME CardInv, DoorInv, NEW p \in Procs, CardsSave(p)
    PROVE  DoorInv'
<1> DEFINE op == txTodo[p][1]
<1>1. /\ txTodo[p] # <<>> /\ 1 \in DOMAIN txTodo[p]
      /\ \A id \in DOMAIN file' :
            \/ Survives(id, op)
            \/ op.kind = "create" /\ file'[id] = op.with
            \/ op.kind = "import" /\ ~Unbacked(file'[id])
      /\ op.kind = "create" => \E id : id \in DOMAIN file' /\ drawn' \ drawn = {id}
  BY SaveShape
<1>2. /\ CreateOK(p, cardReq[p], op) /\ ActiveOK(p, cardReq[p], op, blind)
  BY <1>1 DEF DoorInv, GateInv
<1>3. Done(p)
  BY DEF CardsSave, Unlock
<1>4. /\ blind' = blind
      /\ ungated' = DOMAIN file' \cap
                    (ungated \cup IF cardReq[p] = "enable" THEN {op.id} ELSE {})
      /\ seeded' = {e \in seeded : e.id \in DOMAIN file'} \cup
                   (IF cardReq[p] = "seed"
                    THEN {[id |-> id, text |-> op.with.text] : id \in drawn' \ drawn}
                    ELSE {})
  BY DEF CardsSave
<1>5. \A q \in Procs :
          /\ \A i \in DOMAIN txTodo'[q] :
                /\ i \in Nat \ {0} /\ i + Later(p, q) \in DOMAIN txTodo[q]
                /\ txTodo'[q][i] = txTodo[q][i + Later(p, q)]
                /\ cardReq'[q] = cardReq[q]
          /\ cardReq'[q] = "seed" => cardReq[q] = "seed"
  BY <1>1, <1>3, DoneShifts
<1> HIDE DEF op
<1>6. \A id \in DOMAIN file' :
          \/ id \in DOMAIN file /\ (Backed(id) => Backed(id)')
          \/ op.kind = "create" /\ file'[id] = op.with
          \/ Backed(id)'
  <2> SUFFICES ASSUME NEW id \in DOMAIN file',
                      \/ Survives(id, op)
                      \/ op.kind = "import" /\ ~Unbacked(file'[id])
               PROVE  \/ id \in DOMAIN file /\ (Backed(id) => Backed(id)')
                      \/ Backed(id)'
    BY <1>1
  <2>1. CASE Survives(id, op)
    <3>1. id \in ungated => id \in ungated'
      BY <1>4
    <3> QED
      BY <2>1, <3>1 DEF Survives, Backed
  <2>2. CASE op.kind = "import" /\ ~Unbacked(file'[id])
    BY <2>2 DEF Backed
  <2> QED
    BY <2>1, <2>2
<1> DEFINE BackedNow(id) == ~Unbacked(file'[id]) \/ id \in ungated'
<1>7. ASSUME NEW q \in Procs, NEW i \in DOMAIN txTodo'[q], NEW todo,
             todo = txTodo'[q][i]
      PROVE  /\ CreateOK(q, cardReq'[q], todo)
             /\ todo.kind = "status" /\ todo.with = "active" =>
                   /\ q = Gateway /\ cardReq'[q] \in {"enable", "approve"}
                   /\ cardReq'[q] = "approve" /\ todo.id \in DOMAIN file'
                         => blind \/ BackedNow(todo.id)
  <2>1. todo = txTodo[q][i + Later(p, q)] /\ cardReq'[q] = cardReq[q]
    BY <1>5, <1>7
  <2>2. CreateOK(q, cardReq[q], todo) /\ ActiveOK(q, cardReq[q], todo, blind)
    BY <1>5, <1>7, <2>1 DEF DoorInv, GateInv
  <2>3. ASSUME todo.kind = "status", todo.with = "active",
               cardReq[q] = "approve", todo.id \in DOMAIN file', ~blind
        PROVE  BackedNow(todo.id)
    <3>1. q = Gateway /\ (todo.id \in DOMAIN file => Backed(todo.id))
      BY <2>2, <2>3 DEF ActiveOK
    <3>2. op.kind = "create" /\ Unbacked(op.with) => p = q /\ cardReq[p] # "approve"
      BY <1>2, <3>1 DEF CreateOK
    <3> QED
      BY <1>6, <2>3, <3>1, <3>2 DEF Backed
  <2> QED
    BY <2>1, <2>2, <2>3 DEF ActiveOK
<1>8. GateInv'
  BY <1>4, <1>7 DEF GateInv, CreateOK, ActiveOK, Backed
<1>9. ApprovalNeedsProvenance'
  <2> SUFFICES ASSUME ~blind, NEW id \in DOMAIN file', Unbacked(file'[id]),
                      file'[id].status = "active"
               PROVE  id \in ungated'
    BY <1>4 DEF ApprovalNeedsProvenance
  <2>1. CASE Survives(id, op)
    <3>1. CASE file'[id].status = file[id].status
      <4>1. id \in ungated
        BY <2>1, <3>1 DEF Survives, DoorInv, ApprovalNeedsProvenance
      <4> QED
        BY <1>4, <4>1
    <3>2. CASE op.kind = "status" /\ op.id = id /\ file'[id].status = op.with
      <4>1. cardReq[p] \in {"enable", "approve"}
        BY <1>2, <3>2 DEF ActiveOK
      <4>2. CASE cardReq[p] = "enable"
        BY <1>4, <3>2, <4>2
      <4>3. CASE cardReq[p] = "approve"
        <5>1. Backed(id)
          BY <1>2, <2>1, <3>2, <4>3 DEF ActiveOK, Survives
        <5>2. id \in ungated
          BY <2>1, <5>1 DEF Backed, Survives
        <5> QED
          BY <1>4, <5>2
      <4> QED
        BY <4>1, <4>2, <4>3
    <3> QED
      BY <2>1, <3>1, <3>2 DEF Survives
  <2>2. CASE op.kind = "create" /\ file'[id] = op.with
    BY <1>2, <2>2 DEF CreateOK
  <2>3. CASE op.kind = "import" /\ ~Unbacked(file'[id])
    BY <2>3
  <2> QED
    BY <1>1, <2>1, <2>2, <2>3
<1>10. ASSUME cardReq[p] = "seed"
       PROVE  /\ op.kind = "create" /\ op = txTodo[p][1] /\ p = Gateway
              /\ Seeding(txTodo[p], blind)
              /\ \E id \in DOMAIN file' :
                    seeded' = {e \in seeded : e.id \in DOMAIN file'} \cup
                              {[id |-> id, text |-> op.with.text]}
  <2>1. p = Gateway /\ Seeding(txTodo[p], blind)
    BY <1>10 DEF DoorInv, SeedInv
  <2>2. op = txTodo[p][1] /\ op.kind = "create"
    BY <1>1, <2>1 DEF Seeding, op
  <2>3. PICK id : id \in DOMAIN file' /\ drawn' \ drawn = {id}
    BY <1>1, <2>2
  <2>4. seeded' = {e \in seeded : e.id \in DOMAIN file'} \cup
                  {[id |-> id, text |-> op.with.text]}
    BY <1>4, <1>10, <2>3
  <2> QED
    BY <2>1, <2>2, <2>3, <2>4
<1>11. SeedInv'
  <2>1. \A e \in seeded' : e.id \in DOMAIN file'
    BY <1>4, <1>10
  <2>2. ASSUME NEW q \in Procs, cardReq'[q] = "seed"
        PROVE  /\ q = Gateway
               /\ \A i \in DOMAIN txTodo'[q] : txTodo'[q][i].kind = "create"
               /\ \A i, j \in DOMAIN txTodo'[q] :
                     txTodo'[q][i].with.text = txTodo'[q][j].with.text => i = j
               /\ blind \/ \A i \in DOMAIN txTodo'[q], e \in seeded' :
                              e.text # txTodo'[q][i].with.text
    <3>1. q = Gateway /\ cardReq[q] = "seed" /\ Seeding(txTodo[q], blind)
      BY <1>5, <2>2 DEF DoorInv, SeedInv
    <3>2. \A i \in DOMAIN txTodo'[q] : txTodo'[q][i].kind = "create"
      BY <1>5, <3>1 DEF Seeding
    <3>3. ASSUME NEW i \in DOMAIN txTodo'[q], NEW j \in DOMAIN txTodo'[q],
                 txTodo'[q][i].with.text = txTodo'[q][j].with.text
          PROVE  i = j
      <4>1. i + Later(p, q) = j + Later(p, q)
        BY <1>5, <3>1, <3>3 DEF Seeding
      <4>2. i \in Nat /\ j \in Nat /\ Later(p, q) \in Nat
        BY <1>5 DEF Later
      <4> QED
        BY <4>1, <4>2
    <3>4. ASSUME ~blind, NEW i \in DOMAIN txTodo'[q], NEW e \in seeded'
          PROVE  e.text # txTodo'[q][i].with.text
      <4>1. /\ i \in Nat \ {0} /\ i + Later(p, q) \in DOMAIN txTodo[q]
            /\ txTodo'[q][i] = txTodo[q][i + Later(p, q)]
        BY <1>5, <3>4
      <4>2. CASE e \in seeded
        BY <3>1, <3>4, <4>1, <4>2 DEF Seeding
      <4>3. CASE e \notin seeded
        <5>1. cardReq[p] = "seed"
          BY <1>4, <3>4, <4>3
        <5>2. /\ p = q /\ op = txTodo[q][1]
              /\ e.text = op.with.text
          <6>1. p = q /\ op = txTodo[q][1]
            BY <1>10, <3>1, <5>1
          <6>2. PICK id \in DOMAIN file' :
                    seeded' = {x \in seeded : x.id \in DOMAIN file'} \cup
                              {[id |-> id, text |-> op.with.text]}
            BY <1>10, <5>1
          <6>3. e = [id |-> id, text |-> op.with.text]
            BY <3>4, <4>3, <6>2
          <6> QED
            BY <6>1, <6>3
        <5>3. Later(p, q) = 1 /\ i + 1 # 1
          BY <1>5, <3>4, <4>1, <5>2 DEF Later
        <5>4. 1 \in DOMAIN txTodo[q]
          BY <1>1, <5>2
        <5>5. txTodo[q][i + 1].with.text # txTodo[q][1].with.text
          BY <3>1, <4>1, <5>3, <5>4 DEF Seeding
        <5> QED
          BY <4>1, <5>2, <5>3, <5>5
      <4> QED
        BY <4>2, <4>3
    <3> QED
      BY <3>1, <3>2, <3>3, <3>4
  <2> QED
    BY <1>4, <2>1, <2>2 DEF SeedInv, Seeding
<1>12. SeededOnce'
  <2> SUFFICES ASSUME ~blind, NEW a \in seeded', NEW b \in seeded', a.text = b.text
               PROVE  a = b
    BY <1>4 DEF SeededOnce
  <2>1. CASE a \in seeded /\ b \in seeded
    BY <2>1 DEF DoorInv, SeededOnce
  <2>2. CASE a \notin seeded \/ b \notin seeded
    <3>1. cardReq[p] = "seed"
      BY <1>4, <2>2
    <3>2. \A e \in seeded : e.text # op.with.text
      BY <1>1, <1>10, <3>1 DEF Seeding
    <3> QED
      BY <1>10, <2>2, <3>1, <3>2
  <2> QED
    BY <2>1, <2>2
<1> QED
  BY <1>8, <1>9, <1>11, <1>12 DEF DoorInv

\* A transaction that writes nothing, a crash, a file that turns bad or good.
LEMMA QuietDoor ==
    ASSUME CardInv, DoorInv,
           \/ FlipReadable
           \/ \E p \in Procs : CardsLock(p) \/ ImportRefused(p) \/ SaveFails(p)
           \/ \E p \in Procs : CardsCrash(p)
    PROVE  DoorInv'
<1>1. UNCHANGED <<file, ungated, seeded, blind>>
  BY DEF FlipReadable, CardsLock, ImportRefused, SaveFails, CardsCrash
<1>2. SUFFICES
        /\ \A q \in Procs : \A i \in DOMAIN txTodo'[q] :
              \E j \in DOMAIN txTodo[q] : /\ txTodo'[q][i] = txTodo[q][j]
                                          /\ cardReq'[q] = cardReq[q]
        /\ \A q \in Procs : \A i, j \in DOMAIN txTodo'[q] :
              Seeding(txTodo[q], blind) /\ txTodo'[q][i].with.text = txTodo'[q][j].with.text
              => i = j
        /\ \A q \in Procs : cardReq'[q] = "seed" => cardReq[q] = "seed"
  <2>1. GateInv'
    BY <1>1, <1>2 DEF DoorInv, GateInv, CreateOK, ActiveOK, Backed
  <2>2. SeedInv'
    BY <1>1, <1>2 DEF DoorInv, SeedInv, Seeding
  <2>3. ApprovalNeedsProvenance' /\ SeededOnce'
    BY <1>1 DEF DoorInv, ApprovalNeedsProvenance, SeededOnce
  <2> QED
    BY <2>1, <2>2, <2>3 DEF DoorInv
<1>3. CASE FlipReadable \/ \E p \in Procs : CardsLock(p)
  BY <1>3 DEF FlipReadable, CardsLock, Seeding
<1>4. ASSUME NEW p \in Procs, CardsCrash(p)
      PROVE  \A q \in Procs : \/ txTodo'[q] = <<>> /\ cardReq'[q] = "none"
                              \/ txTodo'[q] = txTodo[q] /\ cardReq'[q] = cardReq[q]
  BY <1>4 DEF CardInv, Shapes, CardsCrash
<1>5. CASE \E p \in Procs : CardsCrash(p)
  <2>1. \A q \in Procs : \/ txTodo'[q] = <<>> /\ cardReq'[q] = "none"
                         \/ txTodo'[q] = txTodo[q] /\ cardReq'[q] = cardReq[q]
    BY <1>4, <1>5
  <2> QED
    BY <2>1 DEF Seeding
<1>6. CASE \E p \in Procs : ImportRefused(p) \/ SaveFails(p)
  <2>1. PICK p \in Procs : Done(p) /\ txTodo[p] # <<>>
    BY <1>6 DEF ImportRefused, SaveFails, Unlock, CardInv, LockOK
  <2>2. \A q \in Procs :
            /\ \A i \in DOMAIN txTodo'[q] :
                  /\ i \in Nat \ {0} /\ i + Later(p, q) \in DOMAIN txTodo[q]
                  /\ txTodo'[q][i] = txTodo[q][i + Later(p, q)]
                  /\ cardReq'[q] = cardReq[q]
            /\ cardReq'[q] = "seed" => cardReq[q] = "seed"
    BY <2>1, DoneShifts
  <2>3. ASSUME NEW q \in Procs, NEW i \in DOMAIN txTodo'[q],
               NEW j \in DOMAIN txTodo'[q], Seeding(txTodo[q], blind),
               txTodo'[q][i].with.text = txTodo'[q][j].with.text
        PROVE  i = j
    <3>1. i + Later(p, q) = j + Later(p, q)
      BY <2>2, <2>3 DEF Seeding
    <3>2. i \in Nat /\ j \in Nat /\ Later(p, q) \in Nat
      BY <2>2 DEF Later
    <3> QED
      BY <3>1, <3>2
  <2> QED
    BY <2>2, <2>3
<1> QED
  BY <1>3, <1>5, <1>6

LEMMA DoorInit == CardsInit => DoorInv
<1> SUFFICES ASSUME CardsInit PROVE DoorInv
  OBVIOUS
<1>1. /\ \A p \in Procs : txTodo[p] = <<>> /\ cardReq[p] = "none"
      /\ seeded = {} /\ DOMAIN file = {}
  BY DEF CardsInit
<1>2. GateInv /\ SeedInv
  BY <1>1 DEF GateInv, SeedInv
<1> QED
  BY <1>1, <1>2 DEF DoorInv, ApprovalNeedsProvenance, SeededOnce

LEMMA DoorStep ==
    ASSUME CardInv, DoorInv, [CardsNext]_cardVars
    PROVE  DoorInv'
<1>1. CASE GatewayRequest
  BY <1>1, GatewayDoor
<1>2. CASE \E p \in Clis : CliRequest(p)
  BY <1>2, OthersDoor DEF Procs
<1>3. CASE \E p \in Procs, id \in Ids, s \in {"global", "overlay"} : Rescope(p, id, s)
  BY <1>3, OthersDoor
<1>4. CASE \E p \in Procs : CardsSave(p)
  BY <1>4, SaveDoor
<1>5. CASE \/ FlipReadable
           \/ \E p \in Procs : CardsLock(p) \/ ImportRefused(p) \/ SaveFails(p)
           \/ \E p \in Procs : CardsCrash(p)
  BY <1>5, QuietDoor
<1>6. CASE UNCHANGED cardVars
  BY <1>6 DEF cardVars, DoorInv, GateInv, SeedInv, ApprovalNeedsProvenance,
              SeededOnce, CreateOK, ActiveOK, Backed, Seeding
<1> QED
  BY <1>1, <1>2, <1>3, <1>4, <1>5, <1>6 DEF CardsNext, Transact

\* However requests, commands, failed saves and crashes interleave: as long as no
\* get() met an unreadable file, an active card that claims a run and quotes
\* nothing got active by /memory/enable, and no legacy rule is seeded twice.
THEOREM DoorsStayShut == CardsSpec => []NoSideDoor
<1>1. CardInv /\ DoorInv /\ [CardsNext]_cardVars => CardInv' /\ DoorInv'
  BY CardsStep, DoorStep
<1>2. DoorInv => NoSideDoor
  BY DEF DoorInv, NoSideDoor
<1> QED
  BY <1>1, <1>2, CardInvHolds, DoorInit, PTL DEF CardsSpec

=============================================================================
