---------------------------- MODULE MemoryCards ----------------------------
(***************************************************************************)
(* The memory-card file and the processes that share it: the gateway,      *)
(* whose POST handlers run one at a time (clozn/server/substrates.py,      *)
(* routes/memory.py, the profile switch of app.py), and `clozn memory`     *)
(* commands (clozn/cli/commands/memory.py), over clozn/memory/cards.py.    *)
(*                                                                         *)
(* A request first reads the store without the lock and turns what it saw  *)
(* into a list of transactions.  A transaction takes the file lock and     *)
(* loads the whole file (CardsLock), then writes the whole file and        *)
(* releases the lock (CardsSave).  Everything another process does between *)
(* two of these steps is visible to the next one.                          *)
(***************************************************************************)
EXTENDS Naturals, Sequences, FiniteSets, SequencesExt

CONSTANTS
    Ids,        \* card ids: uuid4, never drawn twice
    Texts,      \* card texts, up to _text_key
    Clis,       \* `clozn memory` processes
    Gateway,    \* the gateway process
    Legacy,     \* set of rule strings a lab memory restores from its .pt file
    Persona,    \* texts of the active cards of the profile switched to
    Imports,    \* documents: sequences of cards parse_cards may return
    MaxRequests,\* bound of the model: requests served in a behaviour
    Nobody      \* the file lock is free

ASSUME CardsAssumption ==
    /\ Gateway \notin Clis /\ Nobody \notin Clis \cup {Gateway}
    /\ Legacy \subseteq Texts /\ Persona \subseteq Texts
    /\ Nobody \notin Ids /\ IsFiniteSet(Ids) /\ IsFiniteSet(Texts)

VARIABLES
    file,       \* the cards the file holds, by id
    fileOk,     \* the file can be read and parsed
    drawn,      \* ids given out so far
    txLock,     \* holder of CARDS_PATH.lock
    txCopy,     \* what the process loaded inside its transaction
    txTodo,     \* transactions the current request has still to run
    served,     \* requests so far, for the bound
    cardReq,    \* the request a process is serving, "none" when idle
    migrated,   \* _cards_migrated of the gateway process
    ungated,    \* history: ids that /memory/enable made active
    seeded,     \* history: cards created by migrate_from_rules
    blind       \* history: a get() or list_cards() met an unreadable file

cardVars == <<file, fileOk, drawn, txLock, txCopy, txTodo, served, cardReq,
              migrated, ungated, seeded, blind>>

Procs == Clis \cup {Gateway}

S == INSTANCE CardStore WITH cards <- file, readable <- fileOk

\* parse_cards refuses a document that repeats an id.
ASSUME ImportsAssumption ==
    \A cards \in Imports :
        /\ \A i \in DOMAIN cards : cards[i].id \in Ids /\ cards[i].card \in S!Card
        /\ \A i, j \in DOMAIN cards : cards[i].id = cards[j].id => i = j

\* _load(): a file that is missing, unreadable or malformed is an empty list.
Load == IF fileOk THEN file ELSE <<>>

\* is_provenance_claim_unbacked(card).
Unbacked(c) == c.claims /\ ~c.quoted

\* create(): the card is built before the transaction.
NewCard(text, status, scope, claims, quoted) ==
    [text |-> text, status |-> status, scope |-> scope, claims |-> claims,
     quoted |-> quoted]

CardsInit ==
    /\ file = <<>> /\ fileOk = TRUE /\ drawn = {}
    /\ txLock = Nobody
    /\ txCopy = [p \in Procs |-> <<>>]
    /\ txTodo = [p \in Procs |-> <<>>]
    /\ cardReq = [p \in Procs |-> "none"]
    /\ served = 0
    /\ migrated = FALSE
    /\ ungated = {} /\ seeded = {} /\ blind = FALSE

-----------------------------------------------------------------------------
(* Transactions: what each one makes of the cards it loaded *)

Op(kind, id, with) == [kind |-> kind, id |-> id, with |-> with]
Create(c) == Op("create", Nobody, c)
Patch(id, field, value) == Op(field, id, value)
Delete(id) == Op("delete", id, Nobody)
Merge(cards) == Op("import", Nobody, cards)

\* merge_import: a known id with another text, or (on_duplicate="error") a known
\* text, aborts the whole import; a known id or text is skipped.
Clashes(cards, loaded) ==
    \E i \in 1..Len(cards) :
        /\ cards[i].id \in DOMAIN loaded
        /\ loaded[cards[i].id].text # cards[i].card.text

\* The entries that are neither in the store nor repeat one that is added.
Added(cards, loaded) ==
    LET kept[i \in DOMAIN cards] ==
            /\ cards[i].id \notin DOMAIN loaded
            /\ \A id \in DOMAIN loaded : loaded[id].text # cards[i].card.text
            /\ \A j \in 1..(i - 1) :
                  kept[j] => /\ cards[j].id # cards[i].id
                             /\ cards[j].card.text # cards[i].card.text
    IN  {i \in DOMAIN cards : kept[i]}

Merged(cards, loaded) ==
    LET added == Added(cards, loaded)
    IN  [id \in DOMAIN loaded \cup {cards[i].id : i \in added} |->
            IF id \in DOMAIN loaded THEN loaded[id]
            ELSE cards[CHOOSE i \in added : cards[i].id = id].card]

\* The one field that update() or set_status() patches.
Patched(op, card) ==
    IF op.kind = "status" THEN [card EXCEPT !.status = op.with]
    ELSE IF op.kind = "text" THEN [card EXCEPT !.text = op.with]
    ELSE [card EXCEPT !.scope = op.with]

\* The list that create, update, delete or merge_import saves.  An update or a
\* delete that does not find its card saves nothing.
Rewritten(op, id, loaded) ==
    IF op.kind = "create" THEN S!With(loaded, id, op.with)
    ELSE IF op.kind = "delete" THEN [i \in DOMAIN loaded \ {op.id} |-> loaded[i]]
    ELSE IF op.kind = "import" THEN Merged(op.with, loaded)
    ELSE [i \in DOMAIN loaded |->
             IF i = op.id THEN Patched(op, loaded[i]) ELSE loaded[i]]

\* Mutant: the read-modify-write runs without the file lock.
LockNothing(p) ==
    /\ txTodo[p] # <<>> /\ txCopy[p] = <<>>
    /\ txTodo[p][1].kind = "import"
       => fileOk /\ ~Clashes(txTodo[p][1].with, file)
    /\ txLock' = p
    /\ txCopy' = [txCopy EXCEPT ![p] = <<Load>>]
    /\ UNCHANGED <<file, fileOk, drawn, txTodo, cardReq, migrated, ungated,
                   seeded, blind, served>>

\* _transaction() entered and the store loaded: fail-open, except that
\* merge_import reads with load_strict and gives up on an unreadable file.
CardsLock(p) ==
    /\ txTodo[p] # <<>> /\ txCopy[p] = <<>>
    /\ txLock = Nobody
    /\ txTodo[p][1].kind = "import"
       => fileOk /\ ~Clashes(txTodo[p][1].with, file)
    /\ txLock' = p
    /\ txCopy' = [txCopy EXCEPT ![p] = <<Load>>]
    /\ UNCHANGED <<file, fileOk, drawn, txTodo, cardReq, migrated, ungated,
                   seeded, blind, served>>

\* The next transaction of the request, or its reply.
Done(p) ==
    /\ txTodo' = [txTodo EXCEPT ![p] = Tail(@)]
    /\ cardReq' = [cardReq EXCEPT ![p] =
                       IF Len(txTodo[p]) = 1 THEN "none" ELSE @]

\* CardStoreError: the import adds nothing.
ImportRefused(p) ==
    /\ txTodo[p] # <<>> /\ txCopy[p] = <<>> /\ txLock = Nobody
    /\ txTodo[p][1].kind = "import"
    /\ ~fileOk \/ Clashes(txTodo[p][1].with, file)
    /\ Done(p)
    /\ UNCHANGED <<file, fileOk, drawn, txLock, txCopy, migrated,
                   ungated, seeded, blind, served>>

Unlock(p) ==
    /\ txCopy[p] # <<>>
    /\ txLock' = Nobody
    /\ txCopy' = [txCopy EXCEPT ![p] = <<>>]
    /\ Done(p)

\* uuid4().hex[:12]: some id that no card ever had.
FreshId == CHOOSE id \in Ids \cup {Nobody} :
               id \notin drawn /\ (id = Nobody => Ids \subseteq drawn)

\* atomic_write_json replaces the file, the lock is released.  A transaction
\* that changed nothing returns before it saves.
CardsSave(p) ==
    LET op == txTodo[p][1]
        new == IF op.kind = "create"
               THEN {FreshId} \cap Ids
               ELSE {Nobody}
    IN  /\ Unlock(p)
        /\ \E id \in new :
             LET out == Rewritten(op, id, txCopy[p][1])
             IN  /\ drawn' = IF op.kind = "create" THEN drawn \cup {id}
                             ELSE drawn \cup DOMAIN out
                 /\ file' = IF out = txCopy[p][1] THEN file ELSE out
                 /\ fileOk' = (fileOk \/ out # txCopy[p][1])
        /\ ungated' = DOMAIN file' \cap
                      (ungated \cup IF cardReq[p] = "enable" THEN {op.id} ELSE {})
        /\ seeded' = {e \in seeded : e.id \in DOMAIN file'} \cup
                     (IF cardReq[p] = "seed"
                      THEN {[id |-> id, text |-> op.with.text] :
                               id \in drawn' \ drawn}
                      ELSE {})
        /\ UNCHANGED <<migrated, blind, served>>

\* _save returned False, or the ids ran out in the model: nothing is written and
\* the request goes on with its next transaction.
SaveFails(p) ==
    /\ Unlock(p)
    /\ UNCHANGED <<file, fileOk, drawn, migrated, ungated, seeded, blind,
                   served>>

-----------------------------------------------------------------------------
(* Requests: what each reads, and the transactions it then runs *)

Serve(p, req, todo) ==
    /\ cardReq[p] = "none"
    /\ req = "seed" \/ served < MaxRequests
    /\ served' = IF req = "seed" THEN served ELSE served + 1
    /\ cardReq' = [cardReq EXCEPT ![p] = IF todo = <<>> THEN "none" ELSE req]
    /\ txTodo' = [txTodo EXCEPT ![p] = todo]
    /\ UNCHANGED <<file, fileOk, drawn, txLock, txCopy, ungated, seeded>>

\* The read of a request, before and outside any transaction of its own.
Blind == blind' = (blind \/ ~fileOk)

\* migrate_from_rules, on the first /memory request of the process: seeds one
\* active card per rule if the store looks empty.
SeedLegacy ==
    /\ ~migrated
    /\ Serve(Gateway, "seed",
             IF DOMAIN Load # {} THEN <<>>
             ELSE [i \in 1..Cardinality(Legacy) |->
                      Create(NewCard(SetToSeq(Legacy)[i], "active", "global",
                                     FALSE, FALSE))])
    /\ migrated' = TRUE
    /\ Blind

\* POST /memory/add: pending, and it may name a run without quoting it.
AddPending(text, scope, claims) ==
    /\ migrated
    /\ Serve(Gateway, "add",
             <<Create(NewCard(text, "pending", scope, claims, FALSE))>>)
    /\ UNCHANGED <<migrated, blind>>

\* POST /runs/<id>/propose-memory: the quote is the last user turn, if any.
Propose(text, quoted) ==
    /\ Serve(Gateway, "propose",
             <<Create(NewCard(text, "pending", "global", TRUE, quoted))>>)
    /\ UNCHANGED <<migrated, blind>>

\* Mutant: approve does not look at the provenance.
ApproveBlindly(id) ==
    /\ migrated
    /\ Serve(Gateway, "approve", <<Patch(id, "status", "active")>>)
    /\ UNCHANGED <<migrated, blind>>

\* POST /memory/approve: get() first, then set_status in a transaction of its
\* own.  A card that get() does not find passes the gate.
Approve(id) ==
    /\ migrated
    /\ Serve(Gateway, "approve",
             IF id \in DOMAIN Load /\ Unbacked(file[id]) THEN <<>>
             ELSE <<Patch(id, "status", "active")>>)
    /\ Blind
    /\ UNCHANGED migrated

\* /memory/enable, /memory/disable, /memory/reject: no gate.
SetStatus(id, req, status) ==
    /\ migrated
    /\ Serve(Gateway, req, <<Patch(id, "status", status)>>)
    /\ UNCHANGED <<migrated, blind>>

\* POST /memory/edit and /memory/remove.
EditCard(id, text) ==
    /\ migrated
    /\ Serve(Gateway, "edit", <<Patch(id, "text", text)>>)
    /\ UNCHANGED <<migrated, blind>>

RemoveCard(id) ==
    /\ migrated
    /\ Serve(Gateway, "remove", <<Delete(id)>>)
    /\ UNCHANGED <<migrated, blind>>

\* POST /profiles/switch: delete every card that list_cards showed as global,
\* then create the profile's cards, one transaction each.
SwitchProfile ==
    LET globals == {id \in DOMAIN Load : file[id].scope = "global"}
        deletes == [i \in 1..Cardinality(globals) |->
                       Delete(SetToSeq(globals)[i])]
        creates == [i \in 1..Cardinality(Persona) |->
                       Create(NewCard(SetToSeq(Persona)[i], "active", "global",
                                      FALSE, FALSE))]
    IN  /\ Serve(Gateway, "switch", deletes \o creates)
        /\ Blind /\ UNCHANGED migrated

\* `clozn memory add`.
CliAdd(p, text, status, scope) ==
    /\ Serve(p, "add", <<Create(NewCard(text, status, scope, FALSE, FALSE))>>)
    /\ UNCHANGED <<migrated, blind>>

\* `clozn memory scope` and POST /memory/scope: get() must find the card.
Rescope(p, id, scope) ==
    /\ p = Gateway => migrated
    /\ id \in DOMAIN Load
    /\ Serve(p, "scope", <<Patch(id, "scope", scope)>>)
    /\ Blind
    /\ UNCHANGED migrated

\* Mutant: the provenance of a document is believed.
Believed(cards, verified) == cards

\* _fresh_card: the run an entry cites and its quote are kept if the quote is
\* found in that run, else the entry cites nothing.
FreshCards(cards, verified) ==
    LET backed(i) == /\ cards[i].card.claims /\ cards[i].card.quoted
                     /\ i \in verified
    IN  [i \in DOMAIN cards |->
            [id |-> cards[i].id,
             card |-> [cards[i].card EXCEPT !.claims = backed(i),
                                            !.quoted = backed(i)]]]

\* `clozn memory import`; verified are the entries whose quote the run has.
CliImport(p, cards, verified) ==
    /\ Serve(p, "import", <<Merge(FreshCards(cards, verified))>>)
    /\ UNCHANGED <<migrated, blind>>

-----------------------------------------------------------------------------
(* The environment *)

\* The file is edited by hand into something json.load refuses, or a read
\* starts to fail; later it can be read again.  Between a load and its save
\* nobody reads under the lock, so the flip is not interleaved there.
FlipReadable ==
    /\ txLock = Nobody
    /\ fileOk' = ~fileOk
    /\ UNCHANGED <<file, drawn, txLock, txCopy, txTodo, cardReq, migrated,
                   ungated, seeded, blind, served>>

\* A process dies anywhere: the operating system drops its lock, and a gateway
\* that comes back runs its seeding again.
CardsCrash(p) ==
    /\ cardReq[p] # "none"
    /\ cardReq' = [cardReq EXCEPT ![p] = "none"]
    /\ txTodo' = [txTodo EXCEPT ![p] = <<>>]
    /\ txCopy' = [txCopy EXCEPT ![p] = <<>>]
    /\ txLock' = IF txLock = p THEN Nobody ELSE txLock
    /\ migrated' = (migrated /\ p # Gateway)
    /\ UNCHANGED <<file, fileOk, drawn, ungated, seeded, blind, served>>

GatewayRequest ==
    \/ SeedLegacy \/ SwitchProfile
    \/ \E t \in Texts : \/ \E c \in BOOLEAN, s \in {"global", "overlay"} :
                               AddPending(t, s, c)
                        \/ \E q \in BOOLEAN : Propose(t, q)
                        \/ \E id \in Ids : EditCard(id, t)
    \/ \E id \in Ids : \/ Approve(id) \/ RemoveCard(id)
                       \/ SetStatus(id, "enable", "active")
                       \/ SetStatus(id, "disable", "disabled")
                       \/ SetStatus(id, "reject", "rejected")

CliRequest(p) ==
    \/ \E t \in Texts, k \in {"global", "overlay"} : CliAdd(p, t, "active", k)
    \/ \E cards \in Imports : \E verified \in SUBSET DOMAIN cards :
          CliImport(p, cards, verified)

Transact(p) ==
    CardsLock(p) \/ ImportRefused(p) \/ CardsSave(p)

CardsNext ==
    \/ GatewayRequest
    \/ \E p \in Clis : CliRequest(p)
    \/ \E p \in Procs : \/ Transact(p) \/ SaveFails(p) \/ CardsCrash(p)
                        \/ \E id \in Ids, s \in {"global", "overlay"} :
                              Rescope(p, id, s)
    \/ FlipReadable

CardsSpec == CardsInit /\ [][CardsNext]_cardVars

-----------------------------------------------------------------------------
(* Properties *)

\* The processes together implement the atomic store: every change of the file
\* is one operation applied to the cards that were there at that moment.  No
\* update of another process is lost between a load and its save, and only a
\* create on an unreadable file discards cards.
CardsAreAtomic == S!StoreSpec

\* POST /memory/approve never activates a card that cites a run without a
\* quote, whatever happened between its get() and its set_status, and an import
\* brings none in; only /memory/enable, which has no gate, or a get() that met
\* an unreadable file let one through.
ApprovalNeedsProvenance ==
    blind \/ \A id \in DOMAIN file :
                 Unbacked(file[id]) /\ file[id].status = "active"
                 => id \in ungated

\* The legacy rules are seeded at most once: restarts, crashes half-way through
\* the seeding and concurrent `clozn memory add` commands never leave two
\* seeded cards of one rule, as long as the file could be read.
SeededOnce ==
    blind \/ \A a, b \in seeded :
                 a.text = b.text => a = b

\* No card enters by a side door, unchecked or twice.
NoSideDoor == ApprovalNeedsProvenance /\ SeededOnce

=============================================================================
