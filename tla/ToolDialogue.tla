---------------------------- MODULE ToolDialogue ----------------------------
(***************************************************************************)
(* Conversations with tools over POST /v1/chat/completions: the history a  *)
(* client sends back (normalize_contract, normalize_and_lower_messages),   *)
(* the native parser's message (validate_native_message) and the reply     *)
(* made of it (serialize_openai_result), all in                            *)
(* clozn/server/structured_io.py, as clozn/server/openai_compat.py and     *)
(* clozn/server/routes/openai.py call them.                                *)
(*                                                                         *)
(* The server keeps nothing between two requests: what it knows of its     *)
(* own earlier calls is what the client repeats.  A client is honest as    *)
(* long as it only appends texts, what the server answered, and one result *)
(* for each call; any other client may send anything.                      *)
(***************************************************************************)
EXTENDS Naturals, Sequences, FiniteSets, SequencesExt

CONSTANTS
    Tools,      \* function names
    Arguments,  \* argument objects
    Offers,     \* what a request may offer: [accepts, auto], the arguments each
                \* offered tool's schema accepts, and tool_choice
    NativeId,   \* the id the model's template puts into every call
    Absent,     \* no name in a tool result
    MaxMinted,  \* bound of the model: calls the server makes
    MaxLength,  \* bound of the model: messages of a transcript
    MaxStrays   \* bound of the model: of these, ones that an honest client
                \* would not send

ASSUME DialogueAssumption ==
    /\ \A o \in Offers : /\ DOMAIN o.accepts \subseteq Tools
                         /\ \A t \in DOMAIN o.accepts : o.accepts[t] \subseteq Arguments
                         /\ o.auto \in BOOLEAN
    /\ NativeId \notin Nat /\ Absent \notin Tools
    /\ MaxMinted \in Nat /\ MaxLength \in Nat /\ MaxStrays \in Nat

VARIABLES
    transcript,  \* the messages the client has, oldest first
    strays,      \* history: messages an honest client would not have appended
    minted,      \* history: calls the server has made, call_<n> being the last
    dialogue,    \* where the request is: "client", "native" or "prose"
    offer        \* what the request in flight offers, or Absent

dialogueVars == <<transcript, strays, minted, dialogue, offer>>

Text == [role |-> "text"]
Call(id, tool, args) == [role |-> "call", id |-> id, tool |-> tool, args |-> args]
Result(id, name) == [role |-> "result", id |-> id, name |-> name]
\* An assistant message with two calls, or with a call and content.
Mixed == [role |-> "mixed"]

PublicIds == 1..MaxMinted
Ids == PublicIds \cup {NativeId}
Messages ==
    {Text, Mixed} \cup {Call(id, t, g) : id \in Ids, t \in Tools, g \in Arguments}
    \cup {Result(id, n) : id \in Ids, n \in Tools \cup {Absent}}

NoCall == [id |-> 0]

DialogueInit ==
    /\ transcript = <<>> /\ strays = 0 /\ minted = 0
    /\ dialogue = "client"
    /\ offer = Absent

-----------------------------------------------------------------------------
(* The history of a request *)

\* _normalize_history_tool_call: the arguments are held against the schema of
\* this request, if it offers the tool at all (with tool_choice none, too).
Fits(call, o) == call.tool \in DOMAIN o.accepts => call.args \in o.accepts[call.tool]

\* One round of the loop over the messages: `pending` is the call that waits
\* for its result, `answered` the ids of those that have theirs.
ReadMessage(scan, m, o) ==
    LET waiting == scan.pending # NoCall
        opens == m.role = "call" /\ ~waiting /\ Fits(m, o) /\ m.id \notin scan.answered
        closes == /\ m.role = "result" /\ waiting
                  /\ m.id = scan.pending.id /\ m.name \in {Absent, scan.pending.tool}
    IN  IF ~scan.ok \/ (m.role = "text" /\ ~waiting) THEN scan
        ELSE IF opens THEN [scan EXCEPT !.pending = m]
        ELSE IF closes THEN [scan EXCEPT !.pending = NoCall, !.answered = @ \cup {m.id}]
        ELSE [scan EXCEPT !.ok = FALSE]

\* The loop: what it knows after each of the messages.
Scans(messages, o) ==
    LET scan[k \in 0..Len(messages)] ==
            IF k = 0 THEN [ok |-> TRUE, pending |-> NoCall, answered |-> {}]
            ELSE ReadMessage(scan[k - 1], messages[k], o)
    IN scan

\* normalize_and_lower_messages.
Accepted(messages, o) ==
    LET scan == Scans(messages, o)[Len(messages)]
    IN  messages # <<>> /\ scan.ok /\ scan.pending = NoCall

\* normalize_contract: "auto" needs a tool; the tools are active with it.
ToolMode(o) == o.auto /\ DOMAIN o.accepts # {}
ContractAccepted(o) == o.auto => DOMAIN o.accepts # {}

\* A request.  Whatever is refused is answered with 400, or with 409 when a
\* corrective policy meets a history with tools, and the client may go on.
Post(o) ==
    /\ dialogue = "client" /\ ContractAccepted(o) /\ Accepted(transcript, o)
    /\ Len(transcript) < MaxLength
    /\ offer' = o
    /\ dialogue' = IF ToolMode(o) THEN "native" ELSE "prose"
    /\ UNCHANGED <<transcript, strays, minted>>

-----------------------------------------------------------------------------
(* The reply *)

\* What the native parser makes of the model's output.
NativeCalls == {[id |-> id, tool |-> t, args |-> g] :
                  id \in {NativeId, Absent}, t \in Tools, g \in Arguments}
NativeMessages ==
    [content : BOOLEAN, calls : {<<>>} \cup {<<c>> : c \in NativeCalls}
                                \cup {<<c, c>> : c \in NativeCalls}]

\* validate_native_message.
Valid(message, o) ==
    \/ message.calls = <<>> /\ message.content
    \/ /\ Len(message.calls) = 1 /\ ~message.content
       /\ message.calls[1].tool \in DOMAIN o.accepts
       /\ Fits(message.calls[1], o)

\* Mutant: the model's own id is passed on.
PassIdOn(call, n) == Call(call.id, call.tool, call.args)

\* serialize_openai_result, with the id the processor minted: the native one is
\* never used.
Serialized(call, n) == Call(n, call.tool, call.args)

\* A valid message is delivered, whole or as one chunk of a stream.
Deliver ==
    /\ dialogue = "native"
    /\ \E message \in {x \in NativeMessages : Valid(x, offer)} :
          IF message.calls = <<>>
          THEN transcript' = Append(transcript, Text) /\ minted' = minted
          ELSE /\ minted < MaxMinted
               /\ minted' = minted + 1
               /\ transcript' = Append(transcript, Serialized(message.calls[1], minted'))
    /\ dialogue' = "client" /\ offer' = Absent
    /\ UNCHANGED strays

\* An invalid one, or a cut-off one, is a 502: the client has nothing to append.
Reject ==
    /\ dialogue = "native"
    /\ \E message \in NativeMessages : ~Valid(message, offer)
    /\ dialogue' = "client" /\ offer' = Absent
    /\ UNCHANGED <<transcript, strays, minted>>

\* Without active tools the lowered history is generated from as text.
AnswerInProse ==
    /\ dialogue = "prose"
    /\ transcript' = Append(transcript, Text)
    /\ dialogue' = "client" /\ offer' = Absent
    /\ UNCHANGED <<strays, minted>>

-----------------------------------------------------------------------------
(* The client *)

OpenCall == transcript # <<>> /\ Last(transcript).role = "call"

\* What an honest client may append.
Proper(m) ==
    IF OpenCall THEN m \in {Result(Last(transcript).id, n) : n \in {Absent, Last(transcript).tool}}
    ELSE m = Text

Say(m) ==
    /\ dialogue = "client" /\ Len(transcript) < MaxLength
    /\ transcript' = Append(transcript, m)
    /\ IF Proper(m) THEN strays' = strays
       ELSE strays < MaxStrays /\ strays' = strays + 1
    /\ UNCHANGED <<minted, dialogue, offer>>

DialogueNext ==
    \/ \E m \in Messages : Say(m)
    \/ \E o \in Offers : Post(o)
    \/ Deliver \/ Reject \/ AnswerInProse

DialogueSpec == DialogueInit /\ [][DialogueNext]_dialogueVars

-----------------------------------------------------------------------------
(* Properties *)

CallsIn(ms) == {i \in DOMAIN ms : ms[i].role = "call"}

\* Each call is followed at once by its own result, no result stands alone, no
\* id is used by two calls, and arguments fit where a schema is given.
WellPaired(ms, o) ==
    /\ ms # <<>> /\ \A i \in DOMAIN ms : ms[i].role # "mixed"
    /\ \A i \in CallsIn(ms) :
          /\ i < Len(ms) /\ ms[i + 1].role = "result" /\ ms[i + 1].id = ms[i].id
          /\ ms[i + 1].name \in {Absent, ms[i].tool}
          /\ Fits(ms[i], o)
    /\ \A i \in DOMAIN ms : ms[i].role = "result" => i - 1 \in CallsIn(ms)
    /\ \A i, j \in CallsIn(ms) : ms[i].id = ms[j].id => i = j

\* The scanner, with its one pending call and its set of answered ids, takes
\* exactly the histories that are well paired, from whatever client.
AcceptsExactlyPaired ==
    \A o \in Offers : Accepted(transcript, o) <=> WellPaired(transcript, o)

\* A client that only repeats what it was answered and gives each call its
\* result can always go on, whichever tools it offers next, over any number of
\* calls; only a schema that no longer accepts an earlier call stops it.
HonestIsAccepted ==
    strays = 0 /\ ~OpenCall /\ transcript # <<>> =>
        \A o \in Offers :
            Accepted(transcript, o) <=> \A i \in CallsIn(transcript) : Fits(transcript[i], o)

\* Both: an honest dialogue is refused only for an earlier call that a schema
\* offered now does not fit, and what is taken makes sense.
DialogueSound == AcceptsExactlyPaired /\ HonestIsAccepted

=============================================================================
