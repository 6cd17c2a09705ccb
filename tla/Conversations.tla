---------------------------- MODULE Conversations ----------------------------
(***************************************************************************)
(* The conversation row of one (organization_id, session_id): the cache of *)
(* conversation_node.py, the threads that persist turns after the answer   *)
(* was returned (finalize_node.py, and web_call.py for realtime calls), the*)
(* administrator's endpoints, the end of a call, and the sweep of          *)
(* graph_runtime.py that closes idle conversations.  The table has no      *)
(* unique constraint on the session.  Timestamps are kept as ages, which   *)
(* stop growing at Old; one Tick is the unit of the three time limits.     *)
(***************************************************************************)
EXTENDS Integers, FiniteSets

CONSTANTS
    Turn,           \* turns whose threads may be alive at the same time
    Conversation,   \* identities the table can hand out
    Channels,       \* the channels a session may come in on
    IdleAfter,      \* WARNED_IDLE_MINUTES, or _IDLE_CALL_MINUTES on a call
    CloseAfter,     \* WARNED_TO_CLOSE_SECONDS
    CacheTTL,       \* _CONVERSATION_CACHE_TTL_SECONDS
    None

ASSUME ChannelAssumption == Channels \subseteq {"web_chat", "web_call", "voice"}
ASSUME LimitAssumption == {IdleAfter, CloseAfter, CacheTTL} \subseteq Nat
ASSUME NoneAssumption == None \notin Conversation \cup Nat

VARIABLES
    channel,        \* conversations.channel, the channel of the session
    rows,           \* the rows of the session in conversations
    cache,          \* its entry of _conversation_cache, or None
    turn,           \* what each turn is doing
    admin,          \* an administrator's request between two statements
    hangup,         \* /voice/call/end is between its read and its write
    sweep           \* what is left of a round of the sweep

vars == <<channel, rows, cache, turn, admin, hangup, sweep>>

\* Every limit is passed at this age.
Old == IdleAfter + CloseAfter + CacheTTL
Age == 0..Old

\* quiet, warned and muted are the ages of last_message_at, of idle_warned_at
\* and of ai_enabled = false; ended is call_ended_at.
Row == [status : {"absent", "open", "closed", "deleted"}, quiet : Age,
        warned : Age \cup {None}, ai : BOOLEAN, muted : Age, ended : BOOLEAN, messages : BOOLEAN]

NoRow == [status |-> "absent", quiet |-> 0, warned |-> None, ai |-> TRUE, muted |-> 0,
          ended |-> FALSE, messages |-> FALSE]

TurnIdle == [stage |-> "idle", id |-> None, answers |-> FALSE, realtime |-> FALSE,
             ai |-> TRUE, age |-> 0]
NoSweep == [todo |-> {}, act |-> [c \in Conversation |-> None], at |-> None, age |-> 0]

Exists(c) == rows[c].status \in {"open", "closed"}
Existing == {c \in Conversation : Exists(c)}

Init ==
    /\ channel \in Channels
    /\ rows = [c \in Conversation |-> NoRow]
    /\ cache = None
    /\ turn = [t \in Turn |-> TurnIdle]
    /\ admin = None
    /\ hangup = FALSE
    /\ sweep = NoSweep

At(t, stage) == turn[t].stage = stage
Goto(t, stage) == turn' = [turn EXCEPT ![t].stage = stage]
Done(t) == turn' = [turn EXCEPT ![t] = TurnIdle]

-----------------------------------------------------------------------------
(* conversation_node and ensure_conversation_for_session *)

Hit == cache # None /\ cache.age < CacheTTL

\* prepare_node runs conversation_node next to agent_node: what the entry says
\* of the switch only decides whether the answer is kept.
TurnBegin(t) ==
    /\ At(t, "idle")
    /\ turn' = [turn EXCEPT ![t] = [TurnIdle EXCEPT !.stage = "agent",
                                      !.answers = IF Hit THEN cache.ai ELSE TRUE]]
    /\ UNCHANGED <<channel, rows, cache, admin, hangup, sweep>>

\* agent_node writes deltas of an answer, and runs its task, whatever the switch.
AgentStreams(t) ==
    /\ At(t, "agent")
    /\ Goto(t, "streaming")
    /\ UNCHANGED <<channel, rows, cache, admin, hangup, sweep>>

\* The answer, or the handoff in its place, is the result, and _persist_turn
\* follows.  An agent that asks for a handoff writes nothing.
AgentEnds(t) ==
    /\ At(t, "agent") \/ At(t, "streaming")
    /\ Goto(t, "ensure")
    /\ UNCHANGED <<channel, rows, cache, admin, hangup, sweep>>

\* realtime_search_knowledge answers by itself and never looks at the cache.
RealtimeBegin(t) ==
    /\ At(t, "idle") /\ channel = "web_call"
    /\ turn' = [turn EXCEPT ![t] = [TurnIdle EXCEPT !.stage = "select", !.answers = TRUE,
                                                    !.realtime = TRUE]]
    /\ UNCHANGED <<channel, rows, cache, admin, hangup, sweep>>

Ensure(t) ==
    /\ At(t, "ensure")
    /\ turn' = IF Hit THEN [turn EXCEPT ![t].stage = "customer", ![t].id = cache.id]
               ELSE [turn EXCEPT ![t].stage = "select"]
    /\ UNCHANGED <<channel, rows, cache, admin, hangup, sweep>>

\* Variant: the row is not looked for.
SelectNothing(t) ==
    /\ At(t, "select")
    /\ turn' = [turn EXCEPT ![t].stage = "insert", ![t].age = 0]
    /\ UNCHANGED <<channel, rows, cache, admin, hangup, sweep>>

\* get_or_create_conversation; limit(1) without an order returns any row.  The
\* entry's time was taken before.
Select(t) ==
    /\ At(t, "select")
    /\ \/ /\ Existing = {}
          /\ turn' = [turn EXCEPT ![t].stage = "insert", ![t].age = 0]
       \/ \E c \in Existing :
            turn' = [turn EXCEPT ![t].stage = "remember", ![t].id = c,
                                 ![t].ai = rows[c].ai, ![t].age = 0]
    /\ UNCHANGED <<channel, rows, cache, admin, hangup, sweep>>

Insert(t, c) ==
    /\ At(t, "insert") /\ rows[c].status = "absent"
    /\ rows' = [rows EXCEPT ![c].status = "open"]
    /\ turn' = [turn EXCEPT ![t].stage = "remember", ![t].id = c, ![t].ai = TRUE]
    /\ UNCHANGED <<channel, cache, admin, hangup, sweep>>

\* Variant: the entry is dated when it is stored.
RememberAsNew(t) ==
    /\ At(t, "remember")
    /\ cache' = IF turn[t].realtime THEN cache
                ELSE [id |-> turn[t].id, ai |-> turn[t].ai, age |-> 0]
    /\ turn' = [turn EXCEPT ![t].stage = "customer", ![t].ai = TRUE, ![t].age = 0]
    /\ UNCHANGED <<channel, rows, admin, hangup, sweep>>

Remember(t) ==
    /\ At(t, "remember")
    /\ cache' = IF turn[t].realtime THEN cache
                ELSE [id |-> turn[t].id, ai |-> turn[t].ai, age |-> turn[t].age]
    /\ turn' = [turn EXCEPT ![t].stage = "customer", ![t].ai = TRUE, ![t].age = 0]
    /\ UNCHANGED <<channel, rows, admin, hangup, sweep>>

-----------------------------------------------------------------------------
(* _persist_turn *)

\* create_conversation_message: a deleted conversation is a foreign key error.
Stored(c) == Exists(c) /\ rows' = [rows EXCEPT ![c].messages = TRUE]
Lost(c) == ~Exists(c) /\ UNCHANGED rows

\* update_conversation_last_message
Touched(c) == rows' = [rows EXCEPT ![c].quiet = IF Exists(c) THEN 0 ELSE @]

SaveCustomer(t) ==
    /\ At(t, "customer")
    /\ \/ Stored(turn[t].id) /\ Goto(t, IF turn[t].realtime THEN "answer" ELSE "customerAt")
       \/ Lost(turn[t].id) /\ Done(t)
    /\ UNCHANGED <<channel, cache, admin, hangup, sweep>>

SaveCustomerAt(t) ==
    /\ At(t, "customerAt")
    /\ Touched(turn[t].id)
    /\ IF turn[t].answers THEN Goto(t, "answer") ELSE Done(t)
    /\ UNCHANGED <<channel, cache, admin, hangup, sweep>>

SaveAnswer(t) ==
    /\ At(t, "answer")
    /\ \/ Stored(turn[t].id) /\ Goto(t, "answerAt")
       \/ Lost(turn[t].id) /\ Done(t)
    /\ UNCHANGED <<channel, cache, admin, hangup, sweep>>

\* The turn may have asked for the end of the session.
SaveAnswerAt(t) ==
    /\ At(t, "answerAt")
    /\ Touched(turn[t].id)
    /\ \/ Done(t)
       \/ ~turn[t].realtime /\ Goto(t, "end")
    /\ UNCHANGED <<channel, cache, admin, hangup, sweep>>

\* Variant: a status that the other handlers do not know.
ClosedMisspelt(c) == rows' = [rows EXCEPT ![c].status = IF Exists(c) THEN "ended" ELSE @]

Closed(c) == rows' = [rows EXCEPT ![c].status = IF Exists(c) THEN "closed" ELSE @]

\* _end_session_if_requested on a chat.
EndChat(t) ==
    /\ At(t, "end") /\ channel = "web_chat"
    /\ Closed(turn[t].id) /\ Done(t)
    /\ UNCHANGED <<channel, cache, admin, hangup, sweep>>

\* end_call_conversation reads one row of the session, any of them, and writes
\* only when that has a call_started_at, which no row of "voice" has, ...
StillOn == channel = "web_call" /\ \E c \in Existing : ~rows[c].ended

\* ... and writes all of them.
CallEnded ==
    rows' = [c \in Conversation |->
               IF Exists(c) THEN [rows[c] EXCEPT !.status = "closed", !.ended = TRUE]
               ELSE rows[c]]

EndCallRead(t) ==
    /\ At(t, "end") /\ channel \in {"web_call", "voice"}
    /\ \/ StillOn /\ Goto(t, "endCall")
       \/ (\E c \in Existing : rows[c].ended) /\ Done(t)
       \/ (channel = "voice" \/ Existing = {}) /\ Done(t)
    /\ UNCHANGED <<channel, rows, cache, admin, hangup, sweep>>

EndCallWrite(t) ==
    /\ At(t, "endCall")
    /\ CallEnded /\ Done(t)
    /\ UNCHANGED <<channel, cache, admin, hangup, sweep>>

\* The client hangs up: /voice/call/end
HangupRead ==
    /\ ~hangup /\ StillOn
    /\ hangup' = TRUE
    /\ UNCHANGED <<channel, rows, cache, turn, admin, sweep>>

HangupWrite ==
    /\ hangup
    /\ CallEnded
    /\ hangup' = FALSE
    /\ UNCHANGED <<channel, cache, turn, admin, sweep>>

-----------------------------------------------------------------------------
(* The administrator's endpoints of app/api/conversations.py *)

AdminMessage(c) ==
    /\ admin = None
    /\ Stored(c)
    /\ admin' = [op |-> "touch", id |-> c]
    /\ UNCHANGED <<channel, cache, turn, hangup, sweep>>

AdminClose(c) ==
    /\ admin = None /\ Exists(c)
    /\ Closed(c)
    /\ UNCHANGED <<channel, cache, turn, admin, hangup, sweep>>

AdminSetAi(c, on) ==
    /\ admin = None /\ Exists(c)
    /\ rows' = [rows EXCEPT ![c].ai = on, ![c].muted = IF on THEN 0 ELSE @]
    /\ UNCHANGED <<channel, cache, turn, admin, hangup, sweep>>

\* delete_conversation: the messages first, then the row.
AdminDelete(c) ==
    /\ admin = None /\ Exists(c)
    /\ rows' = [rows EXCEPT ![c].messages = FALSE]
    /\ admin' = [op |-> "delete", id |-> c]
    /\ UNCHANGED <<channel, cache, turn, hangup, sweep>>

\* A message stored in between keeps the row (foreign key), without its history.
AdminFinish ==
    /\ admin # None
    /\ \/ admin.op = "touch" /\ Touched(admin.id)
       \/ /\ admin.op = "delete" /\ ~rows[admin.id].messages
          /\ rows' = [rows EXCEPT ![admin.id] = [NoRow EXCEPT !.status = "deleted"]]
       \/ admin.op = "delete" /\ rows[admin.id].messages /\ UNCHANGED rows
    /\ admin' = None
    /\ UNCHANGED <<channel, cache, turn, hangup, sweep>>

-----------------------------------------------------------------------------
(* warn_or_close_idle_chats and close_idle_calls *)

IdleRow(c) == rows[c].status = "open" /\ rows[c].quiet > IdleAfter

\* What the round does with a row it selected; neither select names "voice".
ActFor(c) ==
    CASE channel = "voice" -> None
      [] channel = "web_call" -> "endCall"
      [] channel = "web_chat" /\ rows[c].warned = None -> "warn"
      [] channel = "web_chat" /\ rows[c].warned # None -> "close"

\* Variant: a conversation is closed in the round after the warning.
DueAtOnce(c) == IdleRow(c)

\* Variant: the select of the round leaves out the conversations it has warned.
DueUnwarned(c) == IdleRow(c) /\ ActFor(c) # "close"

Due(c) ==
    /\ IdleRow(c) /\ channel # "voice"
    /\ ActFor(c) = "close" => rows[c].warned >= CloseAfter

\* One select decides for every row of the round.
SweepSelect ==
    /\ sweep = NoSweep
    /\ \E c \in Conversation : Due(c)
    /\ sweep' = [todo |-> {c \in Conversation : Due(c)}, at |-> None, age |-> 0,
                 act |-> [c \in Conversation |-> IF Due(c) THEN ActFor(c) ELSE None]]
    /\ UNCHANGED <<channel, rows, cache, turn, admin, hangup>>

Rest(c) ==
    sweep' = IF sweep.todo = {c} THEN NoSweep
             ELSE [sweep EXCEPT !.todo = @ \ {c}, !.act[c] = None, !.at = None]

\* The warning or the farewell; for a deleted conversation it raises, and the
\* round is over.
SweepMessage(c) ==
    /\ c \in sweep.todo /\ sweep.at = None /\ sweep.act[c] \in {"warn", "close"}
    /\ \/ Stored(c) /\ sweep' = [sweep EXCEPT !.at = c]
       \/ Lost(c) /\ sweep' = NoSweep
    /\ UNCHANGED <<channel, cache, turn, admin, hangup>>

\* idle_warned_at is the time the round began.
SweepWarn(c) ==
    /\ sweep.at = c /\ sweep.act[c] = "warn"
    /\ rows' = [rows EXCEPT ![c].warned = IF Exists(c) THEN sweep.age ELSE @]
    /\ Rest(c)
    /\ UNCHANGED <<channel, cache, turn, admin, hangup>>

SweepClose(c) ==
    /\ sweep.at = c /\ sweep.act[c] = "close"
    /\ Closed(c) /\ Rest(c)
    /\ UNCHANGED <<channel, cache, turn, admin, hangup>>

SweepEndCall(c) ==
    /\ c \in sweep.todo /\ sweep.act[c] = "endCall"
    /\ rows' = IF Exists(c)
               THEN [rows EXCEPT ![c].status = "closed", ![c].ended = TRUE] ELSE rows
    /\ Rest(c)
    /\ UNCHANGED <<channel, cache, turn, admin, hangup>>

SweepStep ==
    \/ SweepSelect
    \/ \E c \in Conversation :
         SweepMessage(c) \/ SweepWarn(c) \/ SweepClose(c) \/ SweepEndCall(c)

-----------------------------------------------------------------------------
Older(n) == IF n < Old THEN n + 1 ELSE n

Tick ==
    /\ rows' = [c \in Conversation |->
                  IF ~Exists(c) THEN rows[c]
                  ELSE [rows[c] EXCEPT !.quiet = Older(@),
                          !.warned = IF @ = None THEN None ELSE Older(@),
                          !.muted = IF rows[c].ai THEN 0 ELSE Older(@)]]
    /\ cache' = IF cache = None \/ cache.age = CacheTTL THEN cache
                ELSE [cache EXCEPT !.age = @ + 1]
    /\ turn' = [t \in Turn |->
                  IF (At(t, "insert") \/ At(t, "remember")) /\ turn[t].age < CacheTTL
                  THEN [turn[t] EXCEPT !.age = @ + 1] ELSE turn[t]]
    /\ sweep' = IF sweep = NoSweep THEN sweep ELSE [sweep EXCEPT !.age = Older(@)]
    /\ UNCHANGED <<channel, admin, hangup>>

TurnStep(t) ==
    \/ TurnBegin(t) \/ AgentStreams(t) \/ AgentEnds(t) \/ RealtimeBegin(t)
    \/ Ensure(t) \/ Select(t) \/ Remember(t)
    \/ \E c \in Conversation : Insert(t, c)
    \/ SaveCustomer(t) \/ SaveCustomerAt(t) \/ SaveAnswer(t) \/ SaveAnswerAt(t)
    \/ EndChat(t) \/ EndCallRead(t) \/ EndCallWrite(t)

AdminStep ==
    \/ \E c \in Conversation : \/ AdminMessage(c) \/ AdminClose(c) \/ AdminDelete(c)
                               \/ \E on \in BOOLEAN : AdminSetAi(c, on)
    \/ AdminFinish

Next ==
    \/ \E t \in Turn : TurnStep(t)
    \/ HangupRead \/ HangupWrite
    \/ AdminStep
    \/ SweepStep
    \/ Tick

Spec == Init /\ [][Next]_vars

\* What happens between two rounds of the sweep.
BetweenNext == (\E t \in Turn : TurnStep(t)) \/ AdminStep \/ Tick
BetweenSpec == Init /\ [][BetweenNext]_vars

\* Time passes and the sweep runs for ever; nobody else has to do anything.
FairSpec == Spec /\ WF_vars(Tick) /\ WF_vars(SweepStep)

-----------------------------------------------------------------------------
(* Properties *)

Stage == {"idle", "agent", "streaming", "ensure", "select", "insert", "remember", "customer",
          "customerAt", "answer", "answerAt", "end", "endCall"}

TypeOK ==
    /\ channel \in Channels
    /\ rows \in [Conversation -> Row]
    /\ cache = None \/ cache \in [id : Conversation, ai : BOOLEAN, age : 0..CacheTTL]
    /\ turn \in [Turn -> [stage : Stage, id : Conversation \cup {None}, answers : BOOLEAN,
                          realtime : BOOLEAN, ai : BOOLEAN, age : Age]]
    /\ admin = None \/ admin \in [op : {"touch", "delete"}, id : Conversation]
    /\ hangup \in BOOLEAN
    /\ sweep \in [todo : SUBSET Conversation, at : Conversation \cup {None}, age : Age,
                  act : [Conversation -> {None, "warn", "close", "endCall"}]]

\* A session has never more rows than turns that are persisted at once: of the
\* threads that found no row each inserts one, and the cache hides the select
\* from the others.  A second row needs two overlapping first turns.
RowsPerSession ==
    Cardinality(Existing) + Cardinality({t \in Turn : At(t, "insert")}) <= Cardinality(Turn)

\* While the cache has an entry, the switch of the administrator decides what is
\* kept: a turn whose answer becomes its result and is stored was begun less than
\* CacheTTL after the conversation was muted, however the threads that fill the
\* cache interleave.  What the turn streams is another matter: see below.
CachedSwitchObeyed ==
    [][\A t \in Turn : TurnBegin(t) /\ Hit /\ turn'[t].answers =>
         \/ ~Exists(cache.id)
         \/ rows[cache.id].ai
         \/ rows[cache.id].muted < CacheTTL]_vars

\* The sweep ends a chat only CloseAfter after a warning, and only when it had
\* been quiet for longer than IdleAfter as the round began: a message younger
\* than the round is the only thing it may overlook.
ClosedAfterWarning ==
    [][\A c \in Conversation : SweepClose(c) /\ Exists(c) =>
         /\ rows[c].warned # None /\ rows[c].warned >= CloseAfter
         /\ rows[c].quiet > IdleAfter \/ rows[c].quiet <= sweep.age]_vars

\* An open conversation is closed, or somebody writes in it: no interleaving
\* of rounds, turns and deletions makes the sweep miss it for ever.  One of the
\* channel "voice" is never closed but by a person.
IdleIsClosed ==
    \A c \in Conversation :
        rows[c].status = "open" /\ channel # "voice"
            ~> rows[c].status # "open" \/ rows[c].quiet = 0

\* conversation_repo.py:437-439: with the AI switched off the customer's message
\* is stored and no answer of the AI is generated.  A turn that knows of the
\* switch from its cache streams one.
MutedTurnsAreSilent == \A t \in Turn : At(t, "streaming") => turn[t].answers

\* conversation_repo.py:343: a warned chat is closed when nobody answered, that
\* is when last_message_at was not renewed after the warning.  idle_warned_at
\* is never cleared, so the next silence is closed without a warning.
ClosedOnlyUnanswered ==
    [][\A c \in Conversation : SweepClose(c) /\ Exists(c) =>
         \/ rows[c].quiet >= rows[c].warned
         \/ rows[c].quiet <= sweep.age]_vars
=============================================================================
