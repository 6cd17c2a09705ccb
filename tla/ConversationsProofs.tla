------------------------- MODULE ConversationsProofs -------------------------
(***************************************************************************)
(* Theorems about the conversation of a session, for any number of turns,  *)
(* any limits of the sweep and any age of the cache, and about what a      *)
(* caller hears: one turn of a voice call (VoicePipeline), for any length  *)
(* of the answer and any number of concurrent syntheses, and one turn of a *)
(* web call (WebCallSpeech), for any number of sentences and of chunks.    *)
(***************************************************************************)
EXTENDS MCConversations, FiniteSetTheorems, WellFoundedInduction, TLAPS

TurnRecord == [stage : Stage, id : Conversation \cup {None}, answers : BOOLEAN,
               realtime : BOOLEAN, ai : BOOLEAN, age : 0..CacheTTL]

\* TypeOK; no entry is older than the cache keeps it, and there is one to store.
TypeInv ==
    /\ TypeOK
    /\ turn \in [Turn -> TurnRecord]
    /\ \A t \in Turn : At(t, "remember") => turn[t].id \in Conversation

-----------------------------------------------------------------------------
(* Type correctness *)

LEMMA Limits == IdleAfter \in Nat /\ CloseAfter \in Nat /\ CacheTTL \in Nat /\ Old \in Nat
                /\ CacheTTL <= Old /\ Age = 0..Old
BY LimitAssumption DEF Old, Age

LEMMA OlderAge ==
  ASSUME NEW n \in Age
  PROVE  Older(n) \in Age /\ Older(n) >= n /\ (n < Old => Older(n) = n + 1)
BY Limits DEF Older

LEMMA OlderPasses ==
  ASSUME NEW n \in Age, n >= CloseAfter
  PROVE  Older(n) >= CloseAfter
BY Limits DEF Older

LEMMA Records ==
  /\ NoRow \in Row /\ TurnIdle \in TurnRecord /\ 0 \in Age
  /\ NoSweep \in [todo : SUBSET Conversation, at : Conversation \cup {None}, age : Age,
                  act : [Conversation -> {None, "warn", "close", "endCall"}]]
  /\ NoSweep.todo = {} /\ NoSweep.at = None
BY Limits DEF NoRow, Row, TurnIdle, TurnRecord, Stage, NoSweep

\* What a step that writes rows and turns owes.
LEMMA KeepsType ==
  ASSUME TypeInv, rows' \in [Conversation -> Row], turn' \in [Turn -> TurnRecord],
         \A t \in Turn : At(t, "remember")' => turn'[t].id \in Conversation,
         channel' = channel, cache' = cache \/ cache' \in [id : Conversation, ai : BOOLEAN,
                                                           age : 0..CacheTTL],
         admin' \in [op : {"touch", "delete"}, id : Conversation] \cup {None, admin},
         hangup' \in BOOLEAN,
         sweep' = sweep \/ sweep' \in [todo : SUBSET Conversation, age : Age,
                                       at : Conversation \cup {None},
                                       act : [Conversation -> {None, "warn", "close", "endCall"}]]
  PROVE  TypeInv'
<1>1. turn' \in [Turn -> [stage : Stage, id : Conversation \cup {None}, answers : BOOLEAN,
                          realtime : BOOLEAN, ai : BOOLEAN, age : Age]]
  BY Limits DEF TurnRecord
<1>2. admin' = None \/ admin' \in [op : {"touch", "delete"}, id : Conversation]
  BY DEF TypeInv, TypeOK
<1>3. cache' = None \/ cache' \in [id : Conversation, ai : BOOLEAN, age : 0..CacheTTL]
  BY DEF TypeInv, TypeOK
<1> QED BY <1>1, <1>2, <1>3 DEF TypeInv, TypeOK

LEMMA InitType == Init => TypeInv
<1> SUFFICES ASSUME Init PROVE TypeInv
  OBVIOUS
<1>1. turn \in [Turn -> TurnRecord] /\ \A t \in Turn : ~At(t, "remember")
  BY Records DEF Init, At, TurnIdle
<1>2. turn \in [Turn -> [stage : Stage, id : Conversation \cup {None}, answers : BOOLEAN,
                         realtime : BOOLEAN, ai : BOOLEAN, age : Age]]
  BY <1>1, Limits DEF TurnRecord
<1> QED BY <1>1, <1>2, Records DEF Init, TypeInv, TypeOK

\* The next record of one turn.
LEMMA OneTurn ==
  ASSUME TypeInv, NEW t \in Turn, NEW r \in TurnRecord,
         r.stage = "remember" => r.id \in Conversation,
         turn' = [turn EXCEPT ![t] = r]
  PROVE  /\ turn' \in [Turn -> TurnRecord] /\ turn'[t] = r
         /\ \A v \in Turn \ {t} : turn'[v] = turn[v]
         /\ \A v \in Turn : At(v, "remember")' => turn'[v].id \in Conversation
<1>1. /\ turn' \in [Turn -> TurnRecord] /\ turn'[t] = r
      /\ \A v \in Turn \ {t} : turn'[v] = turn[v]
  BY DEF TypeInv
<1> QED BY <1>1 DEF TypeInv, At

LEMMA TurnGoes ==
  ASSUME TypeInv, NEW t \in Turn, NEW st \in Stage \ {"remember"}, Goto(t, st) \/ Done(t)
  PROVE  /\ turn' \in [Turn -> TurnRecord]
         /\ turn'[t].stage \in {st, "idle"}
         /\ \A v \in Turn \ {t} : turn'[v] = turn[v]
         /\ \A v \in Turn : At(v, "remember")' => turn'[v].id \in Conversation
<1>1. turn[t] \in TurnRecord
  BY DEF TypeInv
<1>2. CASE Goto(t, st)
  <2>1. /\ [turn[t] EXCEPT !.stage = st] \in TurnRecord
        /\ [turn[t] EXCEPT !.stage = st].stage = st
    BY <1>1 DEF TurnRecord
  <2>2. turn' = [turn EXCEPT ![t] = [turn[t] EXCEPT !.stage = st]]
    BY <1>2 DEF Goto
  <2> QED BY <2>1, <2>2, OneTurn
<1>3. CASE Done(t)
  <2>1. TurnIdle.stage = "idle"
    BY DEF TurnIdle
  <2> QED BY <1>3, <2>1, Records, OneTurn DEF Done
<1> QED BY <1>2, <1>3

\* The writes of a row.
LEMMA RowWrites ==
  ASSUME TypeInv, NEW c,
         \/ rows' = rows \/ Stored(c) \/ Lost(c) \/ Touched(c) \/ Closed(c) \/ CallEnded
  PROVE  rows' \in [Conversation -> Row]
<1>1. \A d \in Conversation : rows[d] \in Row
  BY DEF TypeInv, TypeOK
<1>2. ASSUME NEW d \in Conversation
      PROVE  /\ [rows[d] EXCEPT !.messages = TRUE] \in Row
             /\ [rows[d] EXCEPT !.status = "closed"] \in Row
             /\ [rows[d] EXCEPT !.quiet = 0] \in Row
             /\ [rows[d] EXCEPT !.status = "closed", !.ended = TRUE] \in Row
  <2>1. rows[d] \in Row /\ 0 \in Age
    BY <1>1, Records
  <2>2. [rows[d] EXCEPT !.messages = TRUE] \in Row
    BY <2>1 DEF Row
  <2>3. [rows[d] EXCEPT !.status = "closed"] \in Row
    BY <2>1 DEF Row
  <2>4. [rows[d] EXCEPT !.quiet = 0] \in Row
    BY <2>1 DEF Row
  <2>5. [rows[d] EXCEPT !.status = "closed", !.ended = TRUE] \in Row
    BY <2>1 DEF Row
  <2> QED BY <2>2, <2>3, <2>4, <2>5
<1>3. rows \in [Conversation -> Row]
  BY DEF TypeInv, TypeOK
<1>4. CASE Stored(c)
  BY <1>2, <1>3, <1>4 DEF Stored
<1>5. CASE Touched(c)
  <2>1. \A d \in Conversation : [rows[d] EXCEPT !.quiet = rows[d].quiet] = rows[d]
    BY <1>1 DEF Row
  <2> QED BY <1>2, <1>3, <1>5, <2>1 DEF Touched
<1>6. CASE Closed(c)
  <2>1. \A d \in Conversation : [rows[d] EXCEPT !.status = rows[d].status] = rows[d]
    BY <1>1 DEF Row
  <2> QED BY <1>2, <1>3, <1>6, <2>1 DEF Closed
<1>7. CASE CallEnded
  BY <1>1, <1>2, <1>7 DEF CallEnded
<1> QED BY <1>3, <1>4, <1>5, <1>6, <1>7 DEF Lost

LEMMA TurnStepType ==
  ASSUME TypeInv, NEW t \in Turn, TurnStep(t)
  PROVE  TypeInv'
<1>1. turn[t] \in TurnRecord /\ 0 \in 0..CacheTTL /\ rows \in [Conversation -> Row]
  BY Limits DEF TypeInv, TypeOK
<1>2. {"agent", "streaming", "ensure", "select", "insert", "customer", "customerAt", "answer",
       "answerAt", "end", "endCall"} \subseteq Stage \ {"remember"} /\ "remember" \in Stage
  BY DEF Stage
<1>3. ASSUME NEW r \in TurnRecord, r.stage = "remember" => r.id \in Conversation,
             turn' = [turn EXCEPT ![t] = r],
             rows' \in [Conversation -> Row],
             cache' = cache \/ cache' \in [id : Conversation, ai : BOOLEAN, age : 0..CacheTTL],
             UNCHANGED <<channel, admin, hangup, sweep>>
      PROVE  TypeInv'
  <2>1. hangup' \in BOOLEAN
    BY <1>3 DEF TypeInv, TypeOK
  <2> QED BY <1>3, <2>1, OneTurn, KeepsType
<1>4. ASSUME NEW st \in Stage \ {"remember"}, Goto(t, st) \/ Done(t),
             rows' \in [Conversation -> Row], UNCHANGED <<channel, cache, admin, hangup, sweep>>
      PROVE  TypeInv'
  <2>1. hangup' \in BOOLEAN
    BY <1>4 DEF TypeInv, TypeOK
  <2> QED BY <1>4, <2>1, TurnGoes, KeepsType
<1>5. Hit => cache.ai \in BOOLEAN /\ cache.id \in Conversation
  BY DEF Hit, TypeInv, TypeOK
<1>6. CASE TurnBegin(t)
  <2> DEFINE r == [TurnIdle EXCEPT !.stage = "agent", !.answers = IF Hit THEN cache.ai ELSE TRUE]
  <2>1. r \in TurnRecord /\ r.stage = "agent"
    BY <1>1, <1>2, <1>5 DEF TurnIdle, TurnRecord
  <2> QED BY <1>1, <1>3, <1>6, <2>1 DEF TurnBegin
<1>7. CASE RealtimeBegin(t)
  <2> DEFINE r == [TurnIdle EXCEPT !.stage = "select", !.answers = TRUE, !.realtime = TRUE]
  <2>1. r \in TurnRecord /\ r.stage = "select"
    BY <1>1, <1>2 DEF TurnIdle, TurnRecord
  <2> QED BY <1>1, <1>3, <1>7, <2>1 DEF RealtimeBegin
<1>8. CASE Ensure(t)
  <2> DEFINE hit == [turn[t] EXCEPT !.stage = "customer", !.id = cache.id]
             miss == [turn[t] EXCEPT !.stage = "select"]
  <2>1. /\ Hit => hit \in TurnRecord /\ hit.stage = "customer"
        /\ miss \in TurnRecord /\ miss.stage = "select"
    BY <1>1, <1>2, <1>5 DEF TurnRecord
  <2>2. turn' = [turn EXCEPT ![t] = IF Hit THEN hit ELSE miss]
    BY <1>8 DEF Ensure
  <2> HIDE DEF hit, miss
  <2> QED BY <1>1, <1>3, <1>8, <2>1, <2>2 DEF Ensure
<1>9. CASE Select(t)
  <2>1. CASE Existing = {} /\ turn' = [turn EXCEPT ![t].stage = "insert", ![t].age = 0]
    <3> DEFINE r == [turn[t] EXCEPT !.stage = "insert", !.age = 0]
    <3>1. r \in TurnRecord /\ r.stage = "insert" /\ turn' = [turn EXCEPT ![t] = r]
      BY <1>1, <1>2, <2>1 DEF TurnRecord
    <3> QED BY <1>1, <1>3, <1>9, <3>1 DEF Select
  <2>2. ASSUME NEW c \in Existing,
               turn' = [turn EXCEPT ![t].stage = "remember", ![t].id = c,
                                    ![t].ai = rows[c].ai, ![t].age = 0]
        PROVE  TypeInv'
    <3> DEFINE r == [turn[t] EXCEPT !.stage = "remember", !.id = c, !.ai = rows[c].ai, !.age = 0]
    <3>1. c \in Conversation /\ rows[c].ai \in BOOLEAN
      BY <1>1 DEF Existing, Row
    <3>2. r \in TurnRecord /\ r.id = c
      BY <1>1, <1>2, <3>1 DEF TurnRecord
    <3>3. turn' = [turn EXCEPT ![t] = r]
      BY <2>2
    <3> HIDE DEF r
    <3> QED BY <1>1, <1>3, <1>9, <3>1, <3>2, <3>3 DEF Select
  <2> QED BY <1>9, <2>1, <2>2 DEF Select
<1>10. ASSUME NEW c \in Conversation, Insert(t, c) PROVE TypeInv'
  <2> DEFINE r == [turn[t] EXCEPT !.stage = "remember", !.id = c, !.ai = TRUE]
  <2>1. r \in TurnRecord /\ r.id = c
    BY <1>1, <1>2 DEF TurnRecord
  <2>2. turn' = [turn EXCEPT ![t] = r]
    BY <1>10 DEF Insert
  <2>3. [rows[c] EXCEPT !.status = "open"] \in Row
    BY <1>1 DEF Row
  <2>4. rows' \in [Conversation -> Row]
    BY <1>1, <1>10, <2>3 DEF Insert
  <2> HIDE DEF r
  <2> QED BY <1>3, <1>10, <2>1, <2>2, <2>4 DEF Insert
<1>11. CASE Remember(t)
  <2> DEFINE r == [turn[t] EXCEPT !.stage = "customer", !.ai = TRUE, !.age = 0]
  <2>1. r \in TurnRecord /\ r.stage = "customer"
    BY <1>1, <1>2 DEF TurnRecord
  <2>2. turn' = [turn EXCEPT ![t] = r]
    BY <1>11 DEF Remember
  <2>3. cache' = cache \/ cache' \in [id : Conversation, ai : BOOLEAN, age : 0..CacheTTL]
    BY <1>1, <1>11 DEF Remember, TypeInv, TurnRecord
  <2> HIDE DEF r
  <2> QED BY <1>1, <1>3, <1>11, <2>1, <2>2, <2>3 DEF Remember
<1>12. CASE AgentStreams(t) \/ AgentEnds(t) \/ SaveCustomer(t) \/ SaveCustomerAt(t)
            \/ SaveAnswer(t) \/ SaveAnswerAt(t)
            \/ EndChat(t) \/ EndCallRead(t) \/ EndCallWrite(t)
  <2>1. rows' \in [Conversation -> Row]
    BY <1>12, RowWrites
       DEF AgentStreams, AgentEnds, SaveCustomer, SaveCustomerAt, SaveAnswer, SaveAnswerAt,
           EndChat, EndCallRead, EndCallWrite
  <2>2. \E st \in Stage \ {"remember"} : Goto(t, st) \/ Done(t)
    BY <1>2, <1>12
       DEF AgentStreams, AgentEnds, SaveCustomer, SaveCustomerAt, SaveAnswer, SaveAnswerAt,
           EndChat, EndCallRead, EndCallWrite
  <2>3. UNCHANGED <<channel, cache, admin, hangup, sweep>>
    BY <1>12
       DEF AgentStreams, AgentEnds, SaveCustomer, SaveCustomerAt, SaveAnswer, SaveAnswerAt,
           EndChat, EndCallRead, EndCallWrite
  <2> QED BY <1>4, <2>1, <2>2, <2>3
<1> QED BY <1>6, <1>7, <1>8, <1>9, <1>10, <1>11, <1>12 DEF TurnStep

LEMMA OthersType ==
  ASSUME TypeInv, HangupRead \/ HangupWrite \/ AdminStep \/ SweepStep \/ UNCHANGED vars
  PROVE  TypeInv'
<1>1. /\ rows \in [Conversation -> Row] /\ \A c \in Conversation : rows[c] \in Row
      /\ 0 \in Age /\ hangup \in BOOLEAN
      /\ sweep \in [todo : SUBSET Conversation, at : Conversation \cup {None}, age : Age,
                    act : [Conversation -> {None, "warn", "close", "endCall"}]]
  BY Records DEF TypeInv, TypeOK
<1>2. ASSUME turn' = turn
      PROVE  turn' \in [Turn -> TurnRecord]
             /\ \A t \in Turn : At(t, "remember")' => turn'[t].id \in Conversation
  BY <1>2 DEF TypeInv, At
<1>3. CASE HangupRead \/ HangupWrite \/ UNCHANGED vars
  <2>1. rows' \in [Conversation -> Row]
    BY <1>3, RowWrites DEF HangupRead, HangupWrite, vars
  <2>2. hangup' \in BOOLEAN
    BY <1>1, <1>3 DEF HangupRead, HangupWrite, vars
  <2> QED BY <1>2, <1>3, <2>1, <2>2, KeepsType DEF HangupRead, HangupWrite, vars
<1>4. CASE AdminStep
  <2>1. ASSUME NEW c \in Conversation,
               AdminMessage(c) \/ AdminClose(c) \/ AdminDelete(c)
               \/ \E on \in BOOLEAN : AdminSetAi(c, on)
        PROVE  TypeInv'
    <3>1. CASE AdminMessage(c) \/ AdminClose(c)
      <4>1. rows' \in [Conversation -> Row]
        BY <3>1, RowWrites DEF AdminMessage, AdminClose
      <4>2. admin' \in [op : {"touch", "delete"}, id : Conversation] \cup {None, admin}
        BY <3>1 DEF AdminMessage, AdminClose
      <4> QED BY <1>1, <1>2, <3>1, <4>1, <4>2, KeepsType DEF AdminMessage, AdminClose
    <3>2. CASE AdminDelete(c)
      <4>1. [rows[c] EXCEPT !.messages = FALSE] \in Row
        BY <1>1 DEF Row
      <4>2. rows' \in [Conversation -> Row]
        BY <1>1, <3>2, <4>1 DEF AdminDelete
      <4>3. admin' \in [op : {"touch", "delete"}, id : Conversation] \cup {None, admin}
        BY <3>2 DEF AdminDelete
      <4> QED BY <1>1, <1>2, <3>2, <4>2, <4>3, KeepsType DEF AdminDelete
    <3>3. ASSUME NEW on \in BOOLEAN, AdminSetAi(c, on) PROVE TypeInv'
      <4>1. [rows[c] EXCEPT !.ai = on, !.muted = IF on THEN 0 ELSE rows[c].muted] \in Row
        <5>1. rows[c] \in Row /\ (IF on THEN 0 ELSE rows[c].muted) \in Age
          BY <1>1 DEF Row
        <5> QED BY <5>1 DEF Row
      <4>2. rows' \in [Conversation -> Row]
        BY <1>1, <3>3, <4>1 DEF AdminSetAi
      <4> QED BY <1>1, <1>2, <3>3, <4>2, KeepsType DEF AdminSetAi
    <3> QED BY <2>1, <3>1, <3>2, <3>3
  <2>2. CASE AdminFinish
    <3>1. [NoRow EXCEPT !.status = "deleted"] \in Row
      BY Records DEF Row
    <3>2. rows' \in [Conversation -> Row]
      BY <1>1, <2>2, <3>1, RowWrites DEF AdminFinish
    <3> QED BY <1>1, <1>2, <2>2, <3>2, KeepsType DEF AdminFinish
  <2> QED BY <1>4, <2>1, <2>2 DEF AdminStep
<1>5. CASE SweepStep
  <2> DEFINE Round == [todo : SUBSET Conversation, at : Conversation \cup {None}, age : Age,
                       act : [Conversation -> {None, "warn", "close", "endCall"}]]
  <2>1. ASSUME NEW c \in Conversation, Rest(c) PROVE sweep' \in Round
    <3>1. [sweep EXCEPT !.todo = @ \ {c}, !.act[c] = None, !.at = None] \in Round
      BY <1>1
    <3> QED BY <2>1, <3>1, Records DEF Rest
  <2>2. CASE SweepSelect
    <3>1. \A c \in Conversation : ActFor(c) \in {None, "warn", "close", "endCall"}
      BY ChannelAssumption DEF ActFor, TypeInv, TypeOK
    <3>2. sweep' \in Round
      BY <1>1, <2>2, <3>1 DEF SweepSelect
    <3> QED BY <1>1, <1>2, <2>2, <3>2, KeepsType DEF SweepSelect
  <2>3. ASSUME NEW c \in Conversation, SweepMessage(c) PROVE TypeInv'
    <3>1. rows' \in [Conversation -> Row]
      BY <2>3, RowWrites DEF SweepMessage
    <3>2. sweep' \in Round
      BY <1>1, <2>3, Records DEF SweepMessage
    <3> QED BY <1>1, <1>2, <2>3, <3>1, <3>2, KeepsType DEF SweepMessage
  <2>4. ASSUME NEW c \in Conversation, SweepWarn(c) PROVE TypeInv'
    <3>1. [rows[c] EXCEPT !.warned = IF Exists(c) THEN sweep.age ELSE rows[c].warned] \in Row
      BY <1>1 DEF Row
    <3>2. rows' \in [Conversation -> Row]
      BY <1>1, <2>4, <3>1 DEF SweepWarn
    <3> QED BY <1>1, <1>2, <2>1, <2>4, <3>2, KeepsType DEF SweepWarn
  <2>5. ASSUME NEW c \in Conversation, SweepClose(c) PROVE TypeInv'
    <3>1. rows' \in [Conversation -> Row]
      BY <2>5, RowWrites DEF SweepClose
    <3> QED BY <1>1, <1>2, <2>1, <2>5, <3>1, KeepsType DEF SweepClose
  <2>6. ASSUME NEW c \in Conversation, SweepEndCall(c) PROVE TypeInv'
    <3>1. [rows[c] EXCEPT !.status = "closed", !.ended = TRUE] \in Row
      BY <1>1 DEF Row
    <3>2. rows' \in [Conversation -> Row]
      BY <1>1, <2>6, <3>1 DEF SweepEndCall
    <3> QED BY <1>1, <1>2, <2>1, <2>6, <3>2, KeepsType DEF SweepEndCall
  <2> QED BY <1>5, <2>2, <2>3, <2>4, <2>5, <2>6 DEF SweepStep
<1> QED BY <1>3, <1>4, <1>5

\* What a tick makes of one row, of the entry and of one turn.
LEMMA TickFrame ==
  ASSUME TypeInv, Tick
  PROVE  /\ \A c \in Conversation :
              /\ rows'[c] \in Row /\ rows'[c].status = rows[c].status /\ rows'[c].ai = rows[c].ai
              /\ ~Exists(c) => rows'[c] = rows[c]
              /\ Exists(c) =>
                   /\ rows'[c].quiet = Older(rows[c].quiet)
                   /\ rows'[c].warned = IF rows[c].warned = None THEN None ELSE Older(rows[c].warned)
                   /\ rows'[c].muted = IF rows[c].ai THEN 0 ELSE Older(rows[c].muted)
         /\ \A t \in Turn :
              /\ turn'[t] \in TurnRecord /\ turn'[t].stage = turn[t].stage
              /\ turn'[t].id = turn[t].id /\ turn'[t].ai = turn[t].ai
              /\ At(t, "remember") /\ turn[t].age < CacheTTL => turn'[t].age = turn[t].age + 1
              /\ turn'[t].age >= turn[t].age
         /\ rows' \in [Conversation -> Row] /\ turn' \in [Turn -> TurnRecord]
<1>1. ASSUME NEW c \in Conversation
      PROVE  /\ rows'[c] \in Row /\ rows'[c].status = rows[c].status /\ rows'[c].ai = rows[c].ai
             /\ ~Exists(c) => rows'[c] = rows[c]
             /\ Exists(c) =>
                  /\ rows'[c].quiet = Older(rows[c].quiet)
                  /\ rows'[c].warned = IF rows[c].warned = None THEN None ELSE Older(rows[c].warned)
                  /\ rows'[c].muted = IF rows[c].ai THEN 0 ELSE Older(rows[c].muted)
  <2>1. rows[c] \in Row
    BY DEF TypeInv, TypeOK
  <2>2. CASE ~Exists(c)
    BY <2>1, <2>2 DEF Tick
  <2>3. CASE Exists(c)
    <3> DEFINE q == Older(rows[c].quiet)
               w == IF rows[c].warned = None THEN None ELSE Older(rows[c].warned)
               m == IF rows[c].ai THEN 0 ELSE Older(rows[c].muted)
    <3>1. q \in Age /\ w \in Age \cup {None} /\ m \in Age
      BY <2>1, OlderAge, Records DEF Row
    <3>2. rows'[c] = [rows[c] EXCEPT !.quiet = q, !.warned = w, !.muted = m]
      BY <2>3 DEF Tick
    <3> HIDE DEF q, w, m
    <3>3. /\ rows'[c] \in Row /\ rows'[c].status = rows[c].status /\ rows'[c].ai = rows[c].ai
          /\ rows'[c].quiet = q /\ rows'[c].warned = w /\ rows'[c].muted = m
      BY <2>1, <3>1, <3>2 DEF Row
    <3> QED BY <2>3, <3>3 DEF q, w, m
  <2> QED BY <2>2, <2>3
<1>2. ASSUME NEW t \in Turn
      PROVE  /\ turn'[t] \in TurnRecord /\ turn'[t].stage = turn[t].stage
             /\ turn'[t].id = turn[t].id /\ turn'[t].ai = turn[t].ai
             /\ At(t, "remember") /\ turn[t].age < CacheTTL => turn'[t].age = turn[t].age + 1
             /\ turn'[t].age >= turn[t].age
  <2>1. turn[t] \in TurnRecord /\ turn[t].age \in 0..CacheTTL
    BY DEF TypeInv, TurnRecord
  <2>2. turn[t].age < CacheTTL => turn[t].age + 1 \in 0..CacheTTL
    BY <2>1, Limits
  <2>3. CASE (At(t, "insert") \/ At(t, "remember")) /\ turn[t].age < CacheTTL
    <3>1. turn'[t] = [turn[t] EXCEPT !.age = turn[t].age + 1]
      BY <2>3 DEF Tick
    <3> QED BY <2>1, <2>2, <2>3, <3>1 DEF TurnRecord
  <2>4. CASE ~((At(t, "insert") \/ At(t, "remember")) /\ turn[t].age < CacheTTL)
    <3>1. turn'[t] = turn[t]
      BY <2>4 DEF Tick
    <3> QED BY <2>1, <2>4, <3>1, Limits
  <2> QED BY <2>3, <2>4
<1>3. rows' \in [Conversation -> Row]
  BY <1>1 DEF Tick
<1>4. turn' \in [Turn -> TurnRecord]
  BY <1>2 DEF Tick
<1> QED BY <1>1, <1>2, <1>3, <1>4

LEMMA TickType ==
  ASSUME TypeInv, Tick
  PROVE  TypeInv'
<1>1. rows' \in [Conversation -> Row] /\ turn' \in [Turn -> TurnRecord]
  BY TickFrame
<1>2. \A t \in Turn : At(t, "remember")' => turn'[t].id \in Conversation
  BY TickFrame DEF TypeInv, At
<1>3. cache' = cache \/ cache' \in [id : Conversation, ai : BOOLEAN, age : 0..CacheTTL]
  <2>1. CASE cache # None /\ cache.age # CacheTTL
    <3>1. cache \in [id : Conversation, ai : BOOLEAN, age : 0..CacheTTL]
      BY <2>1 DEF TypeInv, TypeOK
    <3>2. cache.age + 1 \in 0..CacheTTL
      BY <2>1, <3>1, Limits
    <3> QED BY <2>1, <3>1, <3>2 DEF Tick
  <2>2. CASE ~(cache # None /\ cache.age # CacheTTL)
    BY <2>2 DEF Tick
  <2> QED BY <2>1, <2>2
<1>4. sweep' = sweep \/ sweep' \in [todo : SUBSET Conversation, age : Age,
                                    at : Conversation \cup {None},
                                    act : [Conversation -> {None, "warn", "close", "endCall"}]]
  <2>1. sweep \in [todo : SUBSET Conversation, age : Age, at : Conversation \cup {None},
                   act : [Conversation -> {None, "warn", "close", "endCall"}]]
    BY DEF TypeInv, TypeOK
  <2>2. Older(sweep.age) \in Age
    BY <2>1, OlderAge
  <2> QED BY <2>1, <2>2 DEF Tick
<1>5. hangup' \in BOOLEAN
  BY DEF Tick, TypeInv, TypeOK
<1> QED BY <1>1, <1>2, <1>3, <1>4, <1>5, KeepsType DEF Tick

LEMMA StepType == TypeInv /\ [Next]_vars => TypeInv'
BY TurnStepType, OthersType, TickType DEF Next

\* Rows, turns, entry and sweep keep their shape.
THEOREM ConversationTypeCorrect == Spec => []TypeOK
<1>1. TypeInv => TypeOK
  BY DEF TypeInv
<1> QED BY <1>1, InitType, StepType, PTL DEF Spec

-----------------------------------------------------------------------------
(* The cache and the switch *)

\* The age of a mute is that of the mute: a row that was never muted has none.
Clean ==
    \A c \in Conversation : /\ rows[c].status = "absent" => rows[c].ai
                            /\ rows[c].ai => rows[c].muted = 0

\* What was read age ago: a mute that it does not show is not older.
Dated(c, ai, age) ==
    ai /\ Exists(c) /\ ~rows[c].ai => age = CacheTTL \/ rows[c].muted <= age

EntriesDated ==
    /\ cache # None => Dated(cache.id, cache.ai, cache.age)
    /\ \A t \in Turn : At(t, "remember") => Dated(turn[t].id, turn[t].ai, turn[t].age)

SwitchInv == TypeInv /\ Clean /\ EntriesDated

\* Only the tick lets a mute grow older.
Muted(c) ==
    \/ /\ rows'[c].status = "absent" => rows[c].status = "absent"
       /\ Exists(c)' => Exists(c)
       /\ rows'[c].ai = rows[c].ai /\ rows'[c].muted = rows[c].muted
    \/ rows'[c].muted = 0 /\ (rows'[c].status = "absent" => rows'[c].ai)

LEMMA MutedKeeps ==
  ASSUME Clean, \A c \in Conversation : Muted(c)
  PROVE  /\ Clean'
         /\ \A c \in Conversation, ai \in BOOLEAN, age \in 0..CacheTTL :
              Dated(c, ai, age) => Dated(c, ai, age)'
<1>1. Clean'
  BY DEF Clean, Muted
<1>2. ASSUME NEW c \in Conversation, NEW ai \in BOOLEAN, NEW age \in 0..CacheTTL,
             Dated(c, ai, age)
      PROVE  Dated(c, ai, age)'
  BY <1>2, Limits DEF Dated, Muted
<1> QED BY <1>1, <1>2

\* The writes of a row that somebody may do.
LEMMA WritesMute ==
  ASSUME TypeInv, NEW c,
         \/ rows' = rows \/ Stored(c) \/ Lost(c) \/ Touched(c) \/ Closed(c) \/ CallEnded
  PROVE  \A d \in Conversation :
           /\ rows'[d].ai = rows[d].ai /\ rows'[d].muted = rows[d].muted
           /\ rows'[d].warned = rows[d].warned /\ rows'[d].quiet \in {rows[d].quiet, 0}
           /\ rows'[d].status = "absent" <=> rows[d].status = "absent"
           /\ Exists(d)' <=> Exists(d)
<1> SUFFICES ASSUME NEW d \in Conversation
             PROVE  /\ rows'[d].ai = rows[d].ai /\ rows'[d].muted = rows[d].muted
                    /\ rows'[d].warned = rows[d].warned /\ rows'[d].quiet \in {rows[d].quiet, 0}
                    /\ rows'[d].status = "absent" <=> rows[d].status = "absent"
                    /\ Exists(d)' <=> Exists(d)
  OBVIOUS
<1>1. rows[d] \in Row /\ rows \in [Conversation -> Row]
  BY DEF TypeInv, TypeOK
<1>2. \/ rows'[d] = rows[d]
      \/ rows'[d] = [rows[d] EXCEPT !.messages = TRUE]
      \/ rows'[d] = [rows[d] EXCEPT !.quiet = IF Exists(d) THEN 0 ELSE @]
      \/ rows'[d] = [rows[d] EXCEPT !.status = IF Exists(d) THEN "closed" ELSE @]
      \/ Exists(d) /\ rows'[d] = [rows[d] EXCEPT !.status = "closed", !.ended = TRUE]
  BY <1>1 DEF Stored, Lost, Touched, Closed, CallEnded
<1> QED BY <1>1, <1>2 DEF Row, Exists

LEMMA InitSwitch == Init => SwitchInv
<1> SUFFICES ASSUME Init PROVE SwitchInv
  OBVIOUS
<1>1. Clean
  BY DEF Init, NoRow, Clean
<1>2. EntriesDated
  BY DEF Init, EntriesDated, At, TurnIdle
<1> QED BY <1>1, <1>2, InitType DEF SwitchInv

\* A step whose writes mute nothing anew.
LEMMA KeepsSwitch ==
  ASSUME SwitchInv, TypeInv', \A c \in Conversation : Muted(c),
         \/ cache' = cache
         \/ \E t \in Turn : /\ At(t, "remember")
                            /\ cache' = [id |-> turn[t].id, ai |-> turn[t].ai, age |-> turn[t].age],
         \A t \in Turn : At(t, "remember")' =>
           \/ At(t, "remember") /\ turn'[t].id = turn[t].id /\ turn'[t].ai = turn[t].ai
              /\ turn'[t].age = turn[t].age
           \/ Dated(turn[t].id, turn[t].ai, turn[t].age)'
  PROVE  SwitchInv'
<1>1. /\ Clean'
      /\ \A c \in Conversation, ai \in BOOLEAN, age \in 0..CacheTTL :
           Dated(c, ai, age) => Dated(c, ai, age)'
  BY MutedKeeps DEF SwitchInv
<1>2. \A t \in Turn : At(t, "remember") =>
        /\ turn[t].id \in Conversation /\ turn[t].ai \in BOOLEAN /\ turn[t].age \in 0..CacheTTL
        /\ Dated(turn[t].id, turn[t].ai, turn[t].age)
  BY DEF SwitchInv, TypeInv, TurnRecord, EntriesDated
<1>3. cache # None =>
        /\ cache.id \in Conversation /\ cache.ai \in BOOLEAN /\ cache.age \in 0..CacheTTL
        /\ Dated(cache.id, cache.ai, cache.age)
  BY DEF SwitchInv, TypeInv, TypeOK, EntriesDated
<1>4. ASSUME cache' # None PROVE Dated(cache.id, cache.ai, cache.age)'
  <2>1. PICK c \in Conversation, ai \in BOOLEAN, age \in 0..CacheTTL :
          Dated(c, ai, age) /\ cache'.id = c /\ cache'.ai = ai /\ cache'.age = age
    BY <1>2, <1>3, <1>4
  <2>2. Dated(c, ai, age)'
    BY <1>1, <2>1
  <2> QED BY <2>1, <2>2 DEF Dated, Exists
<1>5. ASSUME NEW t \in Turn, At(t, "remember")'
      PROVE  Dated(turn[t].id, turn[t].ai, turn[t].age)'
  <2>1. CASE At(t, "remember") /\ turn'[t].id = turn[t].id /\ turn'[t].ai = turn[t].ai
             /\ turn'[t].age = turn[t].age
    <3>1. PICK c \in Conversation, ai \in BOOLEAN, age \in 0..CacheTTL :
            Dated(c, ai, age) /\ turn'[t].id = c /\ turn'[t].ai = ai /\ turn'[t].age = age
      BY <1>2, <2>1
    <3>2. Dated(c, ai, age)'
      BY <1>1, <3>1
    <3> QED BY <3>1, <3>2 DEF Dated, Exists
  <2>2. CASE Dated(turn[t].id, turn[t].ai, turn[t].age)'
    BY <2>2
  <2> QED BY <1>5, <2>1, <2>2
<1> QED BY <1>1, <1>4, <1>5 DEF SwitchInv, EntriesDated

LEMMA TurnSwitch ==
  ASSUME SwitchInv, TypeInv', NEW t \in Turn, TurnStep(t)
  PROVE  SwitchInv'
<1>1. TypeInv /\ Clean /\ turn[t] \in TurnRecord /\ \A c \in Conversation : rows[c] \in Row
  BY DEF SwitchInv, TypeInv, TypeOK
<1>2. ASSUME rows' = rows PROVE \A c \in Conversation : Muted(c)
  BY <1>2 DEF Muted, Exists
<1>3. ASSUME NEW r, r.stage # "remember", turn' = [turn EXCEPT ![t] = r]
      PROVE  \A v \in Turn : At(v, "remember")' => At(v, "remember") /\ turn'[v] = turn[v]
  BY <1>1, <1>3 DEF TypeInv, TypeOK, At
<1>4. CASE TurnBegin(t) \/ RealtimeBegin(t) \/ Ensure(t)
  <2>1. /\ [TurnIdle EXCEPT !.stage = "agent", !.answers = IF Hit THEN cache.ai ELSE TRUE].stage
             = "agent"
        /\ [TurnIdle EXCEPT !.stage = "select", !.answers = TRUE, !.realtime = TRUE].stage
             = "select"
    BY DEF TurnIdle
  <2>2. /\ [turn[t] EXCEPT !.stage = "customer", !.id = cache.id].stage = "customer"
        /\ [turn[t] EXCEPT !.stage = "select"].stage = "select"
    BY <1>1 DEF TurnRecord
  <2>3. \A v \in Turn : At(v, "remember")' => At(v, "remember") /\ turn'[v] = turn[v]
    BY <1>3, <1>4, <2>1, <2>2 DEF TurnBegin, RealtimeBegin, Ensure
  <2>4. rows' = rows /\ cache' = cache
    BY <1>4 DEF TurnBegin, RealtimeBegin, Ensure
  <2> QED BY <1>2, <2>3, <2>4, KeepsSwitch
<1>5. CASE Select(t)
  <2>1. rows' = rows /\ cache' = cache
    BY <1>5 DEF Select
  <2>2. CASE turn' = [turn EXCEPT ![t].stage = "insert", ![t].age = 0]
    <3>1. [turn[t] EXCEPT !.stage = "insert", !.age = 0].stage = "insert"
      BY <1>1 DEF TurnRecord
    <3>2. \A v \in Turn : At(v, "remember")' => At(v, "remember") /\ turn'[v] = turn[v]
      BY <1>3, <2>2, <3>1
    <3> QED BY <1>2, <2>1, <3>2, KeepsSwitch
  <2>3. ASSUME NEW c \in Existing,
               turn' = [turn EXCEPT ![t].stage = "remember", ![t].id = c,
                                    ![t].ai = rows[c].ai, ![t].age = 0]
        PROVE  SwitchInv'
    <3>1. /\ turn'[t].id = c /\ turn'[t].ai = rows[c].ai
          /\ \A v \in Turn \ {t} : turn'[v] = turn[v]
      BY <1>1, <2>3 DEF TurnRecord, TypeInv
    <3>2. Dated(turn[t].id, turn[t].ai, turn[t].age)'
      BY <2>1, <3>1 DEF Dated
    <3>3. \A v \in Turn : At(v, "remember")' =>
            \/ At(v, "remember") /\ turn'[v].id = turn[v].id /\ turn'[v].ai = turn[v].ai
               /\ turn'[v].age = turn[v].age
            \/ Dated(turn[v].id, turn[v].ai, turn[v].age)'
      BY <3>1, <3>2 DEF At
    <3> QED BY <1>2, <2>1, <3>3, KeepsSwitch
  <2> QED BY <1>5, <2>2, <2>3 DEF Select
<1>6. ASSUME NEW c \in Conversation, Insert(t, c) PROVE SwitchInv'
  <2>1. cache' = cache
    BY <1>6 DEF Insert
  <2>2. /\ turn'[t].id = c /\ \A v \in Turn \ {t} : turn'[v] = turn[v]
    BY <1>1, <1>6 DEF Insert, TurnRecord, TypeInv
  <2>3. /\ rows'[c].ai = rows[c].ai /\ rows'[c].muted = rows[c].muted /\ rows'[c].status = "open"
        /\ rows[c].ai /\ rows[c].muted = 0
        /\ \A d \in Conversation \ {c} : rows'[d] = rows[d]
    BY <1>1, <1>6 DEF Insert, TypeInv, TypeOK, Row, Clean
  <2>4. \A d \in Conversation : Muted(d)
    BY <2>3 DEF Muted, Exists
  <2>5. Dated(turn[t].id, turn[t].ai, turn[t].age)'
    BY <2>2, <2>3 DEF Dated
  <2>6. \A v \in Turn : At(v, "remember")' =>
          \/ At(v, "remember") /\ turn'[v].id = turn[v].id /\ turn'[v].ai = turn[v].ai
             /\ turn'[v].age = turn[v].age
          \/ Dated(turn[v].id, turn[v].ai, turn[v].age)'
    BY <2>2, <2>5 DEF At
  <2> QED BY <2>1, <2>4, <2>6, KeepsSwitch
<1>7. CASE Remember(t)
  <2>1. [turn[t] EXCEPT !.stage = "customer", !.ai = TRUE, !.age = 0].stage = "customer"
    BY <1>1 DEF TurnRecord
  <2>2. \A v \in Turn : At(v, "remember")' => At(v, "remember") /\ turn'[v] = turn[v]
    BY <1>3, <1>7, <2>1 DEF Remember
  <2>3. /\ rows' = rows /\ At(t, "remember")
        /\ \/ cache' = cache
           \/ cache' = [id |-> turn[t].id, ai |-> turn[t].ai, age |-> turn[t].age]
    BY <1>7 DEF Remember
  <2> QED BY <1>2, <2>2, <2>3, KeepsSwitch
<1>8. CASE AgentStreams(t) \/ AgentEnds(t) \/ SaveCustomer(t) \/ SaveCustomerAt(t)
            \/ SaveAnswer(t) \/ SaveAnswerAt(t)
            \/ EndChat(t) \/ EndCallRead(t) \/ EndCallWrite(t)
  <2>1. PICK c : rows' = rows \/ Stored(c) \/ Lost(c) \/ Touched(c) \/ Closed(c) \/ CallEnded
    BY <1>8
       DEF AgentStreams, AgentEnds, SaveCustomer, SaveCustomerAt, SaveAnswer, SaveAnswerAt,
           EndChat, EndCallRead, EndCallWrite
  <2>2. \A d \in Conversation : Muted(d)
    BY <1>1, <2>1, WritesMute DEF Muted
  <2>3. PICK st \in Stage \ {"remember"} : Goto(t, st) \/ Done(t)
    BY <1>8
       DEF AgentStreams, AgentEnds, SaveCustomer, SaveCustomerAt, SaveAnswer, SaveAnswerAt,
           EndChat, EndCallRead, EndCallWrite, Stage
  <2>4. \A v \in Turn : At(v, "remember")' => At(v, "remember") /\ turn'[v] = turn[v]
    BY <1>1, <2>3, TurnGoes DEF At
  <2>5. cache' = cache
    BY <1>8
       DEF AgentStreams, AgentEnds, SaveCustomer, SaveCustomerAt, SaveAnswer, SaveAnswerAt,
           EndChat, EndCallRead, EndCallWrite
  <2> QED BY <2>2, <2>4, <2>5, KeepsSwitch
<1> QED BY <1>4, <1>5, <1>6, <1>7, <1>8 DEF TurnStep

LEMMA OthersSwitch ==
  ASSUME SwitchInv, TypeInv', HangupRead \/ HangupWrite \/ AdminStep \/ SweepStep \/ UNCHANGED vars
  PROVE  SwitchInv'
<1>1. TypeInv /\ Clean /\ rows \in [Conversation -> Row] /\ \A c \in Conversation : rows[c] \in Row
  BY DEF SwitchInv, TypeInv, TypeOK
<1>2. turn' = turn /\ cache' = cache
  BY DEF HangupRead, HangupWrite, AdminStep, AdminMessage, AdminClose, AdminDelete, AdminSetAi,
         AdminFinish, SweepStep, SweepSelect, SweepMessage, SweepWarn, SweepClose, SweepEndCall,
         vars
<1>3. ASSUME NEW c,
             \/ rows' = rows \/ Stored(c) \/ Lost(c) \/ Touched(c) \/ Closed(c) \/ CallEnded
      PROVE  \A d \in Conversation : Muted(d)
  BY <1>1, <1>3, WritesMute DEF Muted
<1>4. ASSUME NEW c \in Conversation,
             \/ rows' = [rows EXCEPT ![c].messages = FALSE]
             \/ rows' = [rows EXCEPT ![c].warned = IF Exists(c) THEN sweep.age ELSE @]
             \/ Exists(c) /\ rows' = [rows EXCEPT ![c].status = "closed", ![c].ended = TRUE]
      PROVE  \A d \in Conversation : Muted(d)
  BY <1>1, <1>4 DEF Muted, Exists, Row
<1>5. ASSUME NEW c \in Conversation, NEW on \in BOOLEAN, AdminSetAi(c, on)
      PROVE  \A d \in Conversation : Muted(d)
  <2>1. /\ rows'[c].status = rows[c].status /\ rows'[c].ai = on
        /\ rows'[c].muted = IF on THEN 0 ELSE rows[c].muted
        /\ Exists(c)
        /\ \A d \in Conversation \ {c} : rows'[d] = rows[d]
    BY <1>1, <1>5 DEF AdminSetAi, Row
  <2>2. \A d \in Conversation \ {c} : Muted(d)
    BY <2>1 DEF Muted, Exists
  <2>3. rows'[c].status # "absent" /\ (Exists(c)' <=> Exists(c))
    BY <2>1 DEF Exists
  <2>4. rows'[c].muted = 0 \/ (rows'[c].ai = rows[c].ai /\ rows'[c].muted = rows[c].muted)
    <3>1. CASE rows[c].ai
      BY <1>1, <2>1, <3>1 DEF Clean
    <3>2. CASE ~rows[c].ai /\ ~on
      <4>1. rows[c].ai = FALSE /\ on = FALSE
        BY <1>1, <3>2 DEF Row
      <4> QED BY <2>1, <4>1
    <3>3. CASE on
      BY <2>1, <3>3
    <3> QED BY <3>1, <3>2, <3>3
  <2>5. Muted(c)
    BY <2>3, <2>4 DEF Muted
  <2> QED BY <2>2, <2>5
<1>6. ASSUME NEW c \in Conversation, rows' = [rows EXCEPT ![c] = [NoRow EXCEPT !.status = "deleted"]]
      PROVE  \A d \in Conversation : Muted(d)
  <2>1. rows'[c].status = "deleted" /\ rows'[c].muted = 0
    BY <1>1, <1>6 DEF NoRow
  <2>2. \A d \in Conversation \ {c} : rows'[d] = rows[d]
    BY <1>1, <1>6
  <2> QED BY <2>1, <2>2 DEF Muted, Exists
<1>7. \A c \in Conversation : Muted(c)
  <2>1. CASE HangupRead \/ HangupWrite \/ UNCHANGED vars
    BY <1>3, <2>1 DEF HangupRead, HangupWrite, vars
  <2>2. CASE AdminStep
    <3>1. CASE AdminFinish
      <4>1. admin.id \in Conversation
        BY <1>1, <3>1 DEF AdminFinish, TypeInv, TypeOK
      <4> QED BY <1>3, <1>6, <3>1, <4>1 DEF AdminFinish
    <3>2. ASSUME NEW c \in Conversation, AdminMessage(c) \/ AdminClose(c) \/ AdminDelete(c)
          PROVE  \A d \in Conversation : Muted(d)
      BY <1>3, <1>4, <3>2 DEF AdminMessage, AdminClose, AdminDelete
    <3> QED BY <1>5, <2>2, <3>1, <3>2 DEF AdminStep
  <2>3. CASE SweepStep
    <3>1. CASE SweepSelect
      BY <1>3, <3>1 DEF SweepSelect
    <3>2. ASSUME NEW c \in Conversation,
                 SweepMessage(c) \/ SweepWarn(c) \/ SweepClose(c) \/ SweepEndCall(c)
          PROVE  \A d \in Conversation : Muted(d)
      BY <1>3, <1>4, <3>2 DEF SweepMessage, SweepWarn, SweepClose, SweepEndCall
    <3> QED BY <2>3, <3>1, <3>2 DEF SweepStep
  <2> QED BY <2>1, <2>2, <2>3
<1> QED BY <1>2, <1>7, KeepsSwitch DEF At

LEMMA TickSwitch ==
  ASSUME SwitchInv, TypeInv', Tick
  PROVE  SwitchInv'
<1>1. TypeInv /\ Clean
  BY DEF SwitchInv
<1>2. \A c \in Conversation : rows[c].muted \in Age
  BY <1>1 DEF TypeInv, TypeOK, Row
<1>3. Clean'
  BY <1>1, TickFrame DEF Clean, Exists
<1>4. ASSUME NEW c \in Conversation, NEW ai, NEW age \in 0..CacheTTL, NEW later \in 0..CacheTTL,
             Dated(c, ai, age), later >= age, age < CacheTTL => later = age + 1
      PROVE  Dated(c, ai, later)'
  <2>1. /\ Exists(c)' => Exists(c)
        /\ rows'[c].ai = rows[c].ai
        /\ Exists(c) /\ ~rows[c].ai => rows'[c].muted = Older(rows[c].muted)
    BY <1>1, TickFrame DEF Exists
  <2>2. Older(rows[c].muted) <= rows[c].muted + 1
    BY <1>2, Limits DEF Older
  <2>3. CASE age = CacheTTL
    BY <1>4, <2>3, Limits DEF Dated
  <2>4. CASE age # CacheTTL /\ rows[c].muted <= age
    BY <1>2, <1>4, <2>1, <2>2, <2>4, Limits, OlderAge DEF Dated
  <2>5. CASE ~(ai /\ Exists(c) /\ ~rows[c].ai)
    BY <2>1, <2>5 DEF Dated
  <2> QED BY <1>4, <2>3, <2>4, <2>5 DEF Dated
<1>5. ASSUME cache' # None PROVE Dated(cache.id, cache.ai, cache.age)'
  <2>1. /\ cache \in [id : Conversation, ai : BOOLEAN, age : 0..CacheTTL]
        /\ cache' \in [id : Conversation, ai : BOOLEAN, age : 0..CacheTTL]
        /\ cache # None
    BY <1>1, <1>5 DEF Tick, TypeInv, TypeOK
  <2>2. /\ cache'.id = cache.id /\ cache'.ai = cache.ai /\ cache'.age >= cache.age
        /\ cache.age < CacheTTL => cache'.age = cache.age + 1
    <3>1. CASE cache.age = CacheTTL
      <4>1. cache' = cache
        BY <3>1 DEF Tick
      <4> QED BY <2>1, <3>1, <4>1, Limits
    <3>2. CASE cache.age # CacheTTL
      <4>1. cache' = [cache EXCEPT !.age = cache.age + 1]
        BY <2>1, <3>2 DEF Tick
      <4>2. /\ cache'.id = cache.id /\ cache'.ai = cache.ai
            /\ cache'.age = cache.age + 1
        BY <2>1, <4>1
      <4> QED BY <2>1, <4>2, Limits
    <3> QED BY <3>1, <3>2
  <2>3. PICK c \in Conversation, ai \in BOOLEAN, later \in 0..CacheTTL :
          cache'.id = c /\ cache'.ai = ai /\ cache'.age = later
    BY <2>1
  <2>4. Dated(c, ai, later)'
    BY <1>4, <2>1, <2>2, <2>3 DEF SwitchInv, EntriesDated
  <2> QED BY <2>3, <2>4 DEF Dated, Exists
<1>6. ASSUME NEW t \in Turn, At(t, "remember")'
      PROVE  Dated(turn[t].id, turn[t].ai, turn[t].age)'
  <2>1. /\ turn[t] \in TurnRecord /\ turn'[t] \in TurnRecord
        /\ turn'[t].id = turn[t].id /\ turn'[t].ai = turn[t].ai /\ turn'[t].age >= turn[t].age
        /\ At(t, "remember") /\ turn[t].id \in Conversation
        /\ turn[t].age < CacheTTL => turn'[t].age = turn[t].age + 1
    BY <1>1, <1>6, TickFrame DEF TypeInv, At
  <2>2. PICK c \in Conversation, ai \in BOOLEAN, later \in 0..CacheTTL :
          turn'[t].id = c /\ turn'[t].ai = ai /\ turn'[t].age = later
    BY <2>1 DEF TurnRecord
  <2>3. turn[t].age \in 0..CacheTTL
    BY <2>1 DEF TurnRecord
  <2>4. Dated(c, ai, later)'
    BY <1>4, <2>1, <2>2, <2>3 DEF SwitchInv, EntriesDated
  <2> QED BY <2>2, <2>4 DEF Dated, Exists
<1> QED BY <1>3, <1>5, <1>6 DEF SwitchInv, EntriesDated

\* While the cache has an entry, the administrator's switch decides, within the
\* age the cache allows, whether a turn's answer is kept: whichever threads fill
\* the entry, and however long they take from the select to the store.
THEOREM SwitchObeyed == Spec => CachedSwitchObeyed
<1>1. SwitchInv /\ TypeInv' /\ [Next]_vars => SwitchInv'
  BY TurnSwitch, OthersSwitch, TickSwitch DEF Next
<1>2. SwitchInv =>
        [\A t \in Turn : TurnBegin(t) /\ Hit /\ turn'[t].answers =>
           \/ ~Exists(cache.id)
           \/ rows[cache.id].ai
           \/ rows[cache.id].muted < CacheTTL]_vars
  <2> SUFFICES ASSUME SwitchInv, NEW t \in Turn, TurnBegin(t), Hit, turn'[t].answers
               PROVE  ~Exists(cache.id) \/ rows[cache.id].ai \/ rows[cache.id].muted < CacheTTL
    OBVIOUS
  <2>1. turn'[t] = [TurnIdle EXCEPT !.stage = "agent", !.answers = cache.ai]
    BY DEF TurnBegin, SwitchInv, TypeInv
  <2>2. cache.ai
    BY <2>1 DEF TurnIdle
  <2>3. /\ Dated(cache.id, cache.ai, cache.age) /\ cache.age < CacheTTL
        /\ cache.id \in Conversation /\ cache.age \in 0..CacheTTL
    BY DEF Hit, SwitchInv, EntriesDated, TypeInv, TypeOK
  <2>4. rows[cache.id].muted \in Age
    BY <2>3 DEF SwitchInv, TypeInv, TypeOK, Row
  <2> QED BY <2>2, <2>3, <2>4, Limits DEF Dated
<1>3. SwitchInv => TypeInv
  BY DEF SwitchInv
<1> QED BY <1>1, <1>2, <1>3, InitSwitch, InitType, StepType, PTL DEF Spec, CachedSwitchObeyed

-----------------------------------------------------------------------------
(* The sweep *)

\* What the round saw of a row still holds, but for a message that is younger
\* than the round.
Judged(c) ==
    /\ rows[c].status # "absent"
    /\ sweep.act[c] = "close" /\ Exists(c) =>
         /\ rows[c].warned # None /\ rows[c].warned >= CloseAfter
         /\ rows[c].quiet > IdleAfter \/ rows[c].quiet <= sweep.age

SweepInv ==
    /\ TypeInv
    /\ \A c \in sweep.todo : Judged(c)
    /\ sweep.at # None => sweep.at \in sweep.todo

\* The row is not born, nor warned, and grows no older.
Seen(c) ==
    /\ rows[c].status # "absent" => rows'[c].status # "absent"
    /\ Exists(c)' => /\ Exists(c) /\ rows'[c].warned = rows[c].warned
                     /\ rows'[c].quiet \in {rows[c].quiet, 0}

LEMMA SweepTyped ==
  ASSUME TypeInv
  PROVE  /\ sweep.todo \subseteq Conversation /\ sweep.age \in Age
         /\ \A c \in Conversation : rows[c] \in Row /\ rows[c].quiet \in Age
BY DEF TypeInv, TypeOK, Row

LEMMA KeepsSweep ==
  ASSUME SweepInv, TypeInv', sweep'.todo \subseteq sweep.todo,
         \A c \in sweep'.todo : Seen(c) /\ sweep'.act[c] = sweep.act[c],
         sweep'.todo # {} => sweep'.age = sweep.age,
         sweep'.at # None => sweep'.at \in sweep'.todo
  PROVE  SweepInv'
<1>1. ASSUME NEW c \in sweep'.todo PROVE Judged(c)'
  <2>1. c \in Conversation /\ sweep.age \in Age /\ rows[c].quiet \in Age /\ Judged(c)
    BY SweepTyped DEF SweepInv
  <2>2. sweep'.act[c] = sweep.act[c] /\ sweep'.age = sweep.age /\ Seen(c)
    OBVIOUS
  <2>3. 0 <= sweep.age
    BY <2>1, Limits
  <2> QED BY <2>1, <2>2, <2>3 DEF Judged, Seen
<1> QED BY <1>1 DEF SweepInv

\* The steps that leave the sweep alone.
LEMMA ElsewhereSweep ==
  ASSUME SweepInv, TypeInv',
         (\E t \in Turn : TurnStep(t)) \/ HangupRead \/ HangupWrite \/ AdminStep \/ UNCHANGED vars
  PROVE  SweepInv'
<1>1. TypeInv /\ rows \in [Conversation -> Row] /\ \A c \in Conversation : rows[c] \in Row
  BY DEF SweepInv, TypeInv, TypeOK
<1>2. sweep' = sweep
  BY DEF TurnStep, TurnBegin, AgentStreams, AgentEnds, RealtimeBegin, Ensure, Select, Insert,
         Remember, SaveCustomer, SaveCustomerAt, SaveAnswer, SaveAnswerAt, EndChat, EndCallRead, EndCallWrite,
         HangupRead, HangupWrite, AdminStep, AdminMessage, AdminClose, AdminDelete, AdminSetAi,
         AdminFinish, vars
<1>3. sweep.todo \subseteq Conversation /\ \A c \in sweep.todo : rows[c].status # "absent"
  BY <1>1, SweepTyped DEF SweepInv, Judged
<1>4. ASSUME NEW c,
             \/ rows' = rows \/ Stored(c) \/ Lost(c) \/ Touched(c) \/ Closed(c) \/ CallEnded
      PROVE  \A d \in sweep.todo : Seen(d)
  BY <1>1, <1>3, <1>4, WritesMute DEF Seen
<1>5. \A c \in sweep.todo : Seen(c)
  <2>1. ASSUME NEW t \in Turn, TurnStep(t) PROVE \A c \in sweep.todo : Seen(c)
    <3>1. ASSUME NEW c \in Conversation, Insert(t, c) PROVE \A d \in sweep.todo : Seen(d)
      <4>1. c \notin sweep.todo /\ \A d \in Conversation \ {c} : rows'[d] = rows[d]
        BY <1>1, <1>3, <3>1 DEF Insert
      <4> QED BY <1>3, <4>1 DEF Seen, Exists
    <3>2. CASE TurnBegin(t) \/ RealtimeBegin(t) \/ Ensure(t) \/ Select(t) \/ Remember(t)
      BY <1>4, <3>2 DEF TurnBegin, RealtimeBegin, Ensure, Select, Remember
    <3>3. CASE AgentStreams(t) \/ AgentEnds(t) \/ SaveCustomer(t) \/ SaveCustomerAt(t)
               \/ SaveAnswer(t) \/ SaveAnswerAt(t)
               \/ EndChat(t) \/ EndCallRead(t) \/ EndCallWrite(t)
      <4>1. PICK c : rows' = rows \/ Stored(c) \/ Lost(c) \/ Touched(c) \/ Closed(c) \/ CallEnded
        BY <3>3
           DEF AgentStreams, AgentEnds, SaveCustomer, SaveCustomerAt, SaveAnswer, SaveAnswerAt,
               EndChat, EndCallRead, EndCallWrite
      <4> QED BY <1>4, <4>1
    <3> QED BY <2>1, <3>1, <3>2, <3>3 DEF TurnStep
  <2>2. CASE HangupRead \/ HangupWrite \/ UNCHANGED vars
    BY <1>4, <2>2 DEF HangupRead, HangupWrite, vars
  <2>3. CASE AdminStep
    <3>1. ASSUME NEW c \in Conversation, AdminMessage(c) \/ AdminClose(c)
          PROVE  \A d \in sweep.todo : Seen(d)
      BY <1>4, <3>1 DEF AdminMessage, AdminClose
    <3>2. ASSUME NEW c \in Conversation,
                 AdminDelete(c) \/ \E on \in BOOLEAN : AdminSetAi(c, on)
          PROVE  \A d \in sweep.todo : Seen(d)
      <4>1. /\ rows'[c].status = rows[c].status /\ rows'[c].warned = rows[c].warned
            /\ rows'[c].quiet = rows[c].quiet
            /\ \A d \in Conversation \ {c} : rows'[d] = rows[d]
        <5>1. rows[c] \in Row /\ rows \in [Conversation -> Row]
          BY <1>1
        <5>2. CASE AdminDelete(c)
          <6>1. rows' = [rows EXCEPT ![c].messages = FALSE]
            BY <5>2 DEF AdminDelete
          <6> QED BY <5>1, <6>1 DEF Row
        <5>3. ASSUME NEW on \in BOOLEAN, AdminSetAi(c, on)
              PROVE  /\ rows'[c].status = rows[c].status /\ rows'[c].warned = rows[c].warned
                     /\ rows'[c].quiet = rows[c].quiet
                     /\ \A d \in Conversation \ {c} : rows'[d] = rows[d]
          <6> DEFINE m == IF on THEN 0 ELSE rows[c].muted
          <6>1. rows' = [rows EXCEPT ![c] = [rows[c] EXCEPT !.ai = on, !.muted = m]]
            BY <5>3 DEF AdminSetAi
          <6> HIDE DEF m
          <6> QED BY <5>1, <6>1 DEF Row
        <5> QED BY <3>2, <5>2, <5>3
      <4> QED BY <1>3, <4>1 DEF Seen, Exists
    <3>3. CASE AdminFinish
      <4>1. ASSUME rows' = [rows EXCEPT ![admin.id] = [NoRow EXCEPT !.status = "deleted"]]
            PROVE  \A d \in sweep.todo : Seen(d)
        <5>1. [NoRow EXCEPT !.status = "deleted"].status = "deleted"
          BY DEF NoRow
        <5> QED BY <1>1, <1>3, <4>1, <5>1 DEF Seen, Exists
      <4> QED BY <1>4, <3>3, <4>1 DEF AdminFinish
    <3> QED BY <2>3, <3>1, <3>2, <3>3 DEF AdminStep
  <2> QED BY <2>1, <2>2, <2>3
<1> QED BY <1>2, <1>5, KeepsSweep DEF SweepInv

LEMMA RoundSweep ==
  ASSUME SweepInv, TypeInv', SweepStep
  PROVE  SweepInv'
<1>1. /\ TypeInv /\ rows \in [Conversation -> Row] /\ \A c \in Conversation : rows[c] \in Row
      /\ sweep \in [todo : SUBSET Conversation, at : Conversation \cup {None}, age : Age,
                    act : [Conversation -> {None, "warn", "close", "endCall"}]]
  BY DEF SweepInv, TypeInv, TypeOK
<1>2. CASE SweepSelect
  <2>1. /\ rows' = rows /\ sweep'.at = None
        /\ sweep'.todo = {c \in Conversation : Due(c)}
        /\ \A c \in sweep'.todo : sweep'.act[c] = ActFor(c)
    BY <1>2 DEF SweepSelect
  <2>2. ASSUME NEW c \in sweep'.todo PROVE Judged(c)'
    <3>1. Due(c) /\ rows'[c] = rows[c] /\ sweep'.act[c] = ActFor(c) /\ c \in Conversation
      BY <2>1, <2>2
    <3>2. ActFor(c) = "close" => rows[c].warned # None
      BY <1>1, <3>1, ChannelAssumption DEF ActFor, Due, TypeInv, TypeOK
    <3> QED BY <3>1, <3>2 DEF Judged, Due, IdleRow, Exists
  <2> QED BY <2>1, <2>2 DEF SweepInv
<1>3. ASSUME NEW c \in Conversation, Rest(c), \A d \in sweep.todo \ {c} : Seen(d)
      PROVE  SweepInv'
  <2>1. /\ sweep'.todo = sweep.todo \ {c} /\ sweep'.at = None
        /\ \A d \in sweep'.todo : sweep'.act[d] = sweep.act[d]
        /\ sweep'.todo # {} => sweep'.age = sweep.age
    <3>1. CASE sweep.todo = {c}
      BY <1>3, <3>1, Records DEF Rest
    <3>2. CASE sweep.todo # {c}
      <4>1. sweep' = [sweep EXCEPT !.todo = @ \ {c}, !.act[c] = None, !.at = None]
        BY <1>3, <3>2 DEF Rest
      <4> QED BY <1>1, <4>1
    <3> QED BY <3>1, <3>2
  <2> QED BY <1>3, <2>1, KeepsSweep
<1>4. ASSUME NEW c \in Conversation, SweepMessage(c) PROVE SweepInv'
  <2>1. \A d \in sweep.todo : Seen(d)
    BY <1>1, <1>4, SweepTyped, WritesMute DEF SweepMessage, Seen
  <2>2. CASE sweep' = NoSweep
    BY <2>2, Records, KeepsSweep
  <2>3. CASE sweep' = [sweep EXCEPT !.at = c]
    <3>1. /\ sweep'.todo = sweep.todo /\ sweep'.act = sweep.act /\ sweep'.age = sweep.age
          /\ sweep'.at = c /\ c \in sweep.todo
      BY <1>1, <1>4, <2>3 DEF SweepMessage
    <3> QED BY <2>1, <3>1, KeepsSweep
  <2> QED BY <1>4, <2>2, <2>3 DEF SweepMessage
<1>5. ASSUME NEW c \in Conversation, SweepWarn(c) \/ SweepClose(c) \/ SweepEndCall(c)
      PROVE  SweepInv'
  <2>1. \A d \in Conversation \ {c} : rows'[d] = rows[d]
    BY <1>1, <1>5 DEF SweepWarn, SweepClose, Closed, SweepEndCall
  <2>2. \A d \in sweep.todo \ {c} : Seen(d)
    BY <1>1, <2>1, SweepTyped DEF Seen, Exists
  <2> QED BY <1>3, <1>5, <2>2 DEF SweepWarn, SweepClose, SweepEndCall
<1> QED BY <1>2, <1>4, <1>5 DEF SweepStep

LEMMA TickSweep ==
  ASSUME SweepInv, TypeInv', Tick
  PROVE  SweepInv'
<1>1. TypeInv /\ sweep.todo \subseteq Conversation /\ sweep.age \in Age
  BY SweepTyped DEF SweepInv
<1>2. /\ sweep'.todo = sweep.todo /\ sweep'.act = sweep.act /\ sweep'.at = sweep.at
      /\ sweep.todo # {} => sweep'.age = Older(sweep.age)
  <2>1. sweep \in [todo : SUBSET Conversation, at : Conversation \cup {None}, age : Age,
                   act : [Conversation -> {None, "warn", "close", "endCall"}]]
    BY <1>1 DEF TypeInv, TypeOK
  <2>2. CASE sweep = NoSweep
    BY <2>2, Records DEF Tick
  <2>3. CASE sweep # NoSweep
    <3>1. sweep' = [sweep EXCEPT !.age = Older(@)]
      BY <2>3 DEF Tick
    <3> QED BY <2>1, <3>1
  <2> QED BY <2>2, <2>3
<1>3. ASSUME NEW c \in sweep.todo PROVE Judged(c)'
  <2>1. c \in Conversation /\ Judged(c) /\ rows[c].quiet \in Age /\ rows[c] \in Row
    BY <1>1, SweepTyped DEF SweepInv
  <2>2. sweep'.age = Older(sweep.age) /\ sweep'.act[c] = sweep.act[c]
    BY <1>2
  <2>3. /\ rows'[c].status = rows[c].status
        /\ Exists(c)' <=> Exists(c)
        /\ Exists(c) =>
             /\ rows'[c].quiet = Older(rows[c].quiet)
             /\ rows'[c].warned = IF rows[c].warned = None THEN None ELSE Older(rows[c].warned)
    BY <1>1, <2>1, TickFrame DEF Exists
  <2>4. ASSUME sweep'.act[c] = "close", Exists(c)'
        PROVE  /\ rows'[c].warned # None /\ rows'[c].warned >= CloseAfter
               /\ rows'[c].quiet > IdleAfter \/ rows'[c].quiet <= sweep'.age
    <3>1. /\ rows[c].warned # None /\ rows[c].warned >= CloseAfter /\ rows[c].warned \in Age
          /\ rows[c].quiet > IdleAfter \/ rows[c].quiet <= sweep.age
      BY <2>1, <2>2, <2>3, <2>4 DEF Judged, Row
    <3>2. rows'[c].warned = Older(rows[c].warned) /\ rows'[c].quiet = Older(rows[c].quiet)
      BY <2>3, <2>4, <3>1
    <3>3. rows'[c].quiet > IdleAfter \/ rows'[c].quiet <= sweep'.age
      BY <1>1, <2>1, <2>2, <3>1, <3>2, Limits DEF Older
    <3>4. Older(rows[c].warned) >= CloseAfter
      <4>1. rows[c].warned \in Age /\ rows[c].warned >= CloseAfter
        BY <3>1
      <4> QED BY <4>1, OlderPasses
    <3>5. rows'[c].warned >= CloseAfter
      BY <3>2, <3>4
    <3>6. rows'[c].warned # None
      <4>1. rows'[c].warned \in Age
        BY <3>1, <3>2, OlderAge
      <4> QED BY <4>1, Limits, NoneAssumption
    <3> QED BY <3>3, <3>5, <3>6
  <2> QED BY <2>1, <2>3, <2>4 DEF Judged
<1> QED BY <1>2, <1>3 DEF SweepInv

\* The sweep ends a chat only after a warning of the proper age, and after a
\* silence that was long enough when its round began, whatever turns, deletions
\* and ticks come between the select of the round and its writes.
THEOREM WarnedBeforeClosed == Spec => ClosedAfterWarning
<1>1. Init => SweepInv
  BY InitType, Records DEF Init, SweepInv
<1>2. SweepInv /\ TypeInv' /\ [Next]_vars => SweepInv'
  BY ElsewhereSweep, RoundSweep, TickSweep DEF Next
<1>3. SweepInv =>
        [\A c \in Conversation : SweepClose(c) /\ Exists(c) =>
           /\ rows[c].warned # None /\ rows[c].warned >= CloseAfter
           /\ rows[c].quiet > IdleAfter \/ rows[c].quiet <= sweep.age]_vars
  BY NoneAssumption DEF SweepInv, Judged, SweepClose
<1> QED BY <1>1, <1>2, <1>3, InitType, StepType, PTL DEF Spec, ClosedAfterWarning

-----------------------------------------------------------------------------
(* The rows of the session *)

Inserting == {t \in Turn : At(t, "insert")}

RowsInv == RowsPerSession /\ IsFiniteSet(Existing)

\* No row comes to exist and no thread goes to its insert.
NoMore == Existing' \subseteq Existing /\ Inserting' \subseteq Inserting

LEMMA InsertingFinite ==
  ASSUME IsFiniteSet(Turn)
  PROVE  /\ IsFiniteSet(Inserting) /\ Cardinality(Inserting) \in Nat
         /\ Cardinality(Inserting) <= Cardinality(Turn) /\ Cardinality(Turn) \in Nat
<1>1. Inserting \subseteq Turn
  BY DEF Inserting
<1> QED BY <1>1, FS_Subset, FS_CardinalityType

LEMMA NoMoreRows ==
  ASSUME RowsInv, NoMore, IsFiniteSet(Turn)
  PROVE  RowsInv'
<1>1. /\ IsFiniteSet(Existing) /\ IsFiniteSet(Inserting)
      /\ Cardinality(Existing) + Cardinality(Inserting) <= Cardinality(Turn)
  BY InsertingFinite DEF RowsInv, RowsPerSession, Inserting
<1>2. /\ IsFiniteSet(Existing') /\ Cardinality(Existing') <= Cardinality(Existing)
      /\ IsFiniteSet(Inserting') /\ Cardinality(Inserting') <= Cardinality(Inserting)
  BY <1>1, FS_Subset DEF NoMore
<1>3. /\ Cardinality(Existing) \in Nat /\ Cardinality(Existing') \in Nat
      /\ Cardinality(Inserting) \in Nat /\ Cardinality(Inserting') \in Nat
      /\ Cardinality(Turn) \in Nat
  BY <1>1, <1>2, FS_CardinalityType
<1>4. Cardinality(Existing') + Cardinality(Inserting') <= Cardinality(Turn)
  BY <1>1, <1>2, <1>3
<1> QED BY <1>2, <1>4 DEF RowsInv, RowsPerSession, Inserting

\* A thread goes to its insert only when it saw no row, ...
LEMMA SelectRows ==
  ASSUME TypeInv, RowsInv, NEW t \in Turn, Select(t), IsFiniteSet(Turn)
  PROVE  RowsInv'
<1>1. Existing' = Existing
  BY DEF Select, Existing, Exists
<1>2. CASE Existing = {}
  <2>1. /\ Cardinality(Existing') = 0 /\ IsFiniteSet(Existing')
    BY <1>1, <1>2, FS_EmptySet
  <2>2. Inserting' \subseteq Turn
    BY DEF Inserting
  <2>3. /\ Cardinality(Inserting') <= Cardinality(Turn) /\ Cardinality(Inserting') \in Nat
    BY <2>2, FS_Subset, FS_CardinalityType
  <2> QED BY <2>1, <2>3 DEF RowsInv, RowsPerSession, Inserting
<1>3. CASE Existing # {}
  <2>1. PICK c : turn' = [turn EXCEPT ![t].stage = "remember", ![t].id = c,
                                      ![t].ai = rows[c].ai, ![t].age = 0]
    BY <1>3 DEF Select
  <2>2. turn'[t].stage = "remember" /\ \A v \in Turn \ {t} : turn'[v] = turn[v]
    BY <2>1 DEF TypeInv, TurnRecord
  <2>3. Inserting' \subseteq Inserting
    BY <2>2 DEF Inserting, At
  <2> QED BY <1>1, <2>3, NoMoreRows DEF NoMore
<1> QED BY <1>2, <1>3

\* ... and becomes one row.
LEMMA InsertRows ==
  ASSUME TypeInv, RowsInv, NEW t \in Turn, NEW c \in Conversation, Insert(t, c),
         IsFiniteSet(Turn)
  PROVE  RowsInv'
<1>1. turn'[t].stage = "remember" /\ \A v \in Turn \ {t} : turn'[v] = turn[v]
  BY DEF Insert, TypeInv, TurnRecord
<1>2. \A d \in Conversation \ {c} : rows'[d] = rows[d]
  BY DEF Insert, TypeInv, TypeOK
<1>3. /\ IsFiniteSet(Existing) /\ IsFiniteSet(Inserting)
      /\ Cardinality(Existing) + Cardinality(Inserting) <= Cardinality(Turn)
      /\ Cardinality(Existing) \in Nat /\ Cardinality(Inserting) \in Nat
      /\ Cardinality(Turn) \in Nat
  BY InsertingFinite, FS_CardinalityType DEF RowsInv, RowsPerSession, Inserting
<1>4. t \in Inserting /\ c \notin Existing
  BY DEF Insert, Inserting, Existing, Exists
<1>5. Existing' \subseteq Existing \cup {c} /\ Inserting' \subseteq Inserting \ {t}
  BY <1>1, <1>2 DEF Existing, Exists, Inserting, At
<1>6. /\ IsFiniteSet(Existing \cup {c})
      /\ Cardinality(Existing \cup {c}) = Cardinality(Existing) + 1
  BY <1>3, <1>4, FS_AddElement
<1>7. /\ IsFiniteSet(Inserting \ {t})
      /\ Cardinality(Inserting \ {t}) = Cardinality(Inserting) - 1
  BY <1>3, <1>4, FS_RemoveElement
<1>8. /\ IsFiniteSet(Existing') /\ Cardinality(Existing') <= Cardinality(Existing) + 1
      /\ IsFiniteSet(Inserting') /\ Cardinality(Inserting') <= Cardinality(Inserting) - 1
  BY <1>5, <1>6, <1>7, FS_Subset
<1>9. Cardinality(Existing') \in Nat /\ Cardinality(Inserting') \in Nat
  BY <1>8, FS_CardinalityType
<1>10. Cardinality(Existing') + Cardinality(Inserting') <= Cardinality(Turn)
  BY <1>3, <1>8, <1>9
<1> QED BY <1>8, <1>10 DEF RowsInv, RowsPerSession, Inserting

\* The writes of the other steps bring no row back.
LEMMA RowsStay ==
  ASSUME TypeInv, NEW c,
         \/ rows' = rows \/ Stored(c) \/ Lost(c) \/ Touched(c) \/ Closed(c) \/ CallEnded
  PROVE  Existing' \subseteq Existing
BY WritesMute DEF Existing

LEMMA TurnRows ==
  ASSUME TypeInv, RowsInv, NEW t \in Turn, TurnStep(t), IsFiniteSet(Turn)
  PROVE  RowsInv'
<1>1. ASSUME NEW st \in Stage \ {"remember", "insert"}, Goto(t, st) \/ Done(t)
      PROVE  Inserting' \subseteq Inserting
  BY <1>1, TurnGoes DEF Inserting, At
<1>2. CASE TurnBegin(t) \/ RealtimeBegin(t) \/ Ensure(t) \/ Remember(t)
  <2>1. Existing' = Existing
    BY <1>2 DEF TurnBegin, RealtimeBegin, Ensure, Remember, Existing, Exists
  <2>2. turn'[t].stage # "insert" /\ \A v \in Turn \ {t} : turn'[v] = turn[v]
    BY <1>2 DEF TurnBegin, RealtimeBegin, Ensure, Remember, TurnIdle, TypeInv, TurnRecord
  <2>3. Inserting' \subseteq Inserting
    BY <2>2 DEF Inserting, At
  <2> QED BY <2>1, <2>3, NoMoreRows DEF NoMore
<1>3. CASE AgentStreams(t) \/ AgentEnds(t) \/ SaveCustomer(t) \/ SaveCustomerAt(t)
           \/ SaveAnswer(t) \/ SaveAnswerAt(t)
           \/ EndChat(t) \/ EndCallRead(t) \/ EndCallWrite(t)
  <2>1. PICK c : rows' = rows \/ Stored(c) \/ Lost(c) \/ Touched(c) \/ Closed(c) \/ CallEnded
    BY <1>3
       DEF AgentStreams, AgentEnds, SaveCustomer, SaveCustomerAt, SaveAnswer, SaveAnswerAt,
           EndChat, EndCallRead, EndCallWrite
  <2>2. \E st \in {"streaming", "ensure", "answer", "customerAt", "answerAt", "end", "endCall"} :
          Goto(t, st) \/ Done(t)
    BY <1>3
       DEF AgentStreams, AgentEnds, SaveCustomer, SaveCustomerAt, SaveAnswer, SaveAnswerAt,
           EndChat, EndCallRead, EndCallWrite
  <2>3. Inserting' \subseteq Inserting
    BY <1>1, <2>2 DEF Stage
  <2> QED BY <2>1, <2>3, RowsStay, NoMoreRows DEF NoMore
<1>4. ASSUME NEW c \in Conversation, Insert(t, c) PROVE RowsInv'
  BY <1>4, InsertRows
<1> QED BY <1>2, <1>3, <1>4, SelectRows DEF TurnStep

LEMMA OthersRows ==
  ASSUME TypeInv, RowsInv, IsFiniteSet(Turn),
         HangupRead \/ HangupWrite \/ AdminStep \/ SweepStep \/ Tick \/ UNCHANGED vars
  PROVE  RowsInv'
<1>1. rows \in [Conversation -> Row] /\ \A d \in Conversation : rows[d] \in Row
  BY DEF TypeInv, TypeOK
<1>2. Inserting' \subseteq Inserting
  <2>1. ASSUME turn' = turn PROVE Inserting' = Inserting
    BY <2>1 DEF Inserting, At
  <2>2. CASE Tick
    <3>1. \A t \in Turn : turn'[t].stage = turn[t].stage
      BY <2>2 DEF Tick, TypeInv, TurnRecord
    <3> QED BY <3>1 DEF Inserting, At
  <2> QED BY <2>1, <2>2
       DEF HangupRead, HangupWrite, AdminStep, AdminMessage, AdminClose, AdminDelete, AdminSetAi,
           AdminFinish, SweepStep, SweepSelect, SweepMessage, SweepWarn, SweepClose,
           SweepEndCall, vars
<1>3. ASSUME NEW c \in Conversation,
             \/ AdminDelete(c) \/ SweepWarn(c) \/ SweepEndCall(c)
             \/ \E on \in BOOLEAN : AdminSetAi(c, on)
      PROVE  Existing' \subseteq Existing
  <2>1. \A d \in Conversation \ {c} : rows'[d] = rows[d]
    BY <1>1, <1>3 DEF AdminDelete, SweepWarn, SweepEndCall, AdminSetAi
  <2>2. CASE ~Exists(c)
    <3>1. rows' = rows \/ rows' = [rows EXCEPT ![c].warned = rows[c].warned]
      BY <1>3, <2>2 DEF AdminDelete, SweepWarn, SweepEndCall, AdminSetAi
    <3>2. rows'[c].status = rows[c].status
      BY <1>1, <3>1 DEF Row
    <3> QED BY <2>1, <3>2 DEF Existing, Exists
  <2>3. CASE Exists(c)
    BY <2>1, <2>3 DEF Existing, Exists
  <2> QED BY <2>2, <2>3
<1>4. ASSUME NEW c \in Conversation,
             AdminMessage(c) \/ AdminClose(c) \/ SweepMessage(c) \/ SweepClose(c)
      PROVE  Existing' \subseteq Existing
  BY <1>4, RowsStay DEF AdminMessage, AdminClose, SweepMessage, SweepClose
<1>5. ASSUME AdminFinish PROVE Existing' \subseteq Existing
  <2>1. ASSUME rows' = [rows EXCEPT ![admin.id] = [NoRow EXCEPT !.status = "deleted"]]
        PROVE  Existing' \subseteq Existing
    <3>1. [NoRow EXCEPT !.status = "deleted"].status = "deleted"
      BY DEF NoRow
    <3>2. \A d \in Conversation : rows'[d].status = "deleted" \/ rows'[d] = rows[d]
      BY <1>1, <2>1, <3>1
    <3> QED BY <3>2 DEF Existing, Exists
  <2> QED BY <1>5, <2>1, RowsStay DEF AdminFinish
<1>6. ASSUME Tick PROVE Existing' \subseteq Existing
  BY <1>1, <1>6, TickFrame DEF Existing, Exists
<1>7. ASSUME HangupRead \/ HangupWrite \/ SweepSelect \/ UNCHANGED vars
      PROVE  Existing' \subseteq Existing
  BY <1>7, RowsStay DEF HangupRead, HangupWrite, SweepSelect, vars
<1>8. Existing' \subseteq Existing
  BY <1>3, <1>4, <1>5, <1>6, <1>7 DEF AdminStep, SweepStep
<1> QED BY <1>2, <1>8, NoMoreRows DEF NoMore

\* However many turns overlap, there are never more rows than turns: of the
\* threads that saw no row each inserts one, and none does once it saw one.
THEOREM SessionRowsBounded ==
  ASSUME IsFiniteSet(Turn)
  PROVE  Spec => []RowsPerSession
<1>1. Init => RowsInv
  <2> SUFFICES ASSUME Init PROVE RowsInv
    OBVIOUS
  <2>1. Existing = {} /\ Inserting = {}
    BY DEF Init, Existing, Exists, NoRow, Inserting, At, TurnIdle
  <2>2. IsFiniteSet({}) /\ Cardinality({}) = 0 /\ Cardinality(Turn) \in Nat
    BY FS_EmptySet, FS_CardinalityType
  <2> QED BY <2>1, <2>2 DEF RowsInv, RowsPerSession, Inserting
<1>2. TypeInv /\ RowsInv /\ [Next]_vars => RowsInv'
  BY TurnRows, OthersRows DEF Next
<1>3. RowsInv => RowsPerSession
  BY DEF RowsInv
<1> QED BY <1>1, <1>2, <1>3, InitType, StepType, PTL DEF Spec

-----------------------------------------------------------------------------
(* A voice call *)

\* What was synthesised and has not been lost: queued, held back, or heard.
Kept == ToSet(audioQueue) \cup pendingAudio \cup (1 .. nextAudio - 1)

\* The caller has heard every segment before the next one to write.
Prefix ==
    /\ nextAudio \in 1 .. Len(ttsTask) + 1
    /\ heardAudio = [j \in 1 .. nextAudio - 1 |-> j]

\* Nothing is invented, and nothing is lost, between a worker and the caller.
Accounted ==
    /\ Kept \subseteq Segment
    /\ \A i \in Segment : i \in Kept <=> ttsTask[i] = "put"

\* After a drain the next segment is missing, and whatever is still queued
\* belongs to a task the loop has not seen complete.
Settled ==
    /\ nextAudio \notin pendingAudio
    /\ \A i \in awaited : ~Busy(i) /\ i \notin ToSet(audioQueue)

\* Tasks are cancelled by a turn that ends early, and by nothing else.
Phased ==
    /\ sse \notin {"error", "gone"} => \A i \in Segment : ttsTask[i] # "cancelled"
    /\ sse \in {"error", "gone"} => \A i \in Segment : ~Busy(i)
    /\ sse = "done" => awaited = Segment

PipelineInv == PipelineTypeOK /\ Prefix /\ Accounted /\ Settled /\ Phased

-----------------------------------------------------------------------------
(* Lemmas *)

\* A set of natural numbers has a least element.
LEMMA LeastNat ==
    ASSUME NEW S, S \subseteq Nat, S # {}
    PROVE  Min(S) \in S /\ \A y \in S : Min(S) <= y
<1> DEFINE T == {0 .. n : n \in S}
           F == FiniteSubsetsOf(Nat)
           R == StrictSubsetOrdering(Nat)
<1>1. T \subseteq F /\ T # {}
  <2>1. ASSUME NEW n \in S PROVE 0 .. n \in F
    <3>1. IsFiniteSet(0 .. n)
      BY FS_Interval
    <3>2. 0 .. n \in SUBSET Nat
      OBVIOUS
    <3> QED BY <3>1, <3>2 DEF FiniteSubsetsOf
  <2>2. PICK s \in S : TRUE
    OBVIOUS
  <2>3. 0 .. s \in T
    OBVIOUS
  <2> HIDE DEF F
  <2> QED BY <2>1, <2>3
<1>2. PICK u \in T : \A v \in T : <<v, u>> \notin R
  <2>1. IsWellFoundedOn(R, F)
    BY FS_StrictSubsetOrderingWellFounded
  <2> HIDE DEF T, R, F
  <2> QED BY <1>1, <2>1, WFMin
<1>3. PICK m \in S : u = 0 .. m
  BY <1>2
<1>4. ASSUME NEW y \in S PROVE m <= y
  <2> SUFFICES ASSUME y < m PROVE FALSE
    OBVIOUS
  <2>1. 0 .. y \in SUBSET Nat /\ 0 .. m \in SUBSET Nat
    OBVIOUS
  <2>2. 0 .. y \subseteq 0 .. m /\ 0 .. y # 0 .. m
    <3>1. m \in 0 .. m /\ m \notin 0 .. y
      OBVIOUS
    <3> QED BY <3>1
  <2>3. <<0 .. y, 0 .. m>> \in R
    BY <2>1, <2>2, Zenon DEF StrictSubsetOrdering
  <2>4. 0 .. y \in T
    OBVIOUS
  <2> HIDE DEF T, R, F
  <2> QED BY <1>2, <1>3, <2>3, <2>4
<1> QED BY <1>3, <1>4 DEF Min

LEMMA SeqGrows ==
    ASSUME NEW S, NEW T, S \subseteq T, NEW q \in Seq(S)
    PROVE  q \in Seq(T)
<1>1. q \in [1 .. Len(q) -> T] /\ Len(q) \in Nat
  OBVIOUS
<1> QED BY <1>1

\* The numbers before m.
LEMMA CountIsSeq ==
    ASSUME NEW m \in Nat \ {0}
    PROVE  [j \in 1 .. m - 1 |-> j] \in Seq(Nat)
OBVIOUS

LEMMA CountGrows ==
    ASSUME NEW n \in Nat \ {0}, NEW m \in Nat \ {0}, n < m, NEW s, NEW t,
           s = [j \in 1 .. n - 1 |-> j], t = [j \in 1 .. m - 1 |-> j]
    PROVE  Len(t) > Len(s) /\ SubSeq(t, 1, Len(s)) = s
<1>1. s \in Seq(Nat) /\ t \in Seq(Nat) /\ Len(s) = n - 1 /\ Len(t) = m - 1
  OBVIOUS
<1> QED BY <1>1

LEMMA AppendToSet ==
    ASSUME NEW S, NEW q \in Seq(S), NEW e
    PROVE  ToSet(Append(q, e)) = ToSet(q) \cup {e}
<1>1. DOMAIN Append(q, e) = 1 .. Len(q) + 1
  OBVIOUS
<1>2. \A i \in 1 .. Len(q) : Append(q, e)[i] = q[i]
  OBVIOUS
<1>3. Append(q, e)[Len(q) + 1] = e
  OBVIOUS
<1>4. ToSet(Append(q, e)) \subseteq ToSet(q) \cup {e}
  BY <1>1, <1>2, <1>3 DEF ToSet
<1>5. ToSet(q) \subseteq ToSet(Append(q, e))
  BY <1>1, <1>2 DEF ToSet
<1>6. e \in ToSet(Append(q, e))
  BY <1>1, <1>3 DEF ToSet
<1> QED BY <1>4, <1>5, <1>6

\* What drain_ready_audio does to a turn that keeps its tasks: the audio that is
\* written goes on from what was heard, and the rest stays in order behind a gap.
LEMMA DrainGoesOn ==
    ASSUME PipelineInv, Drain
    PROVE  /\ nextAudio' \in nextAudio .. Len(ttsTask) + 1
           /\ heardAudio' = [j \in 1 .. nextAudio' - 1 |-> j]
           /\ nextAudio' \notin pendingAudio' /\ nextAudio' \notin Kept
           /\ pendingAudio' \cup (1 .. nextAudio' - 1) = Kept
           /\ audioQueue' = <<>>
<1> DEFINE have == pendingAudio \cup ToSet(audioQueue)
           gaps == {n \in nextAudio .. Len(ttsTask) + 1 : n \notin have}
           gap == Min(gaps)
<1>0. Len(ttsTask) \in Nat /\ Segment = 1 .. Len(ttsTask) /\ nextAudio \in 1 .. Len(ttsTask) + 1
  BY DEF PipelineInv, PipelineTypeOK, Prefix, Segment
<1>1. have \subseteq Segment
  BY DEF PipelineInv, Accounted, Kept
<1>2. gap \in gaps /\ \A n \in gaps : gap <= n
  <2>1. gaps \subseteq Nat
    BY <1>0
  <2>2. Len(ttsTask) + 1 \in gaps
    BY <1>0, <1>1
  <2> HIDE DEF gaps
  <2> QED BY <2>1, <2>2, LeastNat
<1>3. gap \in nextAudio .. Len(ttsTask) + 1 /\ gap \notin have
  BY <1>2
<1>4. \A n \in nextAudio .. gap - 1 : n \in have
  BY <1>0, <1>2, <1>3
<1>5. /\ nextAudio' = gap
      /\ pendingAudio' = have \ (nextAudio .. gap)
      /\ heardAudio' = heardAudio \o [j \in 1 .. gap - nextAudio |-> nextAudio + j - 1]
      /\ audioQueue' = <<>>
  BY DEF Drain
<1> HIDE DEF gap, gaps
<1>6. heardAudio' = [j \in 1 .. gap - 1 |-> j]
  <2>1. heardAudio = [j \in 1 .. nextAudio - 1 |-> j]
    BY DEF PipelineInv, Prefix
  <2> QED BY <1>0, <1>3, <1>5, <2>1
<1>7. (have \ (nextAudio .. gap)) \cup (1 .. gap - 1) = Kept
  BY <1>0, <1>1, <1>3, <1>4 DEF Kept
<1>8. gap \notin Kept
  BY <1>0, <1>3 DEF Kept
<1> QED BY <1>3, <1>5, <1>6, <1>7, <1>8

\* A drain keeps all of the invariant that does not depend on the stage or on
\* the task the loop has just seen complete.
LEMMA DrainKeeps ==
    ASSUME PipelineInv, Drain, Len(ttsTask') \in Nat, Len(ttsTask') >= Len(ttsTask),
           ttsTask' \in Seq(TaskState),
           \A i \in Segment : ttsTask'[i] = ttsTask[i],
           \A i \in Segment' \ Segment : ttsTask'[i] = "waiting"
    PROVE  /\ audioQueue' \in Seq(Segment') /\ pendingAudio' \subseteq Segment'
           /\ nextAudio' \in Nat /\ heardAudio' \in Seq(Nat)
           /\ Prefix' /\ Accounted'
           /\ nextAudio' \notin pendingAudio' /\ ToSet(audioQueue') = {}
<1>0. /\ Segment = 1 .. Len(ttsTask) /\ Segment' = 1 .. Len(ttsTask')
      /\ Len(ttsTask) \in Nat /\ nextAudio \in 1 .. Len(ttsTask) + 1
  BY DEF PipelineInv, PipelineTypeOK, Prefix, Segment
<1>1. /\ nextAudio' \in nextAudio .. Len(ttsTask) + 1
      /\ heardAudio' = [j \in 1 .. nextAudio' - 1 |-> j]
      /\ nextAudio' \notin pendingAudio'
      /\ pendingAudio' \cup (1 .. nextAudio' - 1) = Kept
      /\ audioQueue' = <<>>
  BY DrainGoesOn
<1>2. ToSet(audioQueue') = {}
  BY <1>1 DEF ToSet
<1>3. Kept' = Kept
  BY <1>1, <1>2 DEF Kept
<1>4. Prefix'
  BY <1>0, <1>1 DEF Prefix
<1>5. Accounted'
  BY <1>0, <1>3 DEF Accounted, PipelineInv
<1>6. pendingAudio' \subseteq Segment'
  BY <1>3, <1>5 DEF Accounted, Kept
<1>7. nextAudio' \in Nat /\ audioQueue' \in Seq(Segment')
  BY <1>0, <1>1
<1>8. heardAudio' \in Seq(Nat)
  <2>1. nextAudio' \in Nat \ {0}
    BY <1>0, <1>1
  <2> QED BY <1>1, <2>1, CountIsSeq
<1> QED BY <1>1, <1>2, <1>4, <1>5, <1>6, <1>7, <1>8

LEMMA ScheduledGrows ==
    ASSUME ttsTask \in Seq(TaskState), NEW k \in Nat, ttsTask' = Scheduled(k)
    PROVE  /\ ttsTask' \in Seq(TaskState)
           /\ Len(ttsTask') \in Nat /\ Len(ttsTask') >= Len(ttsTask)
           /\ Segment' = 1 .. Len(ttsTask') /\ Segment \subseteq Segment'
           /\ \A i \in Segment : ttsTask'[i] = ttsTask[i]
           /\ \A i \in Segment' \ Segment : ttsTask'[i] = "waiting"
<1> DEFINE new == [j \in 1 .. k |-> "waiting"]
<1>1. new \in Seq(TaskState) /\ Len(new) = k /\ \A j \in 1 .. k : new[j] = "waiting"
  BY DEF TaskState
<1> HIDE DEF new
<1>2. ttsTask' = ttsTask \o new
  BY DEF Scheduled, new
<1> QED BY <1>1, <1>2 DEF Segment

\* Scheduling segments disturbs nothing but the tasks.
LEMMA ScheduleKeeps ==
    ASSUME PipelineInv, NEW k \in Nat, ttsTask' = Scheduled(k),
           UNCHANGED <<audioQueue, pendingAudio, nextAudio, awaited, heardAudio>>,
           sse \notin {"error", "gone", "done"}, sse' \notin {"error", "gone", "done"},
           sse' \in SseStage, buffered' \in BOOLEAN, answered' \in BOOLEAN
    PROVE  PipelineInv'
<1>0. Segment = 1 .. Len(ttsTask) /\ Len(ttsTask) \in Nat
  BY DEF PipelineInv, PipelineTypeOK, Segment
<1>1. /\ ttsTask' \in Seq(TaskState)
      /\ Len(ttsTask') \in Nat /\ Len(ttsTask') >= Len(ttsTask)
      /\ Segment' = 1 .. Len(ttsTask') /\ Segment \subseteq Segment'
      /\ \A i \in Segment : ttsTask'[i] = ttsTask[i]
      /\ \A i \in Segment' \ Segment : ttsTask'[i] = "waiting"
  BY ScheduledGrows DEF PipelineInv, PipelineTypeOK
<1>2. audioQueue' \in Seq(Segment')
  <2>1. audioQueue \in Seq(Segment) /\ audioQueue' = audioQueue
    BY DEF PipelineInv, PipelineTypeOK
  <2> QED BY <1>1, <2>1, SeqGrows
<1>3. PipelineTypeOK'
  BY <1>1, <1>2, Zenon DEF PipelineInv, PipelineTypeOK
<1>4. Prefix'
  BY <1>0, <1>1 DEF PipelineInv, Prefix
<1>5. Kept' = Kept /\ ToSet(audioQueue') = ToSet(audioQueue)
  BY DEF Kept
<1>6. Accounted'
  BY <1>1, <1>5 DEF PipelineInv, Accounted
<1>7. awaited \subseteq Segment
  BY DEF PipelineInv, PipelineTypeOK
<1>8. Settled'
  BY <1>1, <1>5, <1>7 DEF PipelineInv, Settled, Busy
<1>9. Phased'
  BY <1>1 DEF PipelineInv, Phased
<1> QED BY <1>3, <1>4, <1>6, <1>8, <1>9 DEF PipelineInv

\* A turn that ends early cancels what is not done, and nothing that was put.
LEMMA CancelKeeps ==
    ASSUME PipelineInv, ttsTask' = Cancelled, sse' \in {"error", "gone"},
           UNCHANGED <<audioQueue, pendingAudio, nextAudio, awaited, buffered, answered, heardAudio>>
    PROVE  PipelineInv'
<1>0. Segment = 1 .. Len(ttsTask) /\ Len(ttsTask) \in Nat
  BY DEF PipelineInv, PipelineTypeOK, Segment
<1>1. /\ ttsTask' \in Seq(TaskState) /\ Len(ttsTask') = Len(ttsTask) /\ Segment' = Segment
      /\ \A i \in Segment : ttsTask'[i] = IF Busy(i) THEN "cancelled" ELSE ttsTask[i]
  <2>1. ttsTask' = [i \in 1 .. Len(ttsTask) |-> IF Busy(i) THEN "cancelled" ELSE ttsTask[i]]
    BY <1>0 DEF Cancelled
  <2>2. \A i \in 1 .. Len(ttsTask) : (IF Busy(i) THEN "cancelled" ELSE ttsTask[i]) \in TaskState
    BY <1>0 DEF PipelineInv, PipelineTypeOK, TaskState
  <2> QED BY <1>0, <2>1, <2>2 DEF Segment
<1>2. PipelineTypeOK'
  BY <1>1, Zenon DEF PipelineInv, PipelineTypeOK, SseStage
<1>3. Prefix'
  BY <1>1 DEF PipelineInv, Prefix
<1>4. Kept' = Kept /\ ToSet(audioQueue') = ToSet(audioQueue)
  BY DEF Kept
<1>5. \A i \in Segment : ttsTask'[i] = "put" <=> ttsTask[i] = "put"
  BY <1>1 DEF Busy
<1>6. \A i \in Segment : ~Busy(i)'
  BY <1>1 DEF Busy
<1>7. Accounted'
  BY <1>1, <1>4, <1>5 DEF PipelineInv, Accounted
<1>8. Settled'
  BY <1>1, <1>4, <1>6 DEF PipelineInv, PipelineTypeOK, Settled
<1>9. Phased'
  BY <1>1, <1>6 DEF Phased
<1> QED BY <1>2, <1>3, <1>7, <1>8, <1>9 DEF PipelineInv

\* A synthesis that moves on without an event.
LEMMA TaskKeeps ==
    ASSUME PipelineInv, NEW i \in Segment, Busy(i), NEW st \in {"synth", "failed"},
           ttsTask' = [ttsTask EXCEPT ![i] = st],
           UNCHANGED <<sse, audioQueue, pendingAudio, nextAudio, awaited, buffered, answered, heardAudio>>
    PROVE  PipelineInv'
<1>1. /\ ttsTask' \in Seq(TaskState) /\ Len(ttsTask') = Len(ttsTask) /\ Segment' = Segment
      /\ ttsTask'[i] = st /\ \A j \in Segment \ {i} : ttsTask'[j] = ttsTask[j]
  BY DEF PipelineInv, PipelineTypeOK, TaskState, Segment
<1>2. PipelineTypeOK'
  BY <1>1, Zenon DEF PipelineInv, PipelineTypeOK
<1>3. Prefix'
  BY <1>1 DEF PipelineInv, Prefix
<1>4. Kept' = Kept /\ ToSet(audioQueue') = ToSet(audioQueue)
  BY DEF Kept
<1>5. Accounted'
  BY <1>1, <1>4 DEF PipelineInv, Accounted, Busy
<1>6. i \notin awaited
  BY DEF PipelineInv, Settled
<1>7. Settled'
  BY <1>1, <1>4, <1>6 DEF PipelineInv, PipelineTypeOK, Settled, Busy
<1>8. Phased'
  BY <1>1 DEF PipelineInv, Phased, Busy
<1> QED BY <1>2, <1>3, <1>5, <1>7, <1>8 DEF PipelineInv

LEMMA SynthDoneKeeps ==
    ASSUME PipelineInv, NEW i \in Segment, SynthDone(i)
    PROVE  PipelineInv'
<1>1. /\ ttsTask' \in Seq(TaskState) /\ Len(ttsTask') = Len(ttsTask) /\ Segment' = Segment
      /\ ttsTask'[i] = "put" /\ \A j \in Segment \ {i} : ttsTask'[j] = ttsTask[j]
  BY DEF PipelineInv, PipelineTypeOK, TaskState, Segment, SynthDone
<1>2. /\ ToSet(audioQueue') = ToSet(audioQueue) \cup {i}
      /\ audioQueue' \in Seq(Segment')
  <2>1. audioQueue \in Seq(Segment) /\ audioQueue' = Append(audioQueue, i)
    BY DEF PipelineInv, PipelineTypeOK, SynthDone
  <2>2. ToSet(Append(audioQueue, i)) = ToSet(audioQueue) \cup {i}
    BY <2>1, AppendToSet
  <2>3. Append(audioQueue, i) \in Seq(Segment)
    BY <2>1
  <2> QED BY <1>1, <2>1, <2>2, <2>3
<1>3. UNCHANGED <<sse, pendingAudio, nextAudio, awaited, buffered, answered, heardAudio>>
  BY DEF SynthDone
<1>4. PipelineTypeOK'
  BY <1>1, <1>2, <1>3, Zenon DEF PipelineInv, PipelineTypeOK
<1>5. Prefix'
  BY <1>1, <1>3 DEF PipelineInv, Prefix
<1>6. Kept' = Kept \cup {i}
  BY <1>2, <1>3 DEF Kept
<1>7. Accounted'
  BY <1>1, <1>6 DEF PipelineInv, Accounted
<1>8. i \notin awaited /\ ttsTask[i] = "synth"
  BY DEF PipelineInv, Settled, Busy, SynthDone
<1>9. Settled'
  BY <1>1, <1>2, <1>3, <1>8 DEF PipelineInv, PipelineTypeOK, Settled, Busy
<1>10. Phased'
  BY <1>1, <1>3, <1>8 DEF PipelineInv, Phased, Busy
<1> QED BY <1>4, <1>5, <1>7, <1>9, <1>10 DEF PipelineInv

\* An event of the graph: the audio that is ready is written, then the segments
\* the next delta completed are scheduled.
LEMMA GraphEventKeeps ==
    ASSUME PipelineInv, NEW k \in 0 .. 2, NEW rest \in BOOLEAN, GraphEvent(k, rest)
    PROVE  PipelineInv'
<1>1. Drain /\ ttsTask' = Scheduled(k) /\ UNCHANGED <<sse, awaited>> /\ sse = "graph"
  BY DEF GraphEvent
<1>2. /\ ttsTask' \in Seq(TaskState)
      /\ Len(ttsTask') \in Nat /\ Len(ttsTask') >= Len(ttsTask)
      /\ Segment' = 1 .. Len(ttsTask') /\ Segment \subseteq Segment'
      /\ \A i \in Segment : ttsTask'[i] = ttsTask[i]
      /\ \A i \in Segment' \ Segment : ttsTask'[i] = "waiting"
  BY <1>1, ScheduledGrows DEF PipelineInv, PipelineTypeOK
<1>3. /\ audioQueue' \in Seq(Segment') /\ pendingAudio' \subseteq Segment'
      /\ nextAudio' \in Nat /\ heardAudio' \in Seq(Nat)
      /\ Prefix' /\ Accounted'
      /\ nextAudio' \notin pendingAudio' /\ ToSet(audioQueue') = {}
  BY <1>1, <1>2, DrainKeeps
<1>4. buffered' \in BOOLEAN /\ answered' \in BOOLEAN
  BY Zenon DEF GraphEvent, PipelineInv, PipelineTypeOK
<1>5. awaited' \subseteq Segment'
  BY <1>1, <1>2 DEF PipelineInv, PipelineTypeOK
<1>6. sse' \in SseStage
  BY <1>1 DEF SseStage
<1>7. PipelineTypeOK'
  BY <1>2, <1>3, <1>4, <1>5, <1>6, Zenon DEF PipelineTypeOK
<1>8. Settled'
  BY <1>1, <1>2, <1>3 DEF PipelineInv, PipelineTypeOK, Settled, Busy
<1>9. Phased'
  BY <1>1, <1>2 DEF PipelineInv, Phased
<1> QED BY <1>3, <1>7, <1>8, <1>9 DEF PipelineInv

\* One more task is seen complete: it put its event before, if ever.
LEMMA AwaitTaskKeeps ==
    ASSUME PipelineInv, NEW i \in Segment, AwaitTask(i)
    PROVE  PipelineInv'
<1>1. /\ Drain /\ UNCHANGED <<sse, ttsTask, buffered, answered>>
      /\ sse = "await" /\ ~Busy(i) /\ awaited' = awaited \cup {i}
  BY DEF AwaitTask
<1>2. Segment' = Segment /\ ttsTask' \in Seq(TaskState) /\ Len(ttsTask') \in Nat
  BY <1>1 DEF PipelineInv, PipelineTypeOK, Segment
<1>3. /\ audioQueue' \in Seq(Segment') /\ pendingAudio' \subseteq Segment'
      /\ nextAudio' \in Nat /\ heardAudio' \in Seq(Nat)
      /\ Prefix' /\ Accounted'
      /\ nextAudio' \notin pendingAudio' /\ ToSet(audioQueue') = {}
  BY <1>1, <1>2, DrainKeeps
<1>4. PipelineTypeOK'
  <2>1. awaited' \subseteq Segment'
    BY <1>1, <1>2 DEF PipelineInv, PipelineTypeOK
  <2>2. sse' \in SseStage /\ buffered' \in BOOLEAN /\ answered' \in BOOLEAN
    BY <1>1, Zenon DEF PipelineInv, PipelineTypeOK
  <2> QED BY <1>2, <1>3, <2>1, <2>2, Zenon DEF PipelineTypeOK
<1>5. Settled'
  BY <1>1, <1>3 DEF PipelineInv, PipelineTypeOK, Settled, Busy
<1>6. Phased'
  BY <1>1, <1>2 DEF PipelineInv, Phased
<1> QED BY <1>3, <1>4, <1>5, <1>6 DEF PipelineInv

\* The last look at the queue finds nothing: every task was seen complete, and
\* the drain that followed took what it had put.
LEMMA LastDrainIsEmpty ==
    ASSUME PipelineInv, AudioEnd
    PROVE  UNCHANGED <<audioQueue, pendingAudio, nextAudio, heardAudio>>
<1>1. awaited = Segment /\ Drain
  BY DEF AudioEnd
<1>2. ToSet(audioQueue) = {}
  BY <1>1 DEF PipelineInv, Settled, Accounted, Kept
<1>3. audioQueue = <<>>
  <2>1. audioQueue \in Seq(Segment)
    BY DEF PipelineInv, PipelineTypeOK
  <2>2. \A i \in 1 .. Len(audioQueue) : audioQueue[i] \in ToSet(audioQueue)
    BY <2>1 DEF ToSet
  <2> QED BY <1>2, <2>1, <2>2
<1>4. /\ nextAudio' \in nextAudio .. Len(ttsTask) + 1
      /\ heardAudio' = [j \in 1 .. nextAudio' - 1 |-> j]
      /\ nextAudio' \notin pendingAudio' /\ nextAudio' \notin Kept
      /\ pendingAudio' \cup (1 .. nextAudio' - 1) = Kept
      /\ audioQueue' = <<>>
  BY <1>1, DrainGoesOn
<1>5. nextAudio \in 1 .. Len(ttsTask) + 1 /\ Len(ttsTask) \in Nat
  BY DEF PipelineInv, PipelineTypeOK, Prefix
<1>6. nextAudio \notin Kept
  BY <1>2, <1>5 DEF PipelineInv, Settled, Kept
<1>7. nextAudio' = nextAudio
  BY <1>4, <1>5, <1>6
<1>8. pendingAudio' = pendingAudio
  <2>1. \A n \in pendingAudio : n \notin nextAudio .. nextAudio
    BY <1>5 DEF PipelineInv, Settled
  <2>2. pendingAudio' = (pendingAudio \cup ToSet(audioQueue)) \ (nextAudio .. nextAudio')
    BY <1>1 DEF Drain
  <2> QED BY <1>2, <1>7, <2>1, <2>2
<1>9. heardAudio' = heardAudio
  BY <1>4, <1>7 DEF PipelineInv, Prefix
<1> QED BY <1>3, <1>4, <1>7, <1>8, <1>9

\* A step of the generator that leaves tasks and audio as they are.
LEMMA StageKeeps ==
    ASSUME PipelineInv, sse \notin {"error", "gone"}, sse' \in SseStage \ {"error", "gone"},
           sse' = "done" => awaited = Segment,
           UNCHANGED <<ttsTask, audioQueue, pendingAudio, nextAudio, awaited, buffered, answered,
                       heardAudio>>
    PROVE  PipelineInv'
<1>1. Segment' = Segment /\ Kept' = Kept /\ ToSet(audioQueue') = ToSet(audioQueue)
  BY DEF Segment, Kept
<1>2. PipelineTypeOK'
  BY <1>1, Zenon DEF PipelineInv, PipelineTypeOK
<1>3. Prefix' /\ Accounted'
  BY <1>1 DEF PipelineInv, Prefix, Accounted
<1>4. Settled'
  BY <1>1 DEF PipelineInv, Settled, Busy
<1>5. Phased'
  BY <1>1 DEF PipelineInv, Phased
<1> QED BY <1>2, <1>3, <1>4, <1>5 DEF PipelineInv

-----------------------------------------------------------------------------
LEMMA PipelineInvInit == PipelineInit => PipelineInv
<1> SUFFICES ASSUME PipelineInit PROVE PipelineInv
  OBVIOUS
<1> USE DEF PipelineInit
<1>1. PipelineTypeOK
  <2>1. /\ sse \in SseStage /\ ttsTask \in Seq(TaskState) /\ audioQueue \in Seq(Segment)
        /\ pendingAudio \subseteq Segment /\ nextAudio \in Nat /\ awaited \subseteq Segment
        /\ heardAudio \in Seq(Nat)
    BY DEF SseStage
  <2>2. buffered \in BOOLEAN /\ answered \in BOOLEAN
    BY Zenon
  <2> QED BY <2>1, <2>2, Zenon DEF PipelineTypeOK
<1>2. Segment = {} /\ ToSet(audioQueue) = {} /\ Kept = {}
  BY DEF Segment, Kept, ToSet
<1>3. Prefix
  BY DEF Prefix
<1> QED BY <1>1, <1>2, <1>3 DEF PipelineInv, Accounted, Settled, Phased

LEMMA PipelineInvStep == PipelineInv /\ [PipelineNext]_pipelineVars => PipelineInv'
<1> SUFFICES ASSUME PipelineInv, [PipelineNext]_pipelineVars PROVE PipelineInv'
  OBVIOUS
<1>1. ASSUME NEW i \in Segment, SynthBegin(i) PROVE PipelineInv'
  BY <1>1, TaskKeeps DEF SynthBegin, Busy
<1>2. ASSUME NEW i \in Segment, SynthDone(i) PROVE PipelineInv'
  BY <1>2, SynthDoneKeeps
<1>3. ASSUME NEW i \in Segment, SynthFails(i) PROVE PipelineInv'
  BY <1>3, TaskKeeps DEF SynthFails, Busy
<1>4. CASE Transcribed
  BY <1>4, StageKeeps DEF Transcribed, SseStage
<1>5. ASSUME NEW k \in 0 .. 2, NEW rest \in BOOLEAN, GraphEvent(k, rest) PROVE PipelineInv'
  BY <1>5, GraphEventKeeps
<1>6. ASSUME NEW final \in BOOLEAN, GraphAnswers(final) PROVE PipelineInv'
  <2>1. buffered' \in BOOLEAN /\ answered' \in BOOLEAN
    BY <1>6, Zenon DEF GraphAnswers, PipelineInv, PipelineTypeOK
  <2> DEFINE k == IF buffered \/ ttsTask = <<>> THEN 1 ELSE 0
  <2>2. k \in Nat /\ ttsTask' = Scheduled(k)
    BY <1>6 DEF GraphAnswers
  <2> HIDE DEF k
  <2> QED BY <1>6, <2>1, <2>2, ScheduleKeeps DEF GraphAnswers, SseStage
<1>7. CASE GraphDisabled
  <2>1. buffered' \in BOOLEAN /\ answered' \in BOOLEAN
    BY <1>7, Zenon DEF GraphDisabled, PipelineInv, PipelineTypeOK
  <2> QED BY <1>7, <2>1, ScheduleKeeps DEF GraphDisabled, SseStage
<1>8. ASSUME NEW i \in Segment, AwaitTask(i) PROVE PipelineInv'
  BY <1>8, AwaitTaskKeeps
<1>9. CASE AudioEnd
  BY <1>9, LastDrainIsEmpty, StageKeeps DEF AudioEnd, SseStage
<1>10. CASE PipelineFails
  BY <1>10, StageKeeps DEF PipelineFails, SseStage
<1>11. CASE FailureEnds
  BY <1>11, CancelKeeps DEF FailureEnds
<1>12. CASE CallerGone
  BY <1>12, CancelKeeps DEF CallerGone
<1>13. CASE UNCHANGED pipelineVars
  <2>1. Segment' = Segment /\ Kept' = Kept /\ ToSet(audioQueue') = ToSet(audioQueue)
    BY <1>13 DEF pipelineVars, Segment, Kept
  <2>2. PipelineTypeOK'
    BY <1>13, <2>1, Zenon DEF pipelineVars, PipelineInv, PipelineTypeOK
  <2>3. Prefix' /\ Accounted' /\ Settled' /\ Phased'
    BY <1>13, <2>1 DEF pipelineVars, PipelineInv, Prefix, Accounted, Settled, Phased, Busy
  <2> QED BY <2>2, <2>3 DEF PipelineInv
<1> QED
  BY <1>1, <1>2, <1>3, <1>4, <1>5, <1>6, <1>7, <1>8, <1>9, <1>10, <1>11, <1>12, <1>13
  DEF PipelineNext, SynthStep, GeneratorStep

LEMMA PipelineInvHolds == PipelineSpec => []PipelineInv
BY PipelineInvInit, PipelineInvStep, PTL DEF PipelineSpec

-----------------------------------------------------------------------------
(* Theorems *)

\* The state of a turn stays well typed, for any length of the answer and any
\* number of concurrent syntheses.
THEOREM PipelineTypeCorrect == PipelineSpec => []PipelineTypeOK
<1>1. PipelineInv => PipelineTypeOK
  BY DEF PipelineInv
<1> QED BY <1>1, PipelineInvHolds, PTL

\* Every way a turn ends leaves no synthesis running.
THEOREM NoSynthesisOutlives == PipelineSpec => []NoOrphanedSynthesis
<1>1. PipelineInv => NoOrphanedSynthesis
  BY DEF PipelineInv, NoOrphanedSynthesis, Ended, Phased, Settled
<1> QED BY <1>1, PipelineInvHolds, PTL

\* When audio_end is written, exactly the segments before the first failed one
\* were heard: the next one to write is neither kept nor running nor cancelled.
THEOREM AudioEndIsLast == PipelineSpec => []HeardUpToGap
<1>1. PipelineInv => HeardUpToGap
  <2> SUFFICES ASSUME PipelineInv, sse = "done"
               PROVE  heardAudio = [i \in 1 .. FirstGap - 1 |-> i]
    BY DEF HeardUpToGap
  <2> DEFINE gaps == {g \in 1 .. Len(ttsTask) + 1 : g = Len(ttsTask) + 1 \/ ttsTask[g] = "failed"}
  <2>0. /\ nextAudio \in 1 .. Len(ttsTask) + 1 /\ Len(ttsTask) \in Nat
        /\ Segment = 1 .. Len(ttsTask)
    BY DEF PipelineInv, PipelineTypeOK, Prefix, Segment
  <2>1. nextAudio \in gaps
    <3> SUFFICES ASSUME nextAudio # Len(ttsTask) + 1 PROVE ttsTask[nextAudio] = "failed"
      BY <2>0
    <3>1. nextAudio \in Segment
      BY <2>0
    <3>2. nextAudio \in awaited
      BY <3>1 DEF PipelineInv, Phased
    <3>3. ~Busy(nextAudio) /\ nextAudio \notin ToSet(audioQueue) /\ nextAudio \notin pendingAudio
      BY <3>2 DEF PipelineInv, Settled
    <3>4. ttsTask[nextAudio] # "put"
      BY <2>0, <3>1, <3>3 DEF PipelineInv, Accounted, Kept
    <3>5. ttsTask[nextAudio] # "cancelled"
      BY <3>1 DEF PipelineInv, Phased
    <3>6. ttsTask[nextAudio] \in TaskState
      BY <3>1, <2>0 DEF PipelineInv, PipelineTypeOK
    <3> QED BY <3>3, <3>4, <3>5, <3>6 DEF TaskState, Busy
  <2>2. \A g \in gaps : nextAudio <= g
    <3> SUFFICES ASSUME NEW g \in gaps, g < nextAudio PROVE FALSE
      BY <2>0
    <3>1. g \in Segment /\ ttsTask[g] = "failed" /\ g \in Kept
      BY <2>0 DEF Kept
    <3> QED BY <3>1 DEF PipelineInv, Accounted
  <2>3. FirstGap = nextAudio
    <3>1. gaps \subseteq Nat /\ gaps # {}
      BY <2>0, <2>1
    <3>2. FirstGap = Min(gaps)
      BY DEF FirstGap
    <3> HIDE DEF gaps
    <3>3. Min(gaps) \in gaps /\ \A y \in gaps : Min(gaps) <= y
      BY <3>1, LeastNat
    <3>4. Min(gaps) <= nextAudio /\ nextAudio <= Min(gaps) /\ Min(gaps) \in Nat
      BY <2>1, <2>2, <3>1, <3>3
    <3> QED BY <2>0, <3>2, <3>4
  <2> QED BY <2>3 DEF PipelineInv, Prefix
<1> QED BY <1>1, PipelineInvHolds, PTL

\* Drains say segments; the audio that is heard only ever grows at its end.
LEMMA DrainSays ==
    ASSUME PipelineInv, Drain, ~Ended, UNCHANGED sse
    PROVE  [PipelineStream!Say \/ PipelineStream!Close]_PipelineStream!streamVars
<1>1. /\ nextAudio \in 1 .. Len(ttsTask) + 1 /\ Len(ttsTask) \in Nat
      /\ heardAudio = [j \in 1 .. nextAudio - 1 |-> j]
  BY DEF PipelineInv, PipelineTypeOK, Prefix
<1>2. /\ nextAudio' \in nextAudio .. Len(ttsTask) + 1
      /\ heardAudio' = [j \in 1 .. nextAudio' - 1 |-> j]
  BY DrainGoesOn
<1>3. Ended' = Ended
  BY DEF Ended
<1>4. CASE nextAudio' = nextAudio
  BY <1>1, <1>2, <1>3, <1>4 DEF PipelineStream!streamVars
<1>5. CASE nextAudio' > nextAudio
  <2>1. nextAudio \in Nat \ {0} /\ nextAudio' \in Nat \ {0}
    BY <1>1, <1>2
  <2>2. Len(heardAudio') > Len(heardAudio) /\ SubSeq(heardAudio', 1, Len(heardAudio)) = heardAudio
    BY <1>1, <1>2, <1>5, <2>1, CountGrows
  <2>3. PipelineStream!Increasing(heardAudio')
    BY <1>1, <1>2 DEF PipelineStream!Increasing
  <2> QED BY <1>3, <2>2, <2>3 DEF PipelineStream!Say
<1> QED BY <1>1, <1>2, <1>4, <1>5

\* A turn implements the stream its caller counts on (module SpeechStream): the
\* segments are heard in the order of the answer, none twice and none after the
\* end, in whatever order the syntheses end or fail.
THEOREM PipelineImplementsStream == PipelineSpec => PipelineSpeaksInOrder
<1>1. PipelineInit => PipelineStream!StreamInit
  BY DEF PipelineInit, PipelineStream!StreamInit, Ended
<1>2. ASSUME PipelineInv, [PipelineNext]_pipelineVars
      PROVE  [PipelineStream!Say \/ PipelineStream!Close]_PipelineStream!streamVars
  <2> USE DEF PipelineStream!streamVars, Ended
  <2>1. CASE SynthStep
    BY <2>1 DEF SynthStep, SynthBegin, SynthDone, SynthFails
  <2>2. CASE Transcribed
    BY <2>2 DEF Transcribed
  <2>3. ASSUME NEW k \in 0 .. 2, NEW rest \in BOOLEAN, GraphEvent(k, rest)
        PROVE  [PipelineStream!Say \/ PipelineStream!Close]_PipelineStream!streamVars
    BY <1>2, <2>3, DrainSays DEF GraphEvent
  <2>4. ASSUME NEW final \in BOOLEAN, GraphAnswers(final)
        PROVE  [PipelineStream!Say \/ PipelineStream!Close]_PipelineStream!streamVars
    BY <2>4 DEF GraphAnswers
  <2>5. CASE GraphDisabled
    BY <2>5 DEF GraphDisabled
  <2>6. ASSUME NEW i \in Segment, AwaitTask(i)
        PROVE  [PipelineStream!Say \/ PipelineStream!Close]_PipelineStream!streamVars
    BY <1>2, <2>6, DrainSays DEF AwaitTask
  <2>7. CASE AudioEnd
    BY <1>2, <2>7, LastDrainIsEmpty DEF AudioEnd, PipelineStream!Close
  <2>8. CASE PipelineFails
    BY <2>8 DEF PipelineFails
  <2>9. CASE FailureEnds
    BY <2>9 DEF FailureEnds, PipelineStream!Close
  <2>10. CASE CallerGone
    BY <2>10 DEF CallerGone, PipelineStream!Close
  <2>11. CASE UNCHANGED pipelineVars
    BY <2>11 DEF pipelineVars
  <2> QED
    BY <1>2, <2>1, <2>2, <2>3, <2>4, <2>5, <2>6, <2>7, <2>8, <2>9, <2>10, <2>11
    DEF PipelineNext, GeneratorStep
<1> QED BY <1>1, <1>2, PipelineInvHolds, PTL DEF PipelineSpec, PipelineSpeaksInOrder,
        PipelineStream!StreamSpec

-----------------------------------------------------------------------------
(* A web call *)

\* A worker that was cancelled.
CutOff == speaker.doing = "off" /\ callStage \in {"disabled", "aborted"}

\* The worker takes the sentences one after the other and stops behind the last,
\* if nobody cancels it.
SpeakerAtWork ==
    /\ speaker.at <= Len(sentences)
    /\ speaker.doing = "speak" => speaker.at >= 1
    /\ speaker.doing = "off" =>
         callStage # "graph" /\ (CutOff \/ speaker.at = Len(sentences))

\* The sentences come to an end with the turn, and the turn with its worker.
TurnOrder ==
    /\ finished => callStage # "graph"
    /\ callStage \in {"ended", "disabled"} => speaker.doing = "off"

\* What was heard is behind the worker, in order; the sentence it speaks was
\* heard if and only if a chunk of it was sent.
HeardBehind ==
    /\ \A i \in DOMAIN heardCall : heardCall[i] \in 1 .. speaker.at
    /\ speaker.doing = "speak" /\ speaker.sent = 0 =>
         \A i \in DOMAIN heardCall : heardCall[i] < speaker.at
    /\ speaker.doing = "speak" /\ speaker.sent > 0 => speaker.at \in ToSet(heardCall)
    /\ CallStream!Increasing(heardCall)

\* Whatever the worker has left behind was heard or failed, but for the sentence
\* at which it was cancelled.
NothingSkipped ==
    \A i \in 1 .. speaker.at :
        \/ i \in muted \/ i \in ToSet(heardCall)
        \/ i = speaker.at /\ (speaker.doing = "speak" \/ CutOff)

CallInv == CallTypeOK /\ SpeakerAtWork /\ TurnOrder /\ HeardBehind /\ NothingSkipped

-----------------------------------------------------------------------------
(* Lemmas *)

\* Saying a number greater than all that were said.
LEMMA SayNext ==
    ASSUME NEW q \in Seq(Nat), NEW e \in Nat, \A i \in DOMAIN q : q[i] < e,
           CallStream!Increasing(q)
    PROVE  /\ Append(q, e) \in Seq(Nat)
           /\ CallStream!Increasing(Append(q, e))
           /\ ToSet(Append(q, e)) = ToSet(q) \cup {e}
           /\ DOMAIN Append(q, e) = 1 .. Len(q) + 1
           /\ \A i \in DOMAIN Append(q, e) : Append(q, e)[i] = e \/ \E j \in DOMAIN q : Append(q, e)[i] = q[j]
           /\ Len(Append(q, e)) > Len(q)
           /\ SubSeq(Append(q, e), 1, Len(q)) = q
<1>1. /\ Append(q, e) \in Seq(Nat) /\ Len(q) \in Nat /\ DOMAIN q = 1 .. Len(q)
      /\ DOMAIN Append(q, e) = 1 .. Len(q) + 1 /\ Len(Append(q, e)) = Len(q) + 1
  OBVIOUS
<1>2. \A i \in 1 .. Len(q) : Append(q, e)[i] = q[i]
  OBVIOUS
<1>3. Append(q, e)[Len(q) + 1] = e
  OBVIOUS
<1>4. ToSet(Append(q, e)) \subseteq ToSet(q) \cup {e}
  BY <1>1, <1>2, <1>3 DEF ToSet
<1>5. ToSet(q) \subseteq ToSet(Append(q, e))
  BY <1>1, <1>2 DEF ToSet
<1>6. e \in ToSet(Append(q, e))
  BY <1>1, <1>3 DEF ToSet
<1>7. CallStream!Increasing(Append(q, e))
  BY <1>1, <1>2, <1>3 DEF CallStream!Increasing
<1>8. SubSeq(Append(q, e), 1, Len(q)) = q
  BY <1>1, <1>2
<1>9. \A i \in DOMAIN Append(q, e) : Append(q, e)[i] = e \/ \E j \in DOMAIN q : Append(q, e)[i] = q[j]
  BY <1>1, <1>2, <1>3
<1> QED BY <1>1, <1>4, <1>5, <1>6, <1>7, <1>8, <1>9

\* Sentences are put behind those that are there.
LEMMA PutBehind ==
    ASSUME sentences \in Seq({"part", "all"}), NEW more \in Seq({"part", "all"}),
           sentences' = sentences \o more
    PROVE  /\ sentences' \in Seq({"part", "all"})
           /\ Len(sentences) \in Nat /\ Len(sentences') \in Nat
           /\ Len(sentences) <= Len(sentences')
           /\ DOMAIN sentences \subseteq DOMAIN sentences'
<1>1. /\ Len(sentences) \in Nat /\ Len(more) \in Nat
      /\ Len(sentences \o more) = Len(sentences) + Len(more)
      /\ sentences \o more \in Seq({"part", "all"})
  OBVIOUS
<1>2. /\ DOMAIN sentences = 1 .. Len(sentences)
      /\ DOMAIN (sentences \o more) = 1 .. Len(sentences \o more)
  BY <1>1
<1> QED BY <1>1, <1>2

\* A step of the turn that puts sentences, or none, and leaves the worker alone.
LEMMA PutKeeps ==
    ASSUME CallInv, NEW more \in Seq({"part", "all"}), sentences' = sentences \o more,
           callStage = "graph", callStage' \in {"graph", "wait"},
           finished' \in BOOLEAN, finished' => callStage' # "graph", wsBuffer' \in BOOLEAN,
           UNCHANGED <<wsOpen, speaker, chunks, heardCall, muted>>
    PROVE  CallInv'
<1>1. /\ sentences' \in Seq({"part", "all"})
      /\ Len(sentences) \in Nat /\ Len(sentences') \in Nat
      /\ Len(sentences) <= Len(sentences')
      /\ DOMAIN sentences \subseteq DOMAIN sentences'
  BY PutBehind DEF CallInv, CallTypeOK
<1>2. muted' \subseteq DOMAIN sentences'
  BY <1>1 DEF CallInv, CallTypeOK
<1>3. callStage' \in {"graph", "wait", "ended", "disabled", "aborted"}
  OBVIOUS
<1>4. CallTypeOK'
  BY <1>1, <1>2, <1>3, Zenon DEF CallInv, CallTypeOK
<1>5. speaker.doing # "off" /\ speaker.at \in Nat
  BY DEF CallInv, CallTypeOK, SpeakerAtWork
<1>6. SpeakerAtWork'
  BY <1>1, <1>5 DEF CallInv, SpeakerAtWork, CutOff
<1>7. TurnOrder'
  BY DEF TurnOrder
<1>8. HeardBehind' /\ NothingSkipped'
  BY DEF CallInv, HeardBehind, NothingSkipped, CutOff
<1> QED BY <1>4, <1>6, <1>7, <1>8 DEF CallInv

\* A step of the worker that says nothing.
LEMMA SilentKeeps ==
    ASSUME CallInv, UNCHANGED <<callStage, wsOpen, sentences, wsBuffer, finished, chunks, heardCall>>,
           speaker' \in [doing : {"get", "speak", "off"}, at : Nat, sent : Nat],
           muted \subseteq muted', muted' \subseteq DOMAIN sentences,
           SpeakerAtWork', TurnOrder', speaker.doing # "off",
           speaker'.doing = "speak" =>
               speaker'.sent = 0 /\ speaker'.at = speaker.at + 1 /\ speaker.doing = "get",
           speaker'.doing # "speak" =>
               /\ speaker'.at = speaker.at
               /\ speaker.doing = "speak" => speaker.at \in muted' \/ speaker.at \in ToSet(heardCall)
    PROVE  CallInv'
<1>1. CallTypeOK'
  BY Zenon DEF CallInv, CallTypeOK
<1>2. /\ speaker.at \in Nat /\ speaker'.at \in Nat
      /\ speaker.doing \in {"get", "speak", "off"} /\ speaker'.doing \in {"get", "speak", "off"}
  BY DEF CallInv, CallTypeOK
<1>3. HeardBehind'
  <2>1. \A i \in DOMAIN heardCall : heardCall[i] \in 1 .. speaker.at
    BY DEF CallInv, HeardBehind
  <2>2. CASE speaker'.doing = "speak"
    BY <1>2, <2>1, <2>2 DEF CallInv, HeardBehind
  <2>3. CASE speaker'.doing # "speak"
    BY <1>2, <2>1, <2>3 DEF CallInv, HeardBehind
  <2> QED BY <2>2, <2>3
<1>4. NothingSkipped'
  <2>1. CASE speaker'.doing = "speak"
    BY <1>2, <2>1 DEF CallInv, NothingSkipped, CutOff
  <2>2. CASE speaker'.doing # "speak"
    BY <1>2, <2>2 DEF CallInv, NothingSkipped, CutOff
  <2> QED BY <2>1, <2>2
<1> QED BY <1>1, <1>3, <1>4 DEF CallInv

LEMMA SpeakChunkKeeps == ASSUME CallInv, SpeakChunk PROVE CallInv'
<1>1. /\ UNCHANGED <<callStage, wsOpen, sentences, wsBuffer, finished, muted>>
      /\ speaker' = [speaker EXCEPT !.sent = @ + 1] /\ chunks' = chunks + 1
      /\ speaker.doing = "speak"
  BY DEF SpeakChunk
<1>2. speaker \in [doing : {"get", "speak", "off"}, at : Nat, sent : Nat]
  BY DEF CallInv, CallTypeOK
<1>3. /\ speaker' \in [doing : {"get", "speak", "off"}, at : Nat, sent : Nat]
      /\ speaker'.doing = "speak" /\ speaker'.at = speaker.at /\ speaker'.sent > 0
  BY <1>1, <1>2
<1>4. /\ heardCall' \in Seq(Nat)
      /\ \A i \in DOMAIN heardCall' : heardCall'[i] \in 1 .. speaker.at
      /\ ToSet(heardCall) \subseteq ToSet(heardCall') /\ speaker.at \in ToSet(heardCall')
      /\ CallStream!Increasing(heardCall')
  <2>1. heardCall \in Seq(Nat) /\ speaker.at \in Nat /\ speaker.at >= 1 /\ speaker.sent \in Nat
    BY <1>1, <1>2 DEF CallInv, CallTypeOK, SpeakerAtWork
  <2>2. CASE speaker.sent = 0
    <3>1. heardCall' = Append(heardCall, speaker.at)
      BY <2>2 DEF SpeakChunk
    <3>2. \A i \in DOMAIN heardCall : heardCall[i] < speaker.at /\ heardCall[i] \in 1 .. speaker.at
      BY <1>1, <2>2 DEF CallInv, HeardBehind
    <3>3. CallStream!Increasing(heardCall)
      BY DEF CallInv, HeardBehind
    <3>4. /\ heardCall' \in Seq(Nat)
          /\ CallStream!Increasing(heardCall')
          /\ ToSet(heardCall') = ToSet(heardCall) \cup {speaker.at}
          /\ \A i \in DOMAIN heardCall' : \/ heardCall'[i] = speaker.at
                                          \/ \E j \in DOMAIN heardCall : heardCall'[i] = heardCall[j]
      BY <2>1, <3>1, <3>2, <3>3, SayNext
    <3> QED BY <2>1, <3>2, <3>4
  <2>3. CASE speaker.sent # 0
    <3>1. heardCall' = heardCall /\ speaker.sent > 0
      BY <2>1, <2>3 DEF SpeakChunk
    <3> QED BY <1>1, <2>1, <3>1 DEF CallInv, HeardBehind
  <2> QED BY <2>2, <2>3
<1>5. chunks' \in Nat
  BY <1>1 DEF CallInv, CallTypeOK
<1>6. CallTypeOK'
  BY <1>1, <1>3, <1>4, <1>5, Zenon DEF CallInv, CallTypeOK
<1>7. SpeakerAtWork' /\ TurnOrder'
  BY <1>1, <1>3 DEF CallInv, SpeakerAtWork, TurnOrder, CutOff
<1>8. HeardBehind'
  BY <1>3, <1>4 DEF HeardBehind
<1>9. NothingSkipped'
  BY <1>1, <1>3, <1>4 DEF CallInv, NothingSkipped, CutOff
<1> QED BY <1>6, <1>7, <1>8, <1>9 DEF CallInv

\* A step of the turn or of the caller that puts nothing and leaves the worker
\* to go on, or finds it stopped.
LEMMA TurnKeeps ==
    ASSUME CallInv, callStage' \in {"graph", "wait", "ended", "disabled", "aborted"}, wsOpen' \in BOOLEAN,
           callStage' = "graph" => callStage = "graph",
           callStage' \in {"ended", "disabled"} => speaker.doing = "off",
           callStage \in {"disabled", "aborted"} => callStage' = callStage,
           UNCHANGED <<sentences, wsBuffer, finished, speaker, chunks, heardCall, muted>>
    PROVE  CallInv'
<1>1. CallTypeOK'
  BY Zenon DEF CallInv, CallTypeOK
<1>2. SpeakerAtWork' /\ TurnOrder'
  BY DEF CallInv, CallTypeOK, SpeakerAtWork, TurnOrder, CutOff
<1>3. HeardBehind' /\ NothingSkipped'
  BY DEF CallInv, HeardBehind, NothingSkipped, CutOff
<1> QED BY <1>1, <1>2, <1>3 DEF CallInv

-----------------------------------------------------------------------------
LEMMA CallInvInit == CallInit => CallInv
<1> SUFFICES ASSUME CallInit PROVE CallInv
  OBVIOUS
<1>1. /\ callStage = "graph" /\ sentences = <<>> /\ heardCall = <<>> /\ muted = {} /\ chunks = 0
      /\ speaker = [doing |-> "get", at |-> 0, sent |-> 0] /\ finished = FALSE
      /\ wsOpen \in BOOLEAN /\ wsBuffer \in BOOLEAN /\ finished \in BOOLEAN
  BY Zenon DEF CallInit
<1>2. CallTypeOK
  <2>1. /\ callStage \in {"graph", "wait", "ended", "disabled", "aborted"}
        /\ sentences \in Seq({"part", "all"}) /\ heardCall \in Seq(Nat)
        /\ speaker \in [doing : {"get", "speak", "off"}, at : Nat, sent : Nat]
        /\ chunks \in Nat /\ muted \subseteq DOMAIN sentences
    BY <1>1
  <2> QED BY <1>1, <2>1, Zenon DEF CallTypeOK
<1>3. SpeakerAtWork /\ TurnOrder /\ HeardBehind /\ NothingSkipped
  BY <1>1 DEF SpeakerAtWork, TurnOrder, HeardBehind, NothingSkipped, CallStream!Increasing
<1> QED BY <1>2, <1>3 DEF CallInv

LEMMA CallInvStep == CallInv /\ [CallNext]_callVars => CallInv'
<1> SUFFICES ASSUME CallInv, [CallNext]_callVars PROVE CallInv'
  OBVIOUS
<1>0. /\ speaker \in [doing : {"get", "speak", "off"}, at : Nat, sent : Nat]
      /\ sentences \in Seq({"part", "all"}) /\ Len(sentences) \in Nat
      /\ muted \subseteq DOMAIN sentences
      /\ SpeakerAtWork /\ TurnOrder
  BY DEF CallInv, CallTypeOK
<1>1. CASE SpeakNext
  <2>1. /\ speaker' = [doing |-> "speak", at |-> speaker.at + 1, sent |-> 0]
        /\ speaker.doing = "get" /\ speaker.at < Len(sentences)
        /\ UNCHANGED <<callStage, wsOpen, sentences, wsBuffer, finished, chunks, heardCall, muted>>
    BY <1>1 DEF SpeakNext
  <2>2. SpeakerAtWork' /\ TurnOrder'
    BY <1>0, <2>1 DEF SpeakerAtWork, TurnOrder, CutOff
  <2> QED BY <1>0, <2>1, <2>2, SilentKeeps
<1>2. CASE SpeakStops
  <2>1. /\ speaker' = [speaker EXCEPT !.doing = "off"]
        /\ speaker.doing = "get" /\ speaker.at = Len(sentences) /\ finished
        /\ UNCHANGED <<callStage, wsOpen, sentences, wsBuffer, finished, chunks, heardCall, muted>>
    BY <1>2 DEF SpeakStops
  <2>2. SpeakerAtWork' /\ TurnOrder'
    BY <1>0, <2>1 DEF SpeakerAtWork, TurnOrder, CutOff
  <2> QED BY <1>0, <2>1, <2>2, SilentKeeps
<1>3. CASE SpeakChunk
  BY <1>3, SpeakChunkKeeps
<1>4. CASE SpeakDone
  <2>1. /\ speaker' = [speaker EXCEPT !.doing = "get"]
        /\ speaker.doing = "speak" /\ speaker.sent > 0
        /\ UNCHANGED <<callStage, wsOpen, sentences, wsBuffer, finished, chunks, heardCall, muted>>
    BY <1>4 DEF SpeakDone
  <2>2. SpeakerAtWork' /\ TurnOrder' /\ speaker.at \in ToSet(heardCall)
    BY <1>0, <2>1 DEF SpeakerAtWork, TurnOrder, CutOff, CallInv, HeardBehind
  <2> QED BY <1>0, <2>1, <2>2, SilentKeeps
<1>5. CASE SpeakFails
  <2>1. /\ speaker' = [speaker EXCEPT !.doing = "get"] /\ muted' = muted \cup {speaker.at}
        /\ speaker.doing = "speak"
        /\ UNCHANGED <<callStage, wsOpen, sentences, wsBuffer, finished, chunks, heardCall>>
    BY <1>5 DEF SpeakFails
  <2>2. SpeakerAtWork' /\ TurnOrder' /\ speaker.at \in DOMAIN sentences
    BY <1>0, <2>1 DEF SpeakerAtWork, TurnOrder, CutOff
  <2> QED BY <1>0, <2>1, <2>2, SilentKeeps
<1>6. ASSUME NEW k \in 0 .. 2, NEW rest \in BOOLEAN, CallEvent(k, rest) PROVE CallInv'
  <2>1. Parts(k) \in Seq({"part", "all"})
    BY DEF Parts
  <2>2. finished \in BOOLEAN /\ wsBuffer' \in BOOLEAN
    BY <1>6, Zenon DEF CallEvent, CallInv, CallTypeOK
  <2> QED BY <1>0, <1>6, <2>1, <2>2, PutKeeps DEF CallEvent, TurnOrder
<1>7. CASE TurnEnds
  <2> DEFINE more == IF wsBuffer THEN <<"part">> ELSE IF chunks = 0 THEN <<"all">> ELSE <<>>
  <2>1. more \in Seq({"part", "all"}) /\ sentences' = sentences \o more
    <3>1. /\ <<"part">> \in Seq({"part", "all"}) /\ <<"all">> \in Seq({"part", "all"})
          /\ <<>> \in Seq({"part", "all"})
      OBVIOUS
    <3>2. sentences' = sentences \o more
      BY <1>7, Zenon DEF TurnEnds
    <3> QED BY <3>1, <3>2, Zenon
  <2>2. finished' \in BOOLEAN /\ wsBuffer' \in BOOLEAN
    BY <1>7, Zenon DEF TurnEnds
  <2> HIDE DEF more
  <2> QED BY <1>7, <2>1, <2>2, PutKeeps DEF TurnEnds
<1>8. CASE TurnDisabled
  <2>1. /\ speaker' = [speaker EXCEPT !.doing = "off"]
        /\ callStage' \in {"disabled", "aborted"}
        /\ UNCHANGED <<wsOpen, sentences, wsBuffer, finished, chunks, heardCall, muted>>
    BY <1>8 DEF TurnDisabled
  <2>2. /\ speaker' \in [doing : {"get", "speak", "off"}, at : Nat, sent : Nat]
        /\ speaker'.doing = "off" /\ speaker'.at = speaker.at
    BY <1>0, <2>1
  <2>3. CallTypeOK'
    <3>1. callStage' \in {"graph", "wait", "ended", "disabled", "aborted"}
      BY <2>1
    <3> QED BY <2>1, <2>2, <3>1, Zenon DEF CallInv, CallTypeOK
  <2>4. CutOff'
    BY <2>1, <2>2 DEF CutOff
  <2>5. SpeakerAtWork' /\ TurnOrder'
    BY <1>0, <2>1, <2>2, <2>4 DEF SpeakerAtWork, TurnOrder
  <2>6. HeardBehind' /\ NothingSkipped'
    BY <2>1, <2>2, <2>4 DEF CallInv, HeardBehind, NothingSkipped
  <2> QED BY <2>3, <2>5, <2>6 DEF CallInv
<1>9. CASE WaitDone
  <2>1. wsOpen' \in BOOLEAN
    BY <1>9, Zenon DEF WaitDone, CallInv, CallTypeOK
  <2> QED BY <1>9, <2>1, TurnKeeps DEF WaitDone
<1>10. CASE TurnAborts
  <2>1. wsOpen' \in BOOLEAN
    BY <1>10, Zenon DEF TurnAborts
  <2> QED BY <1>10, <2>1, TurnKeeps DEF TurnAborts
<1>11. CASE CallDrops
  <2>1. wsOpen' \in BOOLEAN
    BY <1>11, Zenon DEF CallDrops
  <2> QED BY <1>11, <2>1, TurnKeeps DEF CallDrops
<1>12. CASE UNCHANGED callVars
  <2>1. /\ callStage \in {"graph", "wait", "ended", "disabled", "aborted"} /\ wsOpen \in BOOLEAN
        /\ callStage \in {"ended", "disabled"} => speaker.doing = "off"
    BY Zenon DEF CallInv, CallTypeOK, TurnOrder
  <2> QED BY <1>12, <2>1, TurnKeeps DEF callVars
<1> QED
  BY <1>1, <1>2, <1>3, <1>4, <1>5, <1>6, <1>7, <1>8, <1>9, <1>10, <1>11, <1>12
  DEF CallNext, SpeakerStep

LEMMA CallInvHolds == CallSpec => []CallInv
BY CallInvInit, CallInvStep, PTL DEF CallSpec

-----------------------------------------------------------------------------
(* Theorems *)

\* The state of a web call's turn stays well typed, for any number of sentences.
THEOREM CallTypeCorrect == CallSpec => []CallTypeOK
<1>1. CallInv => CallTypeOK
  BY DEF CallInv
<1> QED BY <1>1, CallInvHolds, PTL

\* audio_end is sent when the worker has stopped behind the last sentence, and
\* it left none behind that was neither heard nor failed.  A worker that was
\* cancelled because the AI is off may leave some, but no audio_end follows it.
THEOREM WaitsHearTheEnd == CallSpec => []HeardOrFailed
<1>1. CallInv => HeardOrFailed
  <2> SUFFICES ASSUME CallInv, callStage = "ended", NEW i \in DOMAIN sentences
               PROVE  i \in muted \/ i \in ToSet(heardCall)
    BY DEF HeardOrFailed
  <2>1. speaker.doing = "off" /\ speaker.at = Len(sentences)
    BY DEF CallInv, TurnOrder, SpeakerAtWork, CutOff
  <2>2. i \in 1 .. speaker.at
    BY <2>1 DEF CallInv, CallTypeOK
  <2> QED BY <2>1, <2>2 DEF CallInv, NothingSkipped, CutOff
<1> QED BY <1>1, CallInvHolds, PTL

\* The turn implements the stream of module SpeechStream: its sentences are
\* heard in order, none again, and none after audio_end, ai_disabled or a closed
\* websocket.
THEOREM CallImplementsStream == CallSpec => CallSpeaksInOrder
<1>1. CallInit => CallStream!StreamInit
  BY DEF CallInit, CallStream!StreamInit
<1>2. ASSUME CallInv, [CallNext]_callVars
      PROVE  [CallStream!Say \/ CallStream!Close]_CallStream!streamVars
  <2> USE DEF CallStream!streamVars, CallStream!Close
  <2>1. CASE SpeakChunk
    <3>1. /\ wsOpen /\ wsOpen' = wsOpen /\ callStage' = callStage
          /\ speaker.doing = "speak"
          /\ heardCall' = IF speaker.sent = 0 THEN Append(heardCall, speaker.at) ELSE heardCall
      BY <2>1 DEF SpeakChunk
    <3>2. CASE speaker.sent = 0
      <4>1. /\ heardCall \in Seq(Nat) /\ speaker.at \in Nat
            /\ \A i \in DOMAIN heardCall : heardCall[i] < speaker.at
            /\ CallStream!Increasing(heardCall)
        BY <1>2, <3>1, <3>2 DEF CallInv, CallTypeOK, HeardBehind
      <4>2. /\ CallStream!Increasing(heardCall')
            /\ Len(heardCall') > Len(heardCall)
            /\ SubSeq(heardCall', 1, Len(heardCall)) = heardCall
        BY <3>1, <3>2, <4>1, SayNext
      <4>3. callStage \notin {"ended", "disabled"}
        BY <1>2, <3>1 DEF CallInv, TurnOrder
      <4> QED BY <3>1, <4>2, <4>3 DEF CallStream!Say
    <3>3. CASE speaker.sent # 0
      BY <3>1, <3>3
    <3> QED BY <3>2, <3>3
  <2>2. CASE SpeakNext \/ SpeakStops \/ SpeakDone \/ SpeakFails
    BY <2>2 DEF SpeakNext, SpeakStops, SpeakDone, SpeakFails
  <2>3. ASSUME NEW k \in 0 .. 2, NEW rest \in BOOLEAN, CallEvent(k, rest)
        PROVE  [CallStream!Say \/ CallStream!Close]_CallStream!streamVars
    BY <2>3 DEF CallEvent
  <2>4. CASE TurnEnds
    BY <2>4 DEF TurnEnds
  <2>5. CASE TurnDisabled \/ WaitDone
    BY <2>5 DEF TurnDisabled, WaitDone
  <2>6. CASE TurnAborts \/ CallDrops
    BY <2>6 DEF TurnAborts, CallDrops
  <2>7. CASE UNCHANGED callVars
    BY <2>7 DEF callVars
  <2> QED
    BY <1>2, <2>1, <2>2, <2>3, <2>4, <2>5, <2>6, <2>7 DEF CallNext, SpeakerStep
<1> QED BY <1>1, <1>2, CallInvHolds, PTL DEF CallSpec, CallSpeaksInOrder, CallStream!StreamSpec

-----------------------------------------------------------------------------
(* The three side by side, as one process runs them                        *)

\* Whatever the conversation's threads, a voice call and a web call do next to
\* each other, each keeps its types.
THEOREM ConversationsAreTyped == Spec /\ PipelineSpec /\ CallSpec => []TypesOK
<1>1. TypeOK /\ PipelineTypeOK /\ CallTypeOK => TypesOK
  BY DEF TypesOK
<1> QED BY <1>1, ConversationTypeCorrect, PipelineTypeCorrect, CallTypeCorrect, PTL

\* On both ways an answer is spoken, audio_end follows all the audio there is:
\* the voice call stops before the first segment that failed, the web call
\* leaves out the sentences that failed.
THEOREM AudioEndIsTheEnd == PipelineSpec /\ CallSpec => []AudioEndFollows
<1>1. HeardUpToGap /\ HeardOrFailed => AudioEndFollows
  BY DEF AudioEndFollows
<1> QED BY <1>1, AudioEndIsLast, WaitsHearTheEnd, PTL

-----------------------------------------------------------------------------
(* How a spoken turn comes to its end                                      *)

\* The segments that wait for the semaphore, are being synthesised, or have
\* not been seen to end by the generator.
WaitingSegments == {i \in Segment : ttsTask[i] = "waiting"}
SynthSegments == {i \in Segment : ttsTask[i] = "synth"}
Unawaited == Segment \ awaited

\* The steps left of a turn whose answer is complete, all of them together.
StepsToEnd == 2 * Cardinality(WaitingSegments) + Cardinality(SynthSegments) + Cardinality(Unawaited)

LEMMA SegmentsFinite ==
  ASSUME PipelineInv
  PROVE  /\ Segment = 1 .. Len(ttsTask) /\ Len(ttsTask) \in Nat
         /\ IsFiniteSet(WaitingSegments) /\ Cardinality(WaitingSegments) \in Nat
         /\ IsFiniteSet(SynthSegments) /\ Cardinality(SynthSegments) \in Nat
         /\ IsFiniteSet(Unawaited) /\ Cardinality(Unawaited) \in Nat
<1>1. Segment = 1 .. Len(ttsTask) /\ Len(ttsTask) \in Nat
  BY DEF PipelineInv, PipelineTypeOK, Segment
<1>2. IsFiniteSet(Segment)
  BY <1>1, FS_Interval
<1>3. /\ WaitingSegments \in SUBSET Segment /\ SynthSegments \in SUBSET Segment
      /\ Unawaited \in SUBSET Segment
  BY DEF WaitingSegments, SynthSegments, Unawaited
<1>4. IsFiniteSet(WaitingSegments) /\ IsFiniteSet(SynthSegments) /\ IsFiniteSet(Unawaited)
  BY <1>2, <1>3, FS_Subset
<1> QED BY <1>1, <1>4, FS_CardinalityType

\* The guards of SpeechGoesOn: a synthesis that runs ends, one that waits is
\* begun when the semaphore is free, and the generator takes a task that ended
\* or, after the last, ends the turn.
SpeechCanGoOn ==
    \/ \E i \in Segment : ttsTask[i] = "synth"
    \/ \E i \in Segment : /\ ttsTask[i] = "waiting"
                          /\ \A j \in 1 .. i - 1 : ttsTask[j] # "waiting"
                          /\ Cardinality(SynthSegments) < TtsConcurrency
    \/ \E i \in Segment : i \notin awaited /\ ~Busy(i)
    \/ awaited = Segment

LEMMA SpeechIsNeverStuck == ASSUME PipelineInv PROVE SpeechCanGoOn
<1> SUFFICES ASSUME SynthSegments = {}, WaitingSegments # {} PROVE SpeechCanGoOn
  <2>1. CASE SynthSegments # {}
    BY <2>1 DEF SynthSegments, SpeechCanGoOn
  <2>2. CASE SynthSegments = {} /\ WaitingSegments = {}
    <3>1. \A i \in Segment : ~Busy(i)
      BY <2>2 DEF SynthSegments, WaitingSegments, Busy
    <3>2. awaited \subseteq Segment
      BY DEF PipelineInv, PipelineTypeOK
    <3> QED BY <3>1, <3>2 DEF SpeechCanGoOn
  <2> QED BY <2>1, <2>2
<1>1. WaitingSegments \subseteq Nat
  BY SegmentsFinite DEF WaitingSegments
<1>2. PICK i \in WaitingSegments : \A y \in WaitingSegments : i <= y
  BY <1>1, LeastNat
<1>3. \A j \in 1 .. i - 1 : j \in Segment /\ ttsTask[j] # "waiting"
  BY <1>1, <1>2, SegmentsFinite DEF WaitingSegments
<1>4. Cardinality(SynthSegments) < TtsConcurrency
  BY FS_EmptySet, SegmentAssumption
<1> QED BY <1>2, <1>3, <1>4 DEF SpeechCanGoOn, WaitingSegments

LEMMA SynthStepCounts ==
  ASSUME PipelineInv, SynthStep, PipelineInv'
  PROVE  StepsToEnd' < StepsToEnd
<1>1. PICK i \in Segment : SynthBegin(i) \/ SynthDone(i) \/ SynthFails(i)
  BY DEF SynthStep
<1>2. PICK st \in {"synth", "put", "failed"} : ttsTask' = [ttsTask EXCEPT ![i] = st]
  BY <1>1 DEF SynthBegin, SynthDone, SynthFails
<1>3. Segment' = Segment /\ ttsTask'[i] = st /\ \A j \in Segment \ {i} : ttsTask'[j] = ttsTask[j]
  BY <1>2 DEF PipelineInv, PipelineTypeOK, Segment
<1>4. Unawaited' = Unawaited
  BY <1>1, <1>3 DEF Unawaited, SynthBegin, SynthDone, SynthFails
<1>5. CASE SynthBegin(i)
  <2>1. ttsTask[i] = "waiting" /\ ttsTask'[i] = "synth"
    BY <1>2, <1>5, SegmentsFinite DEF SynthBegin, PipelineInv, PipelineTypeOK, Segment
  <2>2. /\ WaitingSegments' = WaitingSegments \ {i} /\ i \in WaitingSegments
        /\ SynthSegments' = SynthSegments \cup {i} /\ i \notin SynthSegments
    BY <1>3, <2>1 DEF WaitingSegments, SynthSegments
  <2>3. /\ Cardinality(WaitingSegments') = Cardinality(WaitingSegments) - 1
        /\ Cardinality(SynthSegments') = Cardinality(SynthSegments) + 1
    BY <2>2, SegmentsFinite, FS_AddElement, FS_RemoveElement
  <2> QED BY <1>4, <2>3, SegmentsFinite DEF StepsToEnd
<1>6. CASE SynthDone(i) \/ SynthFails(i)
  <2>1. ttsTask[i] = "synth" /\ ttsTask'[i] \in {"put", "failed"}
    BY <1>2, <1>6, SegmentsFinite DEF SynthDone, SynthFails, PipelineInv, PipelineTypeOK, Segment
  <2>2. /\ WaitingSegments' = WaitingSegments
        /\ SynthSegments' = SynthSegments \ {i} /\ i \in SynthSegments
    BY <1>3, <2>1 DEF WaitingSegments, SynthSegments
  <2>3. Cardinality(SynthSegments') = Cardinality(SynthSegments) - 1
    BY <2>2, SegmentsFinite, FS_RemoveElement
  <2> QED BY <1>4, <2>2, <2>3, SegmentsFinite DEF StepsToEnd
<1> QED BY <1>1, <1>5, <1>6

LEMMA AwaitCounts ==
  ASSUME PipelineInv, NEW i \in Segment, AwaitTask(i)
  PROVE  StepsToEnd' < StepsToEnd
<1>1. i \in Unawaited /\ Unawaited' = Unawaited \ {i}
  BY DEF AwaitTask, Unawaited, Segment
<1>2. WaitingSegments' = WaitingSegments /\ SynthSegments' = SynthSegments
  BY DEF AwaitTask, WaitingSegments, SynthSegments, Segment
<1>3. Cardinality(Unawaited') = Cardinality(Unawaited) - 1
  BY <1>1, SegmentsFinite, FS_RemoveElement
<1> QED BY <1>2, <1>3, SegmentsFinite DEF StepsToEnd

\* A voice turn whose answer is complete cannot hang: in every state it can go
\* on, however many syntheses failed or hold the semaphore, and every step, in
\* whatever order the tasks and the generator take theirs, ends the turn or
\* leaves it fewer steps.
THEOREM SpeechRunsOut ==
  PipelineSpec => /\ [](sse = "await" => SpeechCanGoOn /\ StepsToEnd \in Nat)
                  /\ [][sse = "await" => Ended' \/ (sse' = "await" /\ StepsToEnd' < StepsToEnd)]_pipelineVars
<1>1. PipelineInv => (sse = "await" => SpeechCanGoOn /\ StepsToEnd \in Nat)
  BY SpeechIsNeverStuck, SegmentsFinite DEF StepsToEnd
<1>2. PipelineInv /\ PipelineInv' /\ [PipelineNext]_pipelineVars =>
        [sse = "await" => Ended' \/ (sse' = "await" /\ StepsToEnd' < StepsToEnd)]_pipelineVars
  <2> SUFFICES ASSUME PipelineInv, PipelineInv', PipelineNext, sse = "await"
               PROVE  Ended' \/ (sse' = "await" /\ StepsToEnd' < StepsToEnd)
    OBVIOUS
  <2>1. CASE SynthStep
    BY <2>1, SynthStepCounts DEF SynthStep, SynthBegin, SynthDone, SynthFails
  <2>2. ASSUME NEW i \in Segment, AwaitTask(i) PROVE sse' = "await" /\ StepsToEnd' < StepsToEnd
    BY <2>2, AwaitCounts DEF AwaitTask
  <2>3. CASE AudioEnd \/ CallerGone
    BY <2>3 DEF AudioEnd, CallerGone, Ended
  <2>4. CASE GeneratorStep
    BY <2>2, <2>3, <2>4 DEF GeneratorStep, Transcribed, GraphEvent, GraphAnswers, GraphDisabled,
       PipelineFails, FailureEnds
  <2> QED BY <2>1, <2>3, <2>4 DEF PipelineNext
<1> QED BY <1>1, <1>2, PipelineInvHolds, PTL DEF PipelineSpec

\* A web call's turn waits only behind the None that ends the queue.
WaitsFinished == callStage = "wait" => finished
ChunksBounded == speaker.sent <= MaxChunks

LEMMA WaitsFinishedHolds == CallSpec => [](WaitsFinished /\ ChunksBounded)
<1>1. CallInit => WaitsFinished /\ ChunksBounded
  BY SentenceAssumption DEF CallInit, WaitsFinished, ChunksBounded
<1>2. CallInv /\ WaitsFinished /\ ChunksBounded /\ [CallNext]_callVars => (WaitsFinished /\ ChunksBounded)'
  <2> SUFFICES ASSUME CallInv, WaitsFinished, ChunksBounded, [CallNext]_callVars
               PROVE  (WaitsFinished /\ ChunksBounded)'
    OBVIOUS
  <2>1. /\ speaker \in [doing : {"get", "speak", "off"}, at : Nat, sent : Nat]
        /\ MaxChunks \in Nat
    BY SentenceAssumption DEF CallInv, CallTypeOK
  <2>2. CASE SpeakerStep
    BY <2>1, <2>2 DEF SpeakerStep, SpeakNext, SpeakStops, SpeakChunk, SpeakDone, SpeakFails,
       WaitsFinished, ChunksBounded
  <2>3. ASSUME NEW k \in 0 .. 2, NEW rest \in BOOLEAN, CallEvent(k, rest)
        PROVE  (WaitsFinished /\ ChunksBounded)'
    BY <2>3 DEF CallEvent, WaitsFinished, ChunksBounded
  <2>4. CASE TurnEnds \/ TurnDisabled \/ WaitDone \/ TurnAborts \/ CallDrops
    BY <2>1, <2>4 DEF TurnEnds, TurnDisabled, WaitDone, TurnAborts, CallDrops, WaitsFinished, ChunksBounded
  <2>5. CASE UNCHANGED callVars
    BY <2>5 DEF callVars, WaitsFinished, ChunksBounded
  <2> QED BY <2>2, <2>3, <2>4, <2>5 DEF CallNext
<1> QED BY <1>1, <1>2, CallInvHolds, PTL DEF CallSpec

\* The sentences still to be taken, and what is left to do before the next is.
SentencesLeft == Len(sentences) - speaker.at
StepsToNext ==
    (IF wsOpen THEN 1 ELSE 0) + (IF speaker.doing = "speak" THEN 2 + MaxChunks - speaker.sent
                                 ELSE IF speaker.doing = "get" THEN 1 ELSE 0)

\* The guards of CallGoesOn.
CallCanGoOn ==
    \/ speaker.doing = "get" /\ speaker.at < Len(sentences)
    \/ speaker.doing = "get" /\ speaker.at = Len(sentences) /\ finished
    \/ speaker.doing = "speak"
    \/ speaker.doing = "off"

\* A turn of a web call that waits for its audio cannot hang: the worker, or
\* the turn behind it, can always go on, whether the websocket is open or not,
\* and every step ends the turn, leaves fewer sentences, or as many and fewer
\* steps to the next.
THEOREM WaitRunsOut ==
  CallSpec => /\ [](callStage = "wait" => CallCanGoOn /\ SentencesLeft \in Nat /\ StepsToNext \in Nat)
              /\ [][callStage = "wait" =>
                      \/ callStage' \in {"ended", "aborted"}
                      \/ /\ callStage' = "wait"
                         /\ \/ SentencesLeft' < SentencesLeft
                            \/ SentencesLeft' = SentencesLeft /\ StepsToNext' < StepsToNext]_callVars
<1> DEFINE Lower == \/ callStage' \in {"ended", "aborted"}
                    \/ /\ callStage' = "wait"
                       /\ \/ SentencesLeft' < SentencesLeft
                          \/ SentencesLeft' = SentencesLeft /\ StepsToNext' < StepsToNext
<1>1. CallInv => /\ speaker \in [doing : {"get", "speak", "off"}, at : Nat, sent : Nat]
                 /\ Len(sentences) \in Nat /\ speaker.at <= Len(sentences)
                 /\ MaxChunks \in Nat
  BY SentenceAssumption DEF CallInv, CallTypeOK, SpeakerAtWork
<1>2. CallInv /\ WaitsFinished /\ ChunksBounded =>
        (callStage = "wait" => CallCanGoOn /\ SentencesLeft \in Nat /\ StepsToNext \in Nat)
  BY <1>1 DEF WaitsFinished, ChunksBounded, CallCanGoOn, SentencesLeft, StepsToNext
<1>3. CallInv /\ WaitsFinished /\ ChunksBounded /\ [CallNext]_callVars =>
        [callStage = "wait" => Lower]_callVars
  <2> SUFFICES ASSUME CallInv, ChunksBounded, CallNext, callStage = "wait" PROVE Lower
    OBVIOUS
  <2>1. CASE SpeakNext
    BY <1>1, <2>1 DEF SpeakNext, SentencesLeft
  <2>2. CASE SpeakStops \/ SpeakChunk \/ SpeakDone \/ SpeakFails
    <3>1. callStage' = "wait" /\ SentencesLeft' = SentencesLeft
      BY <1>1, <2>2 DEF SpeakStops, SpeakChunk, SpeakDone, SpeakFails, SentencesLeft
    <3>2. StepsToNext' < StepsToNext
      BY <1>1, <2>2 DEF SpeakStops, SpeakChunk, SpeakDone, SpeakFails, StepsToNext, ChunksBounded
    <3> QED BY <3>1, <3>2
  <2>3. CASE WaitDone \/ TurnAborts
    BY <2>3 DEF WaitDone, TurnAborts
  <2>4. CASE CallDrops
    BY <1>1, <2>4 DEF CallDrops, SentencesLeft, StepsToNext, ChunksBounded
  <2>5. ~TurnEnds /\ ~TurnDisabled /\ \A k \in 0 .. 2, rest \in BOOLEAN : ~CallEvent(k, rest)
    BY DEF TurnEnds, TurnDisabled, CallEvent
  <2> QED BY <2>1, <2>2, <2>3, <2>4, <2>5 DEF CallNext, SpeakerStep
<1> QED BY <1>2, <1>3, CallInvHolds, WaitsFinishedHolds, PTL DEF CallSpec
=============================================================================
