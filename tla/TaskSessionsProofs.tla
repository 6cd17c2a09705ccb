-------------------------- MODULE TaskSessionsProofs --------------------------
(***************************************************************************)
(* Theorems about the task sessions of a conversation, for any flows, any  *)
(* number of messages in progress and any of the faults.                   *)
(***************************************************************************)
EXTENDS TaskSessions, FiniteSetTheorems, SequenceTheorems, WellFoundedInduction, TLAPS

Op == [kind : {"insert", "update", "cancel"}, row : Row]
TurnRecord == [stage : {"idle", "run", "loop"}, row : Row \cup {None}, flow : Flow \cup {None},
               asked : Node \cup {None}, steps : 0..MaxSteps]
Checkpoint == [active : BOOLEAN, id : Id \cup {None}, flow : Flow \cup {None}]

\* A row of a session that was started, and of its flow.
Known(r) == r.id <= started /\ r.flow = latest[r.id].flow

Typed ==
    /\ redis \in Row \cup {None} /\ started \in 0..MaxSessions
    /\ table \in Seq(Row) /\ pending \in Seq(Op) /\ Len(pending) <= MaxPending
    /\ turn \in [Request -> TurnRecord]
    /\ checkpoint \in Checkpoint
    /\ latest \in [Id -> Row \cup {None}]
    /\ diverged \subseteq 1..started /\ disturbed \subseteq 1..started
    /\ overlapped \in BOOLEAN

\* What is said of a session is said of one that was started.
SessionsNumbered ==
    /\ \A i \in Id : IF i <= started THEN latest[i] # None /\ latest[i].id = i
                     ELSE latest[i] = None
    /\ redis # None => Known(redis)
    /\ \A x \in DOMAIN table : Known(table[x])
    /\ \A j \in DOMAIN pending : Known(pending[j].row)

Turns ==
    \A q \in Request : /\ turn[q].stage = "run" => turn[q].flow \in Flow
                       /\ turn[q].stage = "loop" =>
                            /\ turn[q].row \in Row /\ Known(turn[q].row)
                            /\ turn[q].flow = turn[q].row.flow

Noted ==
    /\ checkpoint.id = None <=> checkpoint.flow = None
    /\ checkpoint.id # None => checkpoint.id <= started

OneRowPerFlow == \A x, y \in DOMAIN table : table[x].flow = table[y].flow => x = y

SessionsTyped == Typed /\ SessionsNumbered /\ Turns /\ Noted /\ OneRowPerFlow

-----------------------------------------------------------------------------
(* What the operators return *)

LEMMA Bounds == MaxSteps \in Nat \ {0} /\ MaxSessions \in Nat \ {0} /\ MaxPending \in Nat \ {0}
BY BoundAssumption

LEMMA NoneIsNone == None \notin Node /\ None \notin Flow /\ None \notin Id /\ None \notin Row
BY NoneAssumption

\* A set of positions has a last one.
LEMMA Greatest ==
  ASSUME NEW n \in Nat, NEW S, S \subseteq 1..n, S # {}
  PROVE  \E m \in S : \A y \in S : y <= m
<1> DEFINE T == {m..n : m \in S}
           F == FiniteSubsetsOf(Nat)
           R == StrictSubsetOrdering(Nat)
<1>1. T \subseteq F /\ T # {}
  <2>1. ASSUME NEW m \in S PROVE m..n \in F
    <3>1. m \in Int /\ n \in Int /\ m..n \in SUBSET Nat
      OBVIOUS
    <3>2. IsFiniteSet(m..n)
      BY <3>1, FS_Interval
    <3> QED BY <3>1, <3>2 DEF FiniteSubsetsOf
  <2>2. PICK m \in S : TRUE
    OBVIOUS
  <2>3. m..n \in T
    OBVIOUS
  <2> HIDE DEF F
  <2> QED BY <2>1, <2>3
<1>2. PICK u \in T : \A v \in T : <<v, u>> \notin R
  <2>1. IsWellFoundedOn(R, F)
    BY FS_StrictSubsetOrderingWellFounded
  <2> HIDE DEF T, R, F
  <2> QED BY <1>1, <2>1, WFMin
<1>3. PICK m \in S : u = m..n
  BY <1>2
<1>4. ASSUME NEW y \in S PROVE y <= m
  <2> SUFFICES ASSUME m < y PROVE FALSE
    OBVIOUS
  <2>1. y..n \in SUBSET Nat /\ m..n \in SUBSET Nat
    OBVIOUS
  <2>2. y..n \subseteq m..n /\ y..n # m..n
    <3>1. m \in m..n /\ m \notin y..n
      OBVIOUS
    <3> QED BY <3>1
  <2>3. <<y..n, m..n>> \in R
    BY <2>1, <2>2, Zenon DEF StrictSubsetOrdering
  <2>4. y..n \in T
    OBVIOUS
  <2> HIDE DEF T, R, F
  <2> QED BY <1>2, <1>3, <2>3, <2>4
<1> QED BY <1>4

\* find_active_session returns the entry, or without one the newest active row.
LEMMA FoundIs ==
  ASSUME SessionsTyped
  PROVE  /\ Found \in Row \cup {None} /\ Refilled \in Row \cup {None}
         /\ Found # None => Found.status \in Active /\ Known(Found) /\ Found = Refilled
         /\ redis # None => Refilled = redis
         /\ redis = None /\ Found # None => \E x \in DOMAIN table : Found = table[x]
         /\ Refilled # None => Known(Refilled)
<1>1. /\ redis \in Row \cup {None} /\ table \in Seq(Row)
      /\ redis # None => Known(redis)
      /\ \A x \in DOMAIN table : Known(table[x])
  BY DEF SessionsTyped, Typed, SessionsNumbered
<1>2. CASE redis # None
  BY <1>1, <1>2, NoneIsNone DEF Found, Refilled
<1>3. CASE redis = None /\ StoredActive = {}
  BY <1>1, <1>3, NoneIsNone DEF Found, Refilled
<1>4. CASE redis = None /\ StoredActive # {}
  <2> DEFINE last == CHOOSE i \in StoredActive : \A j \in StoredActive : j <= i
  <2>1. Len(table) \in Nat /\ StoredActive \subseteq 1..Len(table) /\ DOMAIN table = 1..Len(table)
    BY <1>1, LenProperties DEF StoredActive
  <2>2. \E i \in StoredActive : \A j \in StoredActive : j <= i
    BY <1>4, <2>1, Greatest
  <2>3. last \in StoredActive
    BY <2>2
  <2>4. Found = table[last] /\ Refilled = Found
    BY <1>4 DEF Found, Refilled
  <2> HIDE DEF last
  <2>5. last \in DOMAIN table /\ table[last].status \in Active
    BY <2>3 DEF StoredActive
  <2>6. table[last] \in Row
    BY <1>1, <2>1, <2>5, ElementOfSeq
  <2> QED BY <1>1, <1>4, <2>4, <2>5, <2>6, NoneIsNone
<1> QED BY <1>2, <1>3, <1>4

\* A row whose instruction would be skipped, its branch condition being met.
SkipsAt(r) == SkippedAt(Config[r.node], r.slots)
WaitsWell(r) == r.status = "waiting_user_input" => ~SkipsAt(r) \/ Config[r.node].quick
InFlow(r) == FlowOf[r.node] = r.flow

\* What a runner that does not skip writes: a row of its session, at a node of
\* the same flow, which goes on, or ends the turn.
WritesRow(q, row) ==
    /\ row.id = turn[q].row.id /\ row.flow = turn[q].row.flow
    /\ FlowOf[row.node] = FlowOf[turn[q].row.node]
    /\ WaitsWell(row)
    /\ \/ /\ row.status = "running" /\ MoveTo(q, row) /\ UNCHANGED checkpoint
          /\ turn[q].steps < MaxSteps
          /\ UpdateSession(row) \/ UpdateTableOnly(row)
       \/ /\ row.status \in {"waiting_user_input", "completed"}
          /\ Respond(q, row) /\ UpdateSession(row)
       \/ row.status = "failed" /\ Respond(q, row) /\ UpdateTableOnly(row)
    /\ UNCHANGED overlapped

LEMMA NodeTyped ==
  ASSUME NEW n \in Node
  PROVE  /\ Config[n] \in NodeConfig
         /\ \A m \in {Config[n].next, Config[n].fallback, Config[n].edge, Config[n].failure} :
              m = None \/ (m \in Node /\ FlowOf[m] = FlowOf[n])
<1> DEFINE S == {Config[n].next, Config[n].fallback, Config[n].edge, Config[n].failure}
<1>1. Config[n] \in NodeConfig
  BY FlowAssumption
<1>2. S \subseteq Node \cup {None}
  BY <1>1 DEF NodeConfig
<1>3. \A m \in S \ {None} : FlowOf[m] = FlowOf[n]
  BY EdgeAssumption
<1> HIDE DEF S
<1>4. \A m \in S : m = None \/ (m \in Node /\ FlowOf[m] = FlowOf[n])
  BY <1>2, <1>3
<1> QED BY <1>1, <1>4 DEF S

LEMMA NextNodeTyped ==
  ASSUME NEW n \in Node, NEW slots
  PROVE  \/ NextNode(Config[n], slots) = None
         \/ /\ NextNode(Config[n], slots) \in Node
            /\ FlowOf[NextNode(Config[n], slots)] = FlowOf[n]
BY NodeTyped DEF NextNode

LEMMA OutcomeTyped ==
  ASSUME NEW n \in Node, NEW slots \in SUBSET Slot, NEW waiting \in BOOLEAN,
         NEW o \in Outcome(Config[n], slots, waiting)
  PROVE  /\ o.slots \in SUBSET Slot
         /\ o.behavior \in {"evaluate_edges", "complete", "wait_user", "fail"}
         /\ o.behavior = "wait_user" =>
              Config[n].kind = "ask" \/ Config[n].quick \/ ~Met(Config[n], o.slots)
<1>1. /\ Config[n].kind \in {"message", "ask", "instruction", "function", "end"}
      /\ Config[n].fills \in SUBSET Slot
  BY NodeTyped DEF NodeConfig
<1> DEFINE written == {(slots \ Config[n].fills) \cup s : s \in SUBSET Config[n].fills}
<1>2. written \subseteq SUBSET Slot
  BY <1>1
<1> HIDE DEF written
<1>3. CASE Config[n].kind = "message" \/ Config[n].kind = "end"
  BY <1>3 DEF Outcome
<1>4. CASE Config[n].kind = "ask" /\ waiting
  <2>1. slots \cup Config[n].fills \in SUBSET Slot
    BY <1>1
  <2>2. Outcome(Config[n], slots, waiting)
          = [behavior : {"evaluate_edges"}, slots : {slots \cup Config[n].fills}]
    BY <1>4 DEF Outcome
  <2> QED BY <2>1, <2>2
<1>7. CASE Config[n].kind = "ask" /\ ~waiting
  <2>1. Outcome(Config[n], slots, waiting) = [behavior : {"wait_user"}, slots : {slots}]
    BY <1>7 DEF Outcome
  <2>2. o.slots = slots /\ o.behavior = "wait_user"
    BY <2>1
  <2> QED BY <1>7, <2>2
<1>5. CASE Config[n].kind = "function"
  BY <1>2, <1>5 DEF Outcome, written
<1>6. CASE Config[n].kind = "instruction"
  BY <1>2, <1>6 DEF Outcome, written
<1> QED BY <1>1, <1>3, <1>4, <1>5, <1>6, <1>7

LEMMA RunnerWrites ==
  ASSUME SessionsTyped, NEW q \in Request, ExecuteNode(q) \/ MaxStepsExceeded(q)
  PROVE  /\ turn[q].stage = "loop" /\ turn[q].row \in Row /\ Known(turn[q].row)
         /\ \E row \in Row : WritesRow(q, row)
<1>1. turn[q].stage = "loop" /\ turn[q] \in TurnRecord
  BY DEF ExecuteNode, MaxStepsExceeded, Looping, SessionsTyped, Typed
<1>2. turn[q].row \in Row /\ Known(turn[q].row)
  BY <1>1 DEF SessionsTyped, Turns
<1> DEFINE r == turn[q].row
<1>3. r.node \in Node /\ r.slots \in SUBSET Slot /\ Here(q) = Config[r.node]
  BY <1>2 DEF Row, Here
<1>4. CASE MaxStepsExceeded(q)
  <2>1. /\ [r EXCEPT !.status = "failed"] \in Row
        /\ [r EXCEPT !.status = "failed"].id = r.id /\ [r EXCEPT !.status = "failed"].flow = r.flow
        /\ [r EXCEPT !.status = "failed"].node = r.node
        /\ [r EXCEPT !.status = "failed"].status = "failed"
    BY <1>2 DEF Row, Status
  <2>2. WritesRow(q, [r EXCEPT !.status = "failed"])
    BY <1>4, <2>1 DEF MaxStepsExceeded, MarkFailed, WritesRow, WaitsWell
  <2> QED BY <1>1, <1>2, <2>1, <2>2
<1>5. CASE ExecuteNode(q)
  <2>1. turn[q].steps < MaxSteps /\ overlapped' = overlapped
    BY <1>5 DEF ExecuteNode, Looping
  <2>2. PICK o \in Outcome(Here(q), r.slots, turn[q].asked # None) :
         LET row == [r EXCEPT !.slots = o.slots]
             next == NextNode(Here(q), o.slots)
             moved(n) == [row EXCEPT !.node = n, !.status = "running"]
             Answer(status) ==
                 /\ UpdateSession([row EXCEPT !.status = status])
                 /\ Respond(q, [row EXCEPT !.status = status])
             ends == o.behavior = "evaluate_edges" /\ Here(q).mode = "end"
             goes == o.behavior = "evaluate_edges" /\ Here(q).mode # "end"
         IN \/ o.behavior = "wait_user" /\ Answer("waiting_user_input")
            \/ (o.behavior = "complete" \/ ends) /\ Answer("completed")
            \/ /\ o.behavior = "fail" /\ Here(q).failure # None
               /\ UpdateTableOnly(moved(Here(q).failure))
               /\ MoveTo(q, moved(Here(q).failure)) /\ UNCHANGED checkpoint
            \/ /\ \/ o.behavior = "fail" /\ Here(q).failure = None
                  \/ goes /\ next = None
               /\ MarkFailed(q, row)
            \/ /\ goes /\ next # None
               /\ UpdateSession(moved(next))
               /\ MoveTo(q, moved(next)) /\ UNCHANGED checkpoint
    BY <1>5 DEF ExecuteNode
  <2>3. /\ o.slots \in SUBSET Slot
        /\ o.behavior = "wait_user" =>
             Config[r.node].kind = "ask" \/ Config[r.node].quick \/ ~Met(Config[r.node], o.slots)
    <3>1. (turn[q].asked # None) \in BOOLEAN
      OBVIOUS
    <3> QED BY <1>1, <1>3, <2>2, <3>1, OutcomeTyped
  <2> DEFINE row == [r EXCEPT !.slots = o.slots]
             next == NextNode(Here(q), o.slots)
             stays(status) == [row EXCEPT !.status = status]
             moved(n) == [row EXCEPT !.node = n, !.status = "running"]
  <2>4. ASSUME NEW status \in Status
        PROVE  /\ stays(status) \in Row /\ stays(status).id = r.id /\ stays(status).flow = r.flow
               /\ stays(status).node = r.node /\ stays(status).status = status
               /\ stays(status).slots = o.slots
    BY <1>2, <2>3, <2>4 DEF Row
  <2>5. ASSUME NEW n \in Node
        PROVE  /\ moved(n) \in Row /\ moved(n).id = r.id /\ moved(n).flow = r.flow
               /\ moved(n).node = n /\ moved(n).status = "running"
    BY <1>2, <2>3, <2>5 DEF Row, Status, Active
  <2>6. \A n \in {next, Here(q).failure} : n = None \/ (n \in Node /\ FlowOf[n] = FlowOf[r.node])
    <3> DEFINE Near(n) == n = None \/ (n \in Node /\ FlowOf[n] = FlowOf[r.node])
    <3>1. Near(NextNode(Config[r.node], o.slots))
      BY <1>3, NextNodeTyped
    <3>2. Near(Config[r.node].failure)
      BY <1>3, NodeTyped
    <3> QED BY <1>3, <3>1, <3>2
  <2>7. CASE o.behavior = "wait_user" /\ UpdateSession(stays("waiting_user_input"))
             /\ Respond(q, stays("waiting_user_input"))
    <3>1. ~SkipsAt(stays("waiting_user_input")) \/ Config[stays("waiting_user_input").node].quick
      BY <2>3, <2>4, <2>7 DEF SkipsAt, SkippedAt, Status, Active
    <3> HIDE DEF row, stays
    <3>2. WritesRow(q, stays("waiting_user_input"))
      BY <2>1, <2>4, <2>7, <3>1 DEF WritesRow, WaitsWell, Status, Active
    <3> QED BY <1>1, <1>2, <2>4, <3>2 DEF Status, Active
  <2>8. CASE UpdateSession(stays("completed")) /\ Respond(q, stays("completed"))
    <3> HIDE DEF row, stays
    <3>1. WritesRow(q, stays("completed"))
      BY <2>1, <2>4, <2>8 DEF WritesRow, WaitsWell, Status, Active
    <3> QED BY <1>1, <1>2, <2>4, <3>1 DEF Status, Active
  <2>9. CASE MarkFailed(q, row)
    <3>1. UpdateTableOnly(stays("failed")) /\ Respond(q, stays("failed"))
      BY <2>9 DEF MarkFailed
    <3> HIDE DEF row, stays
    <3>2. WritesRow(q, stays("failed"))
      BY <2>1, <2>4, <3>1 DEF WritesRow, WaitsWell, Status, Active
    <3> QED BY <1>1, <1>2, <2>4, <3>2 DEF Status, Active
  <2>10. ASSUME NEW n \in Node, FlowOf[n] = FlowOf[r.node], MoveTo(q, moved(n)), UNCHANGED checkpoint,
                UpdateSession(moved(n)) \/ UpdateTableOnly(moved(n))
         PROVE  \E w \in Row : WritesRow(q, w)
    <3> HIDE DEF row, moved
    <3>1. WritesRow(q, moved(n))
      BY <2>1, <2>5, <2>10 DEF WritesRow, WaitsWell
    <3> QED BY <2>5, <3>1
  <2> HIDE DEF next
  <2>11. \/ o.behavior = "wait_user" /\ UpdateSession(stays("waiting_user_input"))
            /\ Respond(q, stays("waiting_user_input"))
         \/ UpdateSession(stays("completed")) /\ Respond(q, stays("completed"))
         \/ MarkFailed(q, row)
         \/ \E n \in Node : /\ FlowOf[n] = FlowOf[r.node] /\ MoveTo(q, moved(n))
                            /\ UNCHANGED checkpoint
                            /\ UpdateSession(moved(n)) \/ UpdateTableOnly(moved(n))
    BY <2>2, <2>6 DEF next
  <2> HIDE DEF row, stays, moved
  <2> QED BY <1>1, <1>2, <2>7, <2>8, <2>9, <2>10, <2>11
<1> QED BY <1>1, <1>2, <1>4, <1>5

-----------------------------------------------------------------------------
(* Type correctness *)

\* Known, after the step.
StillKnown(r) == r.id <= started' /\ r.flow = latest'[r.id].flow

\* Turn q goes on with record r.
TurnTo(q, r) ==
    /\ turn' = [turn EXCEPT ![q] = r]
    /\ r \in TurnRecord
    /\ r.stage = "run" => r.flow \in Flow
    /\ r.stage = "loop" => r.row \in Row /\ StillKnown(r.row) /\ r.flow = r.row.flow

\* A write of a session is queued for the table.
Queued(kind, row) ==
    /\ Enqueue(kind, row) /\ latest' = [latest EXCEPT ![row.id] = row] /\ table' = table
    /\ row \in Row
    /\ \/ kind \in {"update", "cancel"} /\ Known(row) /\ started' = started
       \/ kind = "insert" /\ row.id = started + 1 /\ started' = row.id

LEMMA IdIs == ASSUME SessionsTyped
              PROVE  /\ started \in Nat /\ MaxSessions \in Nat /\ started <= MaxSessions
                     /\ Id = 1..MaxSessions /\ \A r \in Row : r.id \in Id
                     /\ \A r \in Row : Known(r) => r.id \in 1..started /\ r.id \in Nat
                     /\ \A i \in 1..started : i \in Id /\ latest[i] \in Row /\ latest[i].id = i
                                              /\ Known(latest[i])
<1>1. started \in 0..MaxSessions /\ MaxSessions \in Nat /\ Id = 1..MaxSessions
  BY Bounds DEF SessionsTyped, Typed, Id
<1>2. \A r \in Row : r.id \in Id
  BY DEF Row
<1>3. ASSUME NEW i \in 1..started
      PROVE  i \in Id /\ latest[i] \in Row /\ latest[i].id = i /\ Known(latest[i])
  BY <1>1 DEF SessionsTyped, Typed, SessionsNumbered, Known
<1> QED BY <1>1, <1>2, <1>3 DEF Known

LEMMA PendingIs ==
  ASSUME SessionsTyped
  PROVE  /\ Len(pending) \in Nat /\ DOMAIN pending = 1..Len(pending)
         /\ \A j \in DOMAIN pending : pending[j] \in Op /\ pending[j].row \in Row
                                      /\ Known(pending[j].row)
         /\ Len(table) \in Nat /\ DOMAIN table = 1..Len(table)
         /\ \A x \in DOMAIN table : table[x] \in Row /\ Known(table[x])
<1>1. pending \in Seq(Op) /\ table \in Seq(Row)
  BY DEF SessionsTyped, Typed
<1>2. /\ Len(pending) \in Nat /\ DOMAIN pending = 1..Len(pending)
      /\ Len(table) \in Nat /\ DOMAIN table = 1..Len(table)
  BY <1>1, LenProperties
<1>3. /\ \A j \in DOMAIN pending : pending[j] \in Op
      /\ \A x \in DOMAIN table : table[x] \in Row
  BY <1>1, <1>2, ElementOfSeq
<1> QED BY <1>2, <1>3 DEF Op, SessionsTyped, SessionsNumbered

LEMMA EnqueueIs ==
  ASSUME SessionsTyped, NEW kind \in {"insert", "update", "cancel"}, NEW row \in Row, Enqueue(kind, row)
  PROVE  /\ pending' \in Seq(Op) /\ Len(pending') = Len(pending) + 1 /\ Len(pending') <= MaxPending
         /\ DOMAIN pending' = 1..(Len(pending) + 1)
         /\ \A j \in DOMAIN pending : pending'[j] = pending[j]
         /\ pending'[Len(pending) + 1] = [kind |-> kind, row |-> row]
<1> DEFINE op == [kind |-> kind, row |-> row]
<1>1. pending \in Seq(Op) /\ op \in Op /\ pending' = Append(pending, op) /\ Len(pending) < MaxPending
  BY DEF SessionsTyped, Typed, Op, Enqueue
<1> HIDE DEF op
<1>2. /\ pending' \in Seq(Op) /\ Len(pending') = Len(pending) + 1
      /\ \A j \in 1..Len(pending) : pending'[j] = pending[j]
      /\ pending'[Len(pending) + 1] = op
  BY <1>1, AppendProperties
<1>3. DOMAIN pending' = 1..Len(pending') /\ Len(pending) \in Nat /\ MaxPending \in Nat
  BY <1>2, PendingIs, LenProperties, Bounds
<1> QED BY <1>1, <1>2, <1>3, PendingIs DEF op

\* The records of the turns after a step of q.
LEMMA TurnsKeep ==
  ASSUME SessionsTyped, NEW q \in Request, NEW r, TurnTo(q, r), \A w \in Row : Known(w) => StillKnown(w)
  PROVE  turn' \in [Request -> TurnRecord] /\ Turns'
<1>1. turn \in [Request -> TurnRecord] /\ Turns
  BY DEF SessionsTyped, Typed
<1>2. turn'[q] = r /\ \A p \in Request \ {q} : turn'[p] = turn[p]
  BY <1>1 DEF TurnTo
<1>3. turn' \in [Request -> TurnRecord]
  BY <1>1 DEF TurnTo
<1> QED BY <1>1, <1>2, <1>3 DEF Turns, TurnTo, StillKnown, Known

LEMMA QueuedKeeps ==
  ASSUME SessionsTyped, NEW kind, NEW row, Queued(kind, row)
  PROVE  /\ \A r \in Row : Known(r) => StillKnown(r)
         /\ StillKnown(row) /\ row.id \in 1..started' /\ started <= started'
         /\ started' \in 0..MaxSessions /\ latest' \in [Id -> Row \cup {None}]
         /\ \A i \in Id : IF i <= started' THEN latest'[i] # None /\ latest'[i].id = i
                          ELSE latest'[i] = None
         /\ pending' \in Seq(Op) /\ Len(pending') <= MaxPending
         /\ \A j \in DOMAIN pending' : StillKnown(pending'[j].row)
         /\ \A x \in DOMAIN table' : StillKnown(table'[x])
<1>1. row \in Row /\ row.id \in Id /\ kind \in {"insert", "update", "cancel"} /\ started <= started'
  BY IdIs DEF Queued
<1>2. started' \in 0..MaxSessions /\ row.id \in 1..started'
  BY <1>1, IdIs DEF Queued
<1>3. latest \in [Id -> Row \cup {None}] /\ latest' = [latest EXCEPT ![row.id] = row]
  BY DEF SessionsTyped, Typed, Queued
<1>4. latest' \in [Id -> Row \cup {None}] /\ latest'[row.id] = row
      /\ \A i \in Id \ {row.id} : latest'[i] = latest[i]
  BY <1>1, <1>3
<1>5. StillKnown(row)
  BY <1>1, <1>2, <1>4 DEF StillKnown
<1>6. ASSUME NEW r \in Row, Known(r) PROVE StillKnown(r)
  <2>1. r.id \in Nat /\ r.id <= started /\ r.id \in Id
    BY <1>6, IdIs DEF Known
  <2>2. r.id <= started'
    BY <1>1, <1>2, <2>1, IdIs
  <2>3. CASE r.id = row.id
    <3>1. Known(row)
      BY <2>1, <2>3, IdIs DEF Queued
    <3> QED BY <1>4, <1>6, <2>2, <2>3, <3>1 DEF Known, StillKnown
  <2>4. CASE r.id # row.id
    BY <1>4, <1>6, <2>1, <2>2, <2>4 DEF Known, StillKnown
  <2> QED BY <2>3, <2>4
<1>7. ASSUME NEW i \in Id
      PROVE  IF i <= started' THEN latest'[i] # None /\ latest'[i].id = i ELSE latest'[i] = None
  <2>1. IF i <= started THEN latest[i] # None /\ latest[i].id = i ELSE latest[i] = None
    BY DEF SessionsTyped, SessionsNumbered
  <2>2. CASE i = row.id
    BY <1>1, <1>2, <1>4, <2>2, NoneIsNone, IdIs
  <2>3. CASE i # row.id
    <3>1. latest'[i] = latest[i] /\ (i <= started' <=> i <= started)
      BY <1>4, <2>3, IdIs DEF Queued
    <3> QED BY <2>1, <3>1
  <2> QED BY <2>2, <2>3
<1>8. /\ pending' \in Seq(Op) /\ Len(pending') <= MaxPending
      /\ \A j \in DOMAIN pending' : StillKnown(pending'[j].row)
  <2>1. Enqueue(kind, row)
    BY DEF Queued
  <2>2. /\ pending' \in Seq(Op) /\ Len(pending') <= MaxPending
        /\ DOMAIN pending' = 1..(Len(pending) + 1)
        /\ \A j \in DOMAIN pending : pending'[j] = pending[j]
        /\ pending'[Len(pending) + 1] = [kind |-> kind, row |-> row]
    BY <1>1, <2>1, EnqueueIs
  <2>3. ASSUME NEW j \in DOMAIN pending' PROVE StillKnown(pending'[j].row)
    <3>1. CASE j = Len(pending) + 1
      BY <1>5, <2>2, <3>1
    <3>2. CASE j # Len(pending) + 1
      BY <1>6, <2>2, <2>3, <3>2, PendingIs
    <3> QED BY <3>1, <3>2
  <2> QED BY <2>2, <2>3
<1>9. \A x \in DOMAIN table' : StillKnown(table'[x])
  BY <1>6, PendingIs DEF Queued
<1> QED BY <1>1, <1>2, <1>4, <1>5, <1>6, <1>7, <1>8, <1>9

LEMMA MetaTyped ==
  ASSUME SessionsTyped
  PROVE  /\ Meta.id \in {None} \cup 1..started /\ Meta.flow \in Flow \cup {None}
         /\ Meta.id = None <=> Meta.flow = None
         /\ Meta.id = None \/ Meta.id \in Id
<1>1. /\ checkpoint.id \in Id \cup {None} /\ checkpoint.flow \in Flow \cup {None}
      /\ checkpoint.id = None <=> checkpoint.flow = None
      /\ checkpoint.id # None => checkpoint.id \in 1..started
  <2>1. checkpoint \in Checkpoint
    BY DEF SessionsTyped, Typed
  <2>2. checkpoint.id \in Id \cup {None} /\ checkpoint.flow \in Flow \cup {None}
    BY <2>1 DEF Checkpoint
  <2> QED BY <2>2, IdIs DEF SessionsTyped, Noted
<1>2. Found = None \/ (Found \in Row /\ Found.id \in 1..started /\ Found.flow \in Flow)
  BY FoundIs, IdIs DEF Row
<1>3. Meta.id = (IF checkpoint.id # None THEN checkpoint.id
                 ELSE IF Found # None THEN Found.id ELSE None)
  BY DEF Meta
<1>4. Meta.flow = (IF checkpoint.flow # None THEN checkpoint.flow
                   ELSE IF Found # None THEN Found.flow ELSE None)
  BY DEF Meta
<1> QED BY <1>1, <1>2, <1>3, <1>4, IdIs, NoneIsNone

LEMMA MutedTyped ==
  ASSUME SessionsTyped
  PROVE  Muted \in Checkpoint /\ Muted.id = None /\ Muted.flow = None
<1>1. checkpoint \in Checkpoint
  BY DEF SessionsTyped, Typed
<1> DEFINE c == [checkpoint EXCEPT !.id = None]
<1>2. c \in Checkpoint /\ c.id = None
  BY <1>1 DEF Checkpoint
<1> HIDE DEF c
<1>3. [c EXCEPT !.flow = None] \in Checkpoint /\ [c EXCEPT !.flow = None].id = None
      /\ [c EXCEPT !.flow = None].flow = None
  BY <1>2 DEF Checkpoint
<1> QED BY <1>3 DEF Muted, c

\* Steps that write no session.
LEMMA QuietType ==
  ASSUME SessionsTyped, NEW q \in Request, NEW r, TurnTo(q, r),
         table' = table, pending' = pending, started' = started, latest' = latest,
         diverged' = diverged, disturbed' = disturbed, redis' \in {redis, Refilled},
         \/ checkpoint' \in {checkpoint, Muted}
         \/ checkpoint' = [active |-> TRUE, id |-> Meta.id, flow |-> Meta.flow],
         overlapped' \in BOOLEAN
  PROVE  SessionsTyped'
<1>1. \A w \in Row : Known(w) <=> StillKnown(w)
  BY DEF Known, StillKnown
<1>2. turn' \in [Request -> TurnRecord] /\ Turns'
  BY <1>1, TurnsKeep
<1>3. redis' \in Row \cup {None} /\ (redis' # None => StillKnown(redis'))
  BY <1>1, FoundIs DEF SessionsTyped, Typed, SessionsNumbered
<1>4. checkpoint' \in Checkpoint /\ Noted'
  <2>1. CASE checkpoint' = checkpoint
    BY <2>1 DEF SessionsTyped, Typed, Noted
  <2>2. CASE checkpoint' = [active |-> TRUE, id |-> Meta.id, flow |-> Meta.flow]
    <3>1. checkpoint'.id = Meta.id /\ checkpoint'.flow = Meta.flow /\ checkpoint' \in Checkpoint
      BY <2>2, MetaTyped DEF Checkpoint
    <3> QED BY <3>1, MetaTyped, IdIs DEF Noted
  <2>3. CASE checkpoint' = Muted
    BY <2>3, MutedTyped DEF Noted
  <2> QED BY <2>1, <2>2, <2>3
<1>5. SessionsNumbered'
  BY <1>1, <1>3, PendingIs DEF SessionsTyped, SessionsNumbered, StillKnown, Known
<1>6. Typed' /\ OneRowPerFlow'
  BY <1>2, <1>3, <1>4 DEF SessionsTyped, Typed, OneRowPerFlow
<1> QED BY <1>2, <1>4, <1>5, <1>6 DEF SessionsTyped

\* Steps that write one.
LEMMA QueuedType ==
  ASSUME SessionsTyped, NEW q \in Request, NEW r, TurnTo(q, r), NEW kind, NEW row, Queued(kind, row),
         redis' = None \/ (redis' \in Row /\ StillKnown(redis')),
         checkpoint' = checkpoint \/ (checkpoint' \in Checkpoint /\ Noted'),
         diverged' \subseteq diverged \cup {row.id}, disturbed' \subseteq 1..started',
         overlapped' \in BOOLEAN
  PROVE  SessionsTyped'
<1>1. turn' \in [Request -> TurnRecord] /\ Turns'
  BY QueuedKeeps, TurnsKeep
<1>2. table' = table /\ diverged' \subseteq 1..started'
  <2>1. diverged \subseteq 1..started /\ started <= started' /\ row.id \in 1..started'
        /\ started \in Nat /\ started' \in Nat
    BY QueuedKeeps, IdIs DEF SessionsTyped, Typed
  <2> QED BY <2>1 DEF Queued
<1>3. checkpoint' \in Checkpoint /\ Noted'
  <2>1. checkpoint \in Checkpoint /\ Noted /\ started <= started' /\ started \in Nat
        /\ started' \in Nat /\ (checkpoint.id # None => checkpoint.id \in Nat)
    BY QueuedKeeps, IdIs DEF SessionsTyped, Typed, Noted, Checkpoint, Id
  <2> QED BY <2>1 DEF Noted
<1>4. SessionsNumbered'
  BY QueuedKeeps DEF SessionsNumbered, Known, StillKnown
<1>5. Typed'
  BY <1>1, <1>2, <1>3, QueuedKeeps DEF SessionsTyped, Typed
<1>6. OneRowPerFlow'
  BY <1>2 DEF SessionsTyped, OneRowPerFlow
<1> QED BY <1>1, <1>3, <1>4, <1>5, <1>6 DEF SessionsTyped

\* What the runner writes is queued.
LEMMA WritesQueued ==
  ASSUME SessionsTyped, NEW q \in Request, NEW row \in Row, WritesRow(q, row), Known(turn[q].row)
  PROVE  /\ Queued("update", row) /\ Known(row)
         /\ redis' = redis \/ (redis # None /\ redis' = [redis EXCEPT !.node = row.node,
                                    !.status = row.status, !.slots = row.slots])
         /\ disturbed' \in {disturbed, disturbed \cup Misdirected(redis, row.id)}
         /\ diverged' \in {diverged \ {row.id}, diverged \cup {row.id}}
         /\ overlapped' = overlapped
<1>1. Known(row)
  BY DEF WritesRow, Known
<1>2. UpdateSession(row) \/ UpdateTableOnly(row)
  BY DEF WritesRow
<1> QED BY <1>1, <1>2 DEF UpdateSession, UpdateTableOnly, Queued, WritesRow

LEMMA MergedTyped ==
  ASSUME NEW e \in Row, NEW row \in Row
  PROVE  LET m == [e EXCEPT !.node = row.node, !.status = row.status, !.slots = row.slots]
         IN  /\ m \in Row /\ m.id = e.id /\ m.flow = e.flow
             /\ m.node = row.node /\ m.status = row.status /\ m.slots = row.slots
BY DEF Row

LEMMA RunnerType ==
  ASSUME SessionsTyped, NEW q \in Request, ExecuteNode(q) \/ MaxStepsExceeded(q)
  PROVE  SessionsTyped'
<1>1. turn[q].stage = "loop" /\ turn[q].row \in Row /\ Known(turn[q].row)
  BY RunnerWrites
<1>2. PICK row \in Row : WritesRow(q, row)
  BY RunnerWrites
<1>3. /\ Queued("update", row) /\ Known(row) /\ overlapped' = overlapped
      /\ redis' = redis \/ (redis # None /\ redis' = [redis EXCEPT !.node = row.node,
                                    !.status = row.status, !.slots = row.slots])
      /\ disturbed' \in {disturbed, disturbed \cup Misdirected(redis, row.id)}
      /\ diverged' \subseteq diverged \cup {row.id}
  BY <1>1, <1>2, WritesQueued
<1>4. /\ \A w \in Row : Known(w) => StillKnown(w)
      /\ started' = started
  BY <1>3, QueuedKeeps DEF Queued
<1>5. redis' = None \/ (redis' \in Row /\ StillKnown(redis'))
  <2>1. redis = None \/ (redis \in Row /\ Known(redis))
    BY DEF SessionsTyped, Typed, SessionsNumbered
  <2>2. CASE redis' = redis
    BY <1>4, <2>1, <2>2
  <2>3. CASE redis # None /\ redis' = [redis EXCEPT !.node = row.node,
                                         !.status = row.status, !.slots = row.slots]
    <3>1. redis \in Row /\ StillKnown(redis)
      BY <1>4, <2>1, <2>3
    <3>2. redis' \in Row /\ redis'.id = redis.id /\ redis'.flow = redis.flow
      BY <2>3, <3>1, MergedTyped
    <3> QED BY <3>1, <3>2 DEF StillKnown
  <2> QED BY <1>3, <2>2, <2>3
<1>6. disturbed' \subseteq 1..started'
  <2>1. row.id \in 1..started /\ (redis # None => redis.id \in 1..started)
        /\ disturbed \subseteq 1..started
    BY <1>3, IdIs DEF SessionsTyped, Typed, SessionsNumbered
  <2> QED BY <1>3, <1>4, <2>1 DEF Misdirected
<1>7. turn[q] \in TurnRecord
  BY DEF SessionsTyped, Typed
<1>8. CASE MoveTo(q, row) /\ UNCHANGED checkpoint /\ turn[q].steps < MaxSteps
  <2> DEFINE r == [turn[q] EXCEPT !.row = row, !.steps = @ + 1, !.asked = None]
  <2>1. r \in TurnRecord /\ r.stage = "loop" /\ r.row = row /\ r.flow = turn[q].flow
    <3>1. turn[q].steps \in 0..MaxSteps
      BY <1>7 DEF TurnRecord
    <3>2. turn[q].steps + 1 \in 0..MaxSteps
      BY <1>8, <3>1, Bounds
    <3> QED BY <1>1, <1>7, <3>2 DEF TurnRecord
  <2>2. turn[q].flow = row.flow
    BY <1>1, <1>2 DEF WritesRow, SessionsTyped, Turns
  <2>3. turn' = [turn EXCEPT ![q] = r]
    BY <1>8 DEF MoveTo
  <2> HIDE DEF r
  <2>4. TurnTo(q, r)
    BY <1>3, <1>4, <2>1, <2>2, <2>3 DEF TurnTo
  <2> QED BY <1>3, <1>5, <1>6, <1>8, <2>4, QueuedType DEF SessionsTyped, Typed
<1>9. CASE Respond(q, row)
  <2>1. TurnTo(q, Idle)
    BY <1>9, Bounds DEF Respond, TurnTo, Idle, TurnRecord
  <2>2. checkpoint' \in Checkpoint /\ Noted'
    <3>1. \/ checkpoint' = [active |-> row.status = "waiting_user_input", id |-> row.id,
                            flow |-> row.flow]
          \/ checkpoint' = Muted
      BY <1>2, <1>9 DEF Respond, WritesRow
    <3>2. row.id \in Id /\ row.flow \in Flow /\ row.id <= started
      BY <1>3, IdIs DEF Row, Known
    <3>3. CASE checkpoint' = Muted
      BY <3>3, MutedTyped DEF Noted
    <3>4. CASE checkpoint' = [active |-> row.status = "waiting_user_input", id |-> row.id,
                              flow |-> row.flow]
      <4>1. checkpoint' \in Checkpoint /\ checkpoint'.id = row.id /\ checkpoint'.flow = row.flow
        BY <3>2, <3>4 DEF Checkpoint
      <4> QED BY <1>4, <3>2, <4>1, NoneIsNone DEF Noted
    <3> QED BY <3>1, <3>3, <3>4
  <2> QED BY <1>3, <1>5, <1>6, <2>1, <2>2, QueuedType DEF SessionsTyped, Typed
<1> QED BY <1>2, <1>8, <1>9 DEF WritesRow

LEMMA RoutedTyped ==
  ASSUME NEW stage \in {"idle", "run"}, NEW f \in Flow \cup {None}
  PROVE  LET r == [Idle EXCEPT !.stage = stage, !.flow = f]
         IN  r \in TurnRecord /\ r.stage = stage /\ r.flow = f
<1> DEFINE a == [Idle EXCEPT !.stage = stage]
           r == [a EXCEPT !.flow = f]
<1>1. Idle \in TurnRecord
  BY Bounds DEF Idle, TurnRecord
<1>2. a \in TurnRecord /\ a.stage = stage
  BY <1>1 DEF TurnRecord
<1> HIDE DEF a
<1>3. r \in TurnRecord /\ r.stage = stage /\ r.flow = f
  BY <1>2 DEF TurnRecord
<1> QED BY <1>3 DEF a

\* Steps of a turn that write no session.
LEMMA RouteType ==
  ASSUME SessionsTyped, NEW q \in Request,
         \/ \E f \in Flow : RouteStart(q, f) \/ RouteContinue(q, f)
         \/ RouteKnowledge(q) \/ MutedTurn(q) \/ RunResume(q) \/ RunStartFails(q) \/ SkipNode(q)
  PROVE  SessionsTyped'
<1>1. turn[q] \in TurnRecord /\ turn \in [Request -> TurnRecord] /\ overlapped \in BOOLEAN
  BY DEF SessionsTyped, Typed
<1>2. ASSUME NEW f \in Flow \cup {None}, NEW stage \in {"idle", "run"}, stage = "run" => f \in Flow,
             turn' = [turn EXCEPT ![q] = [Idle EXCEPT !.stage = stage, !.flow = f]]
      PROVE  \E r : TurnTo(q, r)
  <2> DEFINE r == [Idle EXCEPT !.stage = stage, !.flow = f]
  <2>1. r \in TurnRecord /\ r.stage = stage /\ r.flow = f
    BY <1>2, RoutedTyped
  <2>2. turn' = [turn EXCEPT ![q] = r]
    BY <1>2
  <2> HIDE DEF r
  <2> QED BY <1>2, <2>1, <2>2 DEF TurnTo
<1>3. CASE \E f \in Flow : RouteStart(q, f) \/ RouteContinue(q, f)
  <2>1. PICK f \in Flow : RouteStart(q, f) \/ RouteContinue(q, f)
    BY <1>3
  <2>2. /\ turn' = [turn EXCEPT ![q] = [Idle EXCEPT !.stage = "run", !.flow = f]]
        /\ overlapped' \in BOOLEAN
    BY <1>1, <2>1 DEF RouteStart, RouteContinue, Goto, Noticed
  <2>3. PICK r : TurnTo(q, r)
    BY <1>2, <2>2
  <2>4. /\ table' = table /\ pending' = pending /\ started' = started /\ latest' = latest
        /\ diverged' = diverged /\ disturbed' = disturbed /\ redis' \in {redis, Refilled}
        /\ checkpoint' = checkpoint
    BY <2>1 DEF RouteStart, RouteContinue, stored
  <2> QED BY <2>2, <2>3, <2>4, QuietType
<1>4. CASE RunStartFails(q)
  <2>1. turn' = [turn EXCEPT ![q] = Idle] /\ Idle \in TurnRecord /\ Idle.stage = "idle"
    BY <1>4, Bounds DEF RunStartFails, Idle, TurnRecord
  <2>2. TurnTo(q, Idle)
    BY <2>1 DEF TurnTo
  <2> QED BY <1>1, <1>4, <2>2, QuietType DEF RunStartFails, stored
<1>5. CASE RouteKnowledge(q) \/ MutedTurn(q)
  <2> DEFINE r == turn[q]
  <2>1. turn' = [turn EXCEPT ![q] = r] /\ r.stage = "idle"
    BY <1>1, <1>5 DEF RouteKnowledge, MutedTurn
  <2>2. TurnTo(q, r)
    BY <1>1, <2>1 DEF TurnTo
  <2> HIDE DEF r
  <2> QED BY <1>1, <1>5, <2>2, QuietType DEF RouteKnowledge, MutedTurn, Noticed, stored
<1>6. CASE RunResume(q)
  <2> DEFINE r == [stage |-> "loop", row |-> Found, flow |-> Found.flow,
                   asked |-> IF Found.status = "waiting_user_input" THEN Found.node ELSE None,
                   steps |-> 0]
  <2>1. Found \in Row /\ Known(Found) /\ Found.flow \in Flow
    BY <1>6, FoundIs DEF RunResume, Row
  <2>2. r \in TurnRecord /\ r.stage = "loop" /\ r.row = Found /\ r.flow = Found.flow
    BY <2>1, Bounds DEF TurnRecord, Row
  <2>3. turn' = [turn EXCEPT ![q] = r]
    BY <1>6 DEF RunResume, Enter
  <2> HIDE DEF r
  <2>4. TurnTo(q, r)
    BY <1>6, <2>1, <2>2, <2>3 DEF TurnTo, StillKnown, Known, RunResume
  <2> QED BY <1>1, <1>6, <2>4, QuietType DEF RunResume
<1>7. CASE SkipNode(q)
  <2>1. turn[q].stage = "loop" /\ turn[q].steps < MaxSteps /\ Here(q).next # None
    BY <1>7 DEF SkipNode, Looping, Skips, SkippedAt
  <2>2. turn[q].row \in Row /\ Known(turn[q].row) /\ turn[q].flow = turn[q].row.flow
    BY <2>1 DEF SessionsTyped, Turns
  <2> DEFINE w == [turn[q].row EXCEPT !.node = Here(q).next]
             r == [[turn[q] EXCEPT !.row = w] EXCEPT !.steps = @ + 1]
  <2>3. Here(q).next \in Node
    BY <2>1, <2>2, NodeTyped DEF Here, Row
  <2>4. w \in Row /\ w.id = turn[q].row.id /\ w.flow = turn[q].row.flow
    BY <2>2, <2>3 DEF Row
  <2>5. turn[q].steps + 1 \in 0..MaxSteps
    <3>1. turn[q].steps \in 0..MaxSteps
      BY <1>1 DEF TurnRecord
    <3> QED BY <2>1, <3>1, Bounds
  <2>6. turn' = [turn EXCEPT ![q] = r]
    BY <1>1, <1>7 DEF SkipNode
  <2> HIDE DEF w
  <2>7. r \in TurnRecord /\ r.stage = "loop" /\ r.row = w /\ r.flow = turn[q].flow
    BY <1>1, <2>1, <2>4, <2>5 DEF TurnRecord
  <2> HIDE DEF r
  <2>8. TurnTo(q, r)
    BY <1>7, <2>2, <2>4, <2>6, <2>7 DEF TurnTo, StillKnown, Known, SkipNode, stored
  <2> QED BY <1>1, <1>7, <2>8, QuietType DEF SkipNode, stored
<1> QED BY <1>3, <1>4, <1>5, <1>6, <1>7

\* A message for another task cancels the one before.
LEMMA CancelledTyped ==
  ASSUME NEW e \in Row
  PROVE  LET m == [e EXCEPT !.status = "cancelled"]
         IN  /\ m \in Row /\ m.id = e.id /\ m.flow = e.flow
             /\ m.node = e.node /\ m.status = "cancelled" /\ m.slots = e.slots
BY DEF Row, Status

LEMMA SwitchQueued ==
  ASSUME SessionsTyped, NEW q \in Request, NEW f \in Flow, RouteSwitch(q, f)
  PROVE  /\ Meta.id \in 1..started
         /\ Queued("cancel", [latest[Meta.id] EXCEPT !.status = "cancelled"])
<1>1. Meta.id \in 1..started
  BY MetaTyped DEF RouteSwitch
<1> DEFINE row == [latest[Meta.id] EXCEPT !.status = "cancelled"]
<1>2. latest[Meta.id] \in Row /\ latest[Meta.id].id = Meta.id /\ Known(latest[Meta.id]) /\ Meta.id \in Id
  BY <1>1, IdIs
<1>3. row \in Row /\ row.id = Meta.id /\ row.flow = latest[Meta.id].flow
  BY <1>2, CancelledTyped
<1>4. latest \in [Id -> Row \cup {None}] /\ latest' = [latest EXCEPT ![Meta.id].status = "cancelled"]
  BY DEF SessionsTyped, Typed, RouteSwitch
<1>5. latest' = [latest EXCEPT ![row.id] = row]
  BY <1>2, <1>3, <1>4
<1>6. Enqueue("cancel", row) /\ table' = table /\ started' = started
  BY DEF RouteSwitch
<1> HIDE DEF row
<1>7. Known(row)
  BY <1>2, <1>3 DEF Known
<1>8. Queued("cancel", row)
  BY <1>3, <1>5, <1>6, <1>7 DEF Queued
<1> QED BY <1>1, <1>8 DEF row

LEMMA SwitchType ==
  ASSUME SessionsTyped, NEW q \in Request, NEW f \in Flow, RouteSwitch(q, f)
  PROVE  SessionsTyped'
<1> DEFINE row == [latest[Meta.id] EXCEPT !.status = "cancelled"]
<1>1. Meta.id \in 1..started /\ Queued("cancel", row)
  BY SwitchQueued
<1> HIDE DEF row
<1>2. /\ redis' = IF Refilled = None THEN None ELSE [Refilled EXCEPT !.status = "cancelled"]
      /\ disturbed' = disturbed \cup Misdirected(Refilled, Meta.id)
      /\ Goto(q, "run", f) /\ UNCHANGED <<table, started, diverged, checkpoint>>
  BY DEF RouteSwitch
<1>3. Refilled = None \/ (Refilled \in Row /\ Known(Refilled))
  BY FoundIs
<1>4. redis' = None \/ (redis' \in Row /\ StillKnown(redis'))
  <2>1. CASE Refilled = None
    BY <1>2, <2>1
  <2>2. CASE Refilled # None
    <3>1. Refilled \in Row /\ StillKnown(Refilled)
      BY <1>1, <1>3, <2>2, QueuedKeeps
    <3>2. redis' \in Row /\ redis'.id = Refilled.id /\ redis'.flow = Refilled.flow
      BY <1>2, <2>2, <3>1, CancelledTyped
    <3> QED BY <3>1, <3>2 DEF StillKnown
  <2> QED BY <2>1, <2>2
<1>5. disturbed' \subseteq 1..started'
  <2>1. disturbed \subseteq 1..started /\ (Refilled # None => Refilled.id \in 1..started)
    BY <1>3, IdIs DEF SessionsTyped, Typed
  <2> QED BY <1>1, <1>2, <2>1 DEF Misdirected
<1> DEFINE r == [Idle EXCEPT !.stage = "run", !.flow = f]
<1>6. r \in TurnRecord /\ r.stage = "run" /\ r.flow = f
  BY RoutedTyped
<1>7. turn' = [turn EXCEPT ![q] = r] /\ overlapped' \in BOOLEAN
  BY <1>2 DEF Goto, Noticed, SessionsTyped, Typed
<1> HIDE DEF r
<1>8. TurnTo(q, r)
  BY <1>6, <1>7 DEF TurnTo
<1> QED BY <1>1, <1>2, <1>4, <1>5, <1>7, <1>8, QueuedType

\* The session a message starts.
LEMMA StartIs ==
  ASSUME SessionsTyped, NEW q \in Request, RunStart(q)
  PROVE  \E row \in Row :
           /\ row.id = started + 1 /\ row.flow = turn[q].flow /\ row.status = "running"
           /\ row.node = Start[row.flow] /\ CreateSession(row) /\ Enter(q, row)
           /\ Queued("insert", row) /\ UNCHANGED <<checkpoint, overlapped>>
<1>1. PICK slots \in SUBSET Slot :
         LET row == [id |-> started + 1, flow |-> turn[q].flow, status |-> "running",
                     node |-> Start[turn[q].flow], slots |-> slots]
         IN CreateSession(row) /\ Enter(q, row)
  BY DEF RunStart
<1> DEFINE row == [id |-> started + 1, flow |-> turn[q].flow, status |-> "running",
                   node |-> Start[turn[q].flow], slots |-> slots]
<1>2. started + 1 \in Id /\ turn[q].flow \in Flow /\ Start[turn[q].flow] \in Node
  BY IdIs, FlowAssumption DEF RunStart, SessionsTyped, Turns
<1>3. row \in Row
  BY <1>2 DEF Row, Status, Active
<1>4. CreateSession(row) /\ Enter(q, row)
  BY <1>1
<1>5. /\ row.id = started + 1 /\ row.flow = turn[q].flow /\ row.status = "running"
      /\ row.node = Start[row.flow]
  OBVIOUS
<1> HIDE DEF row
<1>6. Queued("insert", row)
  BY <1>3, <1>4, <1>5 DEF Queued, CreateSession
<1> QED BY <1>3, <1>4, <1>5, <1>6 DEF RunStart

LEMMA StartType ==
  ASSUME SessionsTyped, NEW q \in Request, RunStart(q)
  PROVE  SessionsTyped'
<1>1. PICK row \in Row :
           /\ row.id = started + 1 /\ row.flow = turn[q].flow /\ row.status = "running"
           /\ row.node = Start[row.flow] /\ CreateSession(row) /\ Enter(q, row)
           /\ Queued("insert", row) /\ UNCHANGED <<checkpoint, overlapped>>
  BY StartIs
<1>2. StillKnown(row)
  BY <1>1, QueuedKeeps
<1> DEFINE r == [stage |-> "loop", row |-> row, flow |-> row.flow,
                 asked |-> IF row.status = "waiting_user_input" THEN row.node ELSE None,
                 steps |-> 0]
<1>3. row.flow \in Flow
  BY DEF Row
<1>4. r \in TurnRecord /\ r.stage = "loop" /\ r.row = row /\ r.flow = row.flow
  BY <1>3, Bounds DEF TurnRecord, Row
<1>5. turn' = [turn EXCEPT ![q] = r]
  BY <1>1 DEF Enter
<1> HIDE DEF r
<1>6. TurnTo(q, r)
  BY <1>2, <1>4, <1>5 DEF TurnTo
<1>7. redis' = row /\ diverged' = diverged /\ disturbed' = disturbed
  BY <1>1 DEF CreateSession
<1>8. disturbed' \subseteq 1..started'
  <2>1. disturbed \subseteq 1..started /\ started' = started + 1
    BY <1>1 DEF SessionsTyped, Typed, CreateSession
  <2> QED BY <1>7, <2>1, IdIs
<1> QED BY <1>1, <1>2, <1>6, <1>7, <1>8, QueuedType DEF SessionsTyped, Typed

\* Steps in which no session is written and the persist threads and the rows
\* change.
LEMMA OutsideType ==
  ASSUME SessionsTyped, started' = started, latest' = latest, checkpoint' = checkpoint,
         diverged' = diverged, overlapped' = overlapped,
         redis' = redis \/ redis' = None,
         turn' = turn \/ turn' = [p \in Request |-> Idle],
         table' \in Seq(Row), \A x \in DOMAIN table' : Known(table'[x]), OneRowPerFlow',
         pending' \in Seq(Op), Len(pending') <= MaxPending,
         \A j \in DOMAIN pending' : Known(pending'[j].row),
         disturbed' \subseteq 1..started
  PROVE  SessionsTyped'
<1>1. turn' \in [Request -> TurnRecord] /\ Turns'
  <2>1. Idle \in TurnRecord /\ Idle.stage = "idle"
    BY Bounds DEF Idle, TurnRecord
  <2>2. CASE turn' = turn
    BY <2>2 DEF SessionsTyped, Typed, Turns, Known
  <2>3. CASE turn' = [p \in Request |-> Idle]
    BY <2>1, <2>3 DEF Turns
  <2> QED BY <2>2, <2>3
<1>2. Typed'
  BY <1>1 DEF SessionsTyped, Typed
<1>3. SessionsNumbered'
  BY DEF SessionsTyped, SessionsNumbered, Known
<1>4. Noted'
  BY DEF SessionsTyped, Noted
<1> QED BY <1>1, <1>2, <1>3, <1>4 DEF SessionsTyped

\* The threads without the one that finished.
LEMMA WithoutIs ==
  ASSUME SessionsTyped, NEW i \in DOMAIN pending
  PROVE  /\ Without(i) \in Seq(Op) /\ Len(Without(i)) = Len(pending) - 1
         /\ DOMAIN Without(i) = 1..(Len(pending) - 1)
         /\ \A j \in 1..(Len(pending) - 1) :
              Without(i)[j] = IF j < i THEN pending[j] ELSE pending[j + 1]
<1>1. Len(pending) \in Nat /\ DOMAIN pending = 1..Len(pending) /\ i \in 1..Len(pending)
  BY PendingIs
<1>2. \A j \in 1..(Len(pending) - 1) : /\ j \in DOMAIN pending /\ j + 1 \in DOMAIN pending
  BY <1>1
<1>3. \A j \in 1..(Len(pending) - 1) : (IF j < i THEN pending[j] ELSE pending[j + 1]) \in Op
  BY <1>2, PendingIs
<1>4. Len(pending) - 1 \in Nat
  BY <1>1
<1>5. Without(i) \in [1..(Len(pending) - 1) -> Op]
  BY <1>3 DEF Without
<1>6. Without(i) \in Seq(Op) /\ Len(Without(i)) = Len(pending) - 1
  BY <1>4, <1>5, SeqDef, LenProperties
<1> QED BY <1>5, <1>6 DEF Without

LEMMA WithoutKnown ==
  ASSUME SessionsTyped, NEW i \in DOMAIN pending
  PROVE  /\ Len(Without(i)) <= MaxPending
         /\ \A j \in DOMAIN Without(i) : Known(Without(i)[j].row)
<1>1. Len(pending) \in Nat /\ DOMAIN pending = 1..Len(pending) /\ Len(pending) <= MaxPending
  BY PendingIs DEF SessionsTyped, Typed
<1>2. ASSUME NEW j \in DOMAIN Without(i) PROVE Known(Without(i)[j].row)
  <2>1. j \in 1..(Len(pending) - 1)
    BY <1>2, WithoutIs
  <2>3. j \in DOMAIN pending /\ j + 1 \in DOMAIN pending
    BY <1>1, <2>1
  <2>2. Without(i)[j] = pending[j] \/ Without(i)[j] = pending[j + 1]
    BY <1>2, WithoutIs
  <2> QED BY <2>2, <2>3, PendingIs
<1>3. Len(Without(i)) = Len(pending) - 1
  BY WithoutIs
<1>4. Len(Without(i)) <= MaxPending
  BY <1>1, <1>3, Bounds
<1> QED BY <1>2, <1>4

\* What a write leaves of the rows: the rows that were there, of the same
\* sessions and flows, and a new one only for a flow that had none.
LEMMA PersistedIs ==
  ASSUME SessionsTyped, NEW op \in Op, Known(op.row)
  PROVE  /\ Persisted(op) \in Seq(Row)
         /\ \/ /\ op.kind = "insert" /\ ~Refused(op) /\ Persisted(op) = Append(table, op.row)
               /\ DOMAIN Persisted(op) = 1..(Len(table) + 1)
               /\ Persisted(op)[Len(table) + 1] = op.row
               /\ \A x \in DOMAIN table : Persisted(op)[x] = table[x]
            \/ /\ op.kind = "insert" /\ Refused(op) /\ Persisted(op) = table
            \/ /\ op.kind \in {"update", "cancel"} /\ DOMAIN Persisted(op) = DOMAIN table
               /\ \A x \in DOMAIN table :
                    /\ Persisted(op)[x].id = table[x].id /\ Persisted(op)[x].flow = table[x].flow
                    /\ table[x].id # op.row.id => Persisted(op)[x] = table[x]
                    /\ table[x].id = op.row.id =>
                         Persisted(op)[x] = IF op.kind = "update" THEN op.row
                                            ELSE [table[x] EXCEPT !.status = "cancelled"]
<1>1. op.kind \in {"insert", "update", "cancel"} /\ op.row \in Row /\ table \in Seq(Row)
  BY DEF Op, SessionsTyped, Typed
<1>2. CASE op.kind = "insert" /\ Refused(op)
  BY <1>1, <1>2 DEF Persisted
<1>3. CASE op.kind = "insert" /\ ~Refused(op)
  <2>1. Persisted(op) = Append(table, op.row)
    BY <1>3 DEF Persisted
  <2>2. /\ Persisted(op) \in Seq(Row) /\ Len(Persisted(op)) = Len(table) + 1
        /\ \A x \in 1..Len(table) : Persisted(op)[x] = table[x]
        /\ Persisted(op)[Len(table) + 1] = op.row
    BY <1>1, <2>1, AppendProperties
  <2>3. DOMAIN Persisted(op) = 1..Len(Persisted(op))
    BY <2>2, LenProperties
  <2> QED BY <1>3, <2>1, <2>2, <2>3, PendingIs
<1>4. ASSUME NEW x \in DOMAIN table
      PROVE  /\ [table[x] EXCEPT !.status = "cancelled"] \in Row
             /\ [table[x] EXCEPT !.status = "cancelled"].id = table[x].id
             /\ [table[x] EXCEPT !.status = "cancelled"].flow = table[x].flow
  BY <1>4, PendingIs, CancelledTyped
<1>5. ASSUME NEW x \in DOMAIN table, table[x].id = op.row.id
      PROVE  [op.row EXCEPT !.flow = table[x].flow] = op.row
  <2>1. table[x].flow = op.row.flow
    BY <1>5, PendingIs DEF Known
  <2> QED BY <1>1, <2>1 DEF Row
<1>6. CASE op.kind = "update"
  <2>1. Persisted(op) = [x \in DOMAIN table |->
              IF table[x].id = op.row.id
              THEN [op.row EXCEPT !.flow = table[x].flow] ELSE table[x]]
    BY <1>6 DEF Persisted
  <2>2. Persisted(op) = [x \in DOMAIN table |-> IF table[x].id = op.row.id THEN op.row ELSE table[x]]
    BY <1>5, <2>1, Zenon
  <2>3. Persisted(op) \in [1..Len(table) -> Row] /\ Len(table) \in Nat
    BY <1>1, <2>2, PendingIs
  <2>4. Persisted(op) \in Seq(Row)
    BY <2>3, SeqDef
  <2>5. ASSUME NEW x \in DOMAIN table, table[x].id = op.row.id PROVE table[x].flow = op.row.flow
    BY <2>5, PendingIs DEF Known
  <2> QED BY <1>6, <2>2, <2>4, <2>5
<1>7. CASE op.kind = "cancel"
  <2> DEFINE c(x) == [table[x] EXCEPT !.status = "cancelled"]
  <2>1. Persisted(op) = [x \in DOMAIN table |-> IF table[x].id = op.row.id THEN c(x) ELSE table[x]]
    BY <1>7 DEF Persisted
  <2>2. \A x \in DOMAIN table : c(x) \in Row /\ c(x).id = table[x].id /\ c(x).flow = table[x].flow
    BY <1>4
  <2> HIDE DEF c
  <2>3. Persisted(op) \in [1..Len(table) -> Row] /\ Len(table) \in Nat
    BY <2>1, <2>2, PendingIs
  <2>4. Persisted(op) \in Seq(Row)
    BY <2>3, SeqDef
  <2>5. /\ DOMAIN Persisted(op) = DOMAIN table
        /\ \A x \in DOMAIN table :
             Persisted(op)[x] = IF table[x].id = op.row.id THEN c(x) ELSE table[x]
    BY <2>1
  <2> QED BY <1>7, <2>2, <2>4, <2>5 DEF c
<1> QED BY <1>1, <1>2, <1>3, <1>6, <1>7

LEMMA PersistType ==
  ASSUME SessionsTyped, NEW i, Persist(i)
  PROVE  SessionsTyped'
<1> DEFINE op == pending[i]
<1>1. /\ i \in DOMAIN pending /\ table' = Persisted(op) /\ pending' = Without(i)
      /\ disturbed' \in {disturbed, disturbed \cup {op.row.id}}
  BY DEF Persist
<1>2. op \in Op /\ op.row \in Row /\ Known(op.row)
  BY <1>1, PendingIs
<1> HIDE DEF op
<1>3. /\ pending' \in Seq(Op) /\ Len(pending') <= MaxPending
      /\ \A j \in DOMAIN pending' : Known(pending'[j].row)
  BY <1>1, WithoutIs, WithoutKnown
<1>4. disturbed' \subseteq 1..started
  <2>1. disturbed \subseteq 1..started /\ op.row.id \in 1..started
    BY <1>2, IdIs DEF SessionsTyped, Typed
  <2> QED BY <1>1, <2>1
<1>5. table' \in Seq(Row) /\ (\A x \in DOMAIN table' : Known(table'[x])) /\ OneRowPerFlow'
  <2>1. OneRowPerFlow /\ \A x \in DOMAIN table : Known(table[x])
    BY PendingIs DEF SessionsTyped
  <2>2. CASE /\ ~Refused(op) /\ op.kind = "insert"
             /\ DOMAIN table' = 1..(Len(table) + 1)
             /\ table'[Len(table) + 1] = op.row
             /\ \A x \in DOMAIN table : table'[x] = table[x]
    <3>1. \A x \in DOMAIN table : table[x].flow # op.row.flow
      BY <2>2 DEF Refused
    <3>2. \A x \in DOMAIN table' : x = Len(table) + 1 \/ x \in DOMAIN table
      BY <2>2, PendingIs
    <3> QED BY <1>1, <1>2, <2>1, <2>2, <3>1, <3>2, PersistedIs DEF OneRowPerFlow
  <2>3. CASE table' = table
    BY <2>1, <2>3 DEF SessionsTyped, Typed, OneRowPerFlow
  <2>4. CASE /\ DOMAIN table' = DOMAIN table
             /\ \A x \in DOMAIN table : table'[x].id = table[x].id /\ table'[x].flow = table[x].flow
    BY <1>1, <1>2, <2>1, <2>4, PersistedIs DEF OneRowPerFlow, Known
  <2> QED BY <1>1, <1>2, <2>2, <2>3, <2>4, PersistedIs
<1> QED BY <1>3, <1>4, <1>5, OutsideType DEF Persist

LEMMA LostType ==
  ASSUME SessionsTyped, (\E i \in 1..MaxPending : PersistFails(i)) \/ Expire \/ Restart
  PROVE  SessionsTyped'
<1>1. /\ table \in Seq(Row) /\ OneRowPerFlow /\ \A x \in DOMAIN table : Known(table[x])
      /\ pending \in Seq(Op) /\ Len(pending) <= MaxPending
      /\ \A j \in DOMAIN pending : Known(pending[j].row) /\ pending[j].row.id \in 1..started
      /\ disturbed \subseteq 1..started
  BY PendingIs, IdIs DEF SessionsTyped, Typed
<1>2. OneRowPerFlow' <=> (\A x, y \in DOMAIN table' : table'[x].flow = table'[y].flow => x = y)
  BY DEF OneRowPerFlow
<1>3. CASE \E i \in 1..MaxPending : PersistFails(i)
  <2>1. PICK i \in 1..MaxPending : PersistFails(i)
    BY <1>3
  <2>2. /\ i \in DOMAIN pending /\ pending' = Without(i)
        /\ disturbed' = disturbed \cup {pending[i].row.id}
    BY <2>1 DEF PersistFails
  <2>3. /\ pending' \in Seq(Op) /\ Len(pending') <= MaxPending
        /\ \A j \in DOMAIN pending' : Known(pending'[j].row)
    BY <2>2, WithoutIs, WithoutKnown
  <2>4. disturbed' \subseteq 1..started
    BY <1>1, <2>2
  <2> QED BY <1>1, <1>2, <2>1, <2>3, <2>4, OutsideType DEF PersistFails, OneRowPerFlow
<1>4. CASE Expire
  BY <1>1, <1>4, OutsideType DEF Expire, OneRowPerFlow
<1>5. CASE Restart
  <2>1. pending' = <<>> /\ disturbed' = disturbed \cup {pending[i].row.id : i \in DOMAIN pending}
    BY <1>5 DEF Restart
  <2>2. /\ pending' \in Seq(Op) /\ Len(pending') <= MaxPending
        /\ \A j \in DOMAIN pending' : Known(pending'[j].row)
    BY <2>1, Bounds, EmptySeq
  <2>3. disturbed' \subseteq 1..started
    BY <1>1, <2>1
  <2> QED BY <1>1, <1>5, <2>2, <2>3, OutsideType DEF Restart, OneRowPerFlow
<1> QED BY <1>3, <1>4, <1>5

LEMMA InitType == Init => SessionsTyped
<1> SUFFICES ASSUME Init PROVE SessionsTyped
  OBVIOUS
<1>1. Idle \in TurnRecord /\ Idle.stage = "idle"
  BY Bounds DEF Idle, TurnRecord
<1>2. NoCheckpoint \in Checkpoint /\ NoCheckpoint.id = None /\ NoCheckpoint.flow = None
  BY DEF NoCheckpoint, Checkpoint
<1>3. table \in Seq(Row) /\ pending \in Seq(Op) /\ Len(pending) = 0
      /\ DOMAIN table = {} /\ DOMAIN pending = {}
  BY EmptySeq DEF Init
<1>4. Typed
  <2>1. started \in 0..MaxSessions /\ Len(pending) <= MaxPending
    BY <1>3, Bounds DEF Init
  <2>2. turn \in [Request -> TurnRecord] /\ latest \in [Id -> Row \cup {None}]
    BY <1>1 DEF Init
  <2> QED BY <1>2, <1>3, <2>1, <2>2 DEF Init, Typed
<1>5. \A k \in Id : ~(k <= 0)
  BY DEF Id
<1>6. SessionsNumbered /\ Turns /\ Noted /\ OneRowPerFlow
  BY <1>1, <1>2, <1>3, <1>5 DEF Init, SessionsNumbered, Turns, Noted, OneRowPerFlow
<1> QED BY <1>4, <1>6 DEF SessionsTyped

LEMMA StepType == SessionsTyped /\ [Next]_vars => SessionsTyped'
<1> SUFFICES ASSUME SessionsTyped, [Next]_vars PROVE SessionsTyped'
  OBVIOUS
<1>1. ASSUME NEW q \in Request, TurnStep(q) PROVE SessionsTyped'
  BY <1>1, RouteType, SwitchType, StartType, RunnerType DEF TurnStep, RunnerStep
<1>2. CASE OutsideStep
  BY <1>2, PersistType, LostType DEF OutsideStep
<1>3. CASE UNCHANGED vars
  BY <1>3 DEF vars, SessionsTyped, Typed, SessionsNumbered, Turns, Noted, OneRowPerFlow, Known
<1> QED BY <1>1, <1>2, <1>3 DEF Next

\* Every session a message, the entry, a row, a persist thread or the
\* checkpoint speaks of was started, and never carries another session's flow.
THEOREM SessionsAreKnown == Spec => []SessionsTyped
<1> QED BY InitType, StepType, PTL DEF Spec

LEMMA IntervalSize ==
  ASSUME NEW n \in Nat
  PROVE  IsFiniteSet(1..n) /\ Cardinality(1..n) = n
<1>1. IsFiniteSet(1..n) /\ Cardinality(1..n) = IF 1 > n THEN 0 ELSE n - 1 + 1
  BY FS_Interval
<1> QED BY <1>1

\* The unique constraint keeps the table as small as the set of flows.
LEMMA TypeOKHolds ==
  ASSUME SessionsTyped
  PROVE  TypeOK
<1>1. Len(table) <= Cardinality(Flow)
  <2>1. DOMAIN table = 1..Len(table) /\ Len(table) \in Nat
    BY PendingIs
  <2> DEFINE g == [x \in 1..Len(table) |-> table[x].flow]
  <2>2. g \in [1..Len(table) -> Flow]
    BY <2>1, PendingIs DEF Row
  <2>3. \A x, y \in 1..Len(table) : g[x] = g[y] => x = y
    BY <2>1 DEF SessionsTyped, OneRowPerFlow
  <2> HIDE DEF g
  <2>4. IsFiniteSet(1..Len(table)) /\ Cardinality(1..Len(table)) = Len(table)
    BY <2>1, IntervalSize
  <2>5. IsFiniteSet(Flow) /\ Cardinality(Flow) \in Nat
    BY FlowAssumption, FS_CardinalityType
  <2>6. SUFFICES ASSUME Cardinality(Flow) < Cardinality(1..Len(table)) PROVE FALSE
    BY <2>1, <2>4, <2>5
  <2> QED BY <2>2, <2>3, <2>4, <2>5, <2>6, FS_PigeonHole
<1>2. \A q \in Request :
         /\ turn[q].stage \in {"idle", "run", "loop"}
         /\ turn[q].stage = "run" => turn[q].flow \in Flow
         /\ turn[q].stage = "loop" => turn[q].row \in Row /\ turn[q].row.id <= started
         /\ turn[q].steps \in 0..MaxSteps
  BY DEF SessionsTyped, Typed, Turns, TurnRecord, Known
<1>3. checkpoint.id \in {None} \cup 1..started
  <2>1. checkpoint.id \in Id \cup {None} /\ (checkpoint.id # None => checkpoint.id <= started)
    BY DEF SessionsTyped, Typed, Noted, Checkpoint
  <2> QED BY <2>1, IdIs
<1>4. \A i \in Id : latest[i] \in Row \cup {None} /\ (latest[i] # None <=> i <= started)
  BY DEF SessionsTyped, Typed, SessionsNumbered
<1>5. \A i \in DOMAIN pending :
         pending[i].kind \in {"insert", "update", "cancel"} /\ pending[i].row \in Row
  BY PendingIs DEF Op
<1> QED BY <1>1, <1>2, <1>3, <1>4, <1>5 DEF SessionsTyped, Typed, TypeOK

\* Type correctness: every variable stays in its range, and the table holds at
\* most one row per flow whatever the persist threads do.
THEOREM SessionTypeCorrect == Spec => []TypeOK
<1> QED BY SessionsAreKnown, TypeOKHolds, PTL

-----------------------------------------------------------------------------
(* A conversation walks its flow *)

Busy(q) == turn[q].stage # "idle"

\* A row that waits where an answer is wanted, at a node of its own flow as
\* long as messages came one at a time.
Fine(r) == WaitsWell(r) /\ (~overlapped => InFlow(r))

StoreFine ==
    /\ redis # None => Fine(redis)
    /\ \A x \in DOMAIN table : Fine(table[x])
    /\ \A j \in DOMAIN pending : Fine(pending[j].row)
    /\ \A i \in 1..started : Fine(latest[i])

Alone == ~overlapped => \A p, q \in Request : Busy(p) /\ Busy(q) => p = q

\* A message that is still to be answered is at the node that asked for it, or
\* that node was skipped although it asked.
MeetsIts(t) ==
    t.asked # None =>
      \/ t.row.node = t.asked /\ t.steps = 0 /\ ~SkipsAt(t.row)
      \/ Config[t.asked].quick /\ SkippedAt(Config[t.asked], t.row.slots)

\* What a turn in the loop answers, and that it works on the entry's session.
LoopFine(t) ==
    t.stage = "loop" =>
      /\ MeetsIts(t)
      /\ ~overlapped => InFlow(t.row) /\ (redis # None => redis.id = t.row.id)

FlowInv == StoreFine /\ Alone /\ \A q \in Request : LoopFine(turn[q])

\* Fine and LoopFine, after the step.
StillFine(r) == WaitsWell(r) /\ (~overlapped' => InFlow(r))
StillLoopFine(t) ==
    t.stage = "loop" =>
      /\ MeetsIts(t)
      /\ ~overlapped' => InFlow(t.row) /\ (redis' # None => redis'.id = t.row.id)

\* After a step that leaves no overlap noticed every other message is idle.
LEMMA SoloTurn ==
  ASSUME SessionsTyped, Alone, NEW q \in Request, TurnStep(q)
  PROVE  /\ ~overlapped' => ~overlapped
         /\ ~overlapped' => \A p \in Request \ {q} : turn[p].stage = "idle"
<1>1. CASE Busy(q) /\ overlapped' = overlapped
  BY <1>1 DEF Alone, Busy
<1>2. CASE Noticed(q)
  BY <1>2 DEF Noticed, SessionsTyped, Typed
<1>3. ASSUME NEW f \in Flow, RouteStart(q, f) \/ RouteSwitch(q, f) \/ RouteContinue(q, f)
      PROVE  Noticed(q)
  BY <1>3 DEF RouteStart, RouteSwitch, RouteContinue, Goto
<1>4. RouteKnowledge(q) \/ MutedTurn(q) => Noticed(q)
  BY DEF RouteKnowledge, MutedTurn
<1>5. RunResume(q) \/ RunStart(q) \/ RunStartFails(q) \/ RunnerStep(q) =>
        Busy(q) /\ overlapped' = overlapped
  BY DEF RunResume, RunStart, RunStartFails, RunnerStep, SkipNode, ExecuteNode,
         MaxStepsExceeded, Looping, Busy
<1> QED BY <1>1, <1>2, <1>3, <1>4, <1>5 DEF TurnStep

LEMMA TurnFineKeeps ==
  ASSUME SessionsTyped, FlowInv, NEW q \in Request, TurnStep(q), NEW r,
         turn' = [turn EXCEPT ![q] = r], StillLoopFine(r)
  PROVE  Alone' /\ \A p \in Request : LoopFine(turn[p])'
<1>1. /\ turn \in [Request -> TurnRecord] /\ Alone
      /\ \A p \in Request : LoopFine(turn[p])
  BY DEF SessionsTyped, Typed, FlowInv
<1>2. turn'[q] = r /\ \A p \in Request \ {q} : turn'[p] = turn[p]
  BY <1>1
<1>3. /\ ~overlapped' => ~overlapped
      /\ ~overlapped' => \A p \in Request \ {q} : turn[p].stage = "idle"
  BY <1>1, SoloTurn
<1>4. Alone'
  BY <1>2, <1>3 DEF Alone, Busy
<1>5. ASSUME NEW p \in Request PROVE LoopFine(turn[p])'
  BY <1>1, <1>2, <1>3 DEF LoopFine, StillLoopFine
<1> QED BY <1>4, <1>5

LEMMA FoundFine ==
  ASSUME SessionsTyped, StoreFine
  PROVE  /\ Found # None => Fine(Found)
         /\ Refilled # None => Fine(Refilled)
<1>1. CASE redis # None
  <2>1. Found \in {redis, None} /\ Refilled = redis
    BY <1>1 DEF Found, Refilled
  <2> QED BY <1>1, <2>1 DEF StoreFine
<1>2. CASE redis = None
  <2>1. Refilled = Found /\ (Found # None => \E x \in DOMAIN table : Found = table[x])
    BY <1>2, FoundIs DEF Refilled
  <2> QED BY <2>1 DEF StoreFine
<1> QED BY <1>1, <1>2

\* What a step that queues a write, and one that writes nothing, leaves.
LEMMA QueuedFine ==
  ASSUME SessionsTyped, StoreFine, ~overlapped' => ~overlapped,
         NEW kind, NEW row, Queued(kind, row), StillFine(row),
         redis' = None \/ StillFine(redis')
  PROVE  StoreFine'
<1>1. /\ \A x \in DOMAIN table : StillFine(table[x])
      /\ \A j \in DOMAIN pending : StillFine(pending[j].row)
      /\ \A i \in 1..started : StillFine(latest[i])
  BY DEF StoreFine, Fine, StillFine
<1>2. /\ row \in Row /\ row.id \in Id /\ kind \in {"insert", "update", "cancel"}
      /\ table' = table /\ Enqueue(kind, row) /\ latest' = [latest EXCEPT ![row.id] = row]
      /\ started' = started \/ (started' = started + 1 /\ row.id = started')
  BY IdIs DEF Queued
<1>3. \A j \in DOMAIN pending' : StillFine(pending'[j].row)
  <2>1. /\ DOMAIN pending' = 1..(Len(pending) + 1)
        /\ \A j \in DOMAIN pending : pending'[j] = pending[j]
        /\ pending'[Len(pending) + 1] = [kind |-> kind, row |-> row]
    BY <1>2, EnqueueIs
  <2>2. \A j \in DOMAIN pending' : j = Len(pending) + 1 \/ j \in DOMAIN pending
    BY <2>1, PendingIs
  <2> QED BY <1>1, <2>1, <2>2
<1>4. ASSUME NEW i \in 1..started' PROVE StillFine(latest'[i])
  <2>1. latest \in [Id -> Row \cup {None}]
    BY DEF SessionsTyped, Typed
  <2>2. CASE i = row.id
    BY <1>2, <2>1, <2>2
  <2>3. CASE i # row.id
    <3>1. i \in 1..started
      BY <1>2, <2>3, IdIs
    <3>2. i \in Id
      BY <3>1, IdIs
    <3> QED BY <1>1, <1>2, <2>1, <2>3, <3>1, <3>2
  <2> QED BY <2>2, <2>3
<1> QED BY <1>1, <1>2, <1>3, <1>4 DEF StoreFine, Fine, StillFine

LEMMA QuietFine ==
  ASSUME SessionsTyped, StoreFine, ~overlapped' => ~overlapped,
         table' = table, pending' = pending, latest' = latest, started' = started,
         redis' \in {redis, Refilled}
  PROVE  StoreFine'
<1>1. redis' # None => Fine(redis')
  BY FoundFine DEF StoreFine
<1> QED BY <1>1 DEF StoreFine, Fine

LEMMA RouteFine ==
  ASSUME SessionsTyped, FlowInv, NEW q \in Request, TurnStep(q),
         \/ \E f \in Flow : RouteStart(q, f) \/ RouteContinue(q, f)
         \/ RouteKnowledge(q) \/ MutedTurn(q) \/ RunResume(q) \/ RunStartFails(q) \/ SkipNode(q)
  PROVE  FlowInv'
<1>1. /\ table' = table /\ pending' = pending /\ latest' = latest /\ started' = started
      /\ redis' \in {redis, Refilled}
  BY DEF RouteStart, RouteContinue, RouteKnowledge, MutedTurn, RunResume, RunStartFails,
         SkipNode, stored
<1>2. StoreFine /\ Alone /\ LoopFine(turn[q]) /\ turn \in [Request -> TurnRecord]
      /\ (~overlapped' => ~overlapped)
  BY SoloTurn DEF FlowInv, SessionsTyped, Typed
<1>3. StoreFine'
  BY <1>1, <1>2, QuietFine
<1>4. \E r : turn' = [turn EXCEPT ![q] = r] /\ StillLoopFine(r)
  <2>1. CASE \E f \in Flow : RouteStart(q, f) \/ RouteContinue(q, f)
    <3>1. PICK f \in Flow : turn' = [turn EXCEPT ![q] = [Idle EXCEPT !.stage = "run", !.flow = f]]
      BY <2>1 DEF RouteStart, RouteContinue, Goto
    <3>2. [Idle EXCEPT !.stage = "run", !.flow = f].stage = "run"
      BY RoutedTyped
    <3> QED BY <3>1, <3>2 DEF StillLoopFine
  <2>2. CASE RunStartFails(q)
    <3>1. turn' = [turn EXCEPT ![q] = Idle] /\ Idle.stage = "idle"
      BY <2>2 DEF RunStartFails, Idle
    <3> QED BY <3>1 DEF StillLoopFine
  <2>3. CASE RouteKnowledge(q) \/ MutedTurn(q)
    <3>1. turn' = [turn EXCEPT ![q] = turn[q]] /\ turn[q].stage = "idle"
      BY <1>2, <2>3 DEF RouteKnowledge, MutedTurn
    <3> QED BY <3>1 DEF StillLoopFine
  <2>4. CASE RunResume(q)
    <3> DEFINE r == [stage |-> "loop", row |-> Found, flow |-> Found.flow,
                     asked |-> IF Found.status = "waiting_user_input" THEN Found.node ELSE None,
                   steps |-> 0]
    <3>1. turn' = [turn EXCEPT ![q] = r] /\ Found # None /\ redis' = Refilled
          /\ overlapped' = overlapped
      BY <2>4 DEF RunResume, Enter
    <3>2. Fine(Found) /\ Refilled = Found
      BY <1>2, <3>1, FoundFine, FoundIs
    <3>3. r.stage = "loop" /\ r.row = Found /\ MeetsIts(r)
      BY <3>2 DEF Fine, WaitsWell, MeetsIts, SkipsAt
    <3> HIDE DEF r
    <3> QED BY <3>1, <3>2, <3>3 DEF StillLoopFine, Fine
  <2>5. CASE SkipNode(q)
    <3> DEFINE w == [turn[q].row EXCEPT !.node = Here(q).next]
               r == [[turn[q] EXCEPT !.row = w] EXCEPT !.steps = @ + 1]
    <3>1. turn[q].stage = "loop" /\ Here(q).next # None /\ SkipsAt(turn[q].row)
      BY <2>5 DEF SkipNode, Looping, Skips, SkipsAt, SkippedAt, Here
    <3>2. turn[q].row \in Row /\ turn[q] \in TurnRecord
      BY <1>2, <3>1 DEF SessionsTyped, Turns
    <3>3. turn[q].asked # None =>
            Config[turn[q].asked].quick /\ SkippedAt(Config[turn[q].asked], turn[q].row.slots)
      BY <1>2, <3>1 DEF LoopFine, MeetsIts
    <3>4. Here(q).next \in Node /\ FlowOf[Here(q).next] = FlowOf[turn[q].row.node]
      <4>1. turn[q].row.node \in Node
        BY <3>2 DEF Row
      <4> QED BY <3>1, <4>1, NodeTyped DEF Here
    <3>5. w \in Row /\ w.id = turn[q].row.id /\ w.flow = turn[q].row.flow
          /\ w.node = Here(q).next /\ w.slots = turn[q].row.slots
      BY <3>2, <3>4 DEF Row
    <3>6. turn' = [turn EXCEPT ![q] = r]
      BY <1>2, <2>5 DEF SkipNode
    <3> HIDE DEF w
    <3>7. r.row = w /\ r.asked = turn[q].asked /\ r.stage = turn[q].stage
      BY <3>2 DEF TurnRecord
    <3> HIDE DEF r
    <3>8. redis' = redis /\ overlapped' = overlapped
      BY <2>5 DEF SkipNode, stored
    <3>9. StillLoopFine(r)
      <4>1. MeetsIts(r)
        BY <3>3, <3>5, <3>7 DEF MeetsIts
      <4> QED BY <1>2, <3>1, <3>4, <3>5, <3>7, <3>8, <4>1 DEF StillLoopFine, LoopFine, InFlow
    <3> QED BY <3>6, <3>9
  <2> QED BY <2>1, <2>2, <2>3, <2>4, <2>5
<1>5. Alone' /\ \A p \in Request : LoopFine(turn[p])'
  BY <1>4, TurnFineKeeps
<1> QED BY <1>3, <1>5 DEF FlowInv

LEMMA RunnerFine ==
  ASSUME SessionsTyped, FlowInv, NEW q \in Request, ExecuteNode(q) \/ MaxStepsExceeded(q)
  PROVE  FlowInv'
<1>1. turn[q].stage = "loop" /\ turn[q].row \in Row /\ Known(turn[q].row)
  BY RunnerWrites
<1>2. PICK row \in Row : WritesRow(q, row)
  BY RunnerWrites
<1>3. /\ Queued("update", row) /\ overlapped' = overlapped
      /\ redis' = redis \/ (redis # None /\ redis' = [redis EXCEPT !.node = row.node,
                                    !.status = row.status, !.slots = row.slots])
  BY <1>1, <1>2, WritesQueued
<1>4. StoreFine /\ LoopFine(turn[q]) /\ turn[q] \in TurnRecord /\ TurnStep(q)
  BY DEF FlowInv, SessionsTyped, Typed, TurnStep, RunnerStep
<1>5. StillFine(row)
  BY <1>1, <1>2, <1>3, <1>4 DEF StillFine, LoopFine, WritesRow, InFlow
<1>6. /\ redis' = None \/ (StillFine(redis') /\ redis # None /\ redis'.id = redis.id)
  <2>1. CASE redis' = redis
    BY <1>3, <1>4, <2>1 DEF StoreFine, Fine, StillFine
  <2>2. CASE redis # None /\ redis' = [redis EXCEPT !.node = row.node,
                                         !.status = row.status, !.slots = row.slots]
    <3>1. redis \in Row /\ Known(redis)
      BY <2>2 DEF SessionsTyped, Typed, SessionsNumbered
    <3>2. /\ redis'.id = redis.id /\ redis'.flow = redis.flow /\ redis'.node = row.node
          /\ redis'.status = row.status /\ redis'.slots = row.slots
      BY <2>2, <3>1, MergedTyped
    <3>3. WaitsWell(redis')
      BY <1>5, <3>2 DEF StillFine, WaitsWell, SkipsAt
    <3>4. ~overlapped' => InFlow(redis')
      BY <1>1, <1>2, <1>3, <1>4, <1>5, <2>2, <3>1, <3>2
         DEF StillFine, InFlow, LoopFine, Known, WritesRow
    <3> QED BY <2>2, <3>2, <3>3, <3>4 DEF StillFine
  <2> QED BY <1>3, <2>1, <2>2
<1>7. StoreFine'
  BY <1>3, <1>4, <1>5, <1>6, QueuedFine
<1>8. \E r : turn' = [turn EXCEPT ![q] = r] /\ StillLoopFine(r)
  <2>1. CASE MoveTo(q, row)
    <3> DEFINE r == [turn[q] EXCEPT !.row = row, !.steps = @ + 1, !.asked = None]
    <3>1. turn' = [turn EXCEPT ![q] = r]
      BY <2>1 DEF MoveTo
    <3>2. r.row = row /\ MeetsIts(r)
      BY <1>4 DEF TurnRecord, MeetsIts
    <3> HIDE DEF r
    <3>3. StillLoopFine(r)
      BY <1>1, <1>2, <1>3, <1>4, <1>5, <1>6, <3>2 DEF StillLoopFine, StillFine, LoopFine, WritesRow
    <3> QED BY <3>1, <3>3
  <2>2. CASE Respond(q, row)
    <3>1. turn' = [turn EXCEPT ![q] = Idle] /\ Idle.stage = "idle"
      BY <2>2 DEF Respond, Idle
    <3> QED BY <3>1 DEF StillLoopFine
  <2> QED BY <1>2, <2>1, <2>2 DEF WritesRow
<1>9. Alone' /\ \A p \in Request : LoopFine(turn[p])'
  BY <1>4, <1>8, TurnFineKeeps
<1> QED BY <1>7, <1>9 DEF FlowInv

LEMMA SwitchFine ==
  ASSUME SessionsTyped, FlowInv, NEW q \in Request, NEW f \in Flow, RouteSwitch(q, f)
  PROVE  FlowInv'
<1> DEFINE row == [latest[Meta.id] EXCEPT !.status = "cancelled"]
<1>1. Meta.id \in 1..started /\ Queued("cancel", row)
  BY SwitchQueued
<1>2. TurnStep(q)
  BY DEF TurnStep
<1>3. StoreFine /\ (~overlapped' => ~overlapped)
  BY <1>2, SoloTurn DEF FlowInv
<1>4. /\ redis' = IF Refilled = None THEN None ELSE [Refilled EXCEPT !.status = "cancelled"]
      /\ turn' = [turn EXCEPT ![q] = [Idle EXCEPT !.stage = "run", !.flow = f]]
  BY DEF RouteSwitch, Goto
<1>5. StillFine(row)
  <2>1. latest[Meta.id] \in Row /\ Fine(latest[Meta.id])
    BY <1>1, <1>3, IdIs DEF StoreFine
  <2>2. row.node = latest[Meta.id].node /\ row.flow = latest[Meta.id].flow /\ row.status = "cancelled"
    BY <2>1, CancelledTyped
  <2> QED BY <1>3, <2>1, <2>2 DEF StillFine, Fine, WaitsWell, InFlow
<1> HIDE DEF row
<1>6. redis' = None \/ StillFine(redis')
  <2>1. CASE Refilled # None
    <3>1. Refilled \in Row /\ Fine(Refilled)
      BY <1>3, <2>1, FoundFine, FoundIs
    <3>2. redis'.node = Refilled.node /\ redis'.flow = Refilled.flow /\ redis'.status = "cancelled"
      BY <1>4, <2>1, <3>1, CancelledTyped
    <3> QED BY <1>3, <3>1, <3>2 DEF StillFine, Fine, WaitsWell, InFlow
  <2> QED BY <1>4, <2>1
<1>7. StoreFine'
  BY <1>1, <1>3, <1>5, <1>6, QueuedFine
<1>8. [Idle EXCEPT !.stage = "run", !.flow = f].stage = "run"
  BY RoutedTyped
<1>9. StillLoopFine([Idle EXCEPT !.stage = "run", !.flow = f])
  BY <1>8 DEF StillLoopFine
<1>10. Alone' /\ \A p \in Request : LoopFine(turn[p])'
  BY <1>2, <1>4, <1>9, TurnFineKeeps
<1> QED BY <1>7, <1>10 DEF FlowInv

LEMMA StartFine ==
  ASSUME SessionsTyped, FlowInv, NEW q \in Request, RunStart(q)
  PROVE  FlowInv'
<1>1. PICK row \in Row :
           /\ row.id = started + 1 /\ row.flow = turn[q].flow /\ row.status = "running"
           /\ row.node = Start[row.flow] /\ CreateSession(row) /\ Enter(q, row)
           /\ Queued("insert", row) /\ UNCHANGED <<checkpoint, overlapped>>
  BY StartIs
<1>2. TurnStep(q) /\ StoreFine
  BY DEF TurnStep, FlowInv
<1>3. row.flow \in Flow
  BY DEF Row
<1>4. StillFine(row)
  BY <1>1, <1>3, EdgeAssumption DEF StillFine, WaitsWell, InFlow
<1>5. redis' = row
  BY <1>1 DEF CreateSession
<1>6. StoreFine'
  BY <1>1, <1>2, <1>4, <1>5, QueuedFine
<1> DEFINE r == [stage |-> "loop", row |-> row, flow |-> row.flow,
                 asked |-> IF row.status = "waiting_user_input" THEN row.node ELSE None,
                 steps |-> 0]
<1>7. turn' = [turn EXCEPT ![q] = r] /\ r.row = row /\ MeetsIts(r)
  BY <1>1 DEF Enter, MeetsIts
<1> HIDE DEF r
<1>8. StillLoopFine(r)
  BY <1>4, <1>5, <1>7 DEF StillLoopFine, StillFine
<1>9. Alone' /\ \A p \in Request : LoopFine(turn[p])'
  BY <1>2, <1>7, <1>8, TurnFineKeeps
<1> QED BY <1>6, <1>9 DEF FlowInv

\* The persist threads, the expiry and the restart move rows that were fine.
LEMMA OutsideFine ==
  ASSUME SessionsTyped, FlowInv, OutsideStep
  PROVE  FlowInv'
<1>1. /\ started' = started /\ latest' = latest /\ overlapped' = overlapped
      /\ redis' = redis \/ redis' = None
      /\ turn' = turn \/ turn' = [p \in Request |-> Idle]
  BY DEF OutsideStep, Persist, PersistFails, Expire, Restart
<1>2. /\ \A x \in DOMAIN table : Fine(table[x])
      /\ \A j \in DOMAIN pending : Fine(pending[j].row)
  BY DEF FlowInv, StoreFine
<1>3. ASSUME NEW i \in DOMAIN pending
      PROVE  \A j \in DOMAIN Without(i) : Fine(Without(i)[j].row)
  <2>1. ASSUME NEW j \in DOMAIN Without(i) PROVE Fine(Without(i)[j].row)
    <3>1. Len(pending) \in Nat /\ DOMAIN pending = 1..Len(pending) /\ j \in 1..(Len(pending) - 1)
      BY <1>3, <2>1, WithoutIs, PendingIs
    <3>2. j \in DOMAIN pending /\ j + 1 \in DOMAIN pending
      BY <3>1
    <3>3. Without(i)[j] = pending[j] \/ Without(i)[j] = pending[j + 1]
      BY <1>3, <3>1, WithoutIs
    <3> QED BY <1>2, <3>2, <3>3
  <2> QED BY <2>1
<1>4. \A j \in DOMAIN pending' : Fine(pending'[j].row)
  <2>1. CASE pending' = pending
    BY <1>2, <2>1
  <2>2. CASE pending' = <<>>
    BY <2>2
  <2>3. CASE \E i \in DOMAIN pending : pending' = Without(i)
    BY <1>3, <2>3
  <2> QED BY <2>1, <2>2, <2>3 DEF OutsideStep, Persist, PersistFails, Expire, Restart
<1>5. \A x \in DOMAIN table' : Fine(table'[x])
  <2>1. CASE table' = table
    BY <1>2, <2>1
  <2>2. ASSUME NEW i \in DOMAIN pending, table' = Persisted(pending[i])
        PROVE  \A x \in DOMAIN table' : Fine(table'[x])
    <3> DEFINE op == pending[i]
    <3>1. op \in Op /\ Known(op.row) /\ op.row \in Row /\ Fine(op.row) /\ table' = Persisted(op)
      BY <1>2, <2>2, PendingIs
    <3> HIDE DEF op
    <3>2. ASSUME NEW x \in DOMAIN table
          PROVE  /\ table[x] \in Row /\ Fine(table[x])
                 /\ Fine([table[x] EXCEPT !.status = "cancelled"])
      <4>1. table[x] \in Row /\ Fine(table[x])
        BY <1>2, PendingIs
      <4> DEFINE c == [table[x] EXCEPT !.status = "cancelled"]
      <4>2. c.status = "cancelled" /\ c.node = table[x].node /\ c.flow = table[x].flow
        BY <4>1, CancelledTyped
      <4> HIDE DEF c
      <4>3. Fine(c)
        BY <4>1, <4>2 DEF Fine, WaitsWell, InFlow
      <4> QED BY <4>1, <4>3 DEF c
    <3>3. CASE /\ DOMAIN table' = 1..(Len(table) + 1) /\ table'[Len(table) + 1] = op.row
               /\ \A x \in DOMAIN table : table'[x] = table[x]
      <4>1. \A x \in DOMAIN table' : x = Len(table) + 1 \/ x \in DOMAIN table
        BY <3>3, PendingIs
      <4> QED BY <3>1, <3>2, <3>3, <4>1
    <3>4. CASE /\ DOMAIN table' = DOMAIN table
               /\ \A x \in DOMAIN table :
                    \/ table'[x] = table[x] \/ table'[x] = op.row
                    \/ table'[x] = [table[x] EXCEPT !.status = "cancelled"]
      BY <3>1, <3>2, <3>4
    <3> QED BY <1>2, <3>1, <3>3, <3>4, PersistedIs
  <2> QED BY <2>1, <2>2 DEF OutsideStep, Persist, PersistFails, Expire, Restart
<1>6. StoreFine'
  BY <1>1, <1>4, <1>5 DEF FlowInv, StoreFine, Fine
<1>7. Alone' /\ \A q \in Request : LoopFine(turn[q])'
  <2>1. CASE turn' = turn
    BY <1>1, <2>1 DEF FlowInv, Alone, Busy, LoopFine
  <2>2. CASE turn' = [p \in Request |-> Idle]
    BY <2>2 DEF Alone, Busy, LoopFine, Idle
  <2> QED BY <1>1, <2>1, <2>2
<1> QED BY <1>6, <1>7 DEF FlowInv

LEMMA FlowInvStep == SessionsTyped /\ FlowInv /\ [Next]_vars => FlowInv'
<1> SUFFICES ASSUME SessionsTyped, FlowInv, [Next]_vars PROVE FlowInv'
  OBVIOUS
<1>1. ASSUME NEW q \in Request, TurnStep(q) PROVE FlowInv'
  BY <1>1, RouteFine, SwitchFine, StartFine, RunnerFine DEF TurnStep, RunnerStep
<1>2. CASE OutsideStep
  BY <1>2, OutsideFine
<1>3. CASE UNCHANGED vars
  BY <1>3 DEF vars, FlowInv, StoreFine, Fine, Alone, Busy, LoopFine
<1> QED BY <1>1, <1>2, <1>3 DEF Next

LEMMA InitFlow == Init => FlowInv
<1> SUFFICES ASSUME Init PROVE FlowInv
  OBVIOUS
<1>1. Idle.stage = "idle" /\ DOMAIN table = {} /\ DOMAIN pending = {}
  BY EmptySeq DEF Init, Idle
<1>2. StoreFine
  BY <1>1 DEF Init, StoreFine
<1>3. Alone /\ \A q \in Request : LoopFine(turn[q])
  BY <1>1 DEF Init, Alone, Busy, LoopFine
<1> QED BY <1>2, <1>3 DEF FlowInv

THEOREM FlowInvariant == Spec => [](SessionsTyped /\ FlowInv)
<1>1. Init => SessionsTyped /\ FlowInv
  BY InitType, InitFlow
<1>2. SessionsTyped /\ FlowInv /\ [Next]_vars => (SessionsTyped /\ FlowInv)'
  BY StepType, FlowInvStep
<1> QED BY <1>1, <1>2, PTL DEF Spec

\* A message is only taken as an answer at the node that asked for it, even
\* when messages overlap, writes are lost or the entry expires: a session comes
\* to wait with a branch condition met only at a node of the fast paths, and
\* only what such a node asked is answered to a later one.
THEOREM AnswersMeetTheirQuestion == Spec => []InputOnlyAtWaitingNode
<1>1. FlowInv => InputOnlyAtWaitingNode
  BY DEF FlowInv, LoopFine, MeetsIts, InputOnlyAtWaitingNode, Skips, SkipsAt, Here
<1> QED BY <1>1, FlowInvariant, PTL

\* As long as messages came one at a time the entry points into its own flow,
\* and an answer meets the node that waits for it, if no fast path asked for it.
THEOREM ConversationWalksItsFlow == Spec => []WalksItsFlow
<1>1. FlowInv => WalksItsFlow
  BY DEF FlowInv, StoreFine, Fine, InFlow, LoopFine, MeetsIts, InputOnlyAtWaitingNode, Skips,
         SkipsAt, Here, WalksItsFlow
<1> QED BY <1>1, FlowInvariant, PTL

-----------------------------------------------------------------------------
(* The table and the entry say what the runner last wanted *)

\* The writes queued for session k, and its rows.
OpsOf(k) == {j \in DOMAIN pending : pending[j].row.id = k}
RowsOf(k) == {x \in DOMAIN table : table[x].id = k}
Cancelled(r) == [r EXCEPT !.status = "cancelled"]
Ended == {"completed", "cancelled"}

\* The last write queued is the latest one; without any the row is up to date.
LastSays(k) ==
    \A j \in OpsOf(k) : pending[j].row = latest[k] \/ \E l \in OpsOf(k) : j < l
TableSays(k) ==
    OpsOf(k) = {} => RowsOf(k) # {} /\ \A x \in RowsOf(k) : table[x] = latest[k]

\* The insert comes first: no write finds its row missing.
InsertsFirst(k) ==
    \A j \in OpsOf(k) :
      IF pending[j].kind = "insert" THEN RowsOf(k) = {} /\ \A l \in OpsOf(k) : j <= l
      ELSE RowsOf(k) # {} \/ \E l \in OpsOf(k) : l < j

\* A cancellation changes nothing but the status of what it will find.
CancelFollows(k) ==
    \A j \in OpsOf(k) : pending[j].kind = "cancel" =>
      /\ \A l \in OpsOf(k) : l < j => \/ Cancelled(pending[l].row) = pending[j].row
                                      \/ \E m \in OpsOf(k) : l < m /\ m < j
      /\ \A x \in RowsOf(k) : \/ Cancelled(table[x]) = pending[j].row
                              \/ \E m \in OpsOf(k) : m < j

QueueInv(k) == LastSays(k) /\ TableSays(k) /\ InsertsFirst(k) /\ CancelFollows(k)

\* The entry of session k, unless a failure was kept from it; and nothing is
\* queued while there is no entry.
EntryInv(k) ==
    /\ redis # None /\ redis.id = k =>
         IF k \in diverged THEN latest[k].status \in Ended => redis.status \in Ended
         ELSE redis = latest[k]
    /\ redis = None /\ (k \notin diverged \/ latest[k].status \in Ended) => OpsOf(k) = {}

Undisturbed == (1..started) \ disturbed
StoreInv == \A k \in Undisturbed : QueueInv(k) /\ EntryInv(k)

\* The operations of session k after a write was queued.
LEMMA QueuedOps ==
  ASSUME SessionsTyped, NEW k, NEW kind, NEW row, Queued(kind, row)
  PROVE  /\ row \in Row /\ row.id \in Id
         /\ Len(pending) \in Nat /\ \A j \in OpsOf(k) : j \in Nat /\ j < Len(pending) + 1
         /\ \A j \in OpsOf(k) : pending'[j] = pending[j]
         /\ pending'[Len(pending) + 1].row = row /\ pending'[Len(pending) + 1].kind = kind
         /\ row.id = k => OpsOf(k)' = OpsOf(k) \cup {Len(pending) + 1}
         /\ row.id # k => OpsOf(k)' = OpsOf(k)
         /\ RowsOf(k)' = RowsOf(k) /\ table' = table
         /\ latest'[row.id] = row
         /\ (k \in Id /\ k # row.id) => latest'[k] = latest[k]
<1>1. /\ row \in Row /\ row.id \in Id /\ kind \in {"insert", "update", "cancel"}
      /\ table' = table /\ Enqueue(kind, row) /\ latest' = [latest EXCEPT ![row.id] = row]
  BY IdIs DEF Queued
<1>2. /\ DOMAIN pending' = 1..(Len(pending) + 1)
      /\ \A j \in DOMAIN pending : pending'[j] = pending[j]
      /\ pending'[Len(pending) + 1] = [kind |-> kind, row |-> row]
  BY <1>1, EnqueueIs
<1>3. /\ Len(pending) \in Nat /\ \A j \in DOMAIN pending : j \in Nat /\ j < Len(pending) + 1
      /\ \A j \in DOMAIN pending' : j = Len(pending) + 1 \/ j \in DOMAIN pending
      /\ DOMAIN pending \subseteq DOMAIN pending' /\ Len(pending) + 1 \in DOMAIN pending'
  BY <1>2, PendingIs
<1>4. /\ pending'[Len(pending) + 1].row = row /\ pending'[Len(pending) + 1].kind = kind
  BY <1>2
<1>5. /\ row.id = k => OpsOf(k)' = OpsOf(k) \cup {Len(pending) + 1}
      /\ row.id # k => OpsOf(k)' = OpsOf(k)
  BY <1>2, <1>3, <1>4 DEF OpsOf
<1>6. /\ RowsOf(k)' = RowsOf(k)
      /\ \A j \in OpsOf(k) : j \in DOMAIN pending
  BY <1>1 DEF RowsOf, OpsOf
<1>7. latest'[row.id] = row /\ (k \in Id /\ k # row.id => latest'[k] = latest[k])
  BY <1>1 DEF SessionsTyped, Typed
<1> QED BY <1>1, <1>2, <1>3, <1>4, <1>5, <1>6, <1>7

\* A write of another session.
LEMMA QueuedOther ==
  ASSUME SessionsTyped, NEW k \in 1..started, QueueInv(k),
         NEW kind, NEW row, Queued(kind, row), row.id # k
  PROVE  QueueInv(k)' /\ OpsOf(k)' = OpsOf(k) /\ latest'[k] = latest[k]
<1>1. /\ OpsOf(k)' = OpsOf(k) /\ RowsOf(k)' = RowsOf(k) /\ table' = table
      /\ latest'[k] = latest[k] /\ \A j \in OpsOf(k) : pending'[j] = pending[j]
  BY QueuedOps, IdIs
<1>2. LastSays(k)' /\ TableSays(k)'
  BY <1>1 DEF QueueInv, LastSays, TableSays
<1>3. InsertsFirst(k)' /\ CancelFollows(k)'
  BY <1>1 DEF QueueInv, InsertsFirst, CancelFollows
<1> QED BY <1>1, <1>2, <1>3 DEF QueueInv

\* A write of session k itself.
LEMMA QueuedOwn ==
  ASSUME SessionsTyped, NEW k \in 1..started, QueueInv(k),
         NEW kind \in {"update", "cancel"}, NEW row, Queued(kind, row), row.id = k,
         kind = "cancel" => row = Cancelled(latest[k])
  PROVE  QueueInv(k)' /\ latest'[k] = row
<1> DEFINE last == Len(pending) + 1
<1>1. /\ OpsOf(k)' = OpsOf(k) \cup {last} /\ RowsOf(k)' = RowsOf(k) /\ table' = table
      /\ latest'[k] = row /\ last \in Nat
      /\ \A j \in OpsOf(k) : pending'[j] = pending[j] /\ j \in Nat /\ j < last
      /\ pending'[last].row = row /\ pending'[last].kind = kind
  <2>1. OpsOf(k)' = OpsOf(k) \cup {last} /\ RowsOf(k)' = RowsOf(k)
    BY QueuedOps
  <2>2. latest'[k] = row /\ table' = table /\ pending'[last].row = row /\ pending'[last].kind = kind
    BY QueuedOps
  <2>3. last \in Nat /\ \A j \in OpsOf(k) : pending'[j] = pending[j] /\ j \in Nat /\ j < last
    BY QueuedOps
  <2> QED BY <2>1, <2>2, <2>3
<1> HIDE DEF last
<1>2. LastSays(k)'
  BY <1>1 DEF LastSays
<1>3. TableSays(k)'
  BY <1>1 DEF TableSays
<1>4. InsertsFirst(k)'
  <2>1. ASSUME NEW j \in OpsOf(k)
        PROVE  IF pending'[j].kind = "insert"
               THEN RowsOf(k)' = {} /\ \A l \in OpsOf(k)' : j <= l
               ELSE RowsOf(k)' # {} \/ \E l \in OpsOf(k)' : l < j
    BY <1>1 DEF QueueInv, InsertsFirst
  <2>2. RowsOf(k)' # {} \/ \E l \in OpsOf(k)' : l < last
    BY <1>1 DEF QueueInv, TableSays
  <2> QED BY <1>1, <2>1, <2>2 DEF InsertsFirst
<1>5. CancelFollows(k)'
  <2>1. ASSUME NEW j \in OpsOf(k), pending'[j].kind = "cancel"
        PROVE  /\ \A l \in OpsOf(k)' : l < j => \/ Cancelled(pending'[l].row) = pending'[j].row
                                                \/ \E m \in OpsOf(k)' : l < m /\ m < j
               /\ \A x \in RowsOf(k)' : \/ Cancelled(table'[x]) = pending'[j].row
                                        \/ \E m \in OpsOf(k)' : m < j
    <3>1. ~(last < j)
      BY <1>1
    <3> QED BY <1>1, <2>1, <3>1 DEF QueueInv, CancelFollows
  <2>2. ASSUME pending'[last].kind = "cancel"
        PROVE  /\ \A l \in OpsOf(k)' : l < last => \/ Cancelled(pending'[l].row) = pending'[last].row
                                                   \/ \E m \in OpsOf(k)' : l < m /\ m < last
               /\ \A x \in RowsOf(k)' : \/ Cancelled(table'[x]) = pending'[last].row
                                        \/ \E m \in OpsOf(k)' : m < last
    <3>1. row = Cancelled(latest[k]) /\ ~(last < last)
      BY <1>1, <2>2
    <3>2. \A l \in OpsOf(k) : \/ Cancelled(pending'[l].row) = row
                              \/ \E m \in OpsOf(k)' : l < m /\ m < last
      BY <1>1, <3>1 DEF QueueInv, LastSays
    <3>3. \A x \in RowsOf(k) : Cancelled(table[x]) = row \/ \E m \in OpsOf(k)' : m < last
      BY <1>1, <3>1 DEF QueueInv, TableSays
    <3> QED BY <1>1, <3>1, <3>2, <3>3
  <2> QED BY <1>1, <2>1, <2>2 DEF CancelFollows
<1> QED BY <1>1, <1>2, <1>3, <1>4, <1>5 DEF QueueInv

\* The insert of a session.
LEMMA QueuedNew ==
  ASSUME SessionsTyped, NEW row, Queued("insert", row)
  PROVE  QueueInv(row.id)' /\ latest'[row.id] = row /\ row.id = started + 1
<1> DEFINE k == row.id
           last == Len(pending) + 1
<1>1. /\ OpsOf(k)' = OpsOf(k) \cup {last} /\ RowsOf(k)' = RowsOf(k) /\ table' = table
      /\ latest'[k] = row /\ last \in Nat
      /\ pending'[last].row = row /\ pending'[last].kind = "insert"
  <2>1. OpsOf(k)' = OpsOf(k) \cup {last} /\ RowsOf(k)' = RowsOf(k)
    BY QueuedOps
  <2>2. latest'[k] = row /\ table' = table
    BY QueuedOps
  <2>4. last \in Nat
    BY PendingIs
  <2>3. pending'[last].row = row /\ pending'[last].kind = "insert"
    BY QueuedOps
  <2> QED BY <2>1, <2>2, <2>3, <2>4
<1>2. k = started + 1
  BY DEF Queued
<1>3. OpsOf(k) = {} /\ RowsOf(k) = {}
  <2>1. ASSUME NEW r \in Row, Known(r) PROVE r.id # k
    BY <1>2, <2>1, IdIs
  <2> HIDE DEF k
  <2> QED BY <2>1, PendingIs DEF OpsOf, RowsOf
<1> HIDE DEF k, last
<1>4. OpsOf(k)' = {last} /\ last <= last /\ ~(last < last)
  BY <1>1, <1>3
<1>5. LastSays(k)' /\ TableSays(k)' /\ InsertsFirst(k)'
  BY <1>1, <1>3, <1>4 DEF LastSays, TableSays, InsertsFirst
<1>6. CancelFollows(k)'
  BY <1>1, <1>3, <1>4 DEF CancelFollows
<1> QED BY <1>1, <1>2, <1>5, <1>6 DEF QueueInv, k

\* Where the thread that is j-th after thread i finished was before.
Before(i, j) == IF j < i THEN j ELSE j + 1

LEMMA WithoutOps ==
  ASSUME SessionsTyped, NEW i \in DOMAIN pending, pending' = Without(i), NEW k
  PROVE  /\ i \in Nat /\ \A j \in OpsOf(k) : j \in Nat
         /\ \A j \in OpsOf(k)' : /\ Before(i, j) \in OpsOf(k) \ {i} /\ j \in Nat
                                 /\ pending'[j] = pending[Before(i, j)]
         /\ \A m \in OpsOf(k) \ {i} : \E j \in OpsOf(k)' : Before(i, j) = m
         /\ \A j, l \in OpsOf(k)' : j < l <=> Before(i, j) < Before(i, l)
<1>1. Len(pending) \in Nat /\ DOMAIN pending = 1..Len(pending) /\ i \in 1..Len(pending)
  BY PendingIs
<1>2. /\ DOMAIN pending' = 1..(Len(pending) - 1)
      /\ \A j \in 1..(Len(pending) - 1) : pending'[j] = IF j < i THEN pending[j] ELSE pending[j + 1]
  BY WithoutIs
<1>3. \A j \in 1..(Len(pending) - 1) :
        Before(i, j) \in 1..Len(pending) /\ Before(i, j) # i /\ pending'[j] = pending[Before(i, j)]
  BY <1>1, <1>2 DEF Before
<1>4. ASSUME NEW j \in OpsOf(k)'
      PROVE  /\ Before(i, j) \in OpsOf(k) \ {i} /\ j \in Nat
             /\ pending'[j] = pending[Before(i, j)]
  <2>1. j \in 1..(Len(pending) - 1) /\ pending'[j].row.id = k
    BY <1>2 DEF OpsOf
  <2> QED BY <1>1, <1>3, <2>1 DEF OpsOf
<1>5. ASSUME NEW m \in OpsOf(k) \ {i} PROVE \E j \in OpsOf(k)' : Before(i, j) = m
  <2>1. m \in 1..Len(pending) /\ m # i /\ pending[m].row.id = k
    BY <1>1 DEF OpsOf
  <2> DEFINE j == IF m < i THEN m ELSE m - 1
  <2>2. j \in 1..(Len(pending) - 1) /\ Before(i, j) = m
    BY <1>1, <2>1 DEF Before
  <2> HIDE DEF j
  <2>3. pending'[j] = pending[m]
    BY <1>3, <2>2
  <2> QED BY <1>2, <2>1, <2>2, <2>3 DEF OpsOf
<1>6. \A j, l \in Nat : j < l <=> Before(i, j) < Before(i, l)
  BY <1>1 DEF Before
<1>7. \A j \in OpsOf(k) : j \in Nat
  BY <1>1 DEF OpsOf
<1> QED BY <1>1, <1>4, <1>5, <1>6, <1>7

\* A thread of another session finishes, or fails.
LEMMA WithoutOther ==
  ASSUME SessionsTyped, NEW k \in 1..started, QueueInv(k),
         NEW i \in DOMAIN pending, pending' = Without(i), pending[i].row.id # k,
         RowsOf(k)' = RowsOf(k), \A x \in RowsOf(k) : table'[x] = table[x], latest' = latest
  PROVE  QueueInv(k)' /\ (OpsOf(k) = {} => OpsOf(k)' = {})
<1>1. i \notin OpsOf(k)
  BY DEF OpsOf
<1>2. /\ \A j \in OpsOf(k)' : Before(i, j) \in OpsOf(k) /\ pending'[j] = pending[Before(i, j)]
                              /\ j \in Nat /\ Before(i, j) \in Nat
      /\ \A m \in OpsOf(k) : \E j \in OpsOf(k)' : Before(i, j) = m
      /\ \A j, l \in OpsOf(k)' : j < l <=> Before(i, j) < Before(i, l)
  BY <1>1, WithoutOps
<1>3. LastSays(k)' /\ TableSays(k)'
  <2>1. LastSays(k)'
    <3> SUFFICES ASSUME NEW j \in OpsOf(k)'
                 PROVE  pending'[j].row = latest'[k] \/ \E l \in OpsOf(k)' : j < l
      BY DEF LastSays
    <3> QED BY <1>2 DEF QueueInv, LastSays
  <2>2. TableSays(k)'
    BY <1>2 DEF QueueInv, TableSays
  <2> QED BY <2>1, <2>2
<1>4. InsertsFirst(k)'
  <2> SUFFICES ASSUME NEW j \in OpsOf(k)'
               PROVE  IF pending'[j].kind = "insert"
                      THEN RowsOf(k)' = {} /\ \A l \in OpsOf(k)' : j <= l
                      ELSE RowsOf(k)' # {} \/ \E l \in OpsOf(k)' : l < j
    BY DEF InsertsFirst
  <2>1. CASE pending'[j].kind = "insert"
    <3>1. RowsOf(k) = {} /\ \A l \in OpsOf(k) : Before(i, j) <= l
      BY <1>2, <2>1 DEF QueueInv, InsertsFirst
    <3>2. ASSUME NEW l \in OpsOf(k)' PROVE j <= l
      <4>1. ~(Before(i, l) < Before(i, j))
        BY <1>2, <3>1
      <4> QED BY <1>2, <4>1
    <3> QED BY <2>1, <3>1, <3>2
  <2>2. CASE pending'[j].kind # "insert"
    <3>1. RowsOf(k) # {} \/ \E m \in OpsOf(k) : m < Before(i, j)
      BY <1>2, <2>2 DEF QueueInv, InsertsFirst
    <3> QED BY <1>2, <2>2, <3>1
  <2> QED BY <2>1, <2>2
<1>5. CancelFollows(k)'
  <2> SUFFICES ASSUME NEW j \in OpsOf(k)', pending'[j].kind = "cancel"
               PROVE  /\ \A l \in OpsOf(k)' : l < j => \/ Cancelled(pending'[l].row) = pending'[j].row
                                                       \/ \E m \in OpsOf(k)' : l < m /\ m < j
                      /\ \A x \in RowsOf(k)' : \/ Cancelled(table'[x]) = pending'[j].row
                                               \/ \E m \in OpsOf(k)' : m < j
    BY DEF CancelFollows
  <2> DEFINE b == Before(i, j)
  <2>1. b \in OpsOf(k) /\ pending'[j] = pending[b] /\ pending[b].kind = "cancel"
    BY <1>2
  <2>2. /\ \A l \in OpsOf(k) : l < b => \/ Cancelled(pending[l].row) = pending[b].row
                                        \/ \E m \in OpsOf(k) : l < m /\ m < b
        /\ \A x \in RowsOf(k) : \/ Cancelled(table[x]) = pending[b].row
                                \/ \E m \in OpsOf(k) : m < b
    BY <2>1 DEF QueueInv, CancelFollows
  <2>3. ASSUME NEW l \in OpsOf(k)', l < j
        PROVE  \/ Cancelled(pending'[l].row) = pending'[j].row
               \/ \E m \in OpsOf(k)' : l < m /\ m < j
    <3>1. Before(i, l) \in OpsOf(k) /\ Before(i, l) < b /\ pending'[l] = pending[Before(i, l)]
      BY <1>2, <2>3
    <3>2. \/ Cancelled(pending[Before(i, l)].row) = pending[b].row
          \/ \E m \in OpsOf(k) : Before(i, l) < m /\ m < b
      BY <2>2, <3>1
    <3>3. CASE \E m \in OpsOf(k) : Before(i, l) < m /\ m < b
      <4>1. PICK m \in OpsOf(k)' : Before(i, l) < Before(i, m) /\ Before(i, m) < Before(i, j)
        BY <1>2, <3>3
      <4> QED BY <1>2, <4>1
    <3> QED BY <2>1, <3>1, <3>2, <3>3
  <2>4. ASSUME NEW x \in RowsOf(k)'
        PROVE  Cancelled(table'[x]) = pending'[j].row \/ \E m \in OpsOf(k)' : m < j
    <3>1. Cancelled(table[x]) = pending[b].row \/ \E m \in OpsOf(k) : m < b
      BY <2>2, <2>4
    <3>2. CASE \E m \in OpsOf(k) : m < b
      <4>1. PICK m \in OpsOf(k)' : Before(i, m) < Before(i, j)
        BY <1>2, <3>2
      <4> QED BY <1>2, <4>1
    <3> QED BY <2>1, <2>4, <3>1, <3>2
  <2> QED BY <2>3, <2>4
<1>6. OpsOf(k) = {} => OpsOf(k)' = {}
  BY <1>2
<1> QED BY <1>3, <1>4, <1>5, <1>6 DEF QueueInv

\* The rows of other sessions are left alone by a write.
LEMMA PersistedOther ==
  ASSUME SessionsTyped, NEW op \in Op, Known(op.row), NEW k, op.row.id # k, table' = Persisted(op)
  PROVE  RowsOf(k)' = RowsOf(k) /\ \A x \in RowsOf(k) : table'[x] = table[x]
<1>1. CASE /\ DOMAIN table' = 1..(Len(table) + 1) /\ table'[Len(table) + 1] = op.row
           /\ \A x \in DOMAIN table : table'[x] = table[x]
  <2>1. /\ \A x \in DOMAIN table' : x = Len(table) + 1 \/ x \in DOMAIN table
        /\ DOMAIN table \subseteq DOMAIN table'
    BY <1>1, PendingIs
  <2> QED BY <1>1, <2>1 DEF RowsOf
<1>2. CASE table' = table
  BY <1>2 DEF RowsOf
<1>3. CASE /\ DOMAIN table' = DOMAIN table
           /\ \A x \in DOMAIN table : /\ table'[x].id = table[x].id
                                      /\ table[x].id # op.row.id => table'[x] = table[x]
  BY <1>3 DEF RowsOf
<1> QED BY <1>1, <1>2, <1>3, PersistedIs

\* The oldest thread of session k finishes: the row is what it wrote.
LEMMA PersistedOwn ==
  ASSUME SessionsTyped, NEW k \in 1..started, QueueInv(k), NEW i \in DOMAIN pending,
         pending[i].row.id = k, ~Overtakes(i), ~Refused(pending[i]),
         table' = Persisted(pending[i])
  PROVE  /\ i \in OpsOf(k) /\ \A l \in OpsOf(k) : i <= l /\ ~(l < i)
         /\ RowsOf(k)' # {} /\ \A x \in RowsOf(k)' : table'[x] = pending[i].row
<1> DEFINE op == pending[i]
<1>1. op \in Op /\ Known(op.row) /\ op.row.id = k /\ op.kind \in {"insert", "update", "cancel"}
  BY PendingIs DEF Op
<1>2. i \in OpsOf(k) /\ \A l \in OpsOf(k) : i <= l /\ ~(l < i)
  <2>1. i \in OpsOf(k) /\ i \in Nat
    BY PendingIs DEF OpsOf
  <2>2. ASSUME NEW l \in OpsOf(k), l < i PROVE FALSE
    <3>1. l \in 1..(i - 1) /\ pending[l].row.id = pending[i].row.id
      BY <2>1, <2>2, PendingIs DEF OpsOf
    <3> QED BY <3>1 DEF Overtakes
  <2>3. \A l \in OpsOf(k) : l \in Nat
    BY PendingIs DEF OpsOf
  <2> QED BY <2>1, <2>2, <2>3
<1>3. CASE op.kind = "insert"
  <2>1. RowsOf(k) = {}
    BY <1>2, <1>3 DEF QueueInv, InsertsFirst
  <2>2. /\ DOMAIN table' = 1..(Len(table) + 1) /\ table'[Len(table) + 1] = op.row
        /\ \A x \in DOMAIN table : table'[x] = table[x]
    BY <1>1, <1>3, PersistedIs
  <2>3. \A x \in DOMAIN table' : x = Len(table) + 1 \/ x \in DOMAIN table
    BY <2>2, PendingIs
  <2>4. Len(table) + 1 \in DOMAIN table'
    BY <2>2, PendingIs
  <2>5. RowsOf(k)' = {Len(table) + 1}
    BY <1>1, <2>1, <2>2, <2>3, <2>4 DEF RowsOf
  <2> QED BY <1>2, <2>2, <2>5
<1>4. CASE op.kind # "insert"
  <2>1. RowsOf(k) # {}
    BY <1>2, <1>4 DEF QueueInv, InsertsFirst
  <2>2. op.kind = "cancel" => \A x \in RowsOf(k) : Cancelled(table[x]) = op.row
    BY <1>2 DEF QueueInv, CancelFollows
  <2> HIDE DEF op
  <2>3. /\ DOMAIN table' = DOMAIN table
        /\ \A x \in DOMAIN table :
             /\ table'[x].id = table[x].id
             /\ table[x].id = k => table'[x] = IF op.kind = "update" THEN op.row
                                               ELSE Cancelled(table[x])
    BY <1>1, <1>4, PersistedIs DEF Cancelled, op
  <2>4. RowsOf(k)' = RowsOf(k)
    BY <2>3 DEF RowsOf
  <2>5. \A x \in RowsOf(k) : table'[x] = op.row
    BY <1>1, <1>4, <2>2, <2>3 DEF RowsOf
  <2> QED BY <1>2, <2>1, <2>4, <2>5 DEF op
<1> QED BY <1>3, <1>4

LEMMA PersistOwn ==
  ASSUME SessionsTyped, NEW k \in 1..started, QueueInv(k), NEW i \in DOMAIN pending,
         pending[i].row.id = k, ~Overtakes(i), ~Refused(pending[i]),
         table' = Persisted(pending[i]), pending' = Without(i), latest' = latest
  PROVE  QueueInv(k)'
<1>1. /\ i \in OpsOf(k) /\ \A l \in OpsOf(k) : i <= l /\ ~(l < i)
      /\ RowsOf(k)' # {} /\ \A x \in RowsOf(k)' : table'[x] = pending[i].row
  BY PersistedOwn
<1>2. /\ i \in Nat /\ \A j \in OpsOf(k) : j \in Nat
      /\ \A j \in OpsOf(k)' : Before(i, j) \in OpsOf(k) /\ Before(i, j) # i /\ j \in Nat
                              /\ pending'[j] = pending[Before(i, j)]
      /\ \A m \in OpsOf(k) : m # i => \E j \in OpsOf(k)' : Before(i, j) = m
      /\ \A j, l \in OpsOf(k)' : j < l <=> Before(i, j) < Before(i, l)
  BY WithoutOps
<1>3. \A j \in OpsOf(k)' : i < Before(i, j)
  BY <1>1, <1>2
<1>4. LastSays(k)'
  <2> SUFFICES ASSUME NEW j \in OpsOf(k)'
               PROVE  pending'[j].row = latest'[k] \/ \E l \in OpsOf(k)' : j < l
    BY DEF LastSays
  <2>1. pending[Before(i, j)].row = latest[k] \/ \E m \in OpsOf(k) : Before(i, j) < m
    BY <1>2 DEF QueueInv, LastSays
  <2>2. ASSUME NEW m \in OpsOf(k), Before(i, j) < m PROVE \E l \in OpsOf(k)' : j < l
    <3>1. m # i
      BY <1>1, <1>2, <2>2
    <3>2. PICK l \in OpsOf(k)' : Before(i, l) = m
      BY <1>2, <3>1
    <3> QED BY <1>2, <2>2, <3>2
  <2> QED BY <1>2, <2>1, <2>2
<1>5. TableSays(k)'
  <2> SUFFICES ASSUME OpsOf(k)' = {} PROVE pending[i].row = latest[k]
    BY <1>1 DEF TableSays
  <2>1. OpsOf(k) = {i} /\ ~(i < i)
    BY <1>1, <1>2
  <2> QED BY <2>1 DEF QueueInv, LastSays
<1>6. InsertsFirst(k)'
  <2> SUFFICES ASSUME NEW j \in OpsOf(k)' PROVE pending'[j].kind # "insert"
    BY <1>1 DEF InsertsFirst
  <2>1. pending[Before(i, j)].kind = "insert" => Before(i, j) <= i
    BY <1>1, <1>2 DEF QueueInv, InsertsFirst
  <2>2. ~(Before(i, j) <= i)
    BY <1>2, <1>3
  <2> QED BY <1>2, <2>1, <2>2
<1>7. CancelFollows(k)'
  <2> SUFFICES ASSUME NEW j \in OpsOf(k)', pending'[j].kind = "cancel"
               PROVE  /\ \A l \in OpsOf(k)' : l < j => \/ Cancelled(pending'[l].row) = pending'[j].row
                                                       \/ \E m \in OpsOf(k)' : l < m /\ m < j
                      /\ \A x \in RowsOf(k)' : \/ Cancelled(table'[x]) = pending'[j].row
                                               \/ \E m \in OpsOf(k)' : m < j
    BY DEF CancelFollows
  <2> DEFINE b == Before(i, j)
  <2>1. b \in OpsOf(k) /\ pending'[j] = pending[b] /\ pending[b].kind = "cancel" /\ i < b
    BY <1>2, <1>3
  <2>2. \A l \in OpsOf(k) : l < b => \/ Cancelled(pending[l].row) = pending[b].row
                                     \/ \E m \in OpsOf(k) : l < m /\ m < b
    BY <2>1 DEF QueueInv, CancelFollows
  <2>3. ASSUME NEW m \in OpsOf(k), m # i, m < b
        PROVE  \E n \in OpsOf(k)' : Before(i, n) = m /\ n < j
    <3>1. PICK n \in OpsOf(k)' : Before(i, n) = m
      BY <1>2, <2>3
    <3> QED BY <1>2, <2>3, <3>1
  <2>4. ASSUME NEW l \in OpsOf(k)', l < j
        PROVE  \/ Cancelled(pending'[l].row) = pending'[j].row
               \/ \E m \in OpsOf(k)' : l < m /\ m < j
    <3>1. Before(i, l) \in OpsOf(k) /\ Before(i, l) < b /\ pending'[l] = pending[Before(i, l)]
      BY <1>2, <2>4
    <3>2. \/ Cancelled(pending[Before(i, l)].row) = pending[b].row
          \/ \E m \in OpsOf(k) : Before(i, l) < m /\ m < b
      BY <2>2, <3>1
    <3>3. ASSUME NEW m \in OpsOf(k), Before(i, l) < m, m < b
          PROVE  \E n \in OpsOf(k)' : l < n /\ n < j
      <4>1. m # i
        BY <1>2, <1>3, <3>3
      <4>2. PICK n \in OpsOf(k)' : Before(i, n) = m /\ n < j
        BY <2>3, <3>3, <4>1
      <4> QED BY <1>2, <3>3, <4>2
    <3> QED BY <2>1, <3>1, <3>2, <3>3
  <2>5. ASSUME NEW x \in RowsOf(k)'
        PROVE  Cancelled(table'[x]) = pending'[j].row \/ \E m \in OpsOf(k)' : m < j
    <3>1. table'[x] = pending[i].row
      BY <1>1, <2>5
    <3>2. \/ Cancelled(pending[i].row) = pending[b].row
          \/ \E m \in OpsOf(k) : i < m /\ m < b
      BY <1>1, <2>1, <2>2
    <3>3. ASSUME NEW m \in OpsOf(k), i < m, m < b PROVE \E n \in OpsOf(k)' : n < j
      <4>1. m # i
        BY <1>2, <3>3
      <4> QED BY <2>3, <3>3, <4>1
    <3> QED BY <2>1, <3>1, <3>2, <3>3
  <2> QED BY <2>4, <2>5
<1> QED BY <1>4, <1>5, <1>6, <1>7 DEF QueueInv

\* A session found in the table, because there is no entry, is up to date
\* unless a failure was kept from the entry; and never ended in either case.
LEMMA FoundCurrent ==
  ASSUME SessionsTyped, NEW k \in 1..started, QueueInv(k), EntryInv(k), Found # None, Found.id = k
  PROVE  /\ Found.status \in Active /\ latest[k].status \notin Ended
         /\ k \notin diverged => Found = latest[k]
<1>1. Found \in Row /\ Found.status \in Active /\ \A s \in Active : s \notin Ended
  BY FoundIs DEF Active, Ended
<1>2. CASE redis # None
  <2>1. Found = redis
    BY <1>2, FoundIs
  <2> QED BY <1>1, <1>2, <2>1 DEF EntryInv
<1>3. CASE redis = None
  <2>1. PICK x \in DOMAIN table : Found = table[x]
    BY <1>3, FoundIs
  <2>2. x \in RowsOf(k)
    BY <2>1 DEF RowsOf
  <2>3. k \notin diverged \/ latest[k].status \in Ended => Found = latest[k]
    BY <1>3, <2>1, <2>2 DEF EntryInv, QueueInv, TableSays
  <2> QED BY <1>1, <2>3
<1> QED BY <1>2, <1>3

\* Steps that write no session, but may put a row back as the entry.
LEMMA QuietStore ==
  ASSUME SessionsTyped, NEW k \in 1..started, QueueInv(k), EntryInv(k),
         table' = table, pending' = pending, latest' = latest, diverged' = diverged,
         redis' \in {redis, Refilled}
  PROVE  QueueInv(k)' /\ EntryInv(k)'
<1>1. OpsOf(k)' = OpsOf(k) /\ RowsOf(k)' = RowsOf(k)
  BY DEF OpsOf, RowsOf
<1>2. QueueInv(k)'
  BY <1>1 DEF QueueInv, LastSays, TableSays, InsertsFirst, CancelFollows
<1>3. CASE redis' = redis
  BY <1>1, <1>2, <1>3 DEF EntryInv
<1>4. CASE redis = None /\ redis' = Found /\ Found # None
  BY <1>1, <1>2, <1>4, FoundCurrent DEF EntryInv
<1>5. redis' # redis => redis = None /\ redis' = Found /\ Found # None
  BY FoundIs DEF Refilled
<1> QED BY <1>3, <1>4, <1>5

\* What the runner writes for session k.
LEMMA RunnerStore ==
  ASSUME SessionsTyped, NEW k \in 1..started, QueueInv(k), EntryInv(k), k \notin disturbed',
         NEW q \in Request, ExecuteNode(q) \/ MaxStepsExceeded(q)
  PROVE  QueueInv(k)' /\ EntryInv(k)'
<1>1. turn[q].stage = "loop" /\ turn[q].row \in Row /\ Known(turn[q].row)
  BY RunnerWrites
<1>2. PICK row \in Row : WritesRow(q, row)
  BY RunnerWrites
<1>3. Queued("update", row) /\ Known(row)
  BY <1>1, <1>2, WritesQueued
<1>4. \/ UpdateSession(row)
      \/ UpdateTableOnly(row) /\ row.status \notin Ended
  BY <1>2 DEF WritesRow, Ended
<1>5. redis = None \/ (redis \in Row /\ Known(redis))
  BY DEF SessionsTyped, Typed, SessionsNumbered
<1>6. redis # None /\ UpdateSession(row) =>
        /\ redis' \in Row /\ redis'.id = redis.id /\ redis'.flow = redis.flow
        /\ redis'.node = row.node /\ redis'.status = row.status /\ redis'.slots = row.slots
  <2> SUFFICES ASSUME redis # None, UpdateSession(row)
               PROVE  /\ redis' \in Row /\ redis'.id = redis.id /\ redis'.flow = redis.flow
                      /\ redis'.node = row.node /\ redis'.status = row.status
                      /\ redis'.slots = row.slots
    OBVIOUS
  <2>1. redis' = [redis EXCEPT !.node = row.node, !.status = row.status, !.slots = row.slots]
    BY DEF UpdateSession
  <2> QED BY <1>5, <2>1, MergedTyped
<1>7. redis = None /\ UpdateSession(row) => redis' = None
  BY DEF UpdateSession
<1>8. CASE row.id = k
  <2>1. QueueInv(k)' /\ latest'[k] = row
    BY <1>3, <1>8, QueuedOwn
  <2>2. CASE UpdateSession(row)
    <3>1. diverged' = diverged \ {k} /\ disturbed' = disturbed \cup Misdirected(redis, k)
      BY <1>8, <2>2 DEF UpdateSession
    <3>2. redis # None /\ redis.id = k
      BY <3>1 DEF Misdirected
    <3>3. redis'.flow = row.flow
      BY <1>3, <1>5, <1>6, <1>8, <2>2, <3>2 DEF Known
    <3>4. redis' = row
      BY <1>6, <1>8, <2>2, <3>2, <3>3 DEF Row
    <3>5. redis' # None
      BY <3>4, NoneIsNone
    <3> QED BY <2>1, <3>1, <3>4, <3>5 DEF EntryInv
  <2>3. CASE UpdateTableOnly(row) /\ row.status \notin Ended
    <3>1. k \in diverged'
      BY <1>8, <2>3 DEF UpdateTableOnly
    <3> QED BY <2>1, <2>3, <3>1 DEF EntryInv
  <2> QED BY <1>4, <2>2, <2>3
<1>9. CASE row.id # k
  <2>1. QueueInv(k)' /\ OpsOf(k)' = OpsOf(k) /\ latest'[k] = latest[k]
    BY <1>3, <1>9, QueuedOther
  <2>2. CASE UpdateSession(row)
    <3>1. diverged' = diverged \ {row.id} /\ disturbed' = disturbed \cup Misdirected(redis, row.id)
      BY <2>2 DEF UpdateSession
    <3>2. redis # None => redis.id # k
      BY <1>9, <3>1 DEF Misdirected
    <3>3. redis' = None <=> redis = None
      BY <1>6, <1>7, <2>2, NoneIsNone
    <3>4. k \in diverged' <=> k \in diverged
      BY <1>9, <3>1
    <3> QED BY <1>6, <2>1, <2>2, <3>2, <3>3, <3>4 DEF EntryInv
  <2>3. CASE UpdateTableOnly(row)
    <3>1. diverged' = diverged \cup {row.id} /\ redis' = redis
      BY <2>3 DEF UpdateTableOnly
    <3> QED BY <1>9, <2>1, <3>1 DEF EntryInv
  <2> QED BY <1>4, <2>2, <2>3
<1> QED BY <1>8, <1>9

\* A cancellation for the sake of another task.
LEMMA SwitchStore ==
  ASSUME SessionsTyped, NEW k \in 1..started, QueueInv(k), EntryInv(k), k \notin disturbed',
         NEW q \in Request, NEW f \in Flow, RouteSwitch(q, f)
  PROVE  QueueInv(k)' /\ EntryInv(k)'
<1> DEFINE row == Cancelled(latest[Meta.id])
<1>1. Meta.id \in 1..started /\ Queued("cancel", row)
  BY SwitchQueued DEF Cancelled
<1>2. latest[Meta.id] \in Row /\ latest[Meta.id].id = Meta.id
  BY <1>1, IdIs
<1>3. row.id = Meta.id /\ row.status = "cancelled"
  BY <1>2, CancelledTyped DEF Cancelled
<1> HIDE DEF row
<1>4. /\ redis' = IF Refilled = None THEN None ELSE Cancelled(Refilled)
      /\ disturbed' = disturbed \cup Misdirected(Refilled, Meta.id)
      /\ diverged' = diverged
  BY DEF RouteSwitch, Cancelled
<1>5. Refilled # None => Refilled \in Row
  BY FoundIs
<1>6. Refilled # None => /\ redis' # None /\ redis'.id = Refilled.id
                         /\ redis'.status = "cancelled"
  BY <1>4, <1>5, CancelledTyped, NoneIsNone DEF Cancelled
<1>7. CASE Meta.id = k
  <2>1. QueueInv(k)' /\ latest'[k] = row
    <3>1. row = Cancelled(latest[k]) /\ row.id = k
      BY <1>3, <1>7 DEF row
    <3> QED BY <1>1, <3>1, QueuedOwn
  <2>2. Refilled # None /\ Refilled.id = k
    BY <1>4, <1>7 DEF Misdirected
  <2>3. k \notin diverged => Refilled = latest[k]
    <3>1. CASE redis # None
      BY <2>2, <3>1, FoundIs DEF EntryInv
    <3>2. CASE redis = None
      <4>1. Found = Refilled
        BY <3>2 DEF Refilled
      <4> QED BY <2>2, <4>1, FoundCurrent
    <3> QED BY <3>1, <3>2
  <2>4. k \notin diverged => redis' = row
    BY <1>4, <1>7, <2>2, <2>3 DEF row
  <2> QED BY <1>4, <1>6, <2>1, <2>2, <2>4 DEF EntryInv, Ended
<1>8. CASE Meta.id # k
  <2>1. QueueInv(k)' /\ OpsOf(k)' = OpsOf(k) /\ latest'[k] = latest[k]
    BY <1>1, <1>3, <1>8, QueuedOther
  <2>2. Refilled # None => Refilled.id # k
    BY <1>4, <1>8 DEF Misdirected
  <2>3. redis' = None => redis = None
    BY <1>6, FoundIs
  <2> QED BY <1>4, <1>6, <2>1, <2>2, <2>3 DEF EntryInv
<1> QED BY <1>7, <1>8

\* A session starts beside session k.
LEMMA StartStore ==
  ASSUME SessionsTyped, StoreInv, NEW q \in Request, RunStart(q)
  PROVE  StoreInv'
<1>1. PICK row \in Row :
           /\ row.id = started + 1 /\ row.flow = turn[q].flow /\ row.status = "running"
           /\ row.node = Start[row.flow] /\ CreateSession(row) /\ Enter(q, row)
           /\ Queued("insert", row) /\ UNCHANGED <<checkpoint, overlapped>>
  BY StartIs
<1>2. /\ redis' = row /\ redis' # None /\ started' = started + 1
      /\ diverged' = diverged /\ disturbed' = disturbed
  BY <1>1, NoneIsNone DEF CreateSession
<1>3. diverged \subseteq 1..started /\ started \in Nat
  BY IdIs DEF SessionsTyped, Typed
<1>4. QueueInv(row.id)' /\ EntryInv(row.id)'
  <2>1. QueueInv(row.id)' /\ latest'[row.id] = row
    BY <1>1, QueuedNew
  <2>2. row.id \notin diverged
    BY <1>1, <1>3
  <2> QED BY <1>2, <2>1, <2>2 DEF EntryInv
<1>5. ASSUME NEW k \in Undisturbed PROVE QueueInv(k)' /\ EntryInv(k)'
  <2>1. k \in 1..started /\ QueueInv(k) /\ row.id # k
    BY <1>1, <1>3 DEF Undisturbed, StoreInv
  <2>2. QueueInv(k)'
    BY <1>1, <2>1, QueuedOther
  <2> QED BY <1>2, <2>1, <2>2 DEF EntryInv
<1>6. ASSUME NEW k \in Undisturbed' PROVE k = row.id \/ k \in Undisturbed
  BY <1>1, <1>2, <1>3 DEF Undisturbed
<1> QED BY <1>4, <1>5, <1>6 DEF StoreInv

LEMMA OutsideStore ==
  ASSUME SessionsTyped, NEW k \in 1..started, QueueInv(k), EntryInv(k), k \notin disturbed', OutsideStep
  PROVE  QueueInv(k)' /\ EntryInv(k)'
<1>1. latest' = latest /\ diverged' = diverged
  BY DEF OutsideStep, Persist, PersistFails, Expire, Restart
<1>2. ASSUME NEW i, Persist(i) PROVE QueueInv(k)' /\ EntryInv(k)'
  <2> DEFINE op == pending[i]
  <2>1. /\ i \in DOMAIN pending /\ pending' = Without(i) /\ table' = Persisted(op)
        /\ redis' = redis
        /\ disturbed' = IF Overtakes(i) \/ Refused(op) THEN disturbed \cup {op.row.id} ELSE disturbed
    BY <1>2 DEF Persist
  <2>2. op \in Op /\ Known(op.row)
    BY <2>1, PendingIs
  <2>3. CASE op.row.id = k
    <3>1. ~Overtakes(i) /\ ~Refused(op)
      BY <2>1, <2>3
    <3>2. QueueInv(k)' /\ i \in OpsOf(k)
      BY <1>1, <2>1, <2>3, <3>1, PersistOwn, PersistedOwn
    <3> QED BY <1>1, <2>1, <3>2 DEF EntryInv
  <2>4. CASE op.row.id # k
    <3>1. RowsOf(k)' = RowsOf(k) /\ \A x \in RowsOf(k) : table'[x] = table[x]
      BY <2>1, <2>2, <2>4, PersistedOther
    <3>2. QueueInv(k)' /\ (OpsOf(k) = {} => OpsOf(k)' = {})
      BY <1>1, <2>1, <2>4, <3>1, WithoutOther
    <3> QED BY <1>1, <2>1, <3>2 DEF EntryInv
  <2> QED BY <2>3, <2>4
<1>3. ASSUME NEW i, PersistFails(i) PROVE QueueInv(k)' /\ EntryInv(k)'
  <2>1. /\ i \in DOMAIN pending /\ pending' = Without(i) /\ table' = table /\ redis' = redis
        /\ disturbed' = disturbed \cup {pending[i].row.id}
    BY <1>3 DEF PersistFails
  <2>2. pending[i].row.id # k /\ RowsOf(k)' = RowsOf(k)
    BY <2>1 DEF RowsOf
  <2>3. QueueInv(k)' /\ (OpsOf(k) = {} => OpsOf(k)' = {})
    BY <1>1, <2>1, <2>2, WithoutOther
  <2> QED BY <1>1, <2>1, <2>3 DEF EntryInv
<1>4. ASSUME pending' = <<>>, OpsOf(k) = {}, table' = table, redis' \in {redis, None}
      PROVE  QueueInv(k)' /\ EntryInv(k)'
  <2>1. OpsOf(k)' = {} /\ RowsOf(k)' = RowsOf(k)
    BY <1>4 DEF OpsOf, RowsOf
  <2>2. QueueInv(k)'
    BY <1>1, <1>4, <2>1 DEF QueueInv, LastSays, TableSays, InsertsFirst, CancelFollows
  <2> QED BY <1>1, <1>4, <2>1, <2>2 DEF EntryInv
<1>5. CASE Expire
  <2>1. pending = <<>> /\ pending' = pending /\ table' = table /\ redis' = None
    BY <1>5 DEF Expire
  <2>2. OpsOf(k) = {}
    BY <2>1 DEF OpsOf
  <2> QED BY <1>4, <2>1, <2>2
<1>6. CASE Restart
  <2>1. /\ pending' = <<>> /\ table' = table /\ redis' = redis
        /\ disturbed' = disturbed \cup {pending[i].row.id : i \in DOMAIN pending}
    BY <1>6 DEF Restart
  <2>2. OpsOf(k) = {}
    BY <2>1 DEF OpsOf
  <2> QED BY <1>4, <2>1, <2>2
<1> QED BY <1>2, <1>3, <1>5, <1>6 DEF OutsideStep

\* A session once disturbed stays so.
LEMMA DisturbedGrows ==
  ASSUME [Next]_vars
  PROVE  disturbed \subseteq disturbed'
<1>1. ASSUME NEW q \in Request, TurnStep(q) PROVE disturbed \subseteq disturbed'
  <2>1. ExecuteNode(q) \/ MaxStepsExceeded(q) => disturbed \subseteq disturbed'
    BY DEF ExecuteNode, MaxStepsExceeded, MarkFailed, UpdateSession, UpdateTableOnly
  <2> QED BY <1>1, <2>1 DEF TurnStep, RunnerStep, RouteStart, RouteSwitch, RouteContinue,
             RouteKnowledge, MutedTurn, RunResume, RunStart, RunStartFails, SkipNode,
             CreateSession, stored
<1>2. OutsideStep => disturbed \subseteq disturbed'
  BY DEF OutsideStep, Persist, PersistFails, Expire, Restart
<1> QED BY <1>1, <1>2 DEF Next, vars

LEMMA StoreStep == SessionsTyped /\ StoreInv /\ [Next]_vars => StoreInv'
<1> SUFFICES ASSUME SessionsTyped, StoreInv, [Next]_vars PROVE StoreInv'
  OBVIOUS
<1>1. disturbed \subseteq disturbed'
  BY DisturbedGrows
<1>2. CASE \E q \in Request : RunStart(q)
  BY <1>2, StartStore
<1>3. ASSUME started' = started,
             \A k \in 1..started : QueueInv(k) /\ EntryInv(k) /\ k \notin disturbed'
                                     => QueueInv(k)' /\ EntryInv(k)'
      PROVE  StoreInv'
  <2> SUFFICES ASSUME NEW k \in Undisturbed' PROVE QueueInv(k)' /\ EntryInv(k)'
    BY DEF StoreInv
  <2>1. k \in 1..started /\ k \notin disturbed' /\ k \in Undisturbed
    BY <1>1, <1>3 DEF Undisturbed
  <2> QED BY <1>3, <2>1 DEF StoreInv
<1>4. ASSUME NEW q \in Request, TurnStep(q), ~RunStart(q) PROVE StoreInv'
  <2>1. CASE ExecuteNode(q) \/ MaxStepsExceeded(q)
    <3>1. started' = started
      BY <2>1, RunnerWrites, WritesQueued DEF Queued
    <3> QED BY <1>3, <2>1, <3>1, RunnerStore
  <2>2. CASE \E f \in Flow : RouteSwitch(q, f)
    <3>1. started' = started
      BY <2>2 DEF RouteSwitch
    <3> QED BY <1>3, <2>2, <3>1, SwitchStore
  <2>3. CASE \/ \E f \in Flow : RouteStart(q, f) \/ RouteContinue(q, f)
             \/ RouteKnowledge(q) \/ MutedTurn(q) \/ RunResume(q) \/ RunStartFails(q) \/ SkipNode(q)
    <3>1. /\ table' = table /\ pending' = pending /\ latest' = latest /\ diverged' = diverged
          /\ redis' \in {redis, Refilled} /\ started' = started
      BY <2>3 DEF RouteStart, RouteContinue, RouteKnowledge, MutedTurn, RunResume, RunStartFails,
                  SkipNode, stored
    <3> QED BY <1>3, <3>1, QuietStore
  <2> QED BY <1>4, <2>1, <2>2, <2>3 DEF TurnStep, RunnerStep
<1>5. CASE OutsideStep
  <2>1. started' = started
    BY <1>5 DEF OutsideStep, Persist, PersistFails, Expire, Restart
  <2> QED BY <1>3, <1>5, <2>1, OutsideStore
<1>6. CASE UNCHANGED vars
  <2>1. /\ table' = table /\ pending' = pending /\ latest' = latest /\ diverged' = diverged
        /\ redis' \in {redis, Refilled} /\ started' = started
    BY <1>6 DEF vars
  <2> QED BY <1>3, <2>1, QuietStore
<1> QED BY <1>2, <1>4, <1>5, <1>6 DEF Next

LEMMA InitStore == Init => StoreInv
<1> SUFFICES ASSUME Init, NEW k \in Undisturbed PROVE FALSE
  BY DEF StoreInv
<1>1. k \in 1..0
  BY DEF Init, Undisturbed
<1> QED BY <1>1

THEOREM StoreInvariant == Spec => [](SessionsTyped /\ StoreInv)
<1>1. Init => SessionsTyped /\ StoreInv
  BY InitType, InitStore
<1>2. SessionsTyped /\ StoreInv /\ [Next]_vars => (SessionsTyped /\ StoreInv)'
  BY StepType, StoreStep
<1> QED BY <1>1, <1>2, PTL DEF Spec

\* Once the persist threads are done the row of the current session says what
\* its entry says, unless one of its writes was lost, late, refused or missed,
\* or was kept from Redis.
THEOREM QuietStoreAgrees == Spec => []StoredWhenQuiet
<1>1. SessionsTyped /\ StoreInv => StoredWhenQuiet
  <2> SUFFICES ASSUME SessionsTyped, StoreInv, pending = <<>>, redis # None,
                      redis.id \notin disturbed \cup diverged
               PROVE  \E i \in DOMAIN table : table[i] = redis
    BY DEF StoredWhenQuiet
  <2>1. redis \in Row /\ Known(redis)
    BY DEF SessionsTyped, Typed, SessionsNumbered
  <2>2. redis.id \in 1..started
    BY <2>1, IdIs
  <2>3. QueueInv(redis.id) /\ EntryInv(redis.id)
    BY <2>2 DEF StoreInv, Undisturbed
  <2>4. OpsOf(redis.id) = {} /\ redis = latest[redis.id]
    BY <2>3 DEF OpsOf, EntryInv
  <2>5. PICK x \in RowsOf(redis.id) : table[x] = redis
    BY <2>3, <2>4 DEF QueueInv, TableSays
  <2> QED BY <2>5 DEF RowsOf
<1> QED BY <1>1, StoreInvariant, PTL

\* A message goes on exactly where its session was left, and never into a
\* completed or cancelled one, with the same exceptions.
THEOREM SessionsResumeWhereTheyLeft == Spec => ResumesWhereItLeft
<1>1. SessionsTyped /\ StoreInv /\ [Next]_vars =>
        [\A q \in Request : RunResume(q) =>
           LET left == latest[Found.id] IN
             \/ Found.id \in disturbed
             \/ /\ left.status \notin {"completed", "cancelled"}
                /\ Found.id \in diverged \/ Found = left]_vars
  <2> SUFFICES ASSUME SessionsTyped, StoreInv, NEW q \in Request, RunResume(q), Found.id \notin disturbed
               PROVE  /\ latest[Found.id].status \notin {"completed", "cancelled"}
                      /\ Found.id \in diverged \/ Found = latest[Found.id]
    OBVIOUS
  <2>1. Found # None /\ Found \in Row /\ Known(Found)
    BY FoundIs DEF RunResume
  <2>2. Found.id \in 1..started
    BY <2>1, IdIs
  <2>3. QueueInv(Found.id) /\ EntryInv(Found.id)
    BY <2>2 DEF StoreInv, Undisturbed
  <2> QED BY <2>1, <2>2, <2>3, FoundCurrent DEF Ended
<1> QED BY <1>1, StoreInvariant, PTL DEF Spec, ResumesWhereItLeft

-----------------------------------------------------------------------------
(* The walk of a turn *)

\* The steps a looping turn may still take, its last answer included.
StepsLeft(t) == IF t.stage = "loop" THEN MaxSteps + 1 - t.steps ELSE 0

\* What can become of a looping turn: it ends, or goes on with its session.
WalksOn(q) ==
    \/ turn'[q] = Idle
    \/ /\ turn'[q].stage = "loop" /\ turn'[q].steps = turn[q].steps + 1
       /\ turn'[q].row.id = turn[q].row.id /\ turn'[q].row.flow = turn[q].row.flow

LEMMA RunnerWalks ==
  ASSUME SessionsTyped, NEW q \in Request, RunnerStep(q)
  PROVE  WalksOn(q) /\ \A p \in Request \ {q} : turn'[p] = turn[p]
<1>1. turn \in [Request -> TurnRecord] /\ Idle \in TurnRecord
  BY Bounds DEF SessionsTyped, Typed, TurnRecord, Idle
<1>2. ASSUME NEW t, turn' = [turn EXCEPT ![q] = t]
      PROVE  turn'[q] = t /\ \A p \in Request \ {q} : turn'[p] = turn[p]
  BY <1>1, <1>2
<1>3. CASE SkipNode(q)
  <2>1. turn[q].stage = "loop" /\ turn[q].row \in Row /\ turn[q] \in TurnRecord
    BY <1>1, <1>3 DEF SkipNode, Looping, SessionsTyped, Turns
  <2> DEFINE t == [turn[q] EXCEPT !.row.node = Here(q).next, !.steps = @ + 1]
  <2>2. turn' = [turn EXCEPT ![q] = t]
    BY <1>1, <1>3, <2>1 DEF SkipNode, TurnRecord
  <2>3. t.stage = "loop" /\ t.steps = turn[q].steps + 1
    BY <2>1 DEF TurnRecord
  <2>4. t.row.id = turn[q].row.id /\ t.row.flow = turn[q].row.flow
    BY <2>1 DEF TurnRecord, Row
  <2> HIDE DEF t
  <2> QED BY <1>2, <2>2, <2>3, <2>4 DEF WalksOn
<1>4. CASE ExecuteNode(q) \/ MaxStepsExceeded(q)
  <2>1. PICK row \in Row : WritesRow(q, row)
    BY <1>4, RunnerWrites
  <2>2. turn[q].stage = "loop" /\ turn[q] \in TurnRecord
    BY <1>1, <1>4, RunnerWrites
  <2>3. CASE MoveTo(q, row)
    <3> DEFINE t == [turn[q] EXCEPT !.row = row, !.steps = @ + 1, !.asked = None]
    <3>1. turn' = [turn EXCEPT ![q] = t]
      BY <1>1, <2>2, <2>3 DEF MoveTo, TurnRecord
    <3>2. t.stage = "loop" /\ t.steps = turn[q].steps + 1 /\ t.row = row
      BY <2>2 DEF TurnRecord
    <3> HIDE DEF t
    <3> QED BY <1>2, <2>1, <3>1, <3>2 DEF WalksOn, WritesRow
  <2>4. CASE Respond(q, row)
    <3>1. turn' = [turn EXCEPT ![q] = Idle]
      BY <2>4 DEF Respond
    <3> QED BY <1>2, <3>1 DEF WalksOn
  <2> QED BY <2>1, <2>3, <2>4 DEF WritesRow
<1> QED BY <1>3, <1>4 DEF RunnerStep

LEMMA NotInItsLoop ==
  ASSUME SessionsTyped, NEW q \in Request, TurnStep(q), ~RunnerStep(q)
  PROVE  turn[q].stage # "loop" /\ \A p \in Request \ {q} : turn'[p] = turn[p]
<1>1. turn \in [Request -> TurnRecord]
  BY DEF SessionsTyped, Typed
<1>2. ASSUME NEW t, turn' = [turn EXCEPT ![q] = t]
      PROVE  \A p \in Request \ {q} : turn'[p] = turn[p]
  BY <1>1, <1>2
<1>3. CASE \E f \in Flow : RouteStart(q, f) \/ RouteSwitch(q, f) \/ RouteContinue(q, f)
  <2>1. turn' = [turn EXCEPT ![q] = turn'[q]]
    BY <1>1, <1>3 DEF RouteStart, RouteSwitch, RouteContinue, Goto
  <2>2. turn[q].stage = "idle"
    BY <1>3 DEF RouteStart, RouteSwitch, RouteContinue
  <2> QED BY <1>2, <2>1, <2>2
<1>4. CASE RouteKnowledge(q) \/ MutedTurn(q)
  BY <1>4 DEF RouteKnowledge, MutedTurn
<1>5. CASE RunResume(q) \/ RunStart(q) \/ RunStartFails(q)
  <2>1. turn' = [turn EXCEPT ![q] = turn'[q]]
    BY <1>1, <1>5 DEF RunResume, RunStart, RunStartFails, Enter
  <2>2. turn[q].stage = "run"
    BY <1>5 DEF RunResume, RunStart, RunStartFails
  <2> QED BY <1>2, <2>1, <2>2
<1> QED BY <1>3, <1>4, <1>5 DEF TurnStep

\* The walk of DynamicTaskRunner.run has a variant: whatever the other
\* messages, the persist threads and the faults do, a step that changes a
\* looping turn ends it or takes it on in the same session with fewer steps
\* left, of which max_steps leaves it never fewer than one.
THEOREM TurnsHaveAVariant ==
  Spec => /\ [](\A q \in Request : turn[q].stage = "loop" => StepsLeft(turn[q]) \in 1..(MaxSteps + 1))
          /\ [][\A q \in Request : turn[q].stage = "loop" /\ turn'[q] # turn[q] =>
                    WalksOn(q) /\ StepsLeft(turn'[q]) < StepsLeft(turn[q])]_vars
<1>1. SessionsTyped =>
        \A q \in Request : turn[q].stage = "loop" => StepsLeft(turn[q]) \in 1..(MaxSteps + 1)
  BY Bounds DEF SessionsTyped, Typed, TurnRecord, StepsLeft
<1>2. SessionsTyped /\ [Next]_vars =>
        [\A q \in Request : turn[q].stage = "loop" /\ turn'[q] # turn[q] =>
            WalksOn(q) /\ StepsLeft(turn'[q]) < StepsLeft(turn[q])]_vars
  <2> SUFFICES ASSUME SessionsTyped, Next, NEW q \in Request, turn[q].stage = "loop", turn'[q] # turn[q]
               PROVE  WalksOn(q) /\ StepsLeft(turn'[q]) < StepsLeft(turn[q])
    OBVIOUS
  <2>1. WalksOn(q)
    <3>1. ASSUME NEW p \in Request, TurnStep(p) PROVE WalksOn(q)
      BY <3>1, RunnerWalks, NotInItsLoop
    <3>2. CASE OutsideStep
      <4>1. Restart
        BY <3>2 DEF OutsideStep, Persist, PersistFails, Expire
      <4> QED BY <4>1 DEF Restart, WalksOn
    <3> QED BY <3>1, <3>2 DEF Next
  <2>2. turn[q].steps \in 0..MaxSteps /\ Idle.stage # "loop"
    BY DEF SessionsTyped, Typed, TurnRecord, Idle
  <2> QED BY <2>1, <2>2, Bounds DEF WalksOn, StepsLeft
<1> QED BY <1>1, <1>2, SessionsAreKnown, PTL DEF Spec
=============================================================================
