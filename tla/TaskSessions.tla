----------------------------- MODULE TaskSessions -----------------------------
(***************************************************************************)
(* The task engine seen from one conversation: agent_node routes a message *)
(* to execute_run_task, DynamicTaskRunner walks the nodes of a flow, and   *)
(* TaskRepository keeps the task session twice, in a Redis entry that is   *)
(* written at once and in a task_sessions row written by daemon threads.   *)
(* Flow metadata does not change while a conversation runs.  The memory    *)
(* of a task is the set of slots that are filled.                          *)
(***************************************************************************)
EXTENDS Integers, Sequences, FiniteSets

CONSTANTS
    Request,        \* user messages that may be in progress at the same time
    Flow, Node,
    FlowOf,         \* [Node -> Flow]: task_nodes.flow_id
    Start,          \* [Flow -> Node]: get_start_node
    Config,         \* [Node -> NodeConfig]: task_nodes and task_edges
    Slot,
    MaxSteps,       \* max_steps (20 in the code)
    MaxSessions,    \* bound on the sessions created
    MaxPending,     \* bound on the persist threads alive
    Faults,         \* what may happen in a run, a subset of FaultKind
    None

FaultKind == {"expire", "lose", "reorder", "restart"}
Id == 1..MaxSessions

(* config.next_step_mode, config.branch_condition as the slots it wants    *)
(* non-null ({}: no condition), config.next_node_key or branch_node_key,   *)
(* config.fallback_node_key, the matching success edge and failure edge,   *)
(* the slots a node writes, and whether its key is ask_service or          *)
(* ask_cancel_number, whose answers a fast path takes without the LLM.     *)
NodeConfig == [kind : {"message", "ask", "instruction", "function", "end"},
               mode : {"single", "branch", "end"},
               needs : SUBSET Slot, next : Node \cup {None},
               fallback : Node \cup {None}, edge : Node \cup {None},
               failure : Node \cup {None}, fills : SUBSET Slot, quick : BOOLEAN]

ASSUME FlowAssumption ==
    IsFiniteSet(Flow) /\ Start \in [Flow -> Node] /\ Config \in [Node -> NodeConfig]
ASSUME EdgeAssumption ==
    /\ FlowOf \in [Node -> Flow] /\ \A f \in Flow : FlowOf[Start[f]] = f
    /\ \A n \in Node : \A m \in {Config[n].next, Config[n].fallback, Config[n].edge,
                                 Config[n].failure} \ {None} : FlowOf[m] = FlowOf[n]
ASSUME BoundAssumption == {MaxSteps, MaxSessions, MaxPending} \subseteq Nat \ {0}
ASSUME FaultAssumption == Faults \subseteq FaultKind

VARIABLES
    redis,          \* task:session:{org}:{session}, or None
    table,          \* task_sessions rows of the conversation, in created_at order
    pending,        \* persist threads not finished, oldest first
    turn,           \* what each message in progress is doing
    checkpoint,     \* active_task and task_result of the agent state
    started,        \* sessions created so far, which number them
    latest,         \* history: what the runner last wanted each session to be
    diverged,       \* history: sessions whose last update went to the table only
    disturbed,      \* history: sessions with a lost, late, refused or missed write
    overlapped      \* history: two messages were in progress at once

vars == <<redis, table, pending, turn, checkpoint, started,
          latest, diverged, disturbed, overlapped>>
stored == <<redis, table, pending, started, latest, diverged, disturbed>>

Active == {"running", "waiting_user_input"}
Status == Active \cup {"completed", "cancelled", "failed"}
Row == [id : Id, flow : Flow, node : Node, status : Status, slots : SUBSET Slot]

ASSUME NoneAssumption == None \notin Node \cup Flow /\ None \notin Id /\ None \notin Row

\* asked: was_waiting_for_input, as the node that asked for the message, or None.
Idle == [stage |-> "idle", row |-> None, flow |-> None, asked |-> None, steps |-> 0]
NoCheckpoint == [active |-> FALSE, id |-> None, flow |-> None]

Init ==
    /\ redis = None
    /\ table = <<>>
    /\ pending = <<>>
    /\ turn = [q \in Request |-> Idle]
    /\ checkpoint = NoCheckpoint
    /\ started = 0
    /\ latest = [i \in Id |-> None]
    /\ diverged = {}
    /\ disturbed = {}
    /\ overlapped = FALSE

-----------------------------------------------------------------------------
(* TaskRepository *)

StoredActive == {i \in DOMAIN table : table[i].status \in Active}

\* find_active_session: Redis first, the table only when the entry is gone.
Found ==
    IF redis # None THEN IF redis.status \in Active THEN redis ELSE None
    ELSE IF StoredActive = {} THEN None
    ELSE table[CHOOSE i \in StoredActive : \A j \in StoredActive : j <= i]

\* The entry after find_active_session, which puts back the row it found.
Refilled == IF redis = None THEN Found ELSE redis

Enqueue(kind, row) ==
    /\ Len(pending) < MaxPending
    /\ pending' = Append(pending, [kind |-> kind, row |-> row])

\* Variant: the entry is only written when there is none.
CreateSessionIfNone(row) ==
    /\ redis' = IF redis = None THEN row ELSE redis
    /\ Enqueue("insert", row)
    /\ started' = row.id
    /\ latest' = [latest EXCEPT ![row.id] = row]
    /\ UNCHANGED <<table, diverged, disturbed>>

\* create_session
CreateSession(row) ==
    /\ redis' = row
    /\ Enqueue("insert", row)
    /\ started' = row.id
    /\ latest' = [latest EXCEPT ![row.id] = row]
    /\ UNCHANGED <<table, diverged, disturbed>>

\* The sessions that do not get the write meant for session i.
Misdirected(entry, i) ==
    IF entry = None THEN {i} ELSE IF entry.id = i THEN {} ELSE {i, entry.id}

\* update_session with organization_id and session_id: the entry is merged
\* whoever's it is, and left alone when it has expired.
UpdateSession(row) ==
    /\ redis' = IF redis = None THEN None
                ELSE [redis EXCEPT !.node = row.node, !.status = row.status,
                                   !.slots = row.slots]
    /\ Enqueue("update", row)
    /\ latest' = [latest EXCEPT ![row.id] = row]
    /\ diverged' = diverged \ {row.id}
    /\ disturbed' = disturbed \cup Misdirected(redis, row.id)
    /\ UNCHANGED <<table, started>>

\* update_session without them, as the failure paths call it.
UpdateTableOnly(row) ==
    /\ Enqueue("update", row)
    /\ latest' = [latest EXCEPT ![row.id] = row]
    /\ diverged' = diverged \cup {row.id}
    /\ UNCHANGED <<redis, table, started, disturbed>>

-----------------------------------------------------------------------------
(* agent_node *)

Noticed(q) == overlapped' = (overlapped \/ \E p \in Request \ {q} : turn[p].stage # "idle")

Goto(q, stage, flow) ==
    /\ turn' = [turn EXCEPT ![q] = [Idle EXCEPT !.stage = stage, !.flow = flow]]
    /\ Noticed(q)

HasActiveTask == checkpoint.active \/ Found # None

\* build_task_result_meta: the checkpoint's values win over the live session's.
Meta ==
    [id |-> IF checkpoint.id # None THEN checkpoint.id
            ELSE IF Found # None THEN Found.id ELSE None,
     flow |-> IF checkpoint.flow # None THEN checkpoint.flow
              ELSE IF Found # None THEN Found.flow ELSE None]

\* build_ai_handoff_update: a turn of a conversation whose AI is off runs like
\* any other, but the checkpoint keeps nothing of it, nor the last task_result.
Muted == [checkpoint EXCEPT !.id = None, !.flow = None]

\* Such a turn, with a message that is not about a task.
MutedTurn(q) ==
    /\ turn[q].stage = "idle"
    /\ checkpoint' = Muted
    /\ Noticed(q)
    /\ UNCHANGED <<stored, turn>>

\* 3a, 3b and 3d: no active task, and the message asks for one.
RouteStart(q, f) ==
    /\ turn[q].stage = "idle" /\ ~HasActiveTask
    /\ Goto(q, "run", f)
    /\ UNCHANGED <<stored, checkpoint>>

\* 2b: a knowledge question is answered beside the task, which the checkpoint
\* keeps unless there was nothing to answer from.
RouteKnowledge(q) ==
    /\ turn[q].stage = "idle" /\ HasActiveTask
    /\ redis' = Refilled
    /\ checkpoint' \in {[active |-> TRUE, id |-> Meta.id, flow |-> Meta.flow],
                       checkpoint, Muted}
    /\ Noticed(q)
    /\ UNCHANGED <<table, pending, turn, started, latest, diverged, disturbed>>

\* Variant: the cancellation does not name the conversation, so only the row hears of it.
RouteSwitchTableOnly(q, f) ==
    /\ turn[q].stage = "idle" /\ HasActiveTask
    /\ Meta.flow \notin {None, f}
    /\ Enqueue("cancel", [latest[Meta.id] EXCEPT !.status = "cancelled"])
    /\ latest' = [latest EXCEPT ![Meta.id].status = "cancelled"]
    /\ Goto(q, "run", f)
    /\ UNCHANGED <<redis, table, started, diverged, disturbed, checkpoint>>

\* 2b-2: a message for another task cancels the one in Meta.
RouteSwitch(q, f) ==
    /\ turn[q].stage = "idle" /\ HasActiveTask
    /\ Meta.flow \notin {None, f}
    /\ redis' = IF Refilled = None THEN None ELSE [Refilled EXCEPT !.status = "cancelled"]
    /\ Enqueue("cancel", [latest[Meta.id] EXCEPT !.status = "cancelled"])
    /\ latest' = [latest EXCEPT ![Meta.id].status = "cancelled"]
    /\ disturbed' = disturbed \cup Misdirected(Refilled, Meta.id)
    /\ Goto(q, "run", f)
    /\ UNCHANGED <<table, started, diverged, checkpoint>>

\* 2c: any other message continues the task; f is the flow of the task type
\* that execute_run_task falls back to when there is no session after all.
RouteContinue(q, f) ==
    /\ turn[q].stage = "idle" /\ HasActiveTask
    /\ redis' = IF checkpoint.active THEN redis ELSE Refilled
    /\ Goto(q, "run", f)
    /\ UNCHANGED <<table, pending, started, latest, diverged, disturbed, checkpoint>>

-----------------------------------------------------------------------------
(* DynamicTaskRunner *)

Enter(q, row) ==
    turn' = [turn EXCEPT ![q] = [stage |-> "loop", row |-> row, flow |-> row.flow,
                                 asked |-> IF row.status = "waiting_user_input"
                                           THEN row.node ELSE None,
                                 steps |-> 0]]

\* run finds a session, which wins over the flow it was asked for.
RunResume(q) ==
    /\ turn[q].stage = "run" /\ Found # None
    /\ redis' = Refilled
    /\ Enter(q, Found)
    /\ UNCHANGED <<table, pending, started, latest, diverged, disturbed,
                   checkpoint, overlapped>>

\* _start_session, with the initial variables the agent found in the history.
RunStart(q) ==
    /\ turn[q].stage = "run" /\ Found = None
    /\ started < MaxSessions
    /\ \E slots \in SUBSET Slot :
         LET row == [id |-> started + 1, flow |-> turn[q].flow, status |-> "running",
                     node |-> Start[turn[q].flow], slots |-> slots]
         IN CreateSession(row) /\ Enter(q, row)
    /\ UNCHANGED <<checkpoint, overlapped>>

\* The flow is disabled, or there is none for the task type: nothing starts.
RunStartFails(q) ==
    /\ turn[q].stage = "run" /\ Found = None
    /\ turn' = [turn EXCEPT ![q] = Idle]
    /\ UNCHANGED <<stored, checkpoint, overlapped>>

Here(q) == Config[turn[q].row.node]
\* Variant: one step too many.
LoopingOnce(q) == turn[q].stage = "loop" /\ turn[q].steps <= MaxSteps

Looping(q) == turn[q].stage = "loop" /\ turn[q].steps < MaxSteps

\* The task_result that execute_run_task returns becomes the checkpoint.
Respond(q, row) ==
    /\ turn' = [turn EXCEPT ![q] = Idle]
    /\ checkpoint' \in {[active |-> row.status = "waiting_user_input",
                        id |-> row.id, flow |-> turn[q].row.flow], Muted}

MarkFailed(q, row) ==
    LET failed == [row EXCEPT !.status = "failed"]
    IN UpdateTableOnly(failed) /\ Respond(q, failed)

\* _resolve_next_node_key, the edges of select_next_edge last.
NextNode(c, slots) ==
    LET configured == IF c.mode = "branch" /\ ~(c.needs \subseteq slots)
                      THEN c.fallback ELSE c.next
    IN IF configured # None THEN configured ELSE c.edge

\* The branch condition of an instruction node is looked at before the node.
Met(c, slots) == c.needs # {} /\ c.needs \subseteq slots

SkippedAt(c, slots) ==
    c.kind = "instruction" /\ c.mode = "branch" /\ Met(c, slots) /\ c.next # None

Skips(q) == SkippedAt(Here(q), turn[q].row.slots)

SkipNode(q) ==
    /\ Looping(q) /\ Skips(q)
    /\ turn' = [turn EXCEPT ![q].row.node = Here(q).next, ![q].steps = @ + 1]
    /\ UNCHANGED <<stored, checkpoint, overlapped>>

\* _execute_node and the executors: next_behavior and the slots afterwards.
\* instruction_executor completes a node whose branch condition it sees met,
\* but its fast paths may wait before they come to look at it.
Outcome(c, slots, waiting) ==
    LET written == {(slots \ c.fills) \cup s : s \in SUBSET c.fills}
        Results(behaviors, after) == [behavior : behaviors, slots : after]
    IN CASE c.kind = "message" -> Results({"evaluate_edges"}, {slots})
         [] c.kind = "end" -> Results({"complete"}, {slots})
         [] c.kind = "ask" /\ waiting -> Results({"evaluate_edges"}, {slots \cup c.fills})
         [] c.kind = "ask" /\ ~waiting -> Results({"wait_user"}, {slots})
         [] c.kind = "function" ->
              Results({"evaluate_edges"}, written) \cup Results({"fail"}, {slots})
         [] c.kind = "instruction" ->
              Results({"evaluate_edges"}, written) \cup Results({"fail"}, {slots})
                \cup Results({"wait_user"}, {s \in written : c.quick \/ ~Met(c, s)})

\* Variant: a move is not counted as a step.
MoveToUncounted(q, row) ==
    turn' = [turn EXCEPT ![q].row = row, ![q].asked = None]

\* A node of the flow moved to without a word to the user.
MoveTo(q, row) ==
    turn' = [turn EXCEPT ![q].row = row, ![q].steps = @ + 1, ![q].asked = None]

ExecuteNode(q) ==
    /\ Looping(q) /\ ~Skips(q)
    /\ \E o \in Outcome(Here(q), turn[q].row.slots, turn[q].asked # None) :
         LET row == [turn[q].row EXCEPT !.slots = o.slots]
             next == NextNode(Here(q), o.slots)
             moved(n) == [row EXCEPT !.node = n, !.status = "running"]
             Answer(status) ==
                 /\ UpdateSession([row EXCEPT !.status = status])
                 /\ Respond(q, [row EXCEPT !.status = status])
             ends == o.behavior = "evaluate_edges" /\ Here(q).mode = "end"
             goes == o.behavior = "evaluate_edges" /\ Here(q).mode # "end"
         IN \/ o.behavior = "wait_user" /\ Answer("waiting_user_input")
            \/ (o.behavior = "complete" \/ ends) /\ Answer("completed")
            \/ /\ o.behavior = "fail" /\ Here(q).failure # None
               /\ UpdateTableOnly(moved(Here(q).failure))
               /\ MoveTo(q, moved(Here(q).failure)) /\ UNCHANGED checkpoint
            \/ /\ \/ o.behavior = "fail" /\ Here(q).failure = None
                  \/ goes /\ next = None
               /\ MarkFailed(q, row)
            \/ /\ goes /\ next # None
               /\ UpdateSession(moved(next))
               /\ MoveTo(q, moved(next)) /\ UNCHANGED checkpoint
    /\ UNCHANGED overlapped

MaxStepsExceeded(q) ==
    /\ turn[q].stage = "loop" /\ turn[q].steps = MaxSteps
    /\ MarkFailed(q, turn[q].row)
    /\ UNCHANGED overlapped

-----------------------------------------------------------------------------
(* The _persist threads, the time to live of the entry, and the process *)

\* unique(organization_id, session_id, flow_id) refuses a second row of a flow.
Refused(op) == op.kind = "insert" /\ \E i \in DOMAIN table : table[i].flow = op.row.flow

\* Variant: the update leaves variables out.
PersistedWithoutSlots(op) ==
    IF op.kind = "insert" THEN IF Refused(op) THEN table ELSE Append(table, op.row)
    ELSE [i \in DOMAIN table |->
            IF table[i].id = op.row.id
            THEN [table[i] EXCEPT !.node = op.row.node, !.status = op.row.status]
            ELSE table[i]]

Persisted(op) ==
    CASE op.kind = "insert" -> IF Refused(op) THEN table ELSE Append(table, op.row)
      [] op.kind = "update" ->
           [i \in DOMAIN table |->
              IF table[i].id = op.row.id
              THEN [op.row EXCEPT !.flow = table[i].flow] ELSE table[i]]
      [] op.kind = "cancel" ->
           [i \in DOMAIN table |->
              IF table[i].id = op.row.id
              THEN [table[i] EXCEPT !.status = "cancelled"] ELSE table[i]]

Without(i) == [j \in 1..(Len(pending) - 1) |-> IF j < i THEN pending[j] ELSE pending[j + 1]]

Overtakes(i) == \E j \in 1..(i - 1) : pending[j].row.id = pending[i].row.id

Persist(i) ==
    /\ i \in DOMAIN pending
    /\ "reorder" \in Faults \/ ~Overtakes(i)
    /\ table' = Persisted(pending[i])
    /\ pending' = Without(i)
    /\ disturbed' = IF Overtakes(i) \/ Refused(pending[i])
                    THEN disturbed \cup {pending[i].row.id} ELSE disturbed
    /\ UNCHANGED <<redis, turn, checkpoint, started, latest, diverged, overlapped>>

\* except Exception: pass
PersistFails(i) ==
    /\ i \in DOMAIN pending /\ "lose" \in Faults
    /\ pending' = Without(i)
    /\ disturbed' = disturbed \cup {pending[i].row.id}
    /\ UNCHANGED <<redis, table, turn, checkpoint, started, latest, diverged, overlapped>>

\* 30 minutes after the last write, when its thread has long finished.
Expire ==
    /\ "expire" \in Faults /\ redis # None /\ pending = <<>>
    /\ redis' = None
    /\ UNCHANGED <<table, pending, turn, checkpoint, started, latest, diverged,
                   disturbed, overlapped>>

\* The server restarts: turns and daemon threads are gone, Redis is not.
Restart ==
    /\ "restart" \in Faults
    /\ \/ pending # <<>>
       \/ \E q \in Request : turn[q].stage # "idle"
    /\ turn' = [q \in Request |-> Idle]
    /\ pending' = <<>>
    /\ disturbed' = disturbed \cup {pending[i].row.id : i \in DOMAIN pending}
    /\ UNCHANGED <<redis, table, checkpoint, started, latest, diverged, overlapped>>

-----------------------------------------------------------------------------
RunnerStep(q) == SkipNode(q) \/ ExecuteNode(q) \/ MaxStepsExceeded(q)

TurnStep(q) ==
    \/ \E f \in Flow : RouteStart(q, f) \/ RouteSwitch(q, f) \/ RouteContinue(q, f)
    \/ RouteKnowledge(q) \/ MutedTurn(q)
    \/ RunResume(q) \/ RunStart(q) \/ RunStartFails(q) \/ RunnerStep(q)

OutsideStep ==
    \/ \E i \in 1..MaxPending : Persist(i) \/ PersistFails(i)
    \/ Expire
    \/ Restart

Next == (\E q \in Request : TurnStep(q)) \/ OutsideStep

Spec == Init /\ [][Next]_vars

-----------------------------------------------------------------------------
(* Properties *)

\* Every variable stays in its range; the entry, the rows and the checkpoint
\* only speak of sessions that were started.
TypeOK ==
    /\ redis \in Row \cup {None}
    /\ started \in 0..MaxSessions
    /\ table \in Seq(Row) /\ Len(table) <= Cardinality(Flow)
    /\ \A i \in DOMAIN pending :
         pending[i].kind \in {"insert", "update", "cancel"} /\ pending[i].row \in Row
    /\ Len(pending) <= MaxPending
    /\ \A q \in Request :
         /\ turn[q].stage \in {"idle", "run", "loop"}
         /\ turn[q].stage = "run" => turn[q].flow \in Flow
         /\ turn[q].stage = "loop" => turn[q].row \in Row /\ turn[q].row.id <= started
         /\ turn[q].steps \in 0..MaxSteps
    /\ checkpoint.id \in {None} \cup 1..started
    /\ \A i \in Id : latest[i] \in Row \cup {None} /\ (latest[i] # None <=> i <= started)
    /\ diverged \subseteq 1..started /\ disturbed \subseteq 1..started

AllIdle == \A q \in Request : turn[q].stage = "idle"

\* A message is taken as an answer only at the node that asked for it.  The skip
\* of an instruction node does not clear was_waiting_for_input, so the answer
\* would go to a later question; but it is not taken at the node a session
\* waits at, whose executor checks the branch condition before it waits.  The
\* exception is a node of the fast paths, which may wait with it met.
InputOnlyAtWaitingNode ==
    \A q \in Request : turn[q].stage = "loop" /\ turn[q].asked # None =>
        LET c == Config[turn[q].asked] IN
          \/ turn[q].row.node = turn[q].asked /\ turn[q].steps = 0 /\ ~Skips(q)
          \/ c.quick /\ SkippedAt(c, turn[q].row.slots)

\* In a conversation that handles one message at a time the entry points at a
\* node of its own flow, and an answer meets the node that waits for it (the
\* nodes of the fast paths excepted, which may lose it to a later one).  Two
\* messages at once can write the node of one session into the entry of
\* another, because update_session merges by key.
WalksItsFlow ==
    ~overlapped =>
        /\ redis # None => FlowOf[redis.node] = redis.flow
        /\ InputOnlyAtWaitingNode

\* A message goes on exactly where the session was left - node, slots and
\* whether it waits - and never into a completed or cancelled one, unless one
\* of its writes was lost, late, refused or missed, or was kept from Redis.
ResumesWhereItLeft ==
    [][\A q \in Request : RunResume(q) =>
         LET left == latest[Found.id] IN
           \/ Found.id \in disturbed
           \/ /\ left.status \notin {"completed", "cancelled"}
              /\ Found.id \in diverged \/ Found = left]_vars

\* Once the persist threads are done the row of the current session says what
\* its entry says, apart from the same exceptions.
StoredWhenQuiet ==
    pending = <<>> /\ redis # None /\ redis.id \notin disturbed \cup diverged =>
        \E i \in DOMAIN table : table[i] = redis

\* docs/task.md:949: without a failure edge a task ends as failed, so no later
\* message finds it active.  _mark_failed leaves the entry active.
FailedNeverResumed ==
    [][\A q \in Request : RunResume(q) => latest[Found.id].status # "failed"]_vars
=============================================================================
