--------------------------- MODULE MCTaskSessions ---------------------------
(***************************************************************************)
(* Instances of TaskSessions, and of the flows that the tasks walk: how    *)
(* they are edited, generated and cached (FlowCaches) and how their        *)
(* conditions are evaluated (EdgeConditions).                              *)
(* The tasks walk two small flows with the shape of reservation_create.json*)
(* and reservation_lookup.json: an instruction of the fast paths and one   *)
(* that waits by itself, both of which may be skipped, a question, a       *)
(* function with a failure edge and one without, and a cycle.              *)
(***************************************************************************)
EXTENDS TaskSessions, FlowCaches, EdgeConditions

MCFlow == {"create", "lookup"}
MCNode == {"service", "people", "ask", "book", "sorry", "find"}
MCFlowOf == [n \in MCNode |-> IF n = "find" THEN "lookup" ELSE "create"]
MCStart == [create |-> "service", lookup |-> "find"]

Plain(kind, next) ==
    [kind |-> kind, mode |-> "single", needs |-> {}, next |-> next, fallback |-> None,
     edge |-> None, failure |-> None, fills |-> {}, quick |-> FALSE]

MCConfig ==
    [service |-> [Plain("instruction", "ask") EXCEPT !.mode = "branch", !.needs = {"count"},
                     !.fallback = "people", !.fills = {"count"}, !.quick = TRUE],
     people |-> [Plain("instruction", "ask") EXCEPT !.mode = "branch", !.needs = {"count"},
                    !.fallback = "people", !.fills = {"count"}],
     ask    |-> Plain("ask", "book"),
     book   |-> [Plain("function", None) EXCEPT !.mode = "end", !.failure = "sorry"],
     sorry  |-> Plain("function", "people"),
     find   |-> Plain("end", None)]

-----------------------------------------------------------------------------
(* Conditions: two connected units, bare or in parentheses, three          *)
(* comparisons, and a comparison beside a nested pair.                     *)

Leaves == {Leaf(v) : v \in Comparison}
Groups(E) == {Group(e) : e \in E}
Pairs(E, U) == {Join(e, op, u) : e \in E, op \in Connective, u \in U}

Unit == UNION {Leaves, Groups(Leaves), Groups(Pairs(Leaves, Leaves))}
Nested == UNION {Groups(Unit), Groups(Pairs(Unit, Unit))}
Triples == {Join(e, e.op, u) : e \in Pairs(Leaves, Leaves), u \in Leaves}

MCExpression ==
    UNION {Unit, Nested, Pairs(Unit, Unit), Triples, Groups(Triples),
           Pairs(Leaves, Nested), Pairs(Nested, Leaves)}

-----------------------------------------------------------------------------
(* What may happen in a behaviour is chosen at its start.  "faults": one   *)
(* message at a time, one session, every fault.  "switch": two sessions,   *)
(* the entry may expire, and the AI of the conversation may be switched    *)
(* off at any time.  "overlap": two messages at a time, at most one        *)
(* persist thread, no fault, every slot filled when a session starts.      *)
(* "condition": one expression.  A cache of flows: the editor's requests   *)
(* next to a turn that looks there.  "generate": generations next to each  *)
(* other; "overwrite": one after the other.                                *)
CONSTANT Scenarios

VARIABLE scenario

mcVars == <<vars, flowVars, conditionVars, scenario>>

TaskScenario == {"faults", "switch", "overlap"}
FlowScenario == Kind \cup Key \cup {"generate", "overwrite"}

First == CHOOSE q \in Request : TRUE

InOrder == \E i \in DOMAIN pending : ~Overtakes(i) /\ Persist(i)

MCInit ==
    /\ Init /\ FlowInit
    /\ scenario \in Scenarios
    /\ ConditionInit
    /\ scenario # "condition" => expression = Leaf("T")

\* The AI is not switched off after a turn that it answered.
Unmuted == checkpoint.id # None => checkpoint'.id # None

Tasks ==
    \/ scenario = "faults" /\ (TurnStep(First) \/ OutsideStep) /\ started' <= 1 /\ Unmuted
    \/ /\ scenario = "switch"
       /\ TurnStep(First) \/ InOrder \/ Expire
       /\ started' > started => started = 0 \/ latest'[started'].slots = Slot
    \/ /\ scenario = "overlap"
       /\ (\E q \in Request : TurnStep(q)) \/ InOrder
       /\ Len(pending') <= 1
       /\ Unmuted /\ \A q \in Request : turn[q].stage = "loop" /\ turn'[q].stage = "idle"
                                           => checkpoint'.id # None
       /\ started' > started => latest'[started'].slots = Slot

\* Bounds on the edits of a scenario.
EditsOf == [s \in FlowScenario |->
              IF s \in Kind THEN 3 ELSE IF s = "overwrite" THEN MaxEdits ELSE 4]

Flows ==
    /\ \/ /\ scenario \in Kind
          /\ RouteStep(1, scenario) \/ \E e \in Editor : FlowStep(e)
          /\ scenario = "list" => flows'[2] = NoFlow
          /\ \A f \in FlowId : flows[f] = NoFlow => flows'[f] = NoFlow \/ flows'[f].on
       \/ /\ scenario \in Key
          /\ \/ MetaStep(1, scenario)
             \/ \E e \in Editor : (e = 1 \/ scenario = "node") /\ NodeStep(e)
             \/ FlowStep(1) /\ ~flows'[1].named
          /\ flows'[2] = NoFlow /\ (flows'[1].made = "hand" => flows'[1].on)
          /\ scenario # "edges" => flows'[1].edges = 0
       \/ /\ scenario = "generate"
          /\ \/ RouteStep(1, "intent")
             \/ \E e \in Editor : GenerateStep(e) /\ editor'[e].doing # "dropEdges"
       \/ /\ scenario = "overwrite"
          /\ RouteStep(1, "intent") \/ GenerateStep(1)
          /\ editor'[1] # NoEdit /\ editor[1] = NoEdit => editor'[1].on
       \/ Pass
    /\ edits' <= EditsOf[scenario]

Conditions ==
    \/ EvaluateCondition
    \/ verdict # "none" /\ UNCHANGED conditionVars

MCNext ==
    /\ \/ scenario \in TaskScenario /\ Tasks /\ UNCHANGED <<flowVars, conditionVars>>
       \/ scenario \in FlowScenario /\ Flows /\ UNCHANGED <<vars, conditionVars>>
       \/ scenario = "condition" /\ Conditions /\ UNCHANGED <<vars, flowVars>>
    /\ UNCHANGED scenario

\* A turn that walks a flow goes on by itself, and so do the persist threads.
GoesOn(A) ==
    scenario \in {"faults", "switch"} /\ A /\ UNCHANGED <<flowVars, conditionVars, scenario>>

MCSpec == MCInit /\ [][MCNext]_mcVars
MCFairSpec ==
    /\ MCSpec
    /\ WF_mcVars(GoesOn(RunnerStep(First)))
    /\ WF_mcVars(GoesOn(\E i \in DOMAIN pending : Persist(i)))

\* The modules keep their types.
TypesOK == TypeOK /\ FlowTypeOK

\* A turn ends, whatever cycle the nodes of its flow form and whatever fault
\* meets it: max_steps bounds the walk of DynamicTaskRunner.run.
TurnsEnd ==
    scenario # "overlap" /\ turn[First].stage = "loop" ~> turn[First].stage = "idle"
=============================================================================
