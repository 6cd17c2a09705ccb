------------------------------ MODULE FlowCaches ------------------------------
(***************************************************************************)
(* The flows of an organization with one trigger intent: what the editor   *)
(* and the generator write (app/api/task_flows.py, flow_generator.py) and  *)
(* what the turns of conversations read through the caches of              *)
(* app/tasks/repository.py, in the process and in Redis.                   *)
(* Requests run in threads; every request on a table or on Redis is a      *)
(* step.  A flow is reduced to its switch, its start node and the edges    *)
(* that leave it; the versions of node and edges count the edits.          *)
(***************************************************************************)
EXTENDS Integers, FiniteSets

CONSTANTS
    FlowId,         \* 1 .. n, in the order of created_at
    Editor,         \* requests of the editor handled at the same time
    Reader,         \* turns that look up flows at the same time
    RouteTTL,       \* _ENABLED_FLOW_CACHE_TTL_SECONDS, in ticks
    MetaTTL,        \* _FLOW_META_TTL, in ticks
    MaxEdits        \* bound: rows written

ASSUME FlowIdAssumption == FlowId \subseteq Nat \ {0}
ASSUME TTLAssumption == RouteTTL \in Nat \ {0} /\ MetaTTL \in Nat \ {0}
ASSUME EditAssumption == MaxEdits \in Nat
ASSUME EditorAssumption == IsFiniteSet(Editor)

VARIABLES
    flows,          \* rows of task_flows, task_nodes and task_edges
    edits,          \* how many rows were written
    routes,         \* _enabled_flow_cache and _enabled_flows_list_cache
    meta,           \* task:flow, task:start_node, task:node and task:edges in Redis
    reader,         \* what each turn is looking up
    editor,         \* what each request of the editor is doing
    disabled,       \* history: ticks since a flow was last enabled
    changed,        \* history: ticks since a row was last changed
    announced       \* history: the last version of a node whose update returned

flowVars == <<flows, edits, routes, meta, reader, editor, disabled, changed, announced>>

\* The lookups that are cached in the process: by intent, and all of them.
Kind == {"intent", "list"}
\* What is cached in Redis.  The start node is cached under two keys.
Key == {"flow", "start", "node", "edges"}
Table == {"flow", "node", "edges"}
TableOf == [flow |-> "flow", start |-> "node", node |-> "node", edges |-> "edges"]

Never == MetaTTL + RouteTTL           \* the largest age
Aged(n) == IF n < Never THEN n + 1 ELSE n

NoFlow == [made |-> "absent", on |-> FALSE, named |-> FALSE, node |-> 0, edges |-> 0]
NoLookup == [doing |-> "none", kind |-> "list", flow |-> 0, key |-> "flow",
             found |-> {}, seen |-> 0, age |-> 0, doubt |-> FALSE]
NoEdit == [doing |-> "none", flow |-> 0, on |-> FALSE, wrote |-> 0, keys |-> {}]
NoEntry == [flows |-> {}, age |-> RouteTTL, doubt |-> FALSE]
NotCached == [seen |-> 0, age |-> MetaTTL, lag |-> 0, doubt |-> FALSE]

FlowInit ==
    /\ flows = [f \in FlowId |-> NoFlow]
    /\ edits = 0
    /\ routes = [k \in Kind |-> NoEntry]
    /\ meta = [f \in FlowId |-> [k \in Key |-> NotCached]]
    /\ reader = [t \in Reader |-> NoLookup]
    /\ editor = [e \in Editor |-> NoEdit]
    /\ disabled = [f \in FlowId |-> RouteTTL]
    /\ changed = [f \in FlowId |-> [k \in Table |-> Never]]
    /\ announced = [f \in FlowId |-> 0]

InUse(f) == flows[f].made \in {"hand", "template"}
Enabled == {f \in FlowId : InUse(f) /\ flows[f].on}
Newest(F) == {f \in F : \A g \in F : g <= f}

\* The value of a row as a version; 0 when there is none.
Value(f, k) == CASE TableOf[k] = "flow" -> IF InUse(f) THEN 1 ELSE 0
                 [] TableOf[k] = "node" -> flows[f].node
                 [] TableOf[k] = "edges" -> flows[f].edges

-----------------------------------------------------------------------------
(* The caches in the process *)

Fresh(k) == routes[k].age < RouteTTL

\* The variables of the editor's side, which a lookup leaves alone, and the
\* histories.
Rows == <<flows, edits, disabled, changed, announced>>

\* A hit answers at once.
RouteHit(t, k) ==
    /\ reader[t] = NoLookup /\ Fresh(k)
    /\ UNCHANGED flowVars

\* now is taken before the request.
RouteMiss(t, k) ==
    /\ reader[t] = NoLookup /\ ~Fresh(k)
    /\ reader' = [reader EXCEPT ![t] = [NoLookup EXCEPT !.doing = "find", !.kind = k]]
    /\ UNCHANGED <<Rows, routes, meta, editor>>

Finds(t, F) == reader' = [reader EXCEPT ![t].doing = "remember", ![t].found = F]

\* The newest enabled flow with the intent, and with the name of the demo flow
\* if there is none; or all that are enabled.
RouteRead(t) ==
    /\ \/ /\ reader[t].doing = "find"
          /\ LET F == {f \in Enabled : ~flows[f].named} IN
               IF reader[t].kind = "list" THEN Finds(t, Enabled)
               ELSE IF F # {} THEN Finds(t, Newest(F))
               ELSE reader' = [reader EXCEPT ![t].doing = "findNamed"]
       \/ /\ reader[t].doing = "findNamed"
          /\ Finds(t, Newest({f \in Enabled : flows[f].named}))
    /\ UNCHANGED <<Rows, routes, meta, editor>>

\* Variant: the age of the entry counts from here.
RouteRememberNow(t) ==
    /\ reader[t].doing = "remember"
    /\ routes' = [routes EXCEPT ![reader[t].kind] =
                    [flows |-> reader[t].found, age |-> 0, doubt |-> reader[t].doubt]]
    /\ reader' = [reader EXCEPT ![t] = NoLookup]
    /\ UNCHANGED <<Rows, meta, editor>>

RouteRemember(t) ==
    /\ reader[t].doing = "remember"
    /\ routes' = [routes EXCEPT ![reader[t].kind] =
                    [flows |-> reader[t].found, doubt |-> reader[t].doubt,
                     age |-> IF reader[t].age < RouteTTL THEN reader[t].age ELSE RouteTTL]]
    /\ reader' = [reader EXCEPT ![t] = NoLookup]
    /\ UNCHANGED <<Rows, meta, editor>>

\* Whoever looked before and remembers afterwards undoes it.
Doubted(stages) ==
    [t \in Reader |-> IF reader[t].doing \in stages THEN [reader[t] EXCEPT !.doubt = TRUE]
                      ELSE reader[t]]

\* Variant: only what was found by intent is forgotten.
ForgetRoutesByIntent ==
    /\ routes' = [routes EXCEPT !["intent"] = NoEntry]
    /\ reader' = Doubted({"findNamed", "remember"})

\* invalidate_enabled_flow_cache
ForgetRoutes ==
    /\ routes' = [k \in Kind |-> NoEntry]
    /\ reader' = Doubted({"findNamed", "remember"})

-----------------------------------------------------------------------------
(* The caches in Redis *)

Cached(f, k) == meta[f][k].age < MetaTTL

MetaHit(t, f, k) ==
    /\ reader[t] = NoLookup /\ Cached(f, k)
    /\ UNCHANGED flowVars

MetaMiss(t, f, k) ==
    /\ reader[t] = NoLookup /\ ~Cached(f, k)
    /\ reader' = [reader EXCEPT ![t] = [NoLookup EXCEPT !.doing = "get", !.flow = f, !.key = k]]
    /\ UNCHANGED <<Rows, routes, meta, editor>>

\* A flow or a node that is missing is not cached, an empty list of edges is.
MetaRead(t) ==
    LET v == Value(reader[t].flow, reader[t].key)
    IN /\ reader[t].doing = "get"
       /\ reader' = [reader EXCEPT ![t] =
                       IF v = 0 /\ reader[t].key # "edges" THEN NoLookup
                       ELSE [@ EXCEPT !.doing = "set", !.seen = v, !.age = 0]]
       /\ UNCHANGED <<Rows, routes, meta, editor>>

\* setex: the age counts from here.
MetaSet(t) ==
    /\ reader[t].doing = "set"
    /\ meta' = [meta EXCEPT ![reader[t].flow][reader[t].key] =
                  [seen |-> reader[t].seen, age |-> 0, lag |-> reader[t].age,
                   doubt |-> reader[t].doubt]]
    /\ reader' = [reader EXCEPT ![t] = NoLookup]
    /\ UNCHANGED <<Rows, routes, editor>>

\* The keys that the pattern task:*:{flow}:* finds: the keys of the flow and of
\* its start node end with the flow.
Matched(f) == {k \in {"node", "edges"} : Cached(f, k)}

-----------------------------------------------------------------------------
(* The editor *)

Edits(e, what, f, on) ==
    editor' = [editor EXCEPT ![e] = [NoEdit EXCEPT !.doing = what, !.flow = f, !.on = on]]
Returns(e) == editor' = [editor EXCEPT ![e] = NoEdit]
Free(e) == editor[e] = NoEdit
Is(e, what) == editor[e].doing = what

\* A row of table b of flow f gets the value r; one of task_flows may switch f.
Writes(f, r, b) ==
    /\ edits < MaxEdits /\ edits' = edits + 1
    /\ flows' = [flows EXCEPT ![f] = r]
    /\ changed' = [changed EXCEPT ![f][b] = 0]
    /\ disabled' = [disabled EXCEPT ![f] = IF f \in Enabled THEN 0 ELSE @]

NextFlow(f) == flows[f] = NoFlow /\ \A g \in FlowId : g < f => flows[g] # NoFlow

CreateTaskFlow(e, f, on, named) ==
    /\ Free(e) /\ NextFlow(f)
    /\ Writes(f, [NoFlow EXCEPT !.made = "hand", !.on = on, !.named = named], "flow")
    /\ Edits(e, "forgetRoutes", f, on)
    /\ UNCHANGED <<routes, meta, reader, announced>>

UpdateTaskFlow(e, f, on) ==
    /\ Free(e) /\ InUse(f)
    /\ Writes(f, [flows[f] EXCEPT !.on = on], "flow")
    /\ Edits(e, "forgetRoutes", f, on)
    /\ UNCHANGED <<routes, meta, reader, announced>>

\* The requests that look for a row first, and answer 404 when it is missing.
Checks(e, what, f) ==
    /\ Free(e) /\ InUse(f)
    /\ what \in {"updateNode", "deleteNode", "createEdge"} => flows[f].node > 0
    /\ what = "editEdge" => flows[f].edges > 0
    /\ Edits(e, what, f, FALSE)
    /\ UNCHANGED <<Rows, routes, meta, reader>>

\* The rows of its nodes and edges are deleted with it.
Removes(f) ==
    /\ edits < MaxEdits /\ edits' = edits + 1
    /\ flows' = [flows EXCEPT ![f] = [NoFlow EXCEPT !.made = "deleted"]]
    /\ changed' = [changed EXCEPT ![f] = [b \in Table |-> 0]]
    /\ disabled' = [disabled EXCEPT ![f] = IF f \in Enabled THEN 0 ELSE @]

DeleteTaskFlow(e) ==
    LET f == editor[e].flow
    IN /\ Is(e, "deleteFlow")
       /\ IF InUse(f) THEN Removes(f) ELSE UNCHANGED <<flows, edits, changed, disabled>>
       /\ Edits(e, "forgetRoutes", f, FALSE)
       /\ UNCHANGED <<routes, meta, reader, announced>>

InvalidateFlows(e) ==
    /\ Is(e, "forgetRoutes")
    /\ ForgetRoutes /\ Returns(e)
    /\ UNCHANGED <<Rows, meta>>

UpdateTaskNode(e) ==
    LET f == editor[e].flow
    IN /\ Is(e, "updateNode")
       /\ IF flows[f].node > 0
          THEN /\ Writes(f, [flows[f] EXCEPT !.node = edits + 1], "node")
               /\ editor' = [editor EXCEPT ![e].doing = "findKeys", ![e].wrote = edits + 1]
          ELSE Returns(e) /\ UNCHANGED <<flows, edits, changed, disabled>>    \* 404
       /\ UNCHANGED <<routes, meta, reader, announced>>

\* invalidate_flow_meta_cache: redis_client.keys ...
FindKeys(e) ==
    LET f == editor[e].flow
    IN /\ Is(e, "findKeys")
       /\ editor' = [editor EXCEPT ![e].doing = "deleteKeys", ![e].keys = Matched(f)]
       /\ reader' = Doubted({"set"})
       /\ UNCHANGED <<Rows, routes, meta>>

\* ... and redis_client.delete, after which the update returns.
DeleteKeys(e) ==
    LET f == editor[e].flow
    IN /\ Is(e, "deleteKeys")
       /\ meta' = [meta EXCEPT ![f] = [k \in Key |-> IF k \in editor[e].keys THEN NotCached
                                                     ELSE @[k]]]
       /\ announced' = [announced EXCEPT ![f] = IF editor[e].wrote > @ THEN editor[e].wrote ELSE @]
       /\ Returns(e)
       /\ UNCHANGED <<flows, edits, disabled, changed, routes, reader>>

\* Nothing below forgets what is cached.  unique(flow_id, node_key) refuses a
\* second node; the flow may be gone by now.
CreateTaskNode(e) ==
    LET f == editor[e].flow
    IN /\ Is(e, "createNode")
       /\ IF InUse(f) /\ flows[f].node = 0
          THEN Writes(f, [flows[f] EXCEPT !.node = edits + 1], "node")
          ELSE UNCHANGED <<flows, edits, changed, disabled>>
       /\ Returns(e)
       /\ UNCHANGED <<routes, meta, reader, announced>>

\* The edges of the node stay.
DeleteTaskNode(e) ==
    LET f == editor[e].flow
    IN /\ Is(e, "deleteNode")
       /\ IF flows[f].node > 0 THEN Writes(f, [flows[f] EXCEPT !.node = 0], "node")
          ELSE UNCHANGED <<flows, edits, changed, disabled>>
       /\ Returns(e)
       /\ UNCHANGED <<routes, meta, reader, announced>>

CreateTaskEdge(e) ==
    LET f == editor[e].flow
    IN /\ Is(e, "createEdge")
       /\ IF InUse(f) THEN Writes(f, [flows[f] EXCEPT !.edges = edits + 1], "edges")
          ELSE UNCHANGED <<flows, edits, changed, disabled>>
       /\ Returns(e)
       /\ UNCHANGED <<routes, meta, reader, announced>>

\* update_task_edge, and delete_task_edge of one of several or of the last.
EditTaskEdge(e) ==
    LET f == editor[e].flow
    IN /\ Is(e, "editEdge")
       /\ \/ /\ flows[f].edges > 0
             /\ \E v \in {0, edits + 1} : Writes(f, [flows[f] EXCEPT !.edges = v], "edges")
          \/ flows[f].edges = 0 /\ UNCHANGED <<flows, edits, changed, disabled>>
       /\ Returns(e)
       /\ UNCHANGED <<routes, meta, reader, announced>>

-----------------------------------------------------------------------------
(* generate_task_flow_from_template *)

\* _find_existing_flow, enabled or not, and one of them when there are several.
WithIntent == {f \in FlowId : InUse(f) /\ ~flows[f].named}

\* Variant: only what is enabled counts as existing.
GenerateFindsEnabled(e, overwrite, on) ==
    /\ Free(e)
    /\ \/ Enabled = {} /\ Edits(e, "insertFlow", 0, on)
       \/ \E f \in WithIntent : f \in Enabled /\ overwrite /\ Edits(e, "dropEdges", f, on)
    /\ UNCHANGED <<Rows, routes, meta, reader>>

\* Skipped when there is a flow and it shall not be overwritten.
GenerateBegin(e, overwrite, on) ==
    /\ Free(e)
    /\ \/ WithIntent = {} /\ Edits(e, "insertFlow", 0, on)
       \/ \E f \in WithIntent : overwrite /\ Edits(e, "dropEdges", f, on)
    /\ UNCHANGED <<Rows, routes, meta, reader>>

\* _delete_flow: edges, nodes, flow.
DropStep(e) ==
    LET f == editor[e].flow
    IN /\ \/ /\ Is(e, "dropEdges")
             /\ Writes(f, [flows[f] EXCEPT !.edges = 0], "edges")
             /\ Edits(e, "dropNodes", f, editor[e].on)
          \/ /\ Is(e, "dropNodes")
             /\ Writes(f, [flows[f] EXCEPT !.node = 0], "node")
             /\ Edits(e, "dropFlow", f, editor[e].on)
          \/ /\ Is(e, "dropFlow")
             /\ IF InUse(f) THEN Removes(f) ELSE UNCHANGED <<flows, edits, changed, disabled>>
             /\ Edits(e, "insertFlow", 0, editor[e].on)
       /\ UNCHANGED <<routes, meta, reader, announced>>

GenerateFlow(e, f) ==
    /\ Is(e, "insertFlow") /\ NextFlow(f)
    /\ Writes(f, [NoFlow EXCEPT !.made = "template", !.on = editor[e].on], "flow")
    /\ Edits(e, "insertNodes", f, editor[e].on)
    /\ UNCHANGED <<routes, meta, reader, announced>>

\* The nodes, then the edges.
GenerateRest(e) ==
    LET f == editor[e].flow
    IN /\ \/ /\ Is(e, "insertNodes") /\ InUse(f) /\ flows[f].node = 0
             /\ Writes(f, [flows[f] EXCEPT !.node = edits + 1], "node")
             /\ Edits(e, "insertEdges", f, editor[e].on)
          \/ /\ Is(e, "insertEdges") /\ InUse(f)
             /\ Writes(f, [flows[f] EXCEPT !.edges = edits + 1], "edges")
             /\ Edits(e, "forgetRoutes", f, editor[e].on)
       /\ UNCHANGED <<routes, meta, reader, announced>>

\* A request raises: what was written stays, and no cache forgets it.
GenerateFails(e) ==
    /\ editor[e].doing \in {"dropEdges", "dropNodes", "dropFlow", "insertFlow",
                            "insertNodes", "insertEdges"}
    /\ routes' = [k \in Kind |-> [routes[k] EXCEPT !.doubt = TRUE]]
    /\ reader' = Doubted({"findNamed", "remember"})
    /\ Returns(e)
    /\ UNCHANGED <<Rows, meta>>

-----------------------------------------------------------------------------
Pass ==
    /\ routes' = [k \in Kind |-> IF Fresh(k) THEN [routes[k] EXCEPT !.age = @ + 1] ELSE NoEntry]
    /\ meta' = [f \in FlowId |-> [k \in Key |->
                  IF meta[f][k].age + 1 < MetaTTL THEN [meta[f][k] EXCEPT !.age = @ + 1]
                  ELSE NotCached]]
    /\ reader' = [t \in Reader |-> IF reader[t] = NoLookup THEN NoLookup
                                   ELSE [reader[t] EXCEPT !.age = Aged(@)]]
    /\ disabled' = [f \in FlowId |-> IF f \in Enabled THEN 0
                                     ELSE IF disabled[f] < RouteTTL THEN disabled[f] + 1
                                     ELSE RouteTTL]
    /\ changed' = [f \in FlowId |-> [b \in Table |-> Aged(changed[f][b])]]
    /\ UNCHANGED <<flows, edits, editor, announced>>

RouteStep(t, k) == RouteHit(t, k) \/ RouteMiss(t, k) \/ RouteRead(t) \/ RouteRemember(t)

MetaStep(t, k) ==
    \/ \E f \in FlowId : MetaHit(t, f, k) \/ MetaMiss(t, f, k)
    \/ MetaRead(t) \/ MetaSet(t)

FlowStep(e) ==
    \/ \E f \in FlowId, on, named \in BOOLEAN : CreateTaskFlow(e, f, on, named)
    \/ \E f \in FlowId, on \in BOOLEAN : UpdateTaskFlow(e, f, on)
    \/ \E f \in FlowId : Checks(e, "deleteFlow", f)
    \/ DeleteTaskFlow(e) \/ InvalidateFlows(e)

NodeStep(e) ==
    \/ \E f \in FlowId, what \in {"updateNode", "createNode", "deleteNode", "createEdge", "editEdge"} :
         Checks(e, what, f)
    \/ UpdateTaskNode(e) \/ FindKeys(e) \/ DeleteKeys(e)
    \/ CreateTaskNode(e) \/ DeleteTaskNode(e) \/ CreateTaskEdge(e) \/ EditTaskEdge(e)

GenerateStep(e) ==
    \/ \E overwrite, on \in BOOLEAN : GenerateBegin(e, overwrite, on)
    \/ DropStep(e) \/ GenerateRest(e) \/ GenerateFails(e)
    \/ \E f \in FlowId : GenerateFlow(e, f)

FlowNext ==
    \/ \E t \in Reader : \/ \E k \in Kind : RouteStep(t, k)
                         \/ \E k \in Key : MetaStep(t, k)
    \/ \E e \in Editor : FlowStep(e) \/ NodeStep(e) \/ GenerateStep(e)
    \/ Pass

FlowSpec == FlowInit /\ [][FlowNext]_flowVars

-----------------------------------------------------------------------------
(* Properties *)

FlowRow == [made : {"absent", "hand", "template", "deleted"}, on : BOOLEAN, named : BOOLEAN,
            node : 0 .. MaxEdits, edges : 0 .. MaxEdits]

FlowTypeOK ==
    /\ flows \in [FlowId -> FlowRow] /\ edits \in 0 .. MaxEdits
    /\ routes \in [Kind -> [flows : SUBSET FlowId, age : 0 .. RouteTTL, doubt : BOOLEAN]]
    /\ meta \in [FlowId -> [Key -> [seen : 0 .. MaxEdits + 1, age : 0 .. MetaTTL, lag : 0 .. Never,
                                  doubt : BOOLEAN]]]
    /\ reader \in [Reader -> [doing : {"none", "find", "findNamed", "remember", "get", "set"},
                              kind : Kind, flow : FlowId \cup {0}, key : Key, found : SUBSET FlowId,
                              seen : 0 .. MaxEdits + 1, age : 0 .. Never, doubt : BOOLEAN]]
    /\ DOMAIN editor = Editor
    /\ announced \in [FlowId -> 0 .. MaxEdits]

\* A call is routed to a flow that was enabled less than the time to live ago.
RoutedWasEnabled ==
    \A k \in Kind : Fresh(k) => \A f \in routes[k].flows : f \in Enabled \/ disabled[f] < RouteTTL

\* What the editor changed reaches the calls at most the time to live (and the
\* time it took to store what was read before) later, for every key and every
\* operation, the ones that forget nothing included.
LateByTTL ==
    \A f \in FlowId, k \in Key : Cached(f, k) /\ meta[f][k].seen # Value(f, k) =>
        changed[f][TableOf[k]] < MetaTTL + meta[f][k].lag

\* repository.py:20-28: whatever is looked up, edited and generated meanwhile,
\* the caches of the process and of Redis lag by their time to live only.
StaleByTTL == RoutedWasEnabled /\ LateByTTL

\* Between edits the routes hold what the table holds, unless a lookup
\* overlapped an edit or a generation broke off.
RoutesForgotten ==
    (\A e \in Editor : Free(e)) =>
        \A k \in Kind : Fresh(k) /\ ~routes[k].doubt =>
            routes[k].flows = IF k = "list" THEN Enabled
                              ELSE LET F == {f \in Enabled : ~flows[f].named}
                                   IN Newest(IF F # {} THEN F ELSE Enabled)

\* repository.py:23 and task_flows.py:621: who changes flows or updates a node
\* forgets what is cached of them.  Once the update of a node returned, the
\* node is not read as it was before, unless a lookup overlapped the update.
EditsForget ==
    /\ RoutesForgotten
    /\ \A f \in FlowId : Cached(f, "node") /\ ~meta[f]["node"].doubt =>
          meta[f]["node"].seen >= announced[f]

\* flow_generator.py:193: a flow is generated once for an intent.  As long as
\* none is made by hand or replaced, only generations that overlap make two:
\* there are never more than requests at the same time.
GeneratedPerRequest ==
    (\A f \in FlowId : flows[f].made \in {"absent", "template"}) =>
        Cardinality({f \in FlowId : flows[f].made = "template"})
          + Cardinality({e \in Editor : Is(e, "insertFlow")}) <= Cardinality(Editor)
=============================================================================
