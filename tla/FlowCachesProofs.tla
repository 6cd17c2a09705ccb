-------------------------- MODULE FlowCachesProofs --------------------------
(***************************************************************************)
(* Theorems about the flows and the caches in front of them, for any       *)
(* number of requests and turns at the same time, flows, times to live     *)
(* and edits.                                                              *)
(***************************************************************************)
EXTENDS MCTaskSessions, TaskSessionsProofs

\* The stages of a request that has changed the enabled flows, or is about to,
\* and has not made the process forget them yet.
Owing == {"forgetRoutes", "dropEdges", "dropNodes", "dropFlow",
          "insertFlow", "insertNodes", "insertEdges"}
Checked == {"deleteFlow", "updateNode", "createNode", "deleteNode", "createEdge", "editEdge"}
Stage == Owing \cup Checked \cup {"none", "findKeys", "deleteKeys"}

EditRow == [doing : Stage, flow : FlowId \cup {0}, on : BOOLEAN, wrote : 0 .. MaxEdits,
            keys : SUBSET Key]
RouteRow == [flows : SUBSET FlowId, age : 0 .. RouteTTL, doubt : BOOLEAN]
MetaRow == [seen : 0 .. MaxEdits + 1, age : 0 .. MetaTTL, lag : 0 .. Never, doubt : BOOLEAN]
Look == {"none", "find", "findNamed", "remember", "get", "set"}
ReaderRow == [doing : Look, kind : Kind, flow : FlowId \cup {0}, key : Key,
              found : SUBSET FlowId, seen : 0 .. MaxEdits + 1, age : 0 .. Never, doubt : BOOLEAN]

\* FlowTypeOK, with the requests of the editor and the histories typed, and with
\* a flow for whoever needs one.
RowsTyped ==
    /\ flows \in [FlowId -> FlowRow] /\ edits \in 0 .. MaxEdits
    /\ changed \in [FlowId -> [Table -> 0 .. Never]]
    /\ disabled \in [FlowId -> 0 .. RouteTTL]
    /\ announced \in [FlowId -> 0 .. MaxEdits]
CachesTyped ==
    /\ routes \in [Kind -> RouteRow]
    /\ meta \in [FlowId -> [Key -> MetaRow]]
ReaderTyped ==
    /\ reader \in [Reader -> ReaderRow]
    /\ \A t \in Reader : reader[t].doing \in {"get", "set"} => reader[t].flow \in FlowId
EditorTyped ==
    /\ editor \in [Editor -> EditRow]
    /\ \A e \in Editor : editor[e].doing \notin {"none", "insertFlow"} => editor[e].flow \in FlowId
TypeInv == RowsTyped /\ CachesTyped /\ ReaderTyped /\ EditorTyped

-----------------------------------------------------------------------------
(* The records that rows, lookups and requests start from.                 *)

LEMMA Times == Never \in Nat /\ RouteTTL <= Never /\ MetaTTL <= Never
  BY TTLAssumption DEF Never

LEMMA Tables == TableOf \in [Key -> Table]
  BY DEF TableOf, Key, Table

LEMMA Aging ==
  ASSUME NEW n \in 0 .. Never
  PROVE  Aged(n) \in 0 .. Never /\ Aged(n) <= n + 1 /\ n <= Aged(n)
         /\ (Aged(n) = n + 1 \/ Aged(n) = Never)
  BY Times DEF Aged

LEMMA NoRows ==
  /\ NoFlow \in FlowRow /\ NoEdit \in EditRow /\ NoEntry \in RouteRow
  /\ NotCached \in MetaRow /\ NoLookup \in ReaderRow
<1>1. NoFlow \in FlowRow /\ NoEdit \in EditRow
  BY EditAssumption DEF NoFlow, FlowRow, NoEdit, EditRow, Stage
<1>2. NoEntry \in RouteRow /\ NotCached \in MetaRow
  BY EditAssumption, TTLAssumption, Times DEF NoEntry, RouteRow, NotCached, MetaRow
<1>3. NoLookup \in ReaderRow
  BY EditAssumption, Times DEF NoLookup, ReaderRow, Look, Kind, Key
<1> QED BY <1>1, <1>2, <1>3

LEMMA NewFlow ==
  ASSUME NEW what \in {"absent", "hand", "template", "deleted"}
  PROVE  LET d == [NoFlow EXCEPT !.made = what]
         IN  d \in FlowRow /\ d.made = what /\ ~d.on /\ ~d.named /\ d.node = 0 /\ d.edges = 0
  BY NoRows DEF NoFlow, FlowRow

LEMMA SwitchedFlow ==
  ASSUME NEW d \in FlowRow, NEW on \in BOOLEAN
  PROVE  LET r == [d EXCEPT !.on = on]
         IN  /\ r \in FlowRow /\ r.on = on /\ r.made = d.made /\ r.named = d.named
             /\ r.node = d.node /\ r.edges = d.edges
  BY DEF FlowRow

-----------------------------------------------------------------------------
(* What an editor writes: rows of one flow at a time.                      *)

\* Row r of flow f differs from the one before in table b only.
Within(r, f, b) ==
    /\ b # "flow" => r.made = flows[f].made /\ r.on = flows[f].on /\ r.named = flows[f].named
    /\ b # "node" => r.node = flows[f].node
    /\ b # "edges" => r.edges = flows[f].edges

\* Some rows of flow f are written, and what changed of them is new.
Touches(f) ==
    /\ edits < MaxEdits /\ edits' = edits + 1
    /\ \A g \in FlowId \ {f} :
         flows'[g] = flows[g] /\ changed'[g] = changed[g] /\ disabled'[g] = disabled[g]
    /\ \A b \in Table : changed'[f][b] \in {0, changed[f][b]}
    /\ \A k \in Key : Value(f, k)' # Value(f, k) => changed'[f][TableOf[k]] = 0
    /\ disabled'[f] = IF f \in Enabled THEN 0 ELSE disabled[f]

RowsKept == UNCHANGED <<flows, edits, changed, disabled>>

LEMMA WritesTouches ==
  ASSUME RowsTyped, NEW f \in FlowId, NEW b \in Table, NEW r \in FlowRow,
         Within(r, f, b), Writes(f, r, b), announced' = announced
  PROVE  RowsTyped' /\ Touches(f) /\ flows'[f] = r
<1>1. flows' \in [FlowId -> FlowRow] /\ flows'[f] = r
      /\ \A g \in FlowId \ {f} : flows'[g] = flows[g]
  BY DEF RowsTyped, Writes
<1>2. edits' \in 0 .. MaxEdits /\ edits < MaxEdits /\ edits' = edits + 1
  BY EditAssumption DEF RowsTyped, Writes
<1>3. /\ changed' \in [FlowId -> [Table -> 0 .. Never]]
      /\ changed'[f][b] = 0
      /\ \A c \in Table : changed'[f][c] \in {0, changed[f][c]}
      /\ \A g \in FlowId \ {f} : changed'[g] = changed[g]
  BY Times DEF RowsTyped, Writes
<1>4. /\ disabled' \in [FlowId -> 0 .. RouteTTL]
      /\ disabled'[f] = IF f \in Enabled THEN 0 ELSE disabled[f]
      /\ \A g \in FlowId \ {f} : disabled'[g] = disabled[g]
  BY TTLAssumption DEF RowsTyped, Writes
<1>5. ASSUME NEW k \in Key, Value(f, k)' # Value(f, k)  PROVE  changed'[f][TableOf[k]] = 0
  <2>1. TableOf[k] # b => Value(f, k)' = Value(f, k)
    BY <1>1 DEF Value, Within, InUse, Key, Table, TableOf
  <2> QED BY <2>1, <1>3, <1>5
<1>6. RowsTyped'
  BY <1>1, <1>2, <1>3, <1>4 DEF RowsTyped
<1> QED BY <1>1, <1>2, <1>3, <1>4, <1>5, <1>6 DEF Touches

LEMMA RemovesTouches ==
  ASSUME RowsTyped, NEW f \in FlowId, Removes(f), announced' = announced
  PROVE  RowsTyped' /\ Touches(f) /\ flows'[f].made = "deleted" /\ flows'[f].node = 0
<1>1. flows' \in [FlowId -> FlowRow] /\ flows'[f].made = "deleted" /\ flows'[f].node = 0
      /\ \A g \in FlowId \ {f} : flows'[g] = flows[g]
  BY NewFlow DEF RowsTyped, Removes
<1>2. edits' \in 0 .. MaxEdits /\ edits < MaxEdits /\ edits' = edits + 1
  BY EditAssumption DEF RowsTyped, Removes
<1>3. /\ changed' \in [FlowId -> [Table -> 0 .. Never]]
      /\ \A c \in Table : changed'[f][c] = 0
      /\ \A g \in FlowId \ {f} : changed'[g] = changed[g]
  BY Times DEF RowsTyped, Removes
<1>4. /\ disabled' \in [FlowId -> 0 .. RouteTTL]
      /\ disabled'[f] = IF f \in Enabled THEN 0 ELSE disabled[f]
      /\ \A g \in FlowId \ {f} : disabled'[g] = disabled[g]
  BY TTLAssumption DEF RowsTyped, Removes
<1>5. RowsTyped'
  BY <1>1, <1>2, <1>3, <1>4 DEF RowsTyped
<1> QED BY <1>1, <1>2, <1>3, <1>4, <1>5, Tables DEF Touches

\* A node keeps its version, loses its row or gets the number of the edit.
NodeNumbers ==
    \A f \in FlowId : \/ flows'[f].node \in {0, flows[f].node}
                      \/ edits' = edits + 1 /\ flows'[f].node = edits + 1

\* Which flows are enabled, and found by intent, stays.
HeadsKept ==
    \A f \in FlowId : /\ flows'[f].made = flows[f].made
                      /\ flows'[f].on = flows[f].on
                      /\ flows'[f].named = flows[f].named

LEMMA WritesNodes ==
  ASSUME RowsTyped, NEW f \in FlowId, NEW b \in Table, NEW r \in FlowRow,
         Within(r, f, b), Writes(f, r, b), announced' = announced
  PROVE  /\ r.node \in {0, flows[f].node, edits + 1} => NodeNumbers
         /\ b # "flow" => HeadsKept
<1>1. flows'[f] = r /\ edits' = edits + 1 /\ \A g \in FlowId \ {f} : flows'[g] = flows[g]
  BY WritesTouches DEF Touches
<1>2. r.node \in {0, flows[f].node, edits + 1} => NodeNumbers
  BY <1>1 DEF NodeNumbers
<1>3. b # "flow" => HeadsKept
  BY <1>1 DEF HeadsKept, Within
<1> QED BY <1>2, <1>3

LEMMA RowsKeptTyped ==
  ASSUME RowsTyped, RowsKept, announced' = announced
  PROVE  RowsTyped' /\ NodeNumbers /\ HeadsKept
  BY DEF RowsTyped, RowsKept, NodeNumbers, HeadsKept

-----------------------------------------------------------------------------
(* What an editor does to the caches, the lookups and the other editors.   *)

\* Nothing is put into a cache, and no lookup moves; a doubt may be raised.
CachesKept ==
    /\ \A k \in Kind : Fresh(k)' =>
         /\ Fresh(k)
         /\ routes'[k].flows = routes[k].flows /\ routes'[k].age = routes[k].age
         /\ routes[k].doubt => routes'[k].doubt
    /\ \A f \in FlowId, k \in Key : Cached(f, k)' => meta'[f][k] = meta[f][k]
    /\ \A t \in Reader :
         /\ reader'[t].doing = reader[t].doing /\ reader'[t].kind = reader[t].kind
         /\ reader'[t].flow = reader[t].flow /\ reader'[t].key = reader[t].key
         /\ reader'[t].found = reader[t].found /\ reader'[t].seen = reader[t].seen
         /\ reader'[t].age = reader[t].age
         /\ reader[t].doubt => reader'[t].doubt

\* No route is trusted that was found before.
RoutesDoubted ==
    /\ \A k \in Kind : ~Fresh(k)' \/ routes'[k].doubt
    /\ \A t \in Reader : reader'[t].doing \in {"findNamed", "remember"} => reader'[t].doubt

OthersWait(e) == \A g \in Editor \ {e} : editor'[g] = editor[g]

LEMMA EditsFrame ==
  ASSUME EditorTyped, NEW e \in Editor, NEW what \in Stage, NEW f \in FlowId \cup {0},
         NEW on \in BOOLEAN, what \notin {"none", "insertFlow"} => f \in FlowId,
         Edits(e, what, f, on)
  PROVE  /\ EditorTyped' /\ OthersWait(e)
         /\ editor'[e].doing = what /\ editor'[e].flow = f /\ editor'[e].on = on
<1> DEFINE a == [NoEdit EXCEPT !.doing = what]
<1> DEFINE b == [a EXCEPT !.flow = f]
<1> DEFINE r == [b EXCEPT !.on = on]
<1>1. a \in EditRow /\ a.doing = what
  BY NoRows DEF EditRow, NoEdit
<1>2. editor' = [editor EXCEPT ![e] = r]
  BY DEF Edits
<1> HIDE DEF a
<1>3. b \in EditRow /\ b.doing = what /\ b.flow = f
  BY <1>1 DEF EditRow
<1> HIDE DEF b
<1>4. r \in EditRow /\ r.doing = what /\ r.flow = f /\ r.on = on
  BY <1>3 DEF EditRow
<1> HIDE DEF r
<1> QED BY <1>2, <1>4 DEF EditorTyped, OthersWait

LEMMA ReturnsFrame ==
  ASSUME EditorTyped, NEW e \in Editor, Returns(e)
  PROVE  EditorTyped' /\ OthersWait(e) /\ editor'[e] = NoEdit /\ editor'[e].doing = "none"
<1>1. NoEdit \in EditRow /\ NoEdit.doing = "none"
  BY NoRows DEF NoEdit
<1> QED BY <1>1 DEF EditorTyped, OthersWait, Returns

LEMMA DoubtedFrame ==
  ASSUME ReaderTyped, NEW stages, reader' = Doubted(stages)
  PROVE  /\ ReaderTyped'
         /\ \A t \in Reader :
              /\ reader'[t].doing = reader[t].doing /\ reader'[t].kind = reader[t].kind
              /\ reader'[t].flow = reader[t].flow /\ reader'[t].key = reader[t].key
              /\ reader'[t].found = reader[t].found /\ reader'[t].seen = reader[t].seen
              /\ reader'[t].age = reader[t].age
              /\ reader[t].doubt \/ reader[t].doing \in stages => reader'[t].doubt
<1>1. ASSUME NEW r \in ReaderRow
      PROVE  LET d == [r EXCEPT !.doubt = TRUE]
             IN  /\ d \in ReaderRow /\ d.doubt /\ d.doing = r.doing /\ d.kind = r.kind
                 /\ d.flow = r.flow /\ d.key = r.key /\ d.found = r.found
                 /\ d.seen = r.seen /\ d.age = r.age
  BY DEF ReaderRow
<1>2. \A t \in Reader : reader[t] \in ReaderRow
  BY DEF ReaderTyped
<1>3. ASSUME NEW t \in Reader
      PROVE  /\ reader'[t] \in ReaderRow
             /\ reader'[t].doing = reader[t].doing /\ reader'[t].kind = reader[t].kind
             /\ reader'[t].flow = reader[t].flow /\ reader'[t].key = reader[t].key
             /\ reader'[t].found = reader[t].found /\ reader'[t].seen = reader[t].seen
             /\ reader'[t].age = reader[t].age
             /\ reader[t].doubt \/ reader[t].doing \in stages => reader'[t].doubt
  <2>1. reader'[t] = IF reader[t].doing \in stages THEN [reader[t] EXCEPT !.doubt = TRUE]
                     ELSE reader[t]
    BY DEF Doubted
  <2>2. CASE reader[t].doing \in stages
    BY <1>1, <1>2, <2>1, <2>2
  <2>3. CASE reader[t].doing \notin stages
    BY <1>2, <2>1, <2>3
  <2> QED BY <2>2, <2>3
<1>4. reader' \in [Reader -> ReaderRow]
  BY <1>3 DEF Doubted
<1> QED BY <1>3, <1>4 DEF ReaderTyped

LEMMA CachesUnchanged ==
  ASSUME TypeInv, routes' = routes, meta' = meta, reader' = reader
  PROVE  CachesTyped' /\ ReaderTyped' /\ CachesKept
  BY DEF TypeInv, CachesTyped, ReaderTyped, CachesKept, Fresh, Cached

LEMMA ForgetFrame ==
  ASSUME TypeInv, ForgetRoutes, meta' = meta
  PROVE  CachesTyped' /\ ReaderTyped' /\ CachesKept /\ RoutesDoubted
<1>1. routes' \in [Kind -> RouteRow] /\ \A k \in Kind : ~Fresh(k)'
  BY NoRows, TTLAssumption DEF ForgetRoutes, NoEntry, Fresh
<1>2. CachesTyped'
  BY <1>1 DEF TypeInv, CachesTyped
<1>3. ReaderTyped' /\ CachesKept /\ RoutesDoubted
  BY <1>1, DoubtedFrame DEF TypeInv, ForgetRoutes, CachesKept, RoutesDoubted, Cached
<1> QED BY <1>2, <1>3

LEMMA FailFrame ==
  ASSUME TypeInv, meta' = meta, reader' = Doubted({"findNamed", "remember"}),
         routes' = [k \in Kind |-> [routes[k] EXCEPT !.doubt = TRUE]]
  PROVE  CachesTyped' /\ ReaderTyped' /\ CachesKept /\ RoutesDoubted
<1>1. ASSUME NEW r \in RouteRow
      PROVE  LET d == [r EXCEPT !.doubt = TRUE]
             IN  d \in RouteRow /\ d.doubt /\ d.flows = r.flows /\ d.age = r.age
  BY DEF RouteRow
<1>2. \A k \in Kind : /\ routes'[k] \in RouteRow /\ routes'[k].doubt
                      /\ routes'[k].flows = routes[k].flows /\ routes'[k].age = routes[k].age
  BY <1>1 DEF TypeInv, CachesTyped
<1>3. CachesTyped'
  BY <1>2 DEF TypeInv, CachesTyped
<1>4. ReaderTyped' /\ CachesKept /\ RoutesDoubted
  BY <1>2, DoubtedFrame DEF TypeInv, CachesKept, RoutesDoubted, Cached, Fresh
<1> QED BY <1>3, <1>4

-----------------------------------------------------------------------------
(* Every step of an editor, operation by operation.                        *)

\* What holds of every step of editor e.
MovesOn(e) ==
    /\ EditorTyped' /\ OthersWait(e)
    /\ editor[e].doing \in Owing /\ editor'[e].doing \notin Owing => RoutesDoubted
    /\ HeadsKept \/ editor'[e].doing \in Owing
EditorStep(e) ==
    /\ TypeInv' /\ CachesKept /\ NodeNumbers
    /\ RowsKept \/ \E f \in FlowId : Touches(f)
    /\ MovesOn(e)

\* The steps that move no announcement and no request that forgets a node.
Bystander(e) ==
    announced' = announced /\ editor'[e].doing \notin {"findKeys", "deleteKeys"}

LEMMA ChangedHead ==
  ASSUME RowsTyped, NEW f \in FlowId, NEW on \in BOOLEAN
  PROVE  /\ [flows[f] EXCEPT !.on = on] \in FlowRow
         /\ Within([flows[f] EXCEPT !.on = on], f, "flow")
         /\ [flows[f] EXCEPT !.on = on].node = flows[f].node
  BY DEF RowsTyped, FlowRow, Within

LEMMA ChangedPart ==
  ASSUME RowsTyped, NEW f \in FlowId, NEW n \in 0 .. MaxEdits
  PROVE  /\ [flows[f] EXCEPT !.node = n] \in FlowRow
         /\ Within([flows[f] EXCEPT !.node = n], f, "node")
         /\ [flows[f] EXCEPT !.node = n].node = n
         /\ [flows[f] EXCEPT !.edges = n] \in FlowRow
         /\ Within([flows[f] EXCEPT !.edges = n], f, "edges")
         /\ [flows[f] EXCEPT !.edges = n].node = flows[f].node
  BY DEF RowsTyped, FlowRow, Within

\* A write of node or edges by a request that goes on to stage what.
LEMMA PartStep ==
  ASSUME TypeInv, NEW e \in Editor, NEW f \in FlowId, NEW b \in {"node", "edges"},
         NEW r \in FlowRow, Within(r, f, b), Writes(f, r, b),
         r.node \in {0, flows[f].node, edits + 1},
         UNCHANGED <<routes, meta, reader, announced>>,
         EditorTyped', OthersWait(e),
         editor[e].doing \notin Owing \/ editor'[e].doing \in Owing
  PROVE  EditorStep(e)
<1>1. RowsTyped' /\ Touches(f) /\ NodeNumbers /\ HeadsKept
  BY WritesTouches, WritesNodes DEF TypeInv, Table
<1>2. CachesTyped' /\ ReaderTyped' /\ CachesKept
  BY CachesUnchanged
<1> QED BY <1>1, <1>2 DEF EditorStep, MovesOn, TypeInv

\* A write of the flow itself by a request that owes to forget.
LEMMA HeadStep ==
  ASSUME TypeInv, NEW e \in Editor, NEW f \in FlowId,
         RowsTyped', Touches(f), NodeNumbers,
         UNCHANGED <<routes, meta, reader, announced>>,
         EditorTyped', OthersWait(e), editor'[e].doing \in Owing
  PROVE  EditorStep(e)
<1>1. CachesTyped' /\ ReaderTyped' /\ CachesKept
  BY CachesUnchanged
<1> QED BY <1>1 DEF EditorStep, MovesOn, TypeInv

\* A request that writes nothing now.
LEMMA KeptStep ==
  ASSUME TypeInv, NEW e \in Editor, RowsKept, announced' = announced,
         UNCHANGED <<routes, meta, reader>>,
         EditorTyped', OthersWait(e),
         editor[e].doing \notin Owing \/ editor'[e].doing \in Owing
  PROVE  EditorStep(e)
<1>1. RowsTyped' /\ NodeNumbers /\ HeadsKept
  BY RowsKeptTyped DEF TypeInv
<1>2. CachesTyped' /\ ReaderTyped' /\ CachesKept
  BY CachesUnchanged
<1> QED BY <1>1, <1>2 DEF EditorStep, MovesOn, TypeInv

LEMMA FreeIs ==
  ASSUME NEW e \in Editor, Free(e)  PROVE  editor[e].doing = "none"
  BY DEF Free, NoEdit

LEMMA NodeAtNextFlow ==
  ASSUME NEW f \in FlowId, NextFlow(f)
  PROVE  flows[f].node = 0 /\ flows[f].edges = 0 /\ flows[f].made = "absent"
  BY DEF NextFlow, NoFlow

LEMMA EditorFlow ==
  ASSUME TypeInv, NEW e \in Editor, editor[e].doing \notin {"none", "insertFlow"}
  PROVE  editor[e].flow \in FlowId /\ editor[e].on \in BOOLEAN
  BY DEF TypeInv, EditorTyped, EditRow

LEMMA CreateFlowStep ==
  ASSUME TypeInv, NEW e \in Editor, NEW f \in FlowId, NEW on \in BOOLEAN, NEW named \in BOOLEAN,
         CreateTaskFlow(e, f, on, named)
  PROVE  EditorStep(e) /\ Bystander(e)
<1> DEFINE d == [NoFlow EXCEPT !.made = "hand"]
           q == [d EXCEPT !.on = on]
           r == [q EXCEPT !.named = named]
<1>0. d \in FlowRow /\ d.node = 0 /\ d.edges = 0
  BY NewFlow
<1> HIDE DEF d
<1>1. r \in FlowRow /\ r.node = 0 /\ r.edges = 0
  <2>1. q \in FlowRow /\ q.node = 0 /\ q.edges = 0
    BY <1>0, SwitchedFlow
  <2> HIDE DEF q
  <2> QED BY <2>1 DEF FlowRow
<1>2. Writes(f, r, "flow") /\ Edits(e, "forgetRoutes", f, on) /\ NextFlow(f)
      /\ UNCHANGED <<routes, meta, reader, announced>>
  BY DEF CreateTaskFlow, d
<1> HIDE DEF r
<1>3. Within(r, f, "flow") /\ r.node = flows[f].node
  BY <1>1, <1>2, NodeAtNextFlow DEF Within
<1>4. RowsTyped' /\ Touches(f) /\ NodeNumbers
  BY <1>1, <1>2, <1>3, WritesTouches, WritesNodes DEF TypeInv, Table
<1>5. EditorTyped' /\ OthersWait(e) /\ editor'[e].doing = "forgetRoutes"
  BY <1>2, EditsFrame DEF TypeInv, Stage, Owing
<1> QED BY <1>2, <1>4, <1>5, HeadStep DEF Owing, Bystander

LEMMA UpdateFlowStep ==
  ASSUME TypeInv, NEW e \in Editor, NEW f \in FlowId, NEW on \in BOOLEAN,
         UpdateTaskFlow(e, f, on)
  PROVE  EditorStep(e) /\ Bystander(e)
<1> DEFINE r == [flows[f] EXCEPT !.on = on]
<1>1. r \in FlowRow /\ Within(r, f, "flow") /\ r.node = flows[f].node
  BY ChangedHead DEF TypeInv
<1>2. Writes(f, r, "flow") /\ Edits(e, "forgetRoutes", f, on)
      /\ UNCHANGED <<routes, meta, reader, announced>>
  BY DEF UpdateTaskFlow
<1> HIDE DEF r
<1>4. RowsTyped' /\ Touches(f) /\ NodeNumbers
  BY <1>1, <1>2, WritesTouches, WritesNodes DEF TypeInv, Table
<1>5. EditorTyped' /\ OthersWait(e) /\ editor'[e].doing = "forgetRoutes"
  BY <1>2, EditsFrame DEF TypeInv, Stage, Owing
<1> QED BY <1>2, <1>4, <1>5, HeadStep DEF Owing, Bystander

LEMMA ChecksStep ==
  ASSUME TypeInv, NEW e \in Editor, NEW f \in FlowId, NEW what \in Checked, Checks(e, what, f)
  PROVE  EditorStep(e) /\ Bystander(e)
<1>1. editor[e].doing = "none" /\ RowsKept /\ UNCHANGED <<routes, meta, reader, announced>>
  BY FreeIs DEF Checks, Rows, RowsKept
<1>2. EditorTyped' /\ OthersWait(e) /\ editor'[e].doing = what
  BY EditsFrame DEF TypeInv, Stage, Checks, Checked
<1> QED BY <1>1, <1>2, KeptStep DEF Owing, Bystander, Checked

LEMMA DeleteFlowStep ==
  ASSUME TypeInv, NEW e \in Editor, DeleteTaskFlow(e)
  PROVE  EditorStep(e) /\ Bystander(e)
<1> DEFINE f == editor[e].flow
<1>1. /\ Is(e, "deleteFlow") /\ Edits(e, "forgetRoutes", f, FALSE)
      /\ UNCHANGED <<routes, meta, reader, announced>>
      /\ (Removes(f) \/ RowsKept)
  BY DEF DeleteTaskFlow, RowsKept
<1>2. f \in FlowId
  BY <1>1, EditorFlow DEF Is
<1> HIDE DEF f
<1>3. EditorTyped' /\ OthersWait(e) /\ editor'[e].doing = "forgetRoutes"
  BY <1>1, <1>2, EditsFrame DEF TypeInv, Stage, Owing
<1>4. Bystander(e)
  BY <1>1, <1>3 DEF Bystander
<1>5. CASE Removes(f)
  <2>1. RowsTyped' /\ Touches(f) /\ flows'[f].node = 0
    BY <1>1, <1>2, <1>5, RemovesTouches DEF TypeInv
  <2>2. NodeNumbers
    BY <2>1 DEF NodeNumbers, Touches
  <2> QED BY <1>1, <1>2, <1>3, <1>4, <2>1, <2>2, HeadStep DEF Owing
<1>6. CASE RowsKept
  BY <1>1, <1>3, <1>4, <1>6, KeptStep DEF Owing
<1> QED BY <1>1, <1>5, <1>6

LEMMA InvalidateFlowsStep ==
  ASSUME TypeInv, NEW e \in Editor, InvalidateFlows(e)
  PROVE  EditorStep(e) /\ Bystander(e)
<1>1. ForgetRoutes /\ Returns(e) /\ RowsKept /\ announced' = announced /\ meta' = meta
  BY DEF InvalidateFlows, Rows, RowsKept
<1>2. EditorTyped' /\ OthersWait(e) /\ editor'[e].doing = "none"
  BY <1>1, ReturnsFrame DEF TypeInv
<1>3. CachesTyped' /\ ReaderTyped' /\ CachesKept /\ RoutesDoubted
  BY <1>1, ForgetFrame
<1>4. RowsTyped' /\ NodeNumbers /\ HeadsKept
  BY <1>1, RowsKeptTyped DEF TypeInv
<1> QED BY <1>1, <1>2, <1>3, <1>4 DEF EditorStep, MovesOn, Bystander, TypeInv

LEMMA WritesNext ==
  ASSUME RowsTyped, NEW f, NEW r, NEW b, Writes(f, r, b)
  PROVE  edits + 1 \in 0 .. MaxEdits /\ edits' = edits + 1
  BY EditAssumption DEF RowsTyped, Writes

LEMMA UpdateNodeStep ==
  ASSUME TypeInv, NEW e \in Editor, UpdateTaskNode(e)
  PROVE  EditorStep(e)
<1> DEFINE f == editor[e].flow
           r == [flows[f] EXCEPT !.node = edits + 1]
<1>1. Is(e, "updateNode") /\ UNCHANGED <<routes, meta, reader, announced>>
  BY DEF UpdateTaskNode
<1>2. f \in FlowId /\ editor[e] \in EditRow /\ editor[e].doing \notin Owing
  BY <1>1, EditorFlow DEF Is, TypeInv, EditorTyped, Owing
<1>3. CASE flows[f].node > 0
  <2>1. Writes(f, r, "node")
        /\ editor' = [editor EXCEPT ![e].doing = "findKeys", ![e].wrote = edits + 1]
    BY <1>3 DEF UpdateTaskNode
  <2>2. edits + 1 \in 0 .. MaxEdits
    BY <2>1, WritesNext DEF TypeInv
  <2>3. r \in FlowRow /\ Within(r, f, "node") /\ r.node = edits + 1
    BY <1>2, <2>2, ChangedPart DEF TypeInv
  <2>4. [editor[e] EXCEPT !.doing = "findKeys"] \in EditRow
        /\ [editor[e] EXCEPT !.doing = "findKeys"].flow = f
        /\ [editor[e] EXCEPT !.doing = "findKeys"].doing = "findKeys"
    BY <1>2 DEF EditRow, Stage
  <2> DEFINE x == [editor[e] EXCEPT !.doing = "findKeys"]
             y == [x EXCEPT !.wrote = edits + 1]
  <2>5. editor' = [editor EXCEPT ![e] = y]
    BY <2>1, <1>2 DEF TypeInv, EditorTyped
  <2>6. x \in EditRow /\ x.flow = f /\ x.doing = "findKeys"
    BY <2>4
  <2> HIDE DEF x
  <2>7. y \in EditRow /\ y.flow = f /\ y.doing = "findKeys"
    BY <2>2, <2>6 DEF EditRow
  <2> HIDE DEF y, r, f
  <2>8. EditorTyped' /\ OthersWait(e)
    BY <1>2, <2>5, <2>7 DEF TypeInv, EditorTyped, OthersWait
  <2> QED BY <1>1, <1>2, <2>1, <2>3, <2>8, PartStep
<1>4. CASE ~(flows[f].node > 0)
  <2>1. Returns(e) /\ RowsKept
    BY <1>4 DEF UpdateTaskNode, RowsKept
  <2>2. EditorTyped' /\ OthersWait(e)
    BY <2>1, ReturnsFrame DEF TypeInv
  <2> QED BY <1>1, <1>2, <2>1, <2>2, KeptStep
<1> QED BY <1>3, <1>4

LEMMA FindKeysStep ==
  ASSUME TypeInv, NEW e \in Editor, FindKeys(e)
  PROVE  EditorStep(e)
<1> DEFINE f == editor[e].flow
           K == Matched(f)
           x == [editor[e] EXCEPT !.doing = "deleteKeys"]
           y == [x EXCEPT !.keys = K]
<1>1. Is(e, "findKeys") /\ RowsKept /\ UNCHANGED <<routes, meta, announced>>
      /\ reader' = Doubted({"set"})
  BY DEF FindKeys, Rows, RowsKept
<1>2. editor[e] \in EditRow /\ f \in FlowId /\ editor[e].doing \notin Owing
  BY <1>1, EditorFlow DEF Is, TypeInv, EditorTyped, Owing
<1>3. K \in SUBSET Key
  BY DEF Matched, Key
<1>4. editor' = [editor EXCEPT ![e] = y]
  BY <1>2 DEF FindKeys, TypeInv, EditorTyped
<1> HIDE DEF K
<1>5. x \in EditRow /\ x.flow = f /\ x.doing = "deleteKeys"
  BY <1>2 DEF EditRow, Stage
<1> HIDE DEF x, f
<1>6. y \in EditRow /\ y.flow = f /\ y.doing = "deleteKeys"
  BY <1>3, <1>5 DEF EditRow
<1> HIDE DEF y
<1>7. EditorTyped' /\ OthersWait(e)
  BY <1>2, <1>4, <1>6 DEF TypeInv, EditorTyped, OthersWait
<1>8. CachesTyped' /\ ReaderTyped' /\ CachesKept
  BY <1>1, DoubtedFrame DEF TypeInv, CachesTyped, CachesKept, Fresh, Cached
<1>9. RowsTyped' /\ NodeNumbers /\ HeadsKept
  BY <1>1, RowsKeptTyped DEF TypeInv
<1> QED BY <1>1, <1>2, <1>7, <1>8, <1>9 DEF EditorStep, MovesOn, TypeInv

LEMMA DeleteKeysStep ==
  ASSUME TypeInv, NEW e \in Editor, DeleteKeys(e)
  PROVE  EditorStep(e)
<1> DEFINE f == editor[e].flow
<1>1. Is(e, "deleteKeys") /\ RowsKept /\ UNCHANGED <<routes, reader>> /\ Returns(e)
      /\ meta' = [meta EXCEPT ![f] = [k \in Key |-> IF k \in editor[e].keys THEN NotCached ELSE @[k]]]
      /\ announced' = [announced EXCEPT ![f] = IF editor[e].wrote > @ THEN editor[e].wrote ELSE @]
  BY DEF DeleteKeys, Rows, RowsKept
<1>2. f \in FlowId /\ editor[e] \in EditRow /\ editor[e].doing \notin Owing
  BY <1>1, EditorFlow DEF Is, TypeInv, EditorTyped, Owing
<1>3. EditorTyped' /\ OthersWait(e)
  BY <1>1, ReturnsFrame DEF TypeInv
<1>4. announced' \in [FlowId -> 0 .. MaxEdits]
  <2>1. editor[e].wrote \in 0 .. MaxEdits
    BY <1>2 DEF EditRow
  <2> QED BY <1>1, <2>1 DEF TypeInv, RowsTyped
<1>5. RowsTyped' /\ NodeNumbers /\ HeadsKept
  BY <1>1, <1>4 DEF TypeInv, RowsTyped, RowsKept, NodeNumbers, HeadsKept
<1> HIDE DEF f
<1>6. \A g \in FlowId, k \in Key : meta'[g][k] = meta[g][k] \/ meta'[g][k] = NotCached
  BY <1>1, <1>2 DEF TypeInv, CachesTyped
<1>7. meta' \in [FlowId -> [Key -> MetaRow]]
  BY <1>1, <1>2, NoRows DEF TypeInv, CachesTyped
<1>8. CachesTyped' /\ ReaderTyped'
  BY <1>1, <1>7 DEF TypeInv, CachesTyped, ReaderTyped
<1>9. CachesKept
  <2>1. ~(NotCached.age < MetaTTL)
    BY TTLAssumption DEF NotCached
  <2> QED BY <1>1, <1>6, <2>1 DEF CachesKept, Fresh, Cached
<1> QED BY <1>1, <1>2, <1>3, <1>5, <1>8, <1>9 DEF EditorStep, MovesOn, TypeInv

LEMMA CreateNodeStep ==
  ASSUME TypeInv, NEW e \in Editor, CreateTaskNode(e)
  PROVE  EditorStep(e) /\ Bystander(e)
<1> DEFINE f == editor[e].flow
           r == [flows[f] EXCEPT !.node = edits + 1]
<1>1. Is(e, "createNode") /\ Returns(e) /\ UNCHANGED <<routes, meta, reader, announced>>
      /\ (Writes(f, r, "node") \/ RowsKept)
  BY DEF CreateTaskNode, RowsKept
<1>2. f \in FlowId /\ editor[e].doing \notin Owing
  BY <1>1, EditorFlow DEF Is, Owing
<1>3. EditorTyped' /\ OthersWait(e) /\ editor'[e].doing = "none"
  BY <1>1, ReturnsFrame DEF TypeInv
<1>4. CASE Writes(f, r, "node")
  <2>1. edits + 1 \in 0 .. MaxEdits
    BY <1>4, WritesNext DEF TypeInv
  <2>2. r \in FlowRow /\ Within(r, f, "node") /\ r.node = edits + 1
    BY <1>2, <2>1, ChangedPart DEF TypeInv
  <2> HIDE DEF r, f
  <2> QED BY <1>1, <1>2, <1>3, <1>4, <2>2, PartStep DEF Bystander
<1>5. CASE RowsKept
  BY <1>1, <1>2, <1>3, <1>5, KeptStep DEF Bystander
<1> QED BY <1>1, <1>4, <1>5

LEMMA DeleteNodeStep ==
  ASSUME TypeInv, NEW e \in Editor, DeleteTaskNode(e)
  PROVE  EditorStep(e) /\ Bystander(e)
<1> DEFINE f == editor[e].flow
           r == [flows[f] EXCEPT !.node = 0]
<1>1. Is(e, "deleteNode") /\ Returns(e) /\ UNCHANGED <<routes, meta, reader, announced>>
      /\ (Writes(f, r, "node") \/ RowsKept)
  BY DEF DeleteTaskNode, RowsKept
<1>2. f \in FlowId /\ editor[e].doing \notin Owing
  BY <1>1, EditorFlow DEF Is, Owing
<1>3. EditorTyped' /\ OthersWait(e) /\ editor'[e].doing = "none"
  BY <1>1, ReturnsFrame DEF TypeInv
<1>4. CASE Writes(f, r, "node")
  <2>1. 0 \in 0 .. MaxEdits
    BY EditAssumption
  <2>2. r \in FlowRow /\ Within(r, f, "node") /\ r.node = 0
    BY <1>2, <2>1, ChangedPart DEF TypeInv
  <2> HIDE DEF r, f
  <2> QED BY <1>1, <1>2, <1>3, <1>4, <2>2, PartStep DEF Bystander
<1>5. CASE RowsKept
  BY <1>1, <1>2, <1>3, <1>5, KeptStep DEF Bystander
<1> QED BY <1>1, <1>4, <1>5

LEMMA EdgeSteps ==
  ASSUME TypeInv, NEW e \in Editor, CreateTaskEdge(e) \/ EditTaskEdge(e)
  PROVE  EditorStep(e) /\ Bystander(e)
<1> DEFINE f == editor[e].flow
<1>1. Is(e, "createEdge") \/ Is(e, "editEdge")
  BY DEF CreateTaskEdge, EditTaskEdge
<1>2. /\ Returns(e) /\ UNCHANGED <<routes, meta, reader, announced>>
      /\ \/ RowsKept
         \/ \E v \in {0, edits + 1} : Writes(f, [flows[f] EXCEPT !.edges = v], "edges")
  BY DEF CreateTaskEdge, EditTaskEdge, RowsKept
<1>3. f \in FlowId /\ editor[e].doing \notin Owing
  BY <1>1, EditorFlow DEF Is, Owing
<1>4. EditorTyped' /\ OthersWait(e) /\ editor'[e].doing = "none"
  BY <1>2, ReturnsFrame DEF TypeInv
<1>5. ASSUME NEW v \in {0, edits + 1}, Writes(f, [flows[f] EXCEPT !.edges = v], "edges")
      PROVE  EditorStep(e)
  <2> DEFINE r == [flows[f] EXCEPT !.edges = v]
  <2>1. v \in 0 .. MaxEdits
    BY <1>5, WritesNext, EditAssumption DEF TypeInv
  <2>2. r \in FlowRow /\ Within(r, f, "edges") /\ r.node = flows[f].node
    BY <1>3, <2>1, ChangedPart DEF TypeInv
  <2>3. Writes(f, r, "edges")
    BY <1>5
  <2> HIDE DEF r, f
  <2> QED BY <1>2, <1>3, <1>4, <2>2, <2>3, PartStep
<1>6. CASE RowsKept
  BY <1>2, <1>3, <1>4, <1>6, KeptStep DEF Bystander
<1> QED BY <1>2, <1>4, <1>5, <1>6 DEF Bystander

LEMMA GenerateBeginStep ==
  ASSUME TypeInv, NEW e \in Editor, NEW overwrite \in BOOLEAN, NEW on \in BOOLEAN,
         GenerateBegin(e, overwrite, on)
  PROVE  /\ EditorStep(e) /\ Bystander(e) /\ RowsKept
         /\ \/ editor'[e].doing = "insertFlow" /\ WithIntent = {}
            \/ editor'[e].doing = "dropEdges" /\ editor'[e].flow \in WithIntent
<1>1. editor[e].doing = "none" /\ RowsKept /\ UNCHANGED <<routes, meta, reader, announced>>
  BY FreeIs DEF GenerateBegin, Rows, RowsKept
<1>2. \/ WithIntent = {} /\ Edits(e, "insertFlow", 0, on)
      \/ \E f \in WithIntent : Edits(e, "dropEdges", f, on)
  BY DEF GenerateBegin
<1>3. CASE WithIntent = {} /\ Edits(e, "insertFlow", 0, on)
  <2>1. EditorTyped' /\ OthersWait(e) /\ editor'[e].doing = "insertFlow"
    BY <1>3, EditsFrame DEF TypeInv, Stage, Owing
  <2> QED BY <1>1, <1>3, <2>1, KeptStep DEF Owing, Bystander
<1>4. ASSUME NEW f \in WithIntent, Edits(e, "dropEdges", f, on)
      PROVE  /\ EditorStep(e) /\ Bystander(e) /\ RowsKept
             /\ editor'[e].doing = "dropEdges" /\ editor'[e].flow \in WithIntent
  <2>1. EditorTyped' /\ OthersWait(e) /\ editor'[e].doing = "dropEdges" /\ editor'[e].flow = f
    BY <1>4, EditsFrame DEF TypeInv, Stage, Owing, WithIntent
  <2> QED BY <1>1, <1>4, <2>1, KeptStep DEF Owing, Bystander
<1> QED BY <1>2, <1>3, <1>4

LEMMA DropPartStep ==
  ASSUME TypeInv, NEW e \in Editor, DropStep(e), ~Is(e, "dropFlow")
  PROVE  /\ EditorStep(e) /\ Bystander(e) /\ HeadsKept
         /\ editor[e].doing \in {"dropEdges", "dropNodes"}
         /\ editor'[e].doing \in {"dropNodes", "dropFlow"}
         /\ editor'[e].flow = editor[e].flow
<1> DEFINE f == editor[e].flow
           r == [flows[f] EXCEPT !.edges = 0]
           q == [flows[f] EXCEPT !.node = 0]
<1>1. /\ UNCHANGED <<routes, meta, reader, announced>>
      /\ \/ Is(e, "dropEdges") /\ Writes(f, r, "edges") /\ Edits(e, "dropNodes", f, editor[e].on)
         \/ Is(e, "dropNodes") /\ Writes(f, q, "node") /\ Edits(e, "dropFlow", f, editor[e].on)
  BY DEF DropStep
<1>2. f \in FlowId /\ editor[e].on \in BOOLEAN
  BY <1>1, EditorFlow DEF Is
<1>3. 0 \in 0 .. MaxEdits
  BY EditAssumption
<1>4. /\ r \in FlowRow /\ Within(r, f, "edges") /\ r.node = flows[f].node
      /\ q \in FlowRow /\ Within(q, f, "node") /\ q.node = 0
  BY <1>2, <1>3, ChangedPart DEF TypeInv
<1> HIDE DEF r, q, f
<1>5. CASE Is(e, "dropEdges") /\ Writes(f, r, "edges") /\ Edits(e, "dropNodes", f, editor[e].on)
  <2>1. EditorTyped' /\ OthersWait(e) /\ editor'[e].doing = "dropNodes" /\ editor'[e].flow = f
    BY <1>2, <1>5, EditsFrame DEF TypeInv, Stage, Owing
  <2>2. EditorStep(e)
    BY <1>1, <1>2, <1>4, <1>5, <2>1, PartStep DEF Owing
  <2>3. HeadsKept
    BY <1>1, <1>2, <1>4, <1>5, WritesNodes DEF TypeInv, Table
  <2> QED BY <1>1, <1>5, <2>1, <2>2, <2>3 DEF Bystander, Is, f
<1>6. CASE Is(e, "dropNodes") /\ Writes(f, q, "node") /\ Edits(e, "dropFlow", f, editor[e].on)
  <2>1. EditorTyped' /\ OthersWait(e) /\ editor'[e].doing = "dropFlow" /\ editor'[e].flow = f
    BY <1>2, <1>6, EditsFrame DEF TypeInv, Stage, Owing
  <2>2. EditorStep(e)
    BY <1>1, <1>2, <1>4, <1>6, <2>1, PartStep DEF Owing
  <2>3. HeadsKept
    BY <1>1, <1>2, <1>4, <1>6, WritesNodes DEF TypeInv, Table
  <2> QED BY <1>1, <1>6, <2>1, <2>2, <2>3 DEF Bystander, Is, f
<1> QED BY <1>1, <1>5, <1>6

LEMMA DropFlowStep ==
  ASSUME TypeInv, NEW e \in Editor, DropStep(e), Is(e, "dropFlow")
  PROVE  /\ EditorStep(e) /\ Bystander(e) /\ editor'[e].doing = "insertFlow"
         /\ editor[e].flow \in FlowId
         /\ \/ RowsKept /\ ~InUse(editor[e].flow)
            \/ Touches(editor[e].flow) /\ flows'[editor[e].flow].made = "deleted"
<1> DEFINE f == editor[e].flow
<1>1. /\ UNCHANGED <<routes, meta, reader, announced>> /\ Edits(e, "insertFlow", 0, editor[e].on)
      /\ (Removes(f) \/ (RowsKept /\ ~InUse(f)))
  BY DEF DropStep, Is, RowsKept
<1>2. f \in FlowId /\ editor[e].on \in BOOLEAN
  BY EditorFlow DEF Is
<1> HIDE DEF f
<1>3. EditorTyped' /\ OthersWait(e) /\ editor'[e].doing = "insertFlow"
  BY <1>1, <1>2, EditsFrame DEF TypeInv, Stage, Owing
<1>4. Bystander(e)
  BY <1>1, <1>3 DEF Bystander
<1>5. CASE Removes(f)
  <2>1. RowsTyped' /\ Touches(f) /\ flows'[f].node = 0 /\ flows'[f].made = "deleted"
    BY <1>1, <1>2, <1>5, RemovesTouches DEF TypeInv
  <2>2. NodeNumbers
    BY <2>1 DEF NodeNumbers, Touches
  <2>3. EditorStep(e)
    BY <1>1, <1>2, <1>3, <2>1, <2>2, HeadStep DEF Owing
  <2> QED BY <1>2, <1>3, <1>4, <2>1, <2>3 DEF f
<1>6. CASE RowsKept /\ ~InUse(f)
  <2>1. EditorStep(e)
    BY <1>1, <1>3, <1>6, KeptStep DEF Owing
  <2> QED BY <1>2, <1>3, <1>4, <1>6, <2>1 DEF f
<1> QED BY <1>1, <1>5, <1>6

LEMMA GenerateFlowStep ==
  ASSUME TypeInv, NEW e \in Editor, NEW f \in FlowId, GenerateFlow(e, f)
  PROVE  /\ EditorStep(e) /\ Bystander(e) /\ Touches(f)
         /\ editor[e].doing = "insertFlow" /\ editor'[e].doing = "insertNodes"
         /\ flows[f].made = "absent" /\ flows'[f].made = "template" /\ ~flows'[f].named
<1> DEFINE d == [NoFlow EXCEPT !.made = "template"]
           r == [d EXCEPT !.on = editor[e].on]
<1>1. /\ Is(e, "insertFlow") /\ NextFlow(f) /\ UNCHANGED <<routes, meta, reader, announced>>
      /\ Writes(f, r, "flow") /\ Edits(e, "insertNodes", f, editor[e].on)
  BY DEF GenerateFlow
<1>2. editor[e].on \in BOOLEAN
  BY DEF TypeInv, EditorTyped, EditRow
<1>3. d \in FlowRow /\ d.made = "template" /\ ~d.named /\ d.node = 0 /\ d.edges = 0
  BY NewFlow
<1> HIDE DEF d
<1>4. r \in FlowRow /\ r.made = "template" /\ ~r.named /\ r.node = 0 /\ r.edges = 0
  BY <1>2, <1>3, SwitchedFlow
<1> HIDE DEF r
<1>5. Within(r, f, "flow") /\ r.node = flows[f].node /\ flows[f].made = "absent"
  BY <1>1, <1>4, NodeAtNextFlow DEF Within
<1>6. RowsTyped' /\ Touches(f) /\ NodeNumbers /\ flows'[f] = r
  BY <1>1, <1>4, <1>5, WritesTouches, WritesNodes DEF TypeInv, Table
<1>7. EditorTyped' /\ OthersWait(e) /\ editor'[e].doing = "insertNodes"
  BY <1>1, <1>2, EditsFrame DEF TypeInv, Stage, Owing
<1>8. EditorStep(e)
  BY <1>1, <1>6, <1>7, HeadStep DEF Owing
<1> QED BY <1>1, <1>4, <1>5, <1>6, <1>7, <1>8 DEF Bystander, Is

LEMMA GenerateRestStep ==
  ASSUME TypeInv, NEW e \in Editor, GenerateRest(e)
  PROVE  /\ EditorStep(e) /\ Bystander(e) /\ HeadsKept
         /\ editor'[e].doing \in {"insertEdges", "forgetRoutes"}
<1> DEFINE f == editor[e].flow
           r == [flows[f] EXCEPT !.edges = edits + 1]
           q == [flows[f] EXCEPT !.node = edits + 1]
<1>1. /\ UNCHANGED <<routes, meta, reader, announced>>
      /\ \/ Is(e, "insertNodes") /\ Writes(f, q, "node") /\ Edits(e, "insertEdges", f, editor[e].on)
         \/ Is(e, "insertEdges") /\ Writes(f, r, "edges") /\ Edits(e, "forgetRoutes", f, editor[e].on)
  BY DEF GenerateRest
<1>2. f \in FlowId /\ editor[e].on \in BOOLEAN
  BY <1>1, EditorFlow DEF Is
<1>3. edits + 1 \in 0 .. MaxEdits
  BY <1>1, WritesNext DEF TypeInv
<1>4. /\ r \in FlowRow /\ Within(r, f, "edges") /\ r.node = flows[f].node
      /\ q \in FlowRow /\ Within(q, f, "node") /\ q.node = edits + 1
  BY <1>2, <1>3, ChangedPart DEF TypeInv
<1> HIDE DEF r, q, f
<1>5. CASE Is(e, "insertEdges") /\ Writes(f, r, "edges") /\ Edits(e, "forgetRoutes", f, editor[e].on)
  <2>1. EditorTyped' /\ OthersWait(e) /\ editor'[e].doing = "forgetRoutes"
    BY <1>2, <1>5, EditsFrame DEF TypeInv, Stage, Owing
  <2>2. EditorStep(e)
    BY <1>1, <1>2, <1>4, <1>5, <2>1, PartStep DEF Owing
  <2>3. HeadsKept
    BY <1>1, <1>2, <1>4, <1>5, WritesNodes DEF TypeInv, Table
  <2> QED BY <1>1, <2>1, <2>2, <2>3 DEF Bystander
<1>6. CASE Is(e, "insertNodes") /\ Writes(f, q, "node") /\ Edits(e, "insertEdges", f, editor[e].on)
  <2>1. EditorTyped' /\ OthersWait(e) /\ editor'[e].doing = "insertEdges"
    BY <1>2, <1>6, EditsFrame DEF TypeInv, Stage, Owing
  <2>2. EditorStep(e)
    BY <1>1, <1>2, <1>4, <1>6, <2>1, PartStep DEF Owing
  <2>3. HeadsKept
    BY <1>1, <1>2, <1>4, <1>6, WritesNodes DEF TypeInv, Table
  <2> QED BY <1>1, <2>1, <2>2, <2>3 DEF Bystander
<1> QED BY <1>1, <1>5, <1>6

LEMMA GenerateFailsStep ==
  ASSUME TypeInv, NEW e \in Editor, GenerateFails(e)
  PROVE  EditorStep(e) /\ Bystander(e) /\ HeadsKept /\ editor'[e].doing = "none"
<1>1. /\ Returns(e) /\ RowsKept /\ announced' = announced /\ meta' = meta
      /\ reader' = Doubted({"findNamed", "remember"})
      /\ routes' = [k \in Kind |-> [routes[k] EXCEPT !.doubt = TRUE]]
  BY DEF GenerateFails, Rows, RowsKept
<1>2. EditorTyped' /\ OthersWait(e) /\ editor'[e].doing = "none"
  BY <1>1, ReturnsFrame DEF TypeInv
<1>3. CachesTyped' /\ ReaderTyped' /\ CachesKept /\ RoutesDoubted
  BY <1>1, FailFrame
<1>4. RowsTyped' /\ NodeNumbers /\ HeadsKept
  BY <1>1, RowsKeptTyped DEF TypeInv
<1> QED BY <1>1, <1>2, <1>3, <1>4 DEF EditorStep, MovesOn, Bystander, TypeInv

\* What one step of an editor may do, whichever operation it belongs to.
LEMMA EditorSteps ==
  ASSUME TypeInv, NEW e \in Editor, FlowStep(e) \/ NodeStep(e) \/ GenerateStep(e)
  PROVE  /\ EditorStep(e)
         /\ Bystander(e) \/ UpdateTaskNode(e) \/ FindKeys(e) \/ DeleteKeys(e)
<1>1. CASE FlowStep(e)
  BY <1>1, CreateFlowStep, UpdateFlowStep, ChecksStep, DeleteFlowStep, InvalidateFlowsStep
     DEF FlowStep, Checked
<1>2. CASE NodeStep(e)
  BY <1>2, ChecksStep, UpdateNodeStep, FindKeysStep, DeleteKeysStep, CreateNodeStep,
     DeleteNodeStep, EdgeSteps DEF NodeStep, Checked
<1>3. CASE GenerateStep(e)
  BY <1>3, GenerateBeginStep, DropPartStep, DropFlowStep, GenerateFlowStep, GenerateRestStep,
     GenerateFailsStep DEF GenerateStep
<1> QED BY <1>1, <1>2, <1>3

-----------------------------------------------------------------------------
(* Every step of a turn that looks something up.                           *)

\* The flows a lookup answers with when it reads the table now.
ByIntent == {f \in Enabled : ~flows[f].named}
Current(k) == IF k = "list" THEN Enabled
              ELSE Newest(IF ByIntent # {} THEN ByIntent ELSE Enabled)

OthersLook(t) == \A u \in Reader \ {t} : reader'[u] = reader[u]

LEMMA ReaderFrame ==
  ASSUME ReaderTyped, NEW t \in Reader, NEW r \in ReaderRow,
         r.doing \in {"get", "set"} => r.flow \in FlowId, reader' = [reader EXCEPT ![t] = r]
  PROVE  ReaderTyped' /\ OthersLook(t) /\ reader'[t] = r
  BY DEF ReaderTyped, OthersLook

LEMMA RestingReader ==
  ASSUME ReaderTyped, NEW t \in Reader, reader' = [reader EXCEPT ![t] = NoLookup]
  PROVE  ReaderTyped' /\ OthersLook(t) /\ reader'[t] = NoLookup /\ NoLookup.doing = "none"
<1>1. NoLookup \in ReaderRow /\ NoLookup.doing = "none"
  BY NoRows DEF NoLookup
<1> QED BY <1>1, ReaderFrame

LEMMA RouteMissStep ==
  ASSUME TypeInv, NEW t \in Reader, NEW k \in Kind, RouteMiss(t, k)
  PROVE  /\ TypeInv' /\ OthersLook(t) /\ reader'[t].doing = "find"
         /\ UNCHANGED <<Rows, routes, meta, editor>>
<1> DEFINE a == [NoLookup EXCEPT !.doing = "find"]
           r == [a EXCEPT !.kind = k]
<1>1. reader' = [reader EXCEPT ![t] = r] /\ UNCHANGED <<Rows, routes, meta, editor>>
  BY DEF RouteMiss
<1>2. a \in ReaderRow /\ a.doing = "find"
  BY NoRows DEF ReaderRow, NoLookup, Look
<1> HIDE DEF a
<1>3. r \in ReaderRow /\ r.doing = "find"
  BY <1>2 DEF ReaderRow
<1> HIDE DEF r
<1>4. ReaderTyped' /\ OthersLook(t) /\ reader'[t] = r
  BY <1>1, <1>3, ReaderFrame DEF TypeInv
<1> QED BY <1>1, <1>3, <1>4 DEF TypeInv, RowsTyped, CachesTyped, EditorTyped, Rows

LEMMA MetaMissStep ==
  ASSUME TypeInv, NEW t \in Reader, NEW f \in FlowId, NEW k \in Key, MetaMiss(t, f, k)
  PROVE  /\ TypeInv' /\ OthersLook(t) /\ reader'[t].doing = "get"
         /\ UNCHANGED <<Rows, routes, meta, editor>>
<1> DEFINE a == [NoLookup EXCEPT !.doing = "get"]
           b == [a EXCEPT !.flow = f]
           r == [b EXCEPT !.key = k]
<1>1. reader' = [reader EXCEPT ![t] = r] /\ UNCHANGED <<Rows, routes, meta, editor>>
  BY DEF MetaMiss
<1>2. a \in ReaderRow /\ a.doing = "get"
  BY NoRows DEF ReaderRow, NoLookup, Look
<1> HIDE DEF a
<1>3. b \in ReaderRow /\ b.doing = "get" /\ b.flow = f
  BY <1>2 DEF ReaderRow
<1> HIDE DEF b
<1>4. r \in ReaderRow /\ r.doing = "get" /\ r.flow = f
  BY <1>3 DEF ReaderRow
<1> HIDE DEF r
<1>5. ReaderTyped' /\ OthersLook(t) /\ reader'[t] = r
  BY <1>1, <1>4, ReaderFrame DEF TypeInv
<1> QED BY <1>1, <1>4, <1>5 DEF TypeInv, RowsTyped, CachesTyped, EditorTyped, Rows

LEMMA FindsFrame ==
  ASSUME ReaderTyped, NEW t \in Reader, NEW F \in SUBSET FlowId, Finds(t, F)
  PROVE  /\ ReaderTyped' /\ OthersLook(t) /\ reader'[t].doing = "remember" /\ reader'[t].found = F
         /\ reader'[t].kind = reader[t].kind /\ reader'[t].doubt = reader[t].doubt
<1> DEFINE a == [reader[t] EXCEPT !.doing = "remember"]
           r == [a EXCEPT !.found = F]
<1>1. reader[t] \in ReaderRow
  BY DEF ReaderTyped
<1>2. reader' = [reader EXCEPT ![t] = r]
  BY <1>1 DEF Finds, ReaderTyped
<1>3. /\ a \in ReaderRow /\ a.doing = "remember"
      /\ a.kind = reader[t].kind /\ a.doubt = reader[t].doubt
  BY <1>1 DEF ReaderRow, Look
<1> HIDE DEF a
<1>4. /\ r \in ReaderRow /\ r.doing = "remember" /\ r.found = F
      /\ r.kind = reader[t].kind /\ r.doubt = reader[t].doubt
  BY <1>3 DEF ReaderRow
<1> HIDE DEF r
<1> QED BY <1>2, <1>4, ReaderFrame

LEMMA RouteReadStep ==
  ASSUME TypeInv, NEW t \in Reader, RouteRead(t)
  PROVE  /\ TypeInv' /\ OthersLook(t) /\ UNCHANGED <<Rows, routes, meta, editor>>
         /\ reader'[t].kind = reader[t].kind /\ reader'[t].doubt = reader[t].doubt
         /\ \/ /\ reader'[t].doing = "remember" /\ reader'[t].found \subseteq Enabled
               /\ \/ reader[t].doing = "find" /\ reader'[t].found = Current(reader[t].kind)
                  \/ /\ reader[t].doing = "findNamed"
                     /\ reader'[t].found = Newest({f \in Enabled : flows[f].named})
            \/ reader'[t].doing = "findNamed" /\ reader[t].kind = "intent" /\ ByIntent = {}
<1>1. UNCHANGED <<Rows, routes, meta, editor>>
  BY DEF RouteRead
<1>2. reader[t] \in ReaderRow /\ Enabled \subseteq FlowId
  BY DEF TypeInv, ReaderTyped, Enabled
<1>3. \/ reader[t].doing = "find" /\ reader[t].kind = "list" /\ Finds(t, Enabled)
      \/ reader[t].doing = "find" /\ reader[t].kind # "list" /\ ByIntent # {}
         /\ Finds(t, Newest(ByIntent))
      \/ reader[t].doing = "find" /\ reader[t].kind # "list" /\ ByIntent = {}
         /\ reader' = [reader EXCEPT ![t].doing = "findNamed"]
      \/ reader[t].doing = "findNamed" /\ Finds(t, Newest({f \in Enabled : flows[f].named}))
  BY DEF RouteRead, ByIntent
<1>4. /\ Newest(ByIntent) \subseteq Enabled
      /\ Newest({f \in Enabled : flows[f].named}) \subseteq Enabled
  BY DEF Newest, ByIntent
<1>5. ReaderTyped'
      => TypeInv'
  BY <1>1 DEF TypeInv, RowsTyped, CachesTyped, EditorTyped, Rows
<1>6. CASE reader[t].doing = "find" /\ reader[t].kind = "list" /\ Finds(t, Enabled)
  <2>1. Current(reader[t].kind) = Enabled
    BY <1>6 DEF Current
  <2> QED BY <1>1, <1>2, <1>5, <1>6, <2>1, FindsFrame DEF TypeInv
<1>7. CASE reader[t].doing = "find" /\ reader[t].kind # "list" /\ ByIntent # {}
           /\ Finds(t, Newest(ByIntent))
  <2>1. Current(reader[t].kind) = Newest(ByIntent)
    BY <1>7 DEF Current
  <2> QED BY <1>1, <1>2, <1>4, <1>5, <1>7, <2>1, FindsFrame DEF TypeInv
<1>8. CASE reader[t].doing = "find" /\ reader[t].kind # "list" /\ ByIntent = {}
           /\ reader' = [reader EXCEPT ![t].doing = "findNamed"]
  <2> DEFINE r == [reader[t] EXCEPT !.doing = "findNamed"]
  <2>1. reader' = [reader EXCEPT ![t] = r]
    BY <1>2, <1>8 DEF TypeInv, ReaderTyped
  <2>2. /\ r \in ReaderRow /\ r.doing = "findNamed"
        /\ r.kind = reader[t].kind /\ r.doubt = reader[t].doubt
    BY <1>2 DEF ReaderRow, Look
  <2>3. reader[t].kind = "intent"
    BY <1>2, <1>8 DEF ReaderRow, Kind
  <2> HIDE DEF r
  <2>4. ReaderTyped' /\ OthersLook(t) /\ reader'[t] = r
    BY <2>1, <2>2, ReaderFrame DEF TypeInv
  <2> QED BY <1>1, <1>5, <1>8, <2>2, <2>3, <2>4
<1>9. CASE reader[t].doing = "findNamed" /\ Finds(t, Newest({f \in Enabled : flows[f].named}))
  BY <1>1, <1>2, <1>4, <1>5, <1>9, FindsFrame DEF TypeInv
<1> QED BY <1>3, <1>6, <1>7, <1>8, <1>9

LEMMA RouteRememberStep ==
  ASSUME TypeInv, NEW t \in Reader, RouteRemember(t)
  PROVE  /\ TypeInv' /\ OthersLook(t) /\ reader'[t].doing = "none" /\ reader[t].doing = "remember"
         /\ UNCHANGED <<Rows, meta, editor>>
         /\ LET k == reader[t].kind
            IN  /\ k \in Kind /\ \A j \in Kind \ {k} : routes'[j] = routes[j]
                /\ routes'[k].flows = reader[t].found /\ routes'[k].doubt = reader[t].doubt
                /\ routes'[k].age < RouteTTL => routes'[k].age = reader[t].age
<1> DEFINE k == reader[t].kind
           v == [flows |-> reader[t].found, doubt |-> reader[t].doubt,
                 age |-> IF reader[t].age < RouteTTL THEN reader[t].age ELSE RouteTTL]
<1>1. /\ reader[t].doing = "remember" /\ routes' = [routes EXCEPT ![k] = v]
      /\ reader' = [reader EXCEPT ![t] = NoLookup] /\ UNCHANGED <<Rows, meta, editor>>
  BY DEF RouteRemember
<1>2. reader[t] \in ReaderRow /\ k \in Kind
  BY DEF TypeInv, ReaderTyped, ReaderRow
<1>3. v \in RouteRow
  BY <1>2, TTLAssumption, Times DEF ReaderRow, RouteRow
<1>4. routes' \in [Kind -> RouteRow] /\ routes'[k] = v /\ \A j \in Kind \ {k} : routes'[j] = routes[j]
  BY <1>1, <1>2, <1>3 DEF TypeInv, CachesTyped
<1>5. routes'[k].age < RouteTTL => routes'[k].age = reader[t].age
  BY <1>2, <1>4, TTLAssumption DEF Fresh, ReaderRow
<1>6. ReaderTyped' /\ OthersLook(t) /\ reader'[t].doing = "none"
  BY <1>1, RestingReader DEF TypeInv
<1>7. TypeInv'
  BY <1>1, <1>4, <1>6 DEF TypeInv, RowsTyped, CachesTyped, EditorTyped, Rows
<1> QED BY <1>1, <1>2, <1>4, <1>5, <1>6, <1>7

LEMMA Values ==
  ASSUME TypeInv, NEW f \in FlowId, NEW k \in Key
  PROVE  Value(f, k) \in 0 .. MaxEdits + 1 /\ (k = "node" => Value(f, k) = flows[f].node)
<1>1. flows[f] \in FlowRow
  BY DEF TypeInv, RowsTyped
<1>2. k \in {"flow", "start", "node", "edges"}
  BY DEF Key
<1>3. flows[f].node \in 0 .. MaxEdits + 1 /\ flows[f].edges \in 0 .. MaxEdits + 1
  BY <1>1, EditAssumption DEF FlowRow
<1> QED BY <1>2, <1>3, EditAssumption DEF Value, TableOf

LEMMA MetaReadStep ==
  ASSUME TypeInv, NEW t \in Reader, MetaRead(t)
  PROVE  /\ TypeInv' /\ OthersLook(t) /\ UNCHANGED <<Rows, routes, meta, editor>>
         /\ \/ reader'[t].doing = "none"
            \/ /\ reader'[t].doing = "set" /\ reader[t].flow \in FlowId /\ reader[t].key \in Key
               /\ reader'[t].flow = reader[t].flow /\ reader'[t].key = reader[t].key
               /\ reader'[t].seen = Value(reader[t].flow, reader[t].key)
               /\ reader[t].key = "node" => reader'[t].seen # 0
<1> DEFINE v == Value(reader[t].flow, reader[t].key)
           a == [reader[t] EXCEPT !.doing = "set"]
           b == [a EXCEPT !.seen = v]
           r == [b EXCEPT !.age = 0]
<1>1. reader[t].doing = "get" /\ UNCHANGED <<Rows, routes, meta, editor>>
      /\ \/ /\ v = 0 /\ reader[t].key # "edges"
            /\ reader' = [reader EXCEPT ![t] = NoLookup]
         \/ /\ ~(v = 0 /\ reader[t].key # "edges")
            /\ reader' = [reader EXCEPT ![t] = [@ EXCEPT !.doing = "set", !.seen = v, !.age = 0]]
  BY DEF MetaRead
<1>2. reader[t] \in ReaderRow /\ reader[t].flow \in FlowId /\ reader[t].key \in Key
  BY <1>1 DEF TypeInv, ReaderTyped, ReaderRow
<1>3. v \in 0 .. MaxEdits + 1
  BY <1>2, Values
<1>4. ReaderTyped' => TypeInv'
  BY <1>1 DEF TypeInv, RowsTyped, CachesTyped, EditorTyped, Rows
<1>5. CASE v = 0 /\ reader[t].key # "edges" /\ reader' = [reader EXCEPT ![t] = NoLookup]
  BY <1>1, <1>4, <1>5, RestingReader DEF TypeInv
<1>6. CASE /\ ~(v = 0 /\ reader[t].key # "edges")
           /\ reader' = [reader EXCEPT ![t] = [@ EXCEPT !.doing = "set", !.seen = v, !.age = 0]]
  <2>1. reader' = [reader EXCEPT ![t] = r]
    BY <1>2, <1>6 DEF TypeInv, ReaderTyped
  <2>2. a \in ReaderRow /\ a.doing = "set" /\ a.flow = reader[t].flow /\ a.key = reader[t].key
    BY <1>2 DEF ReaderRow, Look
  <2> HIDE DEF a, v
  <2>3. b \in ReaderRow /\ b.doing = "set" /\ b.flow = reader[t].flow /\ b.key = reader[t].key
        /\ b.seen = v
    BY <1>3, <2>2 DEF ReaderRow
  <2> HIDE DEF b
  <2>4. r \in ReaderRow /\ r.doing = "set" /\ r.flow = reader[t].flow /\ r.key = reader[t].key
        /\ r.seen = v
    BY <2>3, Times DEF ReaderRow
  <2> HIDE DEF r
  <2>5. ReaderTyped' /\ OthersLook(t) /\ reader'[t] = r
    BY <1>2, <2>1, <2>4, ReaderFrame DEF TypeInv
  <2> QED BY <1>1, <1>2, <1>4, <1>6, <2>4, <2>5 DEF v
<1> QED BY <1>1, <1>5, <1>6

LEMMA MetaSetStep ==
  ASSUME TypeInv, NEW t \in Reader, MetaSet(t)
  PROVE  /\ TypeInv' /\ OthersLook(t) /\ reader'[t].doing = "none" /\ reader[t].doing = "set"
         /\ UNCHANGED <<Rows, routes, editor>>
         /\ LET f == reader[t].flow  k == reader[t].key
            IN  /\ f \in FlowId /\ k \in Key
                /\ \A g \in FlowId, j \in Key : (g # f \/ j # k) => meta'[g][j] = meta[g][j]
                /\ meta'[f][k].seen = reader[t].seen /\ meta'[f][k].age = 0
                /\ meta'[f][k].lag = reader[t].age /\ meta'[f][k].doubt = reader[t].doubt
<1> DEFINE f == reader[t].flow
           k == reader[t].key
           v == [seen |-> reader[t].seen, age |-> 0, lag |-> reader[t].age, doubt |-> reader[t].doubt]
<1>1. /\ reader[t].doing = "set" /\ meta' = [meta EXCEPT ![f][k] = v]
      /\ reader' = [reader EXCEPT ![t] = NoLookup] /\ UNCHANGED <<Rows, routes, editor>>
  BY DEF MetaSet
<1>2. reader[t] \in ReaderRow /\ f \in FlowId /\ k \in Key
  BY <1>1 DEF TypeInv, ReaderTyped, ReaderRow
<1>3. v \in MetaRow
  BY <1>2, TTLAssumption DEF ReaderRow, MetaRow
<1> HIDE DEF v
<1>4. /\ meta' \in [FlowId -> [Key -> MetaRow]] /\ meta'[f][k] = v
      /\ \A g \in FlowId, j \in Key : (g # f \/ j # k) => meta'[g][j] = meta[g][j]
  BY <1>1, <1>2, <1>3 DEF TypeInv, CachesTyped
<1>5. ReaderTyped' /\ OthersLook(t) /\ reader'[t].doing = "none"
  BY <1>1, RestingReader DEF TypeInv
<1>6. TypeInv'
  BY <1>1, <1>4, <1>5 DEF TypeInv, RowsTyped, CachesTyped, EditorTyped, Rows
<1> QED BY <1>1, <1>2, <1>4, <1>5, <1>6 DEF v

LEMMA Hits ==
  ASSUME TypeInv, NEW t \in Reader, NEW k, NEW f, RouteHit(t, k) \/ MetaHit(t, f, k)
  PROVE  UNCHANGED flowVars
  BY DEF RouteHit, MetaHit

-----------------------------------------------------------------------------
(* Types.                                                                  *)

LEMMA PassStep ==
  ASSUME TypeInv, Pass
  PROVE  /\ TypeInv' /\ UNCHANGED <<flows, edits, editor, announced>>
         /\ \A k \in Kind : Fresh(k)' =>
              /\ Fresh(k) /\ routes'[k].flows = routes[k].flows
              /\ routes'[k].age = routes[k].age + 1 /\ routes'[k].doubt = routes[k].doubt
         /\ \A f \in FlowId, k \in Key : Cached(f, k)' =>
              /\ Cached(f, k) /\ meta'[f][k].seen = meta[f][k].seen
              /\ meta'[f][k].age = meta[f][k].age + 1
              /\ meta'[f][k].lag = meta[f][k].lag /\ meta'[f][k].doubt = meta[f][k].doubt
         /\ \A t \in Reader : reader'[t].doing # "none" =>
              /\ reader'[t].doing = reader[t].doing /\ reader'[t].kind = reader[t].kind
              /\ reader'[t].flow = reader[t].flow /\ reader'[t].key = reader[t].key
              /\ reader'[t].found = reader[t].found /\ reader'[t].seen = reader[t].seen
              /\ reader'[t].age = Aged(reader[t].age) /\ reader'[t].doubt = reader[t].doubt
<1>0. UNCHANGED <<flows, edits, editor, announced>>
  BY DEF Pass
<1>1. ASSUME NEW k \in Kind
      PROVE  /\ routes'[k] \in RouteRow
             /\ Fresh(k)' =>
                 /\ Fresh(k) /\ routes'[k].flows = routes[k].flows
                 /\ routes'[k].age = routes[k].age + 1 /\ routes'[k].doubt = routes[k].doubt
  <2>1. routes'[k] = IF Fresh(k) THEN [routes[k] EXCEPT !.age = @ + 1] ELSE NoEntry
    BY DEF Pass
  <2>2. routes[k] \in RouteRow
    BY DEF TypeInv, CachesTyped
  <2>3. CASE Fresh(k)
    BY <2>1, <2>2, <2>3, TTLAssumption DEF Fresh, RouteRow
  <2>4. CASE ~Fresh(k)
    <3>1. NoEntry.age = RouteTTL
      BY DEF NoEntry
    <3> QED BY <2>1, <2>4, <3>1, NoRows, TTLAssumption DEF Fresh
  <2> QED BY <2>3, <2>4
<1>2. ASSUME NEW f \in FlowId, NEW k \in Key
      PROVE  /\ meta'[f][k] \in MetaRow
             /\ Cached(f, k)' =>
                 /\ Cached(f, k) /\ meta'[f][k].seen = meta[f][k].seen
                 /\ meta'[f][k].age = meta[f][k].age + 1
                 /\ meta'[f][k].lag = meta[f][k].lag /\ meta'[f][k].doubt = meta[f][k].doubt
  <2>1. meta'[f][k] = IF meta[f][k].age + 1 < MetaTTL THEN [meta[f][k] EXCEPT !.age = @ + 1]
                      ELSE NotCached
    BY DEF Pass
  <2>2. meta[f][k] \in MetaRow
    BY DEF TypeInv, CachesTyped
  <2>3. CASE meta[f][k].age + 1 < MetaTTL
    BY <2>1, <2>2, <2>3, TTLAssumption DEF Cached, MetaRow
  <2>4. CASE ~(meta[f][k].age + 1 < MetaTTL)
    <3>1. NotCached.age = MetaTTL
      BY DEF NotCached
    <3> QED BY <2>1, <2>4, <3>1, NoRows, TTLAssumption DEF Cached
  <2> QED BY <2>3, <2>4
<1>3. ASSUME NEW t \in Reader
      PROVE  /\ reader'[t] \in ReaderRow
             /\ reader'[t].doing \in {"get", "set"} => reader'[t].flow \in FlowId
             /\ reader'[t].doing # "none" =>
                 /\ reader'[t].doing = reader[t].doing /\ reader'[t].kind = reader[t].kind
                 /\ reader'[t].flow = reader[t].flow /\ reader'[t].key = reader[t].key
                 /\ reader'[t].found = reader[t].found /\ reader'[t].seen = reader[t].seen
                 /\ reader'[t].age = Aged(reader[t].age) /\ reader'[t].doubt = reader[t].doubt
  <2> DEFINE r == [reader[t] EXCEPT !.age = Aged(reader[t].age)]
  <2>1. reader'[t] = NoLookup \/ reader'[t] = r
    BY DEF Pass
  <2>2. reader[t] \in ReaderRow /\ reader[t].age \in 0 .. Never
    BY DEF TypeInv, ReaderTyped, ReaderRow
  <2>3. Aged(reader[t].age) \in 0 .. Never
    BY <2>2, Aging
  <2>4. /\ r \in ReaderRow /\ r.doing = reader[t].doing /\ r.kind = reader[t].kind
        /\ r.flow = reader[t].flow /\ r.key = reader[t].key
        /\ r.found = reader[t].found /\ r.seen = reader[t].seen
        /\ r.age = Aged(reader[t].age) /\ r.doubt = reader[t].doubt
    BY <2>2, <2>3 DEF ReaderRow
  <2> HIDE DEF r
  <2>5. NoLookup \in ReaderRow /\ NoLookup.doing = "none"
    BY NoRows DEF NoLookup
  <2>6. reader[t].doing \in {"get", "set"} => reader[t].flow \in FlowId
    BY DEF TypeInv, ReaderTyped
  <2> QED BY <2>1, <2>4, <2>5, <2>6
<1>4. CachesTyped'
  <2>1. routes' \in [Kind -> RouteRow]
    BY <1>1 DEF Pass
  <2>2. meta' \in [FlowId -> [Key -> MetaRow]]
    BY <1>2 DEF Pass
  <2> QED BY <2>1, <2>2 DEF CachesTyped
<1>5. ReaderTyped'
  <2>1. reader' \in [Reader -> ReaderRow]
    BY <1>3 DEF Pass
  <2> QED BY <1>3, <2>1 DEF ReaderTyped
<1>6. RowsTyped' /\ EditorTyped'
  <2>1. disabled' \in [FlowId -> 0 .. RouteTTL]
    BY TTLAssumption DEF Pass, TypeInv, RowsTyped
  <2>2. changed' \in [FlowId -> [Table -> 0 .. Never]]
    BY Aging DEF Pass, TypeInv, RowsTyped
  <2> QED BY <1>0, <2>1, <2>2 DEF TypeInv, RowsTyped, EditorTyped
<1> QED BY <1>0, <1>1, <1>2, <1>3, <1>4, <1>5, <1>6 DEF TypeInv

LEMMA TypeInit == FlowInit => TypeInv
<1> SUFFICES ASSUME FlowInit PROVE TypeInv
  OBVIOUS
<1>1. RowsTyped
  BY NoRows, EditAssumption, TTLAssumption, Times DEF FlowInit, RowsTyped
<1>2. CachesTyped
  BY NoRows DEF FlowInit, CachesTyped
<1>3. ReaderTyped
  <2>1. NoLookup.doing = "none"
    BY DEF NoLookup
  <2> QED BY <2>1, NoRows DEF FlowInit, ReaderTyped
<1>4. EditorTyped
  <2>1. NoEdit.doing = "none"
    BY DEF NoEdit
  <2> QED BY <2>1, NoRows DEF FlowInit, EditorTyped
<1> QED BY <1>1, <1>2, <1>3, <1>4 DEF TypeInv

LEMMA TypeKept ==
  ASSUME TypeInv, UNCHANGED flowVars  PROVE  TypeInv'
  BY DEF TypeInv, RowsTyped, CachesTyped, ReaderTyped, EditorTyped, flowVars

LEMMA TypeNext == TypeInv /\ [FlowNext]_flowVars => TypeInv'
<1> SUFFICES ASSUME TypeInv, [FlowNext]_flowVars PROVE TypeInv'
  OBVIOUS
<1>1. ASSUME NEW t \in Reader, NEW k \in Kind, RouteStep(t, k)  PROVE TypeInv'
  BY <1>1, Hits, TypeKept, RouteMissStep, RouteReadStep, RouteRememberStep DEF RouteStep
<1>2. ASSUME NEW t \in Reader, NEW k \in Key, MetaStep(t, k)  PROVE TypeInv'
  BY <1>2, Hits, TypeKept, MetaMissStep, MetaReadStep, MetaSetStep DEF MetaStep
<1>3. ASSUME NEW e \in Editor, FlowStep(e) \/ NodeStep(e) \/ GenerateStep(e)  PROVE TypeInv'
  BY <1>3, EditorSteps DEF EditorStep
<1>4. CASE Pass
  BY <1>4, PassStep
<1>5. CASE UNCHANGED flowVars
  BY <1>5, TypeKept
<1> QED BY <1>1, <1>2, <1>3, <1>4, <1>5 DEF FlowNext

THEOREM FlowsAreTyped == FlowSpec => []TypeInv
  BY TypeInit, TypeNext, PTL DEF FlowSpec

\* Whatever is edited, generated and looked up at the same time, the rows, the
\* caches of repository.py and what turns and requests hold stay typed.
THEOREM FlowTypeCorrect == FlowSpec => []FlowTypeOK
<1>1. TypeInv => FlowTypeOK
  BY DEF TypeInv, RowsTyped, CachesTyped, ReaderTyped, EditorTyped, FlowTypeOK, RouteRow,
         MetaRow, ReaderRow, Look
<1> QED BY <1>1, FlowsAreTyped, PTL

-----------------------------------------------------------------------------
(* Staleness.  What a cache or a turn about to fill it holds is either what *)
(* the rows say, or the row was changed no longer ago than the entry is old.*)

Routed ==
    /\ \A k \in Kind : Fresh(k) =>
         \A f \in routes[k].flows : f \in Enabled \/ disabled[f] <= routes[k].age
    /\ \A t \in Reader : reader[t].doing = "remember" =>
         \A f \in reader[t].found : f \in Enabled \/ disabled[f] <= reader[t].age

Dated ==
    /\ \A f \in FlowId, k \in Key : Cached(f, k) /\ meta[f][k].seen # Value(f, k) =>
         changed[f][TableOf[k]] <= meta[f][k].age + meta[f][k].lag
    /\ \A t \in Reader, f \in FlowId, k \in Key :
         /\ reader[t].doing = "set" /\ reader[t].flow = f /\ reader[t].key = k
         /\ reader[t].seen # Value(f, k)
         => changed[f][TableOf[k]] <= reader[t].age

StaleInv == Routed /\ Dated

LEMMA Ages ==
  ASSUME TypeInv
  PROVE  /\ \A k \in Kind : routes[k].flows \in SUBSET FlowId /\ routes[k].age \in Nat
                            /\ routes[k].age <= RouteTTL
         /\ \A f \in FlowId, k \in Key : meta[f][k].age \in Nat /\ meta[f][k].lag \in Nat
         /\ \A t \in Reader : /\ reader[t].found \in SUBSET FlowId /\ reader[t].age \in Nat
                              /\ reader[t].age \in 0 .. Never /\ reader[t].kind \in Kind
                              /\ reader[t].key \in Key
         /\ \A t \in Reader : reader[t].doing = "set" => reader[t].flow \in FlowId
         /\ \A f \in FlowId : disabled[f] \in 0 .. RouteTTL /\ disabled[f] \in Nat
         /\ \A f \in FlowId, k \in Key : changed[f][TableOf[k]] \in 0 .. Never
                                         /\ changed[f][TableOf[k]] \in Nat
<1>1. \A k \in Kind : routes[k] \in RouteRow
  BY DEF TypeInv, CachesTyped
<1>2. \A f \in FlowId, k \in Key : meta[f][k] \in MetaRow
  BY DEF TypeInv, CachesTyped
<1>3. /\ \A t \in Reader : reader[t] \in ReaderRow
      /\ \A t \in Reader : reader[t].doing = "set" => reader[t].flow \in FlowId
  BY DEF TypeInv, ReaderTyped
<1>4. \A f \in FlowId : disabled[f] \in 0 .. RouteTTL
  BY DEF TypeInv, RowsTyped
<1>5. \A f \in FlowId, k \in Key : changed[f][TableOf[k]] \in 0 .. Never
  BY Tables DEF TypeInv, RowsTyped
<1>6. \A k \in Kind : routes[k].flows \in SUBSET FlowId /\ routes[k].age \in 0 .. RouteTTL
  BY <1>1 DEF RouteRow
<1>7. \A f \in FlowId, k \in Key : meta[f][k].age \in 0 .. MetaTTL /\ meta[f][k].lag \in 0 .. Never
  BY <1>2 DEF MetaRow
<1>8. \A t \in Reader : /\ reader[t].found \in SUBSET FlowId /\ reader[t].age \in 0 .. Never
                        /\ reader[t].kind \in Kind /\ reader[t].key \in Key
  BY <1>3 DEF ReaderRow
<1> QED BY <1>3, <1>4, <1>5, <1>6, <1>7, <1>8, Times, TTLAssumption

LEMMA EnabledBy ==
  ASSUME NEW f \in FlowId, flows'[f] = flows[f]
  PROVE  (f \in Enabled') <=> (f \in Enabled)
  BY DEF Enabled, InUse

LEMMA ValueBy ==
  ASSUME NEW f \in FlowId, NEW k, flows'[f] = flows[f]
  PROVE  Value(f, k)' = Value(f, k)
  BY DEF Value, InUse

LEMMA RowsAsBefore ==
  ASSUME UNCHANGED flows
  PROVE  /\ Enabled' = Enabled
         /\ \A f \in FlowId, k \in Key : Value(f, k)' = Value(f, k)
  BY DEF Enabled, InUse, Value

\* The editors: no entry gets younger, and what changed is new.
LEMMA StaleEditor ==
  ASSUME TypeInv, StaleInv, NEW e \in Editor, EditorStep(e)
  PROVE  StaleInv'
<1>0. CachesKept /\ (RowsKept \/ \E f \in FlowId : Touches(f))
  BY DEF EditorStep
<1>1. ASSUME NEW f \in FlowId, NEW n \in Nat, f \in Enabled \/ disabled[f] <= n
      PROVE  f \in Enabled' \/ disabled'[f] <= n
  <2>1. CASE RowsKept
    BY <1>1, <2>1, RowsAsBefore DEF RowsKept
  <2>2. ASSUME NEW g \in FlowId, Touches(g)  PROVE f \in Enabled' \/ disabled'[f] <= n
    <3>1. CASE f = g
      BY <1>1, <2>2, <3>1 DEF Touches
    <3>2. CASE f # g
      BY <1>1, <2>2, <3>2, EnabledBy DEF Touches
    <3> QED BY <3>1, <3>2
  <2> QED BY <1>0, <2>1, <2>2
<1>2. ASSUME NEW f \in FlowId, NEW k \in Key, NEW n \in Nat, NEW v,
             v # Value(f, k) => changed[f][TableOf[k]] <= n,
             v # Value(f, k)'
      PROVE  changed'[f][TableOf[k]] <= n
  <2>1. CASE RowsKept
    BY <1>2, <2>1, RowsAsBefore DEF RowsKept
  <2>2. ASSUME NEW g \in FlowId, Touches(g)  PROVE changed'[f][TableOf[k]] <= n
    <3>1. CASE f = g
      BY <1>2, <2>2, <3>1, Tables, Ages DEF Touches
    <3>2. CASE f # g
      BY <1>2, <2>2, <3>2, ValueBy DEF Touches
    <3> QED BY <3>1, <3>2
  <2> QED BY <1>0, <2>1, <2>2
<1>3. Routed'
  <2>1. ASSUME NEW k \in Kind, Fresh(k)', NEW f \in routes'[k].flows
        PROVE  f \in Enabled' \/ disabled'[f] <= routes'[k].age
    BY <1>0, <1>1, <2>1, Ages DEF CachesKept, StaleInv, Routed
  <2>2. ASSUME NEW t \in Reader, reader'[t].doing = "remember", NEW f \in reader'[t].found
        PROVE  f \in Enabled' \/ disabled'[f] <= reader'[t].age
    BY <1>0, <1>1, <2>2, Ages DEF CachesKept, StaleInv, Routed
  <2> QED BY <2>1, <2>2 DEF Routed
<1>4. Dated'
  <2>1. ASSUME NEW f \in FlowId, NEW k \in Key, Cached(f, k)', meta'[f][k].seen # Value(f, k)'
        PROVE  changed'[f][TableOf[k]] <= meta'[f][k].age + meta'[f][k].lag
    <3>1. meta'[f][k] = meta[f][k] /\ Cached(f, k)
      BY <1>0, <2>1 DEF CachesKept, Cached
    <3> DEFINE n == meta[f][k].age + meta[f][k].lag
               v == meta[f][k].seen
    <3>2. n \in Nat
      BY Ages
    <3>3. v # Value(f, k) => changed[f][TableOf[k]] <= n
      BY <3>1 DEF StaleInv, Dated
    <3>4. v # Value(f, k)'
      BY <2>1, <3>1
    <3> HIDE DEF n, v
    <3>5. changed'[f][TableOf[k]] <= n
      BY <1>2, <3>2, <3>3, <3>4
    <3> QED BY <3>1, <3>5 DEF n
  <2>2. ASSUME NEW t \in Reader, NEW f \in FlowId, NEW k \in Key,
               reader'[t].doing = "set", reader'[t].flow = f, reader'[t].key = k,
               reader'[t].seen # Value(f, k)'
        PROVE  changed'[f][TableOf[k]] <= reader'[t].age
    <3>1. /\ reader[t].flow = f /\ reader[t].key = k
          /\ reader'[t].seen = reader[t].seen /\ reader'[t].age = reader[t].age
          /\ reader[t].doing = "set"
      BY <1>0, <2>2 DEF CachesKept
    <3> DEFINE n == reader[t].age
               v == reader[t].seen
    <3>2. n \in Nat
      BY Ages
    <3>3. v # Value(f, k) => changed[f][TableOf[k]] <= n
      BY <3>1 DEF StaleInv, Dated
    <3>4. v # Value(f, k)'
      BY <2>2, <3>1
    <3> HIDE DEF n, v
    <3>5. changed'[f][TableOf[k]] <= n
      BY <1>2, <3>2, <3>3, <3>4
    <3> QED BY <3>1, <3>5 DEF n
  <2> QED BY <2>1, <2>2 DEF Dated
<1> QED BY <1>3, <1>4 DEF StaleInv

\* The turns: what they take from the table or put into a cache is not older
\* than it says.
LEMMA StaleReader ==
  ASSUME TypeInv, StaleInv, NEW t \in Reader,
         \/ \E k \in Kind : RouteStep(t, k)
         \/ \E k \in Key : MetaStep(t, k)
  PROVE  StaleInv'
<1>1. CASE UNCHANGED flowVars
  BY <1>1 DEF StaleInv, Routed, Dated, Enabled, InUse, Value, Fresh, Cached, flowVars
<1>2. ASSUME OthersLook(t), UNCHANGED <<Rows, routes, meta, editor>>,
             reader'[t].doing \notin {"remember", "set"}
      PROVE  StaleInv'
  <2>1. Enabled' = Enabled /\ \A f \in FlowId, k \in Key : Value(f, k)' = Value(f, k)
    BY <1>2, RowsAsBefore DEF Rows
  <2>2. Routed'
    BY <1>2, <2>1 DEF StaleInv, Routed, OthersLook, Fresh, Rows
  <2>3. Dated'
    BY <1>2, <2>1 DEF StaleInv, Dated, OthersLook, Cached, Rows
  <2> QED BY <2>2, <2>3 DEF StaleInv
<1>3. ASSUME RouteRead(t)  PROVE StaleInv'
  <2>1. /\ TypeInv' /\ OthersLook(t) /\ UNCHANGED <<Rows, routes, meta, editor>>
        /\ \/ reader'[t].doing = "remember" /\ reader'[t].found \subseteq Enabled
           \/ reader'[t].doing = "findNamed"
    BY <1>3, RouteReadStep
  <2>2. Enabled' = Enabled /\ \A f \in FlowId, k \in Key : Value(f, k)' = Value(f, k)
    BY <2>1, RowsAsBefore DEF Rows
  <2>3. Routed'
    BY <2>1, <2>2 DEF StaleInv, Routed, OthersLook, Fresh, Rows
  <2>4. Dated'
    BY <2>1, <2>2 DEF StaleInv, Dated, OthersLook, Cached, Rows
  <2> QED BY <2>3, <2>4 DEF StaleInv
<1>4. ASSUME RouteRemember(t)  PROVE StaleInv'
  <2> DEFINE k == reader[t].kind
  <2>1. /\ TypeInv' /\ OthersLook(t) /\ reader'[t].doing = "none" /\ reader[t].doing = "remember"
        /\ UNCHANGED <<Rows, meta, editor>>
        /\ k \in Kind /\ \A j \in Kind \ {k} : routes'[j] = routes[j]
        /\ routes'[k].flows = reader[t].found
        /\ routes'[k].age < RouteTTL => routes'[k].age = reader[t].age
    BY <1>4, RouteRememberStep
  <2> HIDE DEF k
  <2>2. Enabled' = Enabled /\ \A f \in FlowId, j \in Key : Value(f, j)' = Value(f, j)
    BY <2>1, RowsAsBefore DEF Rows
  <2>3. Routed'
    BY <2>1, <2>2 DEF StaleInv, Routed, OthersLook, Fresh, Rows
  <2>4. Dated'
    BY <2>1, <2>2 DEF StaleInv, Dated, OthersLook, Cached, Rows
  <2> QED BY <2>3, <2>4 DEF StaleInv
<1>5. ASSUME MetaRead(t)  PROVE StaleInv'
  <2>1. /\ TypeInv' /\ OthersLook(t) /\ UNCHANGED <<Rows, routes, meta, editor>>
        /\ \/ reader'[t].doing = "none"
           \/ /\ reader'[t].doing = "set" /\ reader[t].flow \in FlowId /\ reader[t].key \in Key
              /\ reader'[t].flow = reader[t].flow /\ reader'[t].key = reader[t].key
              /\ reader'[t].seen = Value(reader[t].flow, reader[t].key)
    BY <1>5, MetaReadStep
  <2>2. Enabled' = Enabled /\ \A f \in FlowId, j \in Key : Value(f, j)' = Value(f, j)
    BY <2>1, RowsAsBefore DEF Rows
  <2>3. Routed'
    BY <2>1, <2>2 DEF StaleInv, Routed, OthersLook, Fresh, Rows
  <2>4. \A f \in FlowId, k \in Key : Cached(f, k)' /\ meta'[f][k].seen # Value(f, k)' =>
           changed'[f][TableOf[k]] <= meta'[f][k].age + meta'[f][k].lag
    BY <2>1, <2>2 DEF StaleInv, Dated, Cached, Rows
  <2>5. ASSUME NEW u \in Reader, NEW f \in FlowId, NEW k \in Key,
               reader'[u].doing = "set", reader'[u].flow = f, reader'[u].key = k,
               reader'[u].seen # Value(f, k)'
        PROVE  changed'[f][TableOf[k]] <= reader'[u].age
    <3>1. reader'[u].seen # Value(f, k)
      BY <2>2, <2>5
    <3>2. u # t
      BY <2>1, <2>5, <3>1
    <3>3. reader'[u] = reader[u]
      BY <2>1, <3>2 DEF OthersLook
    <3> QED BY <2>1, <2>5, <3>1, <3>3 DEF StaleInv, Dated, Rows
  <2> QED BY <2>3, <2>4, <2>5 DEF StaleInv, Dated
<1>6. ASSUME MetaSet(t)  PROVE StaleInv'
  <2> DEFINE f == reader[t].flow
             k == reader[t].key
  <2>1. /\ TypeInv' /\ OthersLook(t) /\ reader'[t].doing = "none" /\ reader[t].doing = "set"
        /\ UNCHANGED <<Rows, routes, editor>>
        /\ f \in FlowId /\ k \in Key
        /\ \A g \in FlowId, j \in Key : (g # f \/ j # k) => meta'[g][j] = meta[g][j]
        /\ meta'[f][k].seen = reader[t].seen /\ meta'[f][k].age = 0
        /\ meta'[f][k].lag = reader[t].age
    BY <1>6, MetaSetStep
  <2>0. reader[t].flow = f /\ reader[t].key = k
    OBVIOUS
  <2> HIDE DEF f, k
  <2>2. Enabled' = Enabled /\ \A g \in FlowId, j \in Key : Value(g, j)' = Value(g, j)
    BY <2>1, RowsAsBefore DEF Rows
  <2>3. Routed'
    BY <2>1, <2>2 DEF StaleInv, Routed, OthersLook, Fresh, Rows
  <2>4. ASSUME NEW g \in FlowId, NEW j \in Key, Cached(g, j)', meta'[g][j].seen # Value(g, j)'
        PROVE  changed'[g][TableOf[j]] <= meta'[g][j].age + meta'[g][j].lag
    <3>0. changed' = changed /\ Value(g, j)' = Value(g, j)
      BY <2>1, <2>2 DEF Rows
    <3>1. CASE g = f /\ j = k
      <4>1. reader[t].seen # Value(f, k)
        BY <2>1, <2>4, <3>0, <3>1
      <4>2. changed[f][TableOf[k]] <= reader[t].age /\ reader[t].age \in Nat
        BY <2>0, <2>1, <4>1, Ages DEF StaleInv, Dated
      <4> QED BY <2>1, <3>0, <3>1, <4>2
    <3>2. CASE ~(g = f /\ j = k)
      BY <2>1, <2>4, <3>0, <3>2 DEF StaleInv, Dated, Cached
    <3> QED BY <3>1, <3>2
  <2>5. ASSUME NEW u \in Reader, NEW g \in FlowId, NEW j \in Key,
               reader'[u].doing = "set", reader'[u].flow = g, reader'[u].key = j,
               reader'[u].seen # Value(g, j)'
        PROVE  changed'[g][TableOf[j]] <= reader'[u].age
    BY <2>1, <2>2, <2>5 DEF StaleInv, Dated, OthersLook, Rows
  <2> QED BY <2>3, <2>4, <2>5 DEF StaleInv, Dated
<1>7. ASSUME NEW k \in Kind, RouteStep(t, k)  PROVE StaleInv'
  BY <1>1, <1>2, <1>3, <1>4, <1>7, Hits, RouteMissStep DEF RouteStep
<1>8. ASSUME NEW k \in Key, MetaStep(t, k)  PROVE StaleInv'
  BY <1>1, <1>2, <1>5, <1>6, <1>8, Hits, MetaMissStep DEF MetaStep
<1> QED BY <1>7, <1>8

\* Time: an entry and the history of the row grow older together.
LEMMA StalePass ==
  ASSUME TypeInv, StaleInv, Pass
  PROVE  StaleInv'
<1>1. UNCHANGED flows
  BY DEF Pass
<1>2. Enabled' = Enabled /\ \A f \in FlowId, k \in Key : Value(f, k)' = Value(f, k)
  BY <1>1, RowsAsBefore
<1>3. \A f \in FlowId : f \notin Enabled => disabled'[f] <= disabled[f] + 1 /\ disabled'[f] <= RouteTTL
  BY Ages, TTLAssumption DEF Pass
<1>4. \A f \in FlowId, k \in Key : changed'[f][TableOf[k]] = Aged(changed[f][TableOf[k]])
  BY Tables DEF Pass
<1>5. \A m, n \in 0 .. Never : m <= n => Aged(m) <= Aged(n)
  BY Times DEF Aged
<1>6. Routed'
  <2>1. ASSUME NEW k \in Kind, Fresh(k)', NEW f \in routes'[k].flows
        PROVE  f \in Enabled' \/ disabled'[f] <= routes'[k].age
    <3>1. Fresh(k) /\ routes'[k].flows = routes[k].flows /\ routes'[k].age = routes[k].age + 1
      BY <2>1, PassStep
    <3>2. f \in FlowId /\ disabled[f] \in Nat /\ disabled'[f] \in Nat /\ routes[k].age \in Nat
      BY <2>1, <3>1, PassStep, Ages DEF TypeInv, RowsTyped
    <3>3. f \in Enabled \/ disabled[f] <= routes[k].age
      BY <2>1, <3>1 DEF StaleInv, Routed
    <3> QED BY <1>2, <1>3, <3>1, <3>2, <3>3
  <2>2. ASSUME NEW t \in Reader, reader'[t].doing = "remember", NEW f \in reader'[t].found
        PROVE  f \in Enabled' \/ disabled'[f] <= reader'[t].age
    <3>1. /\ reader[t].doing = "remember" /\ reader'[t].found = reader[t].found
          /\ reader'[t].age = Aged(reader[t].age)
      BY <2>2, PassStep
    <3>2. f \in FlowId /\ disabled[f] \in Nat /\ disabled'[f] \in Nat /\ reader[t].age \in 0 .. Never
      BY <2>2, <3>1, PassStep, Ages DEF TypeInv, RowsTyped
    <3>3. f \in Enabled \/ disabled[f] <= reader[t].age
      BY <2>2, <3>1 DEF StaleInv, Routed
    <3> QED BY <1>2, <1>3, <3>1, <3>2, <3>3, Aging, Times, TTLAssumption
  <2> QED BY <2>1, <2>2 DEF Routed
<1>7. Dated'
  <2>1. ASSUME NEW f \in FlowId, NEW k \in Key, Cached(f, k)', meta'[f][k].seen # Value(f, k)'
        PROVE  changed'[f][TableOf[k]] <= meta'[f][k].age + meta'[f][k].lag
    <3>1. /\ Cached(f, k) /\ meta'[f][k].seen = meta[f][k].seen
          /\ meta'[f][k].age = meta[f][k].age + 1 /\ meta'[f][k].lag = meta[f][k].lag
      BY <2>1, PassStep
    <3>2. changed[f][TableOf[k]] <= meta[f][k].age + meta[f][k].lag
      BY <1>2, <2>1, <3>1 DEF StaleInv, Dated
    <3>3. changed[f][TableOf[k]] \in 0 .. Never /\ meta[f][k].age \in Nat /\ meta[f][k].lag \in Nat
      BY Ages
    <3>4. changed'[f][TableOf[k]] \in Nat
          /\ changed'[f][TableOf[k]] <= changed[f][TableOf[k]] + 1
      BY <1>4, <3>3, Aging, Times
    <3> QED BY <3>1, <3>2, <3>3, <3>4
  <2>2. ASSUME NEW t \in Reader, NEW f \in FlowId, NEW k \in Key,
               reader'[t].doing = "set", reader'[t].flow = f, reader'[t].key = k,
               reader'[t].seen # Value(f, k)'
        PROVE  changed'[f][TableOf[k]] <= reader'[t].age
    <3>1. /\ reader[t].doing = "set" /\ reader[t].flow = f /\ reader[t].key = k
          /\ reader'[t].seen = reader[t].seen /\ reader'[t].age = Aged(reader[t].age)
      BY <2>2, PassStep
    <3>2. changed[f][TableOf[k]] <= reader[t].age
      BY <1>2, <2>2, <3>1 DEF StaleInv, Dated
    <3>3. changed[f][TableOf[k]] \in 0 .. Never /\ reader[t].age \in 0 .. Never
      BY Ages
    <3> QED BY <1>4, <1>5, <3>1, <3>2, <3>3
  <2> QED BY <2>1, <2>2 DEF Dated
<1> QED BY <1>6, <1>7 DEF StaleInv

LEMMA StaleInit == FlowInit => StaleInv
<1> SUFFICES ASSUME FlowInit PROVE StaleInv
  OBVIOUS
<1>1. \A k \in Kind : ~Fresh(k)
  BY TTLAssumption DEF FlowInit, Fresh, NoEntry
<1>2. \A f \in FlowId, k \in Key : ~Cached(f, k)
  BY TTLAssumption DEF FlowInit, Cached, NotCached
<1>3. \A t \in Reader : reader[t].doing = "none"
  BY DEF FlowInit, NoLookup
<1> QED BY <1>1, <1>2, <1>3 DEF StaleInv, Routed, Dated

THEOREM EntriesAreDated == FlowSpec => []StaleInv
<1>1. TypeInv /\ StaleInv /\ [FlowNext]_flowVars => StaleInv'
  <2> SUFFICES ASSUME TypeInv, StaleInv, [FlowNext]_flowVars PROVE StaleInv'
    OBVIOUS
  <2>1. ASSUME NEW e \in Editor, FlowStep(e) \/ NodeStep(e) \/ GenerateStep(e)  PROVE StaleInv'
    BY <2>1, EditorSteps, StaleEditor
  <2>2. CASE UNCHANGED flowVars
    BY <2>2 DEF StaleInv, Routed, Dated, Enabled, InUse, Value, Fresh, Cached, flowVars
  <2> QED BY <2>1, <2>2, StaleReader, StalePass DEF FlowNext
<1> QED BY <1>1, StaleInit, FlowsAreTyped, PTL DEF FlowSpec

\* repository.py:20-28: a turn is never routed to a flow that was disabled the
\* time to live ago, and reads no row of a flow that was changed longer ago
\* than the time to live and the time it took to store it: the caches of the
\* process and of Redis lag by that much only, whatever the editor, the
\* generator and other turns do meanwhile.
THEOREM CachesLagByTTL == FlowSpec => []StaleByTTL
<1>1. TypeInv /\ StaleInv => StaleByTTL
  <2> SUFFICES ASSUME TypeInv, StaleInv PROVE StaleByTTL
    OBVIOUS
  <2>1. RoutedWasEnabled
    <3>1. ASSUME NEW k \in Kind, Fresh(k), NEW f \in routes[k].flows
          PROVE  f \in Enabled \/ disabled[f] < RouteTTL
      BY <3>1, Ages, TTLAssumption DEF StaleInv, Routed, Fresh
    <3> QED BY <3>1 DEF RoutedWasEnabled
  <2>2. LateByTTL
    <3>1. ASSUME NEW f \in FlowId, NEW k \in Key, Cached(f, k), meta[f][k].seen # Value(f, k)
          PROVE  changed[f][TableOf[k]] < MetaTTL + meta[f][k].lag
      <4>1. changed[f][TableOf[k]] <= meta[f][k].age + meta[f][k].lag
        BY <3>1 DEF StaleInv, Dated
      <4> QED BY <3>1, <4>1, Ages, TTLAssumption DEF Cached
    <3> QED BY <3>1 DEF LateByTTL
  <2> QED BY <2>1, <2>2 DEF StaleByTTL
<1> QED BY <1>1, FlowsAreTyped, EntriesAreDated, PTL

-----------------------------------------------------------------------------
(* Forgotten routes.  Once no editor owes it to the process to forget, what *)
(* is cached by intent and as a list, or about to be, is what the table     *)
(* says, unless it is in doubt.                                             *)

Settled == \A e \in Editor : editor[e].doing \notin Owing

RouteInv ==
    Settled =>
      /\ \A k \in Kind : Fresh(k) /\ ~routes[k].doubt => routes[k].flows = Current(k)
      /\ \A t \in Reader, k \in Kind : reader[t].kind = k /\ ~reader[t].doubt =>
           /\ reader[t].doing = "remember" => reader[t].found = Current(k)
           /\ reader[t].doing = "findNamed" => k = "intent" /\ ByIntent = {}

LEMMA CurrentByHeads ==
  ASSUME HeadsKept \/ UNCHANGED flows
  PROVE  Enabled' = Enabled /\ ByIntent' = ByIntent /\ \A k \in Kind : Current(k)' = Current(k)
<1>1. Enabled' = Enabled
  BY DEF HeadsKept, Enabled, InUse
<1>2. ByIntent' = ByIntent
  BY <1>1 DEF HeadsKept, ByIntent, Enabled
<1> QED BY <1>1, <1>2 DEF Current, Newest

LEMMA SettledBy ==
  ASSUME NEW e \in Editor, EditorStep(e), Settled'
  PROVE  RoutesDoubted \/ (Settled /\ HeadsKept)
<1>1. editor'[e].doing \notin Owing /\ \A g \in Editor \ {e} : editor'[g] = editor[g]
  BY DEF Settled, EditorStep, MovesOn, OthersWait
<1>2. HeadsKept
  BY <1>1 DEF EditorStep, MovesOn
<1>3. editor[e].doing \in Owing => RoutesDoubted
  BY <1>1 DEF EditorStep, MovesOn
<1>4. editor[e].doing \notin Owing => Settled
  BY <1>1 DEF Settled
<1> QED BY <1>2, <1>3, <1>4

LEMMA RouteEditor ==
  ASSUME TypeInv, RouteInv, NEW e \in Editor, EditorStep(e)
  PROVE  RouteInv'
<1> SUFFICES ASSUME Settled' PROVE RouteInv'
  BY DEF RouteInv
<1>1. CASE RoutesDoubted
  BY <1>1 DEF RoutesDoubted, RouteInv
<1>2. CASE Settled /\ HeadsKept
  <2>1. Enabled' = Enabled /\ ByIntent' = ByIntent /\ \A k \in Kind : Current(k)' = Current(k)
    BY <1>2, CurrentByHeads
  <2>2. CachesKept
    BY DEF EditorStep
  <2>3. ASSUME NEW k \in Kind, Fresh(k)', ~routes'[k].doubt  PROVE routes'[k].flows = Current(k)'
    BY <1>2, <2>1, <2>2, <2>3 DEF CachesKept, RouteInv
  <2>4. ASSUME NEW t \in Reader, NEW k \in Kind, reader'[t].kind = k, ~reader'[t].doubt
        PROVE  /\ reader'[t].doing = "remember" => reader'[t].found = Current(k)'
               /\ reader'[t].doing = "findNamed" => k = "intent" /\ ByIntent' = {}
    BY <1>2, <2>1, <2>2, <2>4 DEF CachesKept, RouteInv
  <2> QED BY <2>3, <2>4 DEF RouteInv
<1> QED BY <1>1, <1>2, SettledBy

\* One lookup moves, the rows and the other lookups stay.
LEMMA RouteReader ==
  ASSUME TypeInv, RouteInv, NEW t \in Reader, OthersLook(t), UNCHANGED <<Rows, editor>>,
         Settled => \A k \in Kind : routes'[k].age < RouteTTL /\ ~routes'[k].doubt
                                    => routes'[k].flows = Current(k),
         Settled => \A k \in Kind : reader'[t].kind = k /\ ~reader'[t].doubt =>
           /\ reader'[t].doing = "remember" => reader'[t].found = Current(k)
           /\ reader'[t].doing = "findNamed" => k = "intent" /\ ByIntent = {}
  PROVE  RouteInv'
<1>1. Enabled' = Enabled /\ ByIntent' = ByIntent /\ \A k \in Kind : Current(k)' = Current(k)
  BY CurrentByHeads DEF Rows
<1>2. Settled' <=> Settled
  BY DEF Settled
<1>3. ASSUME NEW k \in Kind, Settled, Fresh(k)', ~routes'[k].doubt
      PROVE  routes'[k].flows = Current(k)'
  BY <1>1, <1>3 DEF Fresh
<1>4. ASSUME NEW u \in Reader, NEW k \in Kind, Settled, reader'[u].kind = k, ~reader'[u].doubt
      PROVE  /\ reader'[u].doing = "remember" => reader'[u].found = Current(k)'
             /\ reader'[u].doing = "findNamed" => k = "intent" /\ ByIntent' = {}
  <2>1. CASE u = t
    BY <1>1, <1>4, <2>1
  <2>2. CASE u # t
    BY <1>1, <1>4, <2>2 DEF OthersLook, RouteInv
  <2> QED BY <2>1, <2>2
<1> QED BY <1>2, <1>3, <1>4 DEF RouteInv

LEMMA RoutesAsBefore ==
  ASSUME RouteInv, routes' = routes
  PROVE  Settled => \A k \in Kind : routes'[k].age < RouteTTL /\ ~routes'[k].doubt
                                    => routes'[k].flows = Current(k)
  BY DEF RouteInv, Fresh

LEMMA RouteReaders ==
  ASSUME TypeInv, RouteInv, NEW t \in Reader,
         \/ \E k \in Kind : RouteStep(t, k)
         \/ \E k \in Key : MetaStep(t, k)
  PROVE  RouteInv'
<1>1. CASE UNCHANGED flowVars
  BY <1>1 DEF RouteInv, Settled, Current, Newest, ByIntent, Enabled, InUse, Fresh, flowVars
<1>2. ASSUME OthersLook(t), UNCHANGED <<Rows, routes, editor>>,
             reader'[t].doing \notin {"remember", "findNamed"}
      PROVE  RouteInv'
  BY <1>2, RouteReader, RoutesAsBefore
<1>3. ASSUME RouteRead(t)  PROVE RouteInv'
  <2>1. /\ OthersLook(t) /\ UNCHANGED <<Rows, routes, meta, editor>>
        /\ reader'[t].kind = reader[t].kind /\ reader'[t].doubt = reader[t].doubt
        /\ \/ /\ reader'[t].doing = "remember"
              /\ \/ reader[t].doing = "find" /\ reader'[t].found = Current(reader[t].kind)
                 \/ /\ reader[t].doing = "findNamed"
                    /\ reader'[t].found = Newest({f \in Enabled : flows[f].named})
           \/ reader'[t].doing = "findNamed" /\ reader[t].kind = "intent" /\ ByIntent = {}
    BY <1>3, RouteReadStep
  <2>2. ASSUME Settled, NEW k \in Kind, reader'[t].kind = k, ~reader'[t].doubt
        PROVE  /\ reader'[t].doing = "remember" => reader'[t].found = Current(k)
               /\ reader'[t].doing = "findNamed" => k = "intent" /\ ByIntent = {}
    <3>1. CASE reader'[t].doing = "findNamed"
      BY <2>1, <2>2, <3>1
    <3>2. CASE reader[t].doing = "findNamed"
      <4>1. k = "intent" /\ ByIntent = {}
        BY <2>1, <2>2, <3>2 DEF RouteInv
      <4>2. {f \in Enabled : flows[f].named} = Enabled
        BY <4>1 DEF ByIntent
      <4>3. Current(k) = Newest(Enabled)
        BY <4>1 DEF Current
      <4> QED BY <2>1, <3>2, <4>1, <4>2, <4>3
    <3>3. CASE reader[t].doing = "find" /\ reader'[t].doing = "remember"
      BY <2>1, <2>2, <3>3
    <3> QED BY <2>1, <3>1, <3>2, <3>3
  <2> QED BY <2>1, <2>2, RouteReader, RoutesAsBefore
<1>4. ASSUME RouteRemember(t)  PROVE RouteInv'
  <2> DEFINE j == reader[t].kind
  <2>1. /\ OthersLook(t) /\ reader'[t].doing = "none" /\ reader[t].doing = "remember"
        /\ UNCHANGED <<Rows, meta, editor>>
        /\ j \in Kind /\ \A k \in Kind \ {j} : routes'[k] = routes[k]
        /\ routes'[j].flows = reader[t].found /\ routes'[j].doubt = reader[t].doubt
    BY <1>4, RouteRememberStep
  <2>0. reader[t].kind = j
    OBVIOUS
  <2> HIDE DEF j
  <2>2. ASSUME Settled, NEW k \in Kind, routes'[k].age < RouteTTL, ~routes'[k].doubt
        PROVE  routes'[k].flows = Current(k)
    <3>1. CASE k = j
      BY <2>0, <2>1, <2>2, <3>1 DEF RouteInv
    <3>2. CASE k # j
      BY <2>1, <2>2, <3>2 DEF RouteInv, Fresh
    <3> QED BY <3>1, <3>2
  <2> QED BY <2>1, <2>2, RouteReader
<1>5. ASSUME NEW k \in Kind, RouteStep(t, k)  PROVE RouteInv'
  BY <1>1, <1>2, <1>3, <1>4, <1>5, Hits, RouteMissStep DEF RouteStep
<1>6. ASSUME NEW k \in Key, MetaStep(t, k)  PROVE RouteInv'
  BY <1>1, <1>2, <1>6, Hits, MetaMissStep, MetaReadStep, MetaSetStep DEF MetaStep
<1> QED BY <1>5, <1>6

LEMMA RoutePass ==
  ASSUME TypeInv, RouteInv, Pass
  PROVE  RouteInv'
<1>1. UNCHANGED <<flows, editor>>
  BY DEF Pass
<1>2. Enabled' = Enabled /\ ByIntent' = ByIntent /\ \A k \in Kind : Current(k)' = Current(k)
  BY <1>1, CurrentByHeads
<1>3. Settled' <=> Settled
  BY <1>1 DEF Settled
<1>4. ASSUME NEW k \in Kind, Settled, Fresh(k)', ~routes'[k].doubt
      PROVE  routes'[k].flows = Current(k)'
  BY <1>2, <1>4, PassStep DEF RouteInv
<1>5. ASSUME NEW u \in Reader, NEW k \in Kind, Settled, reader'[u].kind = k, ~reader'[u].doubt
      PROVE  /\ reader'[u].doing = "remember" => reader'[u].found = Current(k)'
             /\ reader'[u].doing = "findNamed" => k = "intent" /\ ByIntent' = {}
  BY <1>2, <1>5, PassStep DEF RouteInv
<1> QED BY <1>3, <1>4, <1>5 DEF RouteInv

LEMMA RouteInit == FlowInit => RouteInv
<1> SUFFICES ASSUME FlowInit PROVE RouteInv
  OBVIOUS
<1>1. \A k \in Kind : ~Fresh(k)
  BY TTLAssumption DEF FlowInit, Fresh, NoEntry
<1>2. \A t \in Reader : reader[t].doing = "none"
  BY DEF FlowInit, NoLookup
<1> QED BY <1>1, <1>2 DEF RouteInv

THEOREM RoutesAreCurrent == FlowSpec => []RouteInv
<1>1. TypeInv /\ RouteInv /\ [FlowNext]_flowVars => RouteInv'
  <2> SUFFICES ASSUME TypeInv, RouteInv, [FlowNext]_flowVars PROVE RouteInv'
    OBVIOUS
  <2>1. ASSUME NEW e \in Editor, FlowStep(e) \/ NodeStep(e) \/ GenerateStep(e)  PROVE RouteInv'
    BY <2>1, EditorSteps, RouteEditor
  <2>2. CASE UNCHANGED flowVars
    BY <2>2 DEF RouteInv, Settled, Current, Newest, ByIntent, Enabled, InUse, Fresh, flowVars
  <2> QED BY <2>1, <2>2, RouteReaders, RoutePass DEF FlowNext
<1> QED BY <1>1, RouteInit, FlowsAreTyped, PTL DEF FlowSpec

-----------------------------------------------------------------------------
(* Announced nodes.  Versions count the edits, so a node that is read after *)
(* an update found the keys is not older than that update; what was cached  *)
(* before is among the keys it deletes.                                     *)

Deleting(e, f) == editor[e].doing = "deleteKeys" /\ editor[e].flow = f

Numbered ==
    /\ \A f \in FlowId : /\ announced[f] <= edits /\ flows[f].node <= edits
                         /\ flows[f].node = 0 \/ announced[f] <= flows[f].node
    /\ \A e \in Editor, f \in FlowId :
         editor[e].doing \in {"findKeys", "deleteKeys"} /\ editor[e].flow = f =>
           /\ editor[e].wrote <= edits
           /\ flows[f].node = 0 \/ editor[e].wrote <= flows[f].node

ReadSince ==
    \A t \in Reader, f \in FlowId :
      reader[t].doing = "set" /\ reader[t].key = "node" /\ reader[t].flow = f /\ ~reader[t].doubt =>
        /\ announced[f] <= reader[t].seen
        /\ \A e \in Editor : Deleting(e, f) => editor[e].wrote <= reader[t].seen

CachedSince ==
    \A f \in FlowId : Cached(f, "node") /\ ~meta[f]["node"].doubt =>
      /\ announced[f] <= meta[f]["node"].seen
      /\ \A e \in Editor : Deleting(e, f) =>
           "node" \in editor[e].keys \/ editor[e].wrote <= meta[f]["node"].seen

NodeInv == Numbered /\ ReadSince /\ CachedSince

LEMMA Versions ==
  ASSUME TypeInv
  PROVE  /\ edits \in Nat
         /\ \A f \in FlowId : flows[f].node \in Nat /\ announced[f] \in Nat
         /\ \A e \in Editor : editor[e].wrote \in Nat
         /\ \A t \in Reader : reader[t].seen \in Nat
         /\ \A f \in FlowId : meta[f]["node"].seen \in Nat
<1>1. edits \in 0 .. MaxEdits /\ \A f \in FlowId : flows[f] \in FlowRow /\ announced[f] \in 0 .. MaxEdits
  BY DEF TypeInv, RowsTyped
<1>2. \A e \in Editor : editor[e].wrote \in 0 .. MaxEdits
  BY DEF TypeInv, EditorTyped, EditRow
<1>3. \A t \in Reader : reader[t].seen \in 0 .. MaxEdits + 1
  BY DEF TypeInv, ReaderTyped, ReaderRow
<1>4. \A f \in FlowId : meta[f]["node"].seen \in 0 .. MaxEdits + 1
  BY DEF TypeInv, CachesTyped, MetaRow, Key
<1>5. \A f \in FlowId : flows[f].node \in 0 .. MaxEdits
  BY <1>1 DEF FlowRow
<1> QED BY <1>1, <1>2, <1>3, <1>4, <1>5, EditAssumption

LEMMA EditsGrow ==
  ASSUME NEW e \in Editor, EditorStep(e)
  PROVE  edits' = edits \/ edits' = edits + 1
  BY DEF EditorStep, RowsKept, Touches

\* A step that forgets no node: nobody starts to delete keys.
LEMMA NodeBystander ==
  ASSUME TypeInv, NodeInv, NEW e \in Editor, EditorStep(e), Bystander(e)
  PROVE  NodeInv'
<1>1. /\ announced' = announced /\ editor'[e].doing \notin {"findKeys", "deleteKeys"}
      /\ \A g \in Editor \ {e} : editor'[g] = editor[g]
      /\ NodeNumbers /\ CachesKept /\ (edits' = edits \/ edits' = edits + 1)
  BY EditsGrow DEF Bystander, EditorStep, MovesOn, OthersWait
<1>2. \A g \in Editor, f \in FlowId : Deleting(g, f)' =>
        Deleting(g, f) /\ editor'[g].wrote = editor[g].wrote /\ editor'[g].keys = editor[g].keys
  BY <1>1 DEF Deleting
<1>3. Numbered'
  <2>1. ASSUME NEW f \in FlowId
        PROVE  /\ announced'[f] <= edits' /\ flows'[f].node <= edits'
               /\ flows'[f].node = 0 \/ announced'[f] <= flows'[f].node
    BY <1>1, Versions DEF NodeNumbers, NodeInv, Numbered
  <2>2. ASSUME NEW g \in Editor, NEW f \in FlowId,
               editor'[g].doing \in {"findKeys", "deleteKeys"}, editor'[g].flow = f
        PROVE  /\ editor'[g].wrote <= edits'
               /\ flows'[f].node = 0 \/ editor'[g].wrote <= flows'[f].node
    <3>1. editor'[g] = editor[g]
      BY <1>1, <2>2
    <3>2. /\ editor[g].wrote <= edits
          /\ flows[f].node = 0 \/ editor[g].wrote <= flows[f].node
      BY <2>2, <3>1 DEF NodeInv, Numbered
    <3> QED BY <1>1, <3>1, <3>2, Versions DEF NodeNumbers
  <2> QED BY <2>1, <2>2 DEF Numbered
<1>4. ReadSince'
  BY <1>1, <1>2 DEF NodeInv, ReadSince, CachesKept
<1>5. CachedSince'
  BY <1>1, <1>2 DEF NodeInv, CachedSince, CachesKept, Key, Cached
<1> QED BY <1>3, <1>4, <1>5 DEF NodeInv

LEMMA NodeUpdated ==
  ASSUME TypeInv, NodeInv, NEW e \in Editor, UpdateTaskNode(e)
  PROVE  NodeInv'
<1> DEFINE f == editor[e].flow
<1>0. EditorStep(e)
  BY UpdateNodeStep
<1>1. Is(e, "updateNode") /\ announced' = announced /\ f \in FlowId /\ editor[e] \in EditRow
  BY EditorFlow DEF UpdateTaskNode, Is, TypeInv, EditorTyped
<1>2. CASE flows[f].node > 0
  <2>1. /\ edits' = edits + 1 /\ flows'[f].node = edits + 1
        /\ \A g \in FlowId \ {f} : flows'[g] = flows[g]
    <3>1. Writes(f, [flows[f] EXCEPT !.node = edits + 1], "node")
      BY <1>2 DEF UpdateTaskNode
    <3>2. flows[f] \in FlowRow
      BY <1>1 DEF TypeInv, RowsTyped
    <3>3. [flows[f] EXCEPT !.node = edits + 1].node = edits + 1
      BY <3>2 DEF FlowRow
    <3> QED BY <1>1, <3>1, <3>3 DEF Writes, TypeInv, RowsTyped
  <2>2. editor'[e].doing = "findKeys" /\ editor'[e].flow = f /\ editor'[e].wrote = edits + 1
    <3> DEFINE x == [editor[e] EXCEPT !.doing = "findKeys"]
               y == [x EXCEPT !.wrote = edits + 1]
    <3>1. editor'[e] = y
      BY <1>1, <1>2 DEF UpdateTaskNode, TypeInv, EditorTyped
    <3>2. x \in EditRow /\ x.flow = f /\ x.doing = "findKeys"
      BY <1>1 DEF EditRow, Stage
    <3> HIDE DEF x
    <3>3. y.flow = f /\ y.doing = "findKeys" /\ y.wrote = edits + 1
      BY <3>2 DEF EditRow
    <3> QED BY <3>1, <3>3
  <2>3. CachesKept /\ \A g \in Editor \ {e} : editor'[g] = editor[g]
    BY <1>0 DEF EditorStep, MovesOn, OthersWait
  <2> HIDE DEF f
  <2>4. \A g \in Editor, h \in FlowId : Deleting(g, h)' =>
          Deleting(g, h) /\ editor'[g].wrote = editor[g].wrote /\ editor'[g].keys = editor[g].keys
    BY <2>2, <2>3 DEF Deleting
  <2>5. Numbered'
    <3>1. ASSUME NEW h \in FlowId
          PROVE  /\ announced'[h] <= edits' /\ flows'[h].node <= edits'
                 /\ flows'[h].node = 0 \/ announced'[h] <= flows'[h].node
      BY <1>1, <2>1, Versions DEF NodeInv, Numbered
    <3>2. ASSUME NEW g \in Editor, NEW h \in FlowId,
                 editor'[g].doing \in {"findKeys", "deleteKeys"}, editor'[g].flow = h
          PROVE  /\ editor'[g].wrote <= edits'
                 /\ flows'[h].node = 0 \/ editor'[g].wrote <= flows'[h].node
      <4>1. CASE g = e
        BY <2>1, <2>2, <3>2, <4>1, Versions
      <4>2. CASE g # e
        <5>1. /\ editor'[g] = editor[g] /\ editor[g].wrote <= edits
              /\ flows[h].node = 0 \/ editor[g].wrote <= flows[h].node
          BY <2>3, <3>2, <4>2 DEF NodeInv, Numbered
        <5> QED BY <1>1, <2>1, <5>1, Versions
      <4> QED BY <4>1, <4>2
    <3> QED BY <3>1, <3>2 DEF Numbered
  <2>6. ReadSince'
    BY <1>1, <2>3, <2>4 DEF NodeInv, ReadSince, CachesKept
  <2>7. CachedSince'
    BY <1>1, <2>3, <2>4 DEF NodeInv, CachedSince, CachesKept, Key, Cached
  <2> QED BY <2>5, <2>6, <2>7 DEF NodeInv
<1>3. CASE ~(flows[f].node > 0)
  <2>1. Returns(e)
    BY <1>3 DEF UpdateTaskNode
  <2>2. editor'[e].doing = "none"
    BY <2>1, ReturnsFrame DEF TypeInv
  <2> QED BY <1>0, <1>1, <2>2, NodeBystander DEF Bystander
<1> QED BY <1>2, <1>3

LEMMA KeysFound ==
  ASSUME TypeInv, NodeInv, NEW e \in Editor, FindKeys(e)
  PROVE  NodeInv'
<1> DEFINE f == editor[e].flow
           K == Matched(f)
           x == [editor[e] EXCEPT !.doing = "deleteKeys"]
           y == [x EXCEPT !.keys = K]
<1>1. /\ Is(e, "findKeys") /\ UNCHANGED <<flows, edits, announced, meta>>
      /\ reader' = Doubted({"set"}) /\ f \in FlowId /\ editor[e] \in EditRow
  BY EditorFlow DEF FindKeys, Is, Rows, TypeInv, EditorTyped
<1>2. editor'[e] = y /\ \A g \in Editor \ {e} : editor'[g] = editor[g]
  BY <1>1 DEF FindKeys, TypeInv, EditorTyped
<1>3. x \in EditRow /\ x.flow = f /\ x.doing = "deleteKeys" /\ x.wrote = editor[e].wrote
  BY <1>1 DEF EditRow, Stage
<1>4. Cached(f, "node") => "node" \in K
  BY DEF Matched
<1>0. editor[e].flow = f
  OBVIOUS
<1> HIDE DEF x, K, f
<1>5. y.flow = f /\ y.doing = "deleteKeys" /\ y.keys = K /\ y.wrote = editor[e].wrote
  BY <1>3 DEF EditRow
<1> HIDE DEF y
<1>6. Numbered'
  BY <1>0, <1>1, <1>2, <1>5 DEF NodeInv, Numbered, Is
<1>7. ReadSince'
  BY <1>1, DoubtedFrame DEF TypeInv, ReadSince
<1>8. CachedSince'
  <2>1. ASSUME NEW h \in FlowId, Cached(h, "node")', ~meta'[h]["node"].doubt
        PROVE  /\ announced'[h] <= meta'[h]["node"].seen
               /\ \A g \in Editor : Deleting(g, h)' =>
                    "node" \in editor'[g].keys \/ editor'[g].wrote <= meta'[h]["node"].seen
    <3>1. Cached(h, "node") /\ meta' = meta /\ announced' = announced
      BY <1>1, <2>1 DEF Cached
    <3>2. ASSUME NEW g \in Editor, Deleting(g, h)'
          PROVE  "node" \in editor'[g].keys \/ editor'[g].wrote <= meta'[h]["node"].seen
      <4>1. CASE g = e
        BY <1>2, <1>4, <1>5, <3>1, <3>2, <4>1 DEF Deleting
      <4>2. CASE g # e
        BY <1>2, <2>1, <3>1, <3>2, <4>2 DEF Deleting, NodeInv, CachedSince
      <4> QED BY <4>1, <4>2
    <3> QED BY <2>1, <3>1, <3>2 DEF NodeInv, CachedSince
  <2> QED BY <2>1 DEF CachedSince
<1> QED BY <1>6, <1>7, <1>8 DEF NodeInv

LEMMA KeysDeleted ==
  ASSUME TypeInv, NodeInv, NEW e \in Editor, DeleteKeys(e)
  PROVE  NodeInv'
<1> DEFINE f == editor[e].flow
<1>1. /\ Is(e, "deleteKeys") /\ UNCHANGED <<flows, edits, reader>> /\ Returns(e)
      /\ meta' = [meta EXCEPT ![f] = [k \in Key |-> IF k \in editor[e].keys THEN NotCached ELSE @[k]]]
      /\ announced' = [announced EXCEPT ![f] = IF editor[e].wrote > @ THEN editor[e].wrote ELSE @]
      /\ f \in FlowId
  BY EditorFlow DEF DeleteKeys, Is
<1>2. editor'[e].doing = "none" /\ \A g \in Editor \ {e} : editor'[g] = editor[g]
  BY <1>1, ReturnsFrame DEF TypeInv, OthersWait
<1>3. Deleting(e, f)
  BY <1>1 DEF Deleting, Is
<1>4. "node" \in editor[e].keys => ~(meta'[f]["node"].age < MetaTTL)
  BY <1>1, TTLAssumption DEF NotCached, Key, TypeInv, CachesTyped
<1>5. /\ announced'[f] = announced[f] \/ announced'[f] = editor[e].wrote
      /\ \A g \in FlowId \ {f} : announced'[g] = announced[g]
  BY <1>1 DEF TypeInv, RowsTyped
<1>6. CachesKept
  BY DeleteKeysStep DEF EditorStep
<1> HIDE DEF f
<1>7. \A g \in Editor, h \in FlowId : Deleting(g, h)' =>
        Deleting(g, h) /\ editor'[g].wrote = editor[g].wrote /\ editor'[g].keys = editor[g].keys
  BY <1>2 DEF Deleting
<1>8. Numbered'
  <2>1. /\ editor[e].wrote <= edits
        /\ flows[f].node = 0 \/ editor[e].wrote <= flows[f].node
    BY <1>1, <1>3 DEF NodeInv, Numbered, Deleting
  <2>2. ASSUME NEW h \in FlowId
        PROVE  /\ announced'[h] <= edits' /\ flows'[h].node <= edits'
               /\ flows'[h].node = 0 \/ announced'[h] <= flows'[h].node
    <3>1. /\ announced[h] <= edits /\ flows[h].node <= edits
          /\ flows[h].node = 0 \/ announced[h] <= flows[h].node
      BY DEF NodeInv, Numbered
    <3>2. CASE h = f
      BY <1>1, <1>5, <2>1, <3>1, <3>2
    <3>3. CASE h # f
      BY <1>1, <1>5, <3>1, <3>3
    <3> QED BY <3>2, <3>3
  <2>3. ASSUME NEW g \in Editor, NEW h \in FlowId,
               editor'[g].doing \in {"findKeys", "deleteKeys"}, editor'[g].flow = h
        PROVE  /\ editor'[g].wrote <= edits'
               /\ flows'[h].node = 0 \/ editor'[g].wrote <= flows'[h].node
    <3>1. editor'[g] = editor[g]
      BY <1>2, <2>3
    <3> QED BY <1>1, <2>3, <3>1 DEF NodeInv, Numbered
  <2> QED BY <2>2, <2>3 DEF Numbered
<1>9. ReadSince'
  <2>1. ASSUME NEW t \in Reader, NEW h \in FlowId, reader[t].doing = "set",
               reader[t].key = "node", reader[t].flow = h, ~reader[t].doubt
        PROVE  /\ announced'[h] <= reader[t].seen
               /\ \A g \in Editor : Deleting(g, h)' => editor'[g].wrote <= reader[t].seen
    <3>1. /\ announced[h] <= reader[t].seen
          /\ \A g \in Editor : Deleting(g, h) => editor[g].wrote <= reader[t].seen
      BY <2>1 DEF NodeInv, ReadSince
    <3>2. announced'[h] <= reader[t].seen
      <4>1. CASE h = f
        BY <1>3, <1>5, <3>1, <4>1
      <4>2. CASE h # f
        BY <1>5, <3>1, <4>2
      <4> QED BY <4>1, <4>2
    <3> QED BY <1>7, <3>1, <3>2
  <2> QED BY <1>1, <2>1 DEF ReadSince
<1>10. CachedSince'
  <2>1. ASSUME NEW h \in FlowId, Cached(h, "node")', ~meta'[h]["node"].doubt
        PROVE  /\ announced'[h] <= meta'[h]["node"].seen
               /\ \A g \in Editor : Deleting(g, h)' =>
                    "node" \in editor'[g].keys \/ editor'[g].wrote <= meta'[h]["node"].seen
    <3>1. meta'[h]["node"] = meta[h]["node"] /\ Cached(h, "node")
      BY <1>6, <2>1 DEF CachesKept, Key, Cached
    <3>2. /\ announced[h] <= meta[h]["node"].seen
          /\ \A g \in Editor : Deleting(g, h) =>
               "node" \in editor[g].keys \/ editor[g].wrote <= meta[h]["node"].seen
      BY <2>1, <3>1 DEF NodeInv, CachedSince
    <3>3. announced'[h] <= meta'[h]["node"].seen
      <4>1. CASE h = f
        BY <1>3, <1>4, <1>5, <2>1, <3>1, <3>2, <4>1 DEF Cached
      <4>2. CASE h # f
        BY <1>5, <3>1, <3>2, <4>2
      <4> QED BY <4>1, <4>2
    <3> QED BY <1>7, <3>1, <3>2, <3>3
  <2> QED BY <2>1 DEF CachedSince
<1> QED BY <1>8, <1>9, <1>10 DEF NodeInv

LEMMA NodeEditors ==
  ASSUME TypeInv, NodeInv, NEW e \in Editor, FlowStep(e) \/ NodeStep(e) \/ GenerateStep(e)
  PROVE  NodeInv'
  BY EditorSteps, NodeBystander, NodeUpdated, KeysFound, KeysDeleted

\* A turn that takes nothing from the table and puts no node into the cache.
LEMMA NodeAside ==
  ASSUME NodeInv, NEW t \in Reader, OthersLook(t), UNCHANGED <<Rows, meta, editor>>,
         reader'[t].doing # "set"
  PROVE  NodeInv'
  BY DEF NodeInv, Numbered, ReadSince, CachedSince, OthersLook, Rows, Deleting, Cached

LEMMA NodeReaders ==
  ASSUME TypeInv, NodeInv, NEW t \in Reader,
         \/ \E k \in Kind : RouteStep(t, k)
         \/ \E k \in Key : MetaStep(t, k)
  PROVE  NodeInv'
<1>1. CASE UNCHANGED flowVars
  BY <1>1 DEF NodeInv, Numbered, ReadSince, CachedSince, Deleting, Cached, flowVars
<1>2. ASSUME MetaRead(t)  PROVE NodeInv'
  <2>1. OthersLook(t) /\ UNCHANGED <<Rows, routes, meta, editor>>
    BY <1>2, MetaReadStep
  <2>2. CASE reader'[t].doing = "none"
    BY <2>1, <2>2, NodeAside
  <2>3. CASE reader'[t].doing = "set"
    <3>1. /\ reader[t].flow \in FlowId
          /\ reader'[t].flow = reader[t].flow /\ reader'[t].key = reader[t].key
          /\ reader'[t].seen = Value(reader[t].flow, reader[t].key)
          /\ reader[t].key = "node" => reader'[t].seen # 0
      BY <1>2, <2>3, MetaReadStep
    <3>2. ASSUME NEW f \in FlowId, reader'[t].key = "node", reader'[t].flow = f
          PROVE  /\ announced[f] <= reader'[t].seen
                 /\ \A e \in Editor : Deleting(e, f) => editor[e].wrote <= reader'[t].seen
      <4>1. reader'[t].seen = flows[f].node /\ flows[f].node # 0
        BY <3>1, <3>2, Values DEF Key
      <4> QED BY <4>1 DEF NodeInv, Numbered, Deleting
    <3>3. Numbered' /\ CachedSince'
      BY <2>1 DEF NodeInv, Numbered, CachedSince, Rows, Deleting, Cached
    <3>4. \A e \in Editor, f \in FlowId : Deleting(e, f)' <=> Deleting(e, f)
      BY <2>1 DEF Deleting
    <3>5. ASSUME NEW u \in Reader, NEW f \in FlowId, reader'[u].doing = "set",
                 reader'[u].key = "node", reader'[u].flow = f, ~reader'[u].doubt
          PROVE  /\ announced'[f] <= reader'[u].seen
                 /\ \A e \in Editor : Deleting(e, f)' => editor'[e].wrote <= reader'[u].seen
      <4>1. CASE u = t
        BY <2>1, <3>2, <3>4, <3>5, <4>1 DEF Rows
      <4>2. CASE u # t
        BY <2>1, <3>4, <3>5, <4>2 DEF NodeInv, ReadSince, OthersLook, Rows
      <4> QED BY <4>1, <4>2
    <3> QED BY <3>3, <3>5 DEF NodeInv, ReadSince
  <2> QED BY <1>2, <2>2, <2>3, MetaReadStep
<1>3. ASSUME MetaSet(t)  PROVE NodeInv'
  <2> DEFINE f == reader[t].flow
             k == reader[t].key
  <2>1. /\ OthersLook(t) /\ reader'[t].doing = "none" /\ reader[t].doing = "set"
        /\ UNCHANGED <<Rows, routes, editor>>
        /\ f \in FlowId /\ k \in Key
        /\ \A g \in FlowId, j \in Key : (g # f \/ j # k) => meta'[g][j] = meta[g][j]
        /\ meta'[f][k].seen = reader[t].seen /\ meta'[f][k].doubt = reader[t].doubt
    BY <1>3, MetaSetStep
  <2>0. reader[t].flow = f /\ reader[t].key = k
    OBVIOUS
  <2> HIDE DEF f, k
  <2>2. \A e \in Editor, g \in FlowId : Deleting(e, g)' <=> Deleting(e, g)
    BY <2>1 DEF Deleting
  <2>3. Numbered' /\ ReadSince'
    BY <2>1 DEF NodeInv, Numbered, ReadSince, OthersLook, Rows, Deleting
  <2>4. ASSUME NEW g \in FlowId, Cached(g, "node")', ~meta'[g]["node"].doubt
        PROVE  /\ announced'[g] <= meta'[g]["node"].seen
               /\ \A e \in Editor : Deleting(e, g)' =>
                    "node" \in editor'[e].keys \/ editor'[e].wrote <= meta'[g]["node"].seen
    <3>1. CASE g = f /\ k = "node"
      BY <2>0, <2>1, <2>2, <2>4, <3>1 DEF NodeInv, ReadSince, Rows
    <3>2. CASE ~(g = f /\ k = "node")
      <4>1. meta'[g]["node"] = meta[g]["node"]
        BY <2>1, <3>2 DEF Key
      <4> QED BY <2>1, <2>2, <2>4, <4>1 DEF NodeInv, CachedSince, Rows, Cached
    <3> QED BY <3>1, <3>2
  <2> QED BY <2>3, <2>4 DEF NodeInv, CachedSince
<1>4. ASSUME NEW k \in Kind, RouteStep(t, k)  PROVE NodeInv'
  BY <1>1, <1>4, Hits, NodeAside, RouteMissStep, RouteReadStep, RouteRememberStep DEF RouteStep
<1>5. ASSUME NEW k \in Key, MetaStep(t, k)  PROVE NodeInv'
  BY <1>1, <1>2, <1>3, <1>5, Hits, NodeAside, MetaMissStep DEF MetaStep
<1> QED BY <1>4, <1>5

LEMMA NodePass ==
  ASSUME TypeInv, NodeInv, Pass
  PROVE  NodeInv'
<1>1. UNCHANGED <<flows, edits, editor, announced>>
  BY DEF Pass
<1>2. \A e \in Editor, f \in FlowId : Deleting(e, f)' <=> Deleting(e, f)
  BY <1>1 DEF Deleting
<1>3. Numbered'
  BY <1>1 DEF NodeInv, Numbered
<1>4. ReadSince'
  BY <1>1, <1>2, PassStep DEF NodeInv, ReadSince
<1>5. CachedSince'
  BY <1>1, <1>2, PassStep DEF NodeInv, CachedSince, Key
<1> QED BY <1>3, <1>4, <1>5 DEF NodeInv

LEMMA NodeInit == FlowInit => NodeInv
<1> SUFFICES ASSUME FlowInit PROVE NodeInv
  OBVIOUS
<1>1. \A f \in FlowId : ~Cached(f, "node")
  BY TTLAssumption DEF FlowInit, Cached, NotCached, Key
<1>2. \A t \in Reader : reader[t].doing = "none"
  BY DEF FlowInit, NoLookup
<1>3. \A e \in Editor : editor[e].doing = "none"
  BY DEF FlowInit, NoEdit
<1>4. edits = 0 /\ \A f \in FlowId : announced[f] = 0 /\ flows[f].node = 0
  BY DEF FlowInit, NoFlow
<1> QED BY <1>1, <1>2, <1>3, <1>4 DEF NodeInv, Numbered, ReadSince, CachedSince

THEOREM NodesAreCurrent == FlowSpec => []NodeInv
<1>1. TypeInv /\ NodeInv /\ [FlowNext]_flowVars => NodeInv'
  <2> SUFFICES ASSUME TypeInv, NodeInv, [FlowNext]_flowVars PROVE NodeInv'
    OBVIOUS
  <2>1. CASE UNCHANGED flowVars
    BY <2>1 DEF NodeInv, Numbered, ReadSince, CachedSince, Deleting, Cached, flowVars
  <2> QED BY <2>1, NodeEditors, NodeReaders, NodePass DEF FlowNext
<1> QED BY <1>1, NodeInit, FlowsAreTyped, PTL DEF FlowSpec

\* repository.py:23 and task_flows.py:621: whoever changes flows or updates a
\* node forgets what is cached of them.  While no request of the editor is
\* under way the routes are what the table says, and after the update of a
\* node returned no turn reads it from Redis as it was before, unless a lookup
\* overlapped the edit or a generation broke off.
THEOREM EditsAreForgotten == FlowSpec => []EditsForget
<1>1. RouteInv => RoutesForgotten
  <2> SUFFICES ASSUME RouteInv, \A e \in Editor : Free(e), NEW k \in Kind, Fresh(k), ~routes[k].doubt
               PROVE  routes[k].flows = IF k = "list" THEN Enabled
                              ELSE LET F == {f \in Enabled : ~flows[f].named}
                                   IN Newest(IF F # {} THEN F ELSE Enabled)
    BY DEF RoutesForgotten
  <2>1. Settled
    BY FreeIs DEF Settled, Owing
  <2> QED BY <2>1 DEF RouteInv, Current, ByIntent
<1>2. TypeInv /\ NodeInv => \A f \in FlowId : Cached(f, "node") /\ ~meta[f]["node"].doubt =>
                             meta[f]["node"].seen >= announced[f]
  BY Versions DEF NodeInv, CachedSince
<1>3. TypeInv /\ NodeInv /\ RouteInv => EditsForget
  BY <1>1, <1>2 DEF EditsForget
<1> QED BY <1>3, FlowsAreTyped, RoutesAreCurrent, NodesAreCurrent, PTL

-----------------------------------------------------------------------------
(* Generations.  As long as no flow was made by hand or removed, every flow *)
(* there is came from a template, and a generation only goes on to insert   *)
(* one when it found none.                                                  *)

Dropping == {"dropEdges", "dropNodes", "dropFlow"}
Templates == {f \in FlowId : flows[f].made = "template"}
Inserting == {e \in Editor : Is(e, "insertFlow")}
Untouched == \A f \in FlowId : flows[f].made \in {"absent", "template"}

GenerateInv ==
    /\ \A e \in Editor, f \in FlowId :
         editor[e].doing \in Dropping /\ editor[e].flow = f => flows[f].made # "absent"
    /\ \A f \in FlowId : flows[f].made = "template" => ~flows[f].named
    /\ Untouched => /\ IsFiniteSet(Templates)
                    /\ Cardinality(Templates) + Cardinality(Inserting) <= Cardinality(Editor)

MadesKept ==
    \A f \in FlowId : flows'[f].made = flows[f].made /\ flows'[f].named = flows[f].named
Replaces(f) ==
    /\ flows'[f].made \in {"hand", "deleted"}
    /\ \A g \in FlowId \ {f} : flows'[g] = flows[g]

\* What a step of an editor does to the flows there are.
MakeStep(e) ==
    \/ MadesKept /\ editor'[e].doing \notin Dropping \cup {"insertFlow"}
    \/ /\ MadesKept /\ editor'[e].doing = "insertFlow"
       /\ WithIntent = {} \/ ~Untouched
    \/ /\ MadesKept /\ editor'[e].doing \in Dropping
       /\ editor'[e].flow \in FlowId /\ flows[editor'[e].flow].made # "absent"
    \/ editor'[e].doing \notin Dropping /\ \E f \in FlowId : Replaces(f)
    \/ \E f \in FlowId : GenerateFlow(e, f)

LEMMA MakesHeads == HeadsKept \/ RowsKept => MadesKept
  BY DEF HeadsKept, RowsKept, MadesKept

LEMMA FlowMakes ==
  ASSUME TypeInv, NEW e \in Editor, FlowStep(e)
  PROVE  MakeStep(e)
<1>0. EditorStep(e)
  BY EditorSteps
<1>1. ASSUME NEW f \in FlowId, NEW on \in BOOLEAN, NEW named \in BOOLEAN,
             CreateTaskFlow(e, f, on, named)
      PROVE  MakeStep(e)
  <2> DEFINE d == [NoFlow EXCEPT !.made = "hand"]
             q == [d EXCEPT !.on = on]
             r == [q EXCEPT !.named = named]
  <2>1. flows' = [flows EXCEPT ![f] = r] /\ Edits(e, "forgetRoutes", f, on)
    BY <1>1 DEF CreateTaskFlow, Writes
  <2>2. d \in FlowRow /\ d.made = "hand"
    BY NewFlow
  <2> HIDE DEF d
  <2>3. q \in FlowRow /\ q.made = "hand"
    BY <2>2, SwitchedFlow
  <2> HIDE DEF q
  <2>4. r.made = "hand"
    BY <2>3 DEF FlowRow
  <2> HIDE DEF r
  <2>5. Replaces(f)
    BY <2>1, <2>4 DEF Replaces, TypeInv, RowsTyped
  <2>6. editor'[e].doing = "forgetRoutes"
    BY <2>1, EditsFrame DEF TypeInv, Stage, Owing
  <2> QED BY <2>5, <2>6 DEF MakeStep, Dropping
<1>2. ASSUME NEW f \in FlowId, NEW on \in BOOLEAN, UpdateTaskFlow(e, f, on)
      PROVE  MakeStep(e)
  <2> DEFINE r == [flows[f] EXCEPT !.on = on]
  <2>1. flows' = [flows EXCEPT ![f] = r] /\ Edits(e, "forgetRoutes", f, on)
    BY <1>2 DEF UpdateTaskFlow, Writes
  <2>2. r.made = flows[f].made /\ r.named = flows[f].named
    BY SwitchedFlow DEF TypeInv, RowsTyped
  <2> HIDE DEF r
  <2>3. MadesKept
    BY <2>1, <2>2 DEF MadesKept, TypeInv, RowsTyped
  <2>4. editor'[e].doing = "forgetRoutes"
    BY <2>1, EditsFrame DEF TypeInv, Stage, Owing
  <2> QED BY <2>3, <2>4 DEF MakeStep, Dropping
<1>3. ASSUME NEW f \in FlowId, Checks(e, "deleteFlow", f)  PROVE MakeStep(e)
  <2>1. RowsKept /\ Edits(e, "deleteFlow", f, FALSE)
    BY <1>3 DEF Checks, Rows, RowsKept
  <2>2. editor'[e].doing = "deleteFlow"
    BY <2>1, EditsFrame DEF TypeInv, Stage, Checked
  <2> QED BY <2>1, <2>2, MakesHeads DEF MakeStep, Dropping
<1>4. ASSUME DeleteTaskFlow(e)  PROVE MakeStep(e)
  <2> DEFINE f == editor[e].flow
  <2>1. Is(e, "deleteFlow") /\ (Removes(f) \/ RowsKept) /\ Edits(e, "forgetRoutes", f, FALSE)
        /\ announced' = announced
    BY <1>4 DEF DeleteTaskFlow, RowsKept
  <2>2. f \in FlowId
    BY <2>1, EditorFlow DEF Is
  <2> HIDE DEF f
  <2>3. editor'[e].doing = "forgetRoutes"
    BY <2>1, <2>2, EditsFrame DEF TypeInv, Stage, Owing
  <2>4. Removes(f) => Replaces(f)
    BY <2>1, <2>2, RemovesTouches DEF TypeInv, Touches, Replaces
  <2> QED BY <2>1, <2>2, <2>3, <2>4, MakesHeads DEF MakeStep, Dropping
<1>5. ASSUME InvalidateFlows(e)  PROVE MakeStep(e)
  <2>1. RowsKept /\ Returns(e)
    BY <1>5 DEF InvalidateFlows, Rows, RowsKept
  <2>2. editor'[e].doing = "none"
    BY <2>1, ReturnsFrame DEF TypeInv
  <2> QED BY <2>1, <2>2, MakesHeads DEF MakeStep, Dropping
<1> QED BY <1>1, <1>2, <1>3, <1>4, <1>5 DEF FlowStep

LEMMA NodeMakes ==
  ASSUME TypeInv, NEW e \in Editor, NodeStep(e)
  PROVE  MakeStep(e)
<1>0. EditorStep(e)
  BY EditorSteps
<1>1. editor'[e].doing \notin Owing
  <2>1. ASSUME NEW f \in FlowId, NEW what \in Checked, Checks(e, what, f)
        PROVE  editor'[e].doing \notin Owing
    BY <2>1, EditsFrame DEF TypeInv, Stage, Checked, Checks, Owing
  <2>2. ASSUME Returns(e)  PROVE editor'[e].doing \notin Owing
    BY <2>2, ReturnsFrame DEF TypeInv, Owing
  <2>3. ASSUME UpdateTaskNode(e) \/ FindKeys(e)  PROVE editor'[e].doing \notin Owing
    <3>1. editor[e] \in EditRow
      BY DEF TypeInv, EditorTyped
    <3>2. CASE Returns(e)
      BY <2>2, <3>2
    <3>3. CASE editor' = [editor EXCEPT ![e].doing = "findKeys", ![e].wrote = edits + 1]
      <4> DEFINE x == [editor[e] EXCEPT !.doing = "findKeys"]
                 y == [x EXCEPT !.wrote = edits + 1]
      <4>1. editor'[e] = y
        BY <3>3 DEF TypeInv, EditorTyped
      <4>2. x \in EditRow /\ x.doing = "findKeys"
        BY <3>1 DEF EditRow, Stage
      <4> HIDE DEF x
      <4>3. y.doing = "findKeys"
        BY <4>2 DEF EditRow
      <4> QED BY <4>1, <4>3 DEF Owing
    <3>4. CASE FindKeys(e)
      <4> DEFINE x == [editor[e] EXCEPT !.doing = "deleteKeys"]
                 y == [x EXCEPT !.keys = Matched(editor[e].flow)]
      <4>1. editor'[e] = y
        BY <3>4 DEF FindKeys, TypeInv, EditorTyped
      <4>2. x \in EditRow /\ x.doing = "deleteKeys"
        BY <3>1 DEF EditRow, Stage
      <4> HIDE DEF x
      <4>3. y.doing = "deleteKeys"
        BY <4>2 DEF EditRow
      <4> QED BY <4>1, <4>3 DEF Owing
    <3> QED BY <2>3, <3>2, <3>3, <3>4 DEF UpdateTaskNode
  <2>4. DeleteKeys(e) \/ CreateTaskNode(e) \/ DeleteTaskNode(e) \/ CreateTaskEdge(e) \/ EditTaskEdge(e)
        => Returns(e)
    BY DEF DeleteKeys, CreateTaskNode, DeleteTaskNode, CreateTaskEdge, EditTaskEdge
  <2> QED BY <2>1, <2>2, <2>3, <2>4 DEF NodeStep, Checked
<1>2. HeadsKept
  BY <1>0, <1>1 DEF EditorStep, MovesOn
<1> QED BY <1>1, <1>2, MakesHeads DEF MakeStep, Dropping, Owing

LEMMA GenerateMakes ==
  ASSUME TypeInv, GenerateInv, NEW e \in Editor, GenerateStep(e)
  PROVE  MakeStep(e)
<1>1. ASSUME NEW overwrite \in BOOLEAN, NEW on \in BOOLEAN, GenerateBegin(e, overwrite, on)
      PROVE  MakeStep(e)
  <2>1. /\ MadesKept
        /\ \/ editor'[e].doing = "insertFlow" /\ WithIntent = {}
           \/ editor'[e].doing = "dropEdges" /\ editor'[e].flow \in WithIntent
    BY <1>1, GenerateBeginStep, MakesHeads
  <2> QED BY <2>1 DEF MakeStep, Dropping, WithIntent, InUse
<1>2. ASSUME DropStep(e)  PROVE MakeStep(e)
  <2> DEFINE f == editor[e].flow
  <2>1. editor[e].doing \in Dropping
    BY <1>2 DEF DropStep, Is, Dropping
  <2>2. f \in FlowId
    BY <2>1, EditorFlow DEF Dropping
  <2>3. flows[f].made # "absent"
    BY <2>1, <2>2 DEF GenerateInv
  <2>4. CASE Is(e, "dropFlow")
    <3>1. /\ editor'[e].doing = "insertFlow"
          /\ \/ RowsKept /\ ~InUse(f)
             \/ Touches(f) /\ flows'[f].made = "deleted"
      BY <1>2, <2>4, DropFlowStep
    <3> HIDE DEF f
    <3>2. Touches(f) /\ flows'[f].made = "deleted" => Replaces(f)
      BY DEF Touches, Replaces
    <3>3. ~InUse(f) => ~Untouched
      BY <2>2, <2>3 DEF InUse, Untouched
    <3> QED BY <2>2, <3>1, <3>2, <3>3, MakesHeads DEF MakeStep, Dropping
  <2>5. CASE ~Is(e, "dropFlow")
    <3>1. HeadsKept /\ editor'[e].doing \in {"dropNodes", "dropFlow"} /\ editor'[e].flow = f
      BY <1>2, <2>5, DropPartStep
    <3> QED BY <2>2, <2>3, <3>1, MakesHeads DEF MakeStep, Dropping
  <2> QED BY <2>4, <2>5
<1>3. GenerateRest(e) => MakeStep(e)
  BY GenerateRestStep, MakesHeads DEF MakeStep, Dropping
<1>4. GenerateFails(e) => MakeStep(e)
  BY GenerateFailsStep, MakesHeads DEF MakeStep, Dropping
<1>5. ASSUME NEW f \in FlowId, GenerateFlow(e, f)  PROVE MakeStep(e)
  BY <1>5 DEF MakeStep
<1> QED BY <1>1, <1>2, <1>3, <1>4, <1>5 DEF GenerateStep

LEMMA InsertingFinite ==
  /\ IsFiniteSet(Inserting) /\ Cardinality(Inserting) \in Nat
  /\ Cardinality(Inserting) <= Cardinality(Editor) /\ Cardinality(Editor) \in Nat
  BY EditorAssumption, FS_Subset, FS_CardinalityType DEF Inserting

LEMMA GenerateEditor ==
  ASSUME TypeInv, GenerateInv, NEW e \in Editor, FlowStep(e) \/ NodeStep(e) \/ GenerateStep(e)
  PROVE  GenerateInv'
<1>0. MakeStep(e) /\ TypeInv' /\ \A g \in Editor \ {e} : editor'[g] = editor[g]
  BY FlowMakes, NodeMakes, GenerateMakes, EditorSteps DEF EditorStep, MovesOn, OthersWait
<1>f. IsFiniteSet(Inserting') /\ Cardinality(Inserting') \in Nat
      /\ Cardinality(Inserting') <= Cardinality(Editor) /\ Cardinality(Editor) \in Nat
  BY EditorAssumption, FS_Subset, FS_CardinalityType DEF Inserting
<1>1. CASE MadesKept /\ editor'[e].doing # "insertFlow"
           /\ (\/ editor'[e].doing \notin Dropping
               \/ editor'[e].flow \in FlowId /\ flows[editor'[e].flow].made # "absent")
  <2>1. Templates' = Templates /\ (Untouched' <=> Untouched)
    BY <1>1 DEF MadesKept, Templates, Untouched
  <2>2. Inserting' \subseteq Inserting
    BY <1>0, <1>1 DEF Inserting, Is
  <2>3. Cardinality(Inserting') <= Cardinality(Inserting)
    BY <2>2, InsertingFinite, FS_Subset
  <2>4. ASSUME Untouched'
        PROVE  /\ IsFiniteSet(Templates')
               /\ Cardinality(Templates') + Cardinality(Inserting') <= Cardinality(Editor)
    <3>1. /\ IsFiniteSet(Templates)
          /\ Cardinality(Templates) + Cardinality(Inserting) <= Cardinality(Editor)
      BY <2>1, <2>4 DEF GenerateInv
    <3>2. Cardinality(Templates) \in Nat
      BY <3>1, FS_CardinalityType
    <3> QED BY <1>f, <2>1, <2>3, <3>1, <3>2, InsertingFinite
  <2>5. ASSUME NEW g \in Editor, NEW f \in FlowId, editor'[g].doing \in Dropping, editor'[g].flow = f
        PROVE  flows'[f].made # "absent"
    BY <1>0, <1>1, <2>5 DEF GenerateInv, MadesKept
  <2>6. \A f \in FlowId : flows'[f].made = "template" => ~flows'[f].named
    BY <1>1 DEF GenerateInv, MadesKept
  <2> QED BY <2>4, <2>5, <2>6 DEF GenerateInv
<1>2. CASE MadesKept /\ editor'[e].doing = "insertFlow" /\ (WithIntent = {} \/ ~Untouched)
  <2>1. Templates' = Templates /\ (Untouched' <=> Untouched)
    BY <1>2 DEF MadesKept, Templates, Untouched
  <2>2. WithIntent = {} => Templates = {}
    BY DEF GenerateInv, WithIntent, Templates, InUse
  <2>3. ASSUME Untouched'
        PROVE  /\ IsFiniteSet(Templates')
               /\ Cardinality(Templates') + Cardinality(Inserting') <= Cardinality(Editor)
    <3>1. Templates' = {}
      BY <1>2, <2>1, <2>2, <2>3
    <3>2. IsFiniteSet(Templates') /\ Cardinality(Templates') = 0
      BY <3>1, FS_EmptySet
    <3> QED BY <1>f, <3>2
  <2>4. ASSUME NEW g \in Editor, NEW f \in FlowId, editor'[g].doing \in Dropping, editor'[g].flow = f
        PROVE  flows'[f].made # "absent"
    BY <1>0, <1>2, <2>4 DEF GenerateInv, MadesKept, Dropping
  <2>5. \A f \in FlowId : flows'[f].made = "template" => ~flows'[f].named
    BY <1>2 DEF GenerateInv, MadesKept
  <2> QED BY <2>3, <2>4, <2>5 DEF GenerateInv
<1>3. ASSUME editor'[e].doing \notin Dropping, NEW f \in FlowId, Replaces(f)  PROVE GenerateInv'
  <2>1. ~Untouched'
    BY <1>3 DEF Replaces, Untouched
  <2>2. ASSUME NEW g \in Editor, NEW h \in FlowId, editor'[g].doing \in Dropping, editor'[g].flow = h
        PROVE  flows'[h].made # "absent"
    BY <1>0, <1>3, <2>2 DEF GenerateInv, Replaces
  <2>3. \A h \in FlowId : flows'[h].made = "template" => ~flows'[h].named
    BY <1>3 DEF GenerateInv, Replaces
  <2> QED BY <2>1, <2>2, <2>3 DEF GenerateInv
<1>4. ASSUME NEW f \in FlowId, GenerateFlow(e, f)  PROVE GenerateInv'
  <2>1. /\ editor[e].doing = "insertFlow" /\ editor'[e].doing = "insertNodes"
        /\ flows[f].made = "absent" /\ flows'[f].made = "template" /\ ~flows'[f].named
        /\ \A g \in FlowId \ {f} : flows'[g] = flows[g]
    BY <1>4, GenerateFlowStep DEF Touches
  <2>2. Templates' = Templates \cup {f} /\ f \notin Templates
    BY <2>1 DEF Templates
  <2>3. Inserting' = Inserting \ {e} /\ e \in Inserting
    BY <1>0, <2>1 DEF Inserting, Is
  <2>4. Untouched' => Untouched
    BY <2>1 DEF Untouched
  <2>5. ASSUME Untouched'
        PROVE  /\ IsFiniteSet(Templates')
               /\ Cardinality(Templates') + Cardinality(Inserting') <= Cardinality(Editor)
    <3>1. /\ IsFiniteSet(Templates)
          /\ Cardinality(Templates) + Cardinality(Inserting) <= Cardinality(Editor)
      BY <2>4, <2>5 DEF GenerateInv
    <3>2. IsFiniteSet(Templates') /\ Cardinality(Templates') = Cardinality(Templates) + 1
      BY <2>2, <3>1, FS_AddElement
    <3>3. Cardinality(Inserting') = Cardinality(Inserting) - 1
      BY <2>3, InsertingFinite, FS_RemoveElement
    <3>4. Cardinality(Templates) \in Nat
      BY <3>1, FS_CardinalityType
    <3> QED BY <3>1, <3>2, <3>3, <3>4, InsertingFinite
  <2>6. ASSUME NEW g \in Editor, NEW h \in FlowId, editor'[g].doing \in Dropping, editor'[g].flow = h
        PROVE  flows'[h].made # "absent"
    BY <1>0, <2>1, <2>6 DEF GenerateInv, Dropping
  <2>7. \A h \in FlowId : flows'[h].made = "template" => ~flows'[h].named
    BY <2>1 DEF GenerateInv
  <2> QED BY <2>5, <2>6, <2>7 DEF GenerateInv
<1> QED BY <1>0, <1>1, <1>2, <1>3, <1>4 DEF MakeStep, Dropping

LEMMA GenerateKept ==
  ASSUME GenerateInv, UNCHANGED <<flows, editor>>  PROVE GenerateInv'
<1>1. Templates' = Templates /\ Inserting' = Inserting /\ (Untouched' <=> Untouched)
  BY DEF Templates, Inserting, Is, Untouched
<1> QED BY <1>1 DEF GenerateInv

LEMMA GenerateInit == FlowInit => GenerateInv
<1> SUFFICES ASSUME FlowInit PROVE GenerateInv
  OBVIOUS
<1>1. /\ \A e \in Editor : editor[e].doing = "none"
      /\ \A f \in FlowId : flows[f].made = "absent"
  BY DEF FlowInit, NoEdit, NoFlow
<1>2. Templates = {} /\ Inserting = {}
  BY <1>1 DEF Templates, Inserting, Is
<1>3. IsFiniteSet(Templates) /\ Cardinality(Templates) + Cardinality(Inserting) <= Cardinality(Editor)
  BY <1>2, FS_EmptySet, FS_CardinalityType, EditorAssumption
<1> QED BY <1>1, <1>3 DEF GenerateInv, Dropping

\* flow_generator.py:193: a flow is generated once for an intent.  As long as
\* none is made by hand or replaced, only generations that overlap make more
\* than one, and there are never more of them than requests at the same time.
THEOREM OneFlowPerRequest == FlowSpec => []GeneratedPerRequest
<1>1. TypeInv /\ GenerateInv /\ [FlowNext]_flowVars => GenerateInv'
  <2> SUFFICES ASSUME TypeInv, GenerateInv, [FlowNext]_flowVars PROVE GenerateInv'
    OBVIOUS
  <2>1. ASSUME NEW t \in Reader, NEW k \in Kind, RouteStep(t, k)  PROVE UNCHANGED <<flows, editor>>
    BY <2>1, Hits, RouteMissStep, RouteReadStep, RouteRememberStep DEF RouteStep, Rows, flowVars
  <2>2. ASSUME NEW t \in Reader, NEW k \in Key, MetaStep(t, k)  PROVE UNCHANGED <<flows, editor>>
    BY <2>2, Hits, MetaMissStep, MetaReadStep, MetaSetStep DEF MetaStep, Rows, flowVars
  <2>3. Pass => UNCHANGED <<flows, editor>>
    BY DEF Pass
  <2>4. UNCHANGED flowVars => UNCHANGED <<flows, editor>>
    BY DEF flowVars
  <2> QED BY <2>1, <2>2, <2>3, <2>4, GenerateEditor, GenerateKept DEF FlowNext
<1>2. GenerateInv => GeneratedPerRequest
  BY DEF GenerateInv, GeneratedPerRequest, Templates, Inserting, Untouched
<1> QED BY <1>1, <1>2, GenerateInit, FlowsAreTyped, PTL DEF FlowSpec
-----------------------------------------------------------------------------
(* The two modules of the instances together.                              *)

\* Next to each other the sessions that are walked (runner.py) and the flows
\* that are edited and cached (repository.py) keep their types.
THEOREM TasksAndFlowsAreTyped == Spec /\ FlowSpec => []TypesOK
<1>1. TypeOK /\ FlowTypeOK => TypesOK
  BY DEF TypesOK
<1> QED BY <1>1, SessionTypeCorrect, FlowTypeCorrect, PTL
=============================================================================
