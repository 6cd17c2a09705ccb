--------------------------- MODULE KnowledgeProofs ---------------------------
(***************************************************************************)
(* Theorems about the knowledge sources, for any number of requests at the *)
(* same time, sources, files and folders.                                  *)
(***************************************************************************)
EXTENDS Knowledge, FiniteSetTheorems, TLAPS

\* Handlers without a source: an upload has none before it inserts the row.
Nameless(h) ==
    \/ h.op = "idle" /\ h.stage = "idle"
    \/ h.op = "upload" /\ h.stage = "row"
    \/ h.op = "switch" /\ h.stage = "clear"
    \/ h.op = "search" /\ h.stage = "store"

KnownHandler == {h \in Handler : h.source \in Source \/ Nameless(h)}

\* The inductive strengthening of TypeOK.
TypeInv == TypeOK /\ handler \in [Worker -> KnownHandler]

-----------------------------------------------------------------------------
(* What the ways of moving a handler on leave alone, and what a status     *)
(* update writes.                                                          *)

LEMMA SourceKnown ==
  ASSUME TypeInv, NEW w \in Worker, ~Nameless(handler[w])
  PROVE  Src(w) \in Source
  BY DEF TypeInv, KnownHandler, Src

LEMMA GotoFrame ==
  ASSUME TypeInv, NEW w \in Worker, ~Nameless(handler[w]), NEW st \in Stage, Goto(w, st)
  PROVE  /\ handler' \in [Worker -> KnownHandler]
         /\ \A v \in Worker \ {w} : handler'[v] = handler[v]
         /\ handler'[w].op = handler[w].op
         /\ handler'[w].source = handler[w].source
         /\ handler'[w].stage = st
<1>1. handler[w] \in Handler /\ handler[w].source \in Source
  BY DEF TypeInv, KnownHandler
<1>2. /\ [handler[w] EXCEPT !.stage = st] \in Handler
      /\ [handler[w] EXCEPT !.stage = st].op = handler[w].op
      /\ [handler[w] EXCEPT !.stage = st].source = handler[w].source
      /\ [handler[w] EXCEPT !.stage = st].stage = st
  BY <1>1 DEF Handler
<1>3. [handler[w] EXCEPT !.stage = st] \in KnownHandler
  BY <1>1, <1>2 DEF KnownHandler
<1> QED
  BY <1>2, <1>3 DEF TypeInv, Goto

LEMMA IdleHandler == Idle \in KnownHandler /\ Idle.op = "idle" /\ Idle.source = None
  BY DEF Idle, KnownHandler, Nameless, Handler, Op, Stage, Place, Changes

LEMMA FinishFrame ==
  ASSUME TypeInv, NEW w \in Worker, Finish(w)
  PROVE  /\ handler' \in [Worker -> KnownHandler]
         /\ \A v \in Worker \ {w} : handler'[v] = handler[v]
         /\ handler'[w] = Idle
  BY IdleHandler DEF TypeInv, Finish

LEMMA OvertakenFrame ==
  ASSUME NEW h \in [Worker -> KnownHandler]
  PROVE  /\ Overtaken(h) \in [Worker -> KnownHandler]
         /\ \A v \in Worker : /\ Overtaken(h)[v].op = h[v].op
                              /\ Overtaken(h)[v].source = h[v].source
                              /\ Overtaken(h)[v].stage = h[v].stage
<1>1. ASSUME NEW v \in Worker
      PROVE  /\ Overtaken(h)[v] \in KnownHandler
             /\ Overtaken(h)[v].op = h[v].op
             /\ Overtaken(h)[v].source = h[v].source
             /\ Overtaken(h)[v].stage = h[v].stage
  BY DEF Overtaken, KnownHandler, Handler, Nameless
<1> QED
  BY <1>1 DEF Overtaken

\* The fields of a handler that does not move, except what its result is worth.
SameWork(g, h) ==
    /\ g.op = h.op /\ g.stage = h.stage /\ g.source = h.source /\ g.folder = h.folder
    /\ g.file = h.file /\ g.found = h.found /\ (h.overtaken => g.overtaken)

LEMMA OutdatedFrame ==
  ASSUME TypeInv, NEW w \in Worker, NEW h \in KnownHandler, NEW s,
         handler' = Outdated([handler EXCEPT ![w] = h], s)
  PROVE  /\ handler' \in [Worker -> KnownHandler]
         /\ \A v \in Worker \ {w} : SameWork(handler'[v], handler[v])
         /\ SameWork(handler'[w], h)
         /\ \A v \in Worker \ {w} :
              s \in disturbed /\ s \in handler[v].found => handler'[v].overtaken
<1> DEFINE g == [handler EXCEPT ![w] = h]
<1>1. /\ g \in [Worker -> KnownHandler]
      /\ g[w] = h /\ \A v \in Worker \ {w} : g[v] = handler[v]
  BY DEF TypeInv
<1> HIDE DEF g
<1>2. handler' = Outdated(g, s)
  BY DEF g
<1>3. ASSUME NEW v \in Worker
      PROVE  /\ handler'[v] \in KnownHandler
             /\ SameWork(handler'[v], g[v])
             /\ s \in disturbed /\ s \in g[v].found => handler'[v].overtaken
  <2>1. g[v] \in KnownHandler
    BY <1>1
  <2>2. handler'[v] = [g[v] EXCEPT !.overtaken = @ \/ s \in disturbed \cap g[v].found]
    BY <1>2 DEF Outdated
  <2> QED BY <2>1, <2>2 DEF SameWork, KnownHandler, Handler, Nameless
<1>4. handler' \in [Worker -> KnownHandler]
  BY <1>2, <1>3 DEF Outdated
<1> QED BY <1>1, <1>3, <1>4

LEMMA WriteStatusType ==
  ASSUME TypeInv, NEW s, NEW new \in Status, WriteStatus(s, new)
  PROVE  /\ row' \in [Source -> [status : Status, file : File \cup {None},
                                 folder : Place, referenced : BOOLEAN]]
         /\ \A t \in Source :
              row'[t].status = IF t = s /\ Live(t) THEN new ELSE row[t].status
  BY DEF TypeInv, TypeOK, WriteStatus, Live

-----------------------------------------------------------------------------
(* Type correctness *)

LEMMA BeginType ==
  ASSUME NEW op \in Op, NEW stage \in Stage, NEW s \in Source \cup {None},
         s \in Source \/ (op = "upload" /\ stage = "row"),
         NEW p \in Place, NEW d \in File \cup {None}, NEW change \in Changes,
         NEW edit \in BOOLEAN
  PROVE  /\ [Begin(op, stage, s) EXCEPT !.folder = p] \in KnownHandler
         /\ [Begin(op, stage, s) EXCEPT !.file = d] \in KnownHandler
         /\ [Begin(op, stage, s) EXCEPT !.folder = p, !.file = d] \in KnownHandler
         /\ [Begin(op, stage, s) EXCEPT !.folder = p, !.change = change, !.edit = edit]
              \in KnownHandler
  BY IdleHandler DEF Begin, Handler, KnownHandler, Nameless

LEMMA InitType == Init => TypeInv
<1> SUFFICES ASSUME Init PROVE TypeInv
  OBVIOUS
<1>1. handler \in [Worker -> KnownHandler] /\ handler \in [Worker -> Handler]
  BY IdleHandler DEF Init, KnownHandler
<1>2. row \in [Source -> [status : Status, file : File \cup {None}, folder : Place,
                          referenced : BOOLEAN]]
  BY DEF Init, NoRow, Status, Working, Place
<1> QED
  BY <1>1, <1>2 DEF Init, TypeInv, TypeOK, NoBatch

\* The shared index_text and the except clauses.
LEMMA IndexType ==
  ASSUME TypeInv, NEW w \in Worker,
         \/ IndexChunk(w) \/ IndexEmbed(w) \/ IndexInsert(w) \/ IndexDone(w)
         \/ IndexFailed(w) \/ MarkFailed(w)
  PROVE  TypeInv'
<1> USE DEF Histories
<1>1. /\ "chunk" \in Stage /\ "embed" \in Stage /\ "insert" \in Stage /\ "done" \in Stage
      /\ "unindexed" \in Stage /\ "failed" \in Stage /\ "clear" \in Stage
  BY DEF Stage
<1>2. {"chunking", "embedding", "indexed", "failed"} \subseteq Status
  BY DEF Status, Working
<1>3. ~Nameless(handler[w])
  BY DEF Nameless, Indexes, IndexChunk, IndexEmbed, IndexInsert, IndexDone, IndexFailed,
         MarkFailed
<1>4. handler' \in [Worker -> KnownHandler] /\ handler' \in [Worker -> Handler]
  BY <1>1, <1>3, GotoFrame, FinishFrame
     DEF IndexChunk, IndexEmbed, IndexInsert, IndexDone, IndexFailed, MarkFailed, KnownHandler
<1>5. row' \in [Source -> [status : Status, file : File \cup {None}, folder : Place,
                           referenced : BOOLEAN]]
  BY <1>2, WriteStatusType
     DEF IndexChunk, IndexEmbed, IndexInsert, IndexDone, IndexFailed, MarkFailed, TypeInv, TypeOK
<1>6. batches' \in [Source -> [number : Nat, places : SUBSET Place]]
  <2>1. handler[w].folder \in Place
    BY DEF TypeInv, KnownHandler, Handler
  <2> QED
    BY <2>1 DEF IndexChunk, IndexEmbed, IndexInsert, IndexDone, IndexFailed, MarkFailed,
                TypeInv, TypeOK
<1> QED
  BY <1>4, <1>5, <1>6
     DEF IndexChunk, IndexEmbed, IndexInsert, IndexDone, IndexFailed, MarkFailed, TypeInv, TypeOK

\* Creation and upload.
LEMMA UploadType ==
  ASSUME TypeInv, NEW w \in Worker,
         \/ CreateRequest(w) \/ UploadRequest(w) \/ (\E s \in Source : UploadInsert(w, s))
         \/ UploadStore(w) \/ UploadAccept(w) \/ UploadExtract(w)
  PROVE  TypeInv'
<1> USE DEF Histories
<1>1. /\ "chunk" \in Stage /\ "row" \in Stage /\ "store" \in Stage /\ "accept" \in Stage
      /\ "extract" \in Stage /\ "failed" \in Stage
  BY DEF Stage
<1>2. {"processing", "uploading", "extracting"} \subseteq Status
  BY DEF Status, Working
<1>3. "create" \in Op /\ "upload" \in Op /\ TRUE \in BOOLEAN /\ "nothing" \in Changes
  BY DEF Op, Changes
<1>4. ASSUME NEW s \in Source, NEW p \in Place, CreateInsert(w, s, p) PROVE TypeInv'
  <2>1. [Begin("create", "chunk", s) EXCEPT !.folder = p] \in KnownHandler
    BY <1>1, <1>3, BeginType
  <2>2. [NoRow EXCEPT !.status = "processing", !.folder = p]
          \in [status : Status, file : File \cup {None}, folder : Place, referenced : BOOLEAN]
    BY <1>2 DEF NoRow
  <2> QED
    BY <1>4, <2>1, <2>2 DEF CreateInsert, TypeInv, TypeOK, KnownHandler
<1>5. ASSUME NEW d \in File, NEW p \in Place, UploadBegin(w, d, p) PROVE TypeInv'
  <2>1. [Begin("upload", "row", None) EXCEPT !.folder = p, !.file = d] \in KnownHandler
    BY <1>1, <1>3, BeginType
  <2> QED
    BY <1>5, <2>1 DEF UploadBegin, TypeInv, TypeOK, KnownHandler
<1>6. ASSUME NEW s \in Source, UploadInsert(w, s) PROVE TypeInv'
  <2>1. handler[w] \in Handler
    BY DEF TypeInv, TypeOK
  <2>2. [NoRow EXCEPT !.status = "uploading", !.file = handler[w].file,
                      !.folder = handler[w].folder]
          \in [status : Status, file : File \cup {None}, folder : Place, referenced : BOOLEAN]
    BY <1>2, <2>1 DEF NoRow, Handler
  <2>3. [handler[w] EXCEPT !.stage = "store", !.source = s] \in KnownHandler
    BY <1>1, <2>1 DEF KnownHandler, Handler
  <2>4. handler' \in [Worker -> KnownHandler]
    BY <1>6, <2>3 DEF UploadInsert, TypeInv
  <2> QED
    BY <1>6, <2>2, <2>4 DEF UploadInsert, TypeInv, TypeOK, KnownHandler
<1>7. CASE UploadStore(w)
  <2>1. ~Nameless(handler[w])
    BY <1>7 DEF UploadStore, At, Nameless
  <2>2. handler' \in [Worker -> KnownHandler]
    BY <1>1, <1>7, <2>1, GotoFrame DEF UploadStore
  <2>3. Src(w) \in Source
    BY <2>1, SourceKnown
  <2> QED
    BY <1>7, <2>2, <2>3 DEF UploadStore, TypeInv, TypeOK, KnownHandler
<1>8. CASE UploadAccept(w) \/ UploadExtract(w)
  <2>1. ~Nameless(handler[w])
    BY <1>8 DEF UploadAccept, UploadExtract, At, Nameless
  <2>2. handler' \in [Worker -> KnownHandler]
    BY <1>1, <1>8, <2>1, GotoFrame DEF UploadAccept, UploadExtract
  <2>3. row' \in [Source -> [status : Status, file : File \cup {None}, folder : Place,
                             referenced : BOOLEAN]]
    BY <1>2, <1>8, WriteStatusType DEF UploadAccept, UploadExtract
  <2> QED
    BY <1>8, <2>2, <2>3 DEF UploadAccept, UploadExtract, TypeInv, TypeOK, KnownHandler
<1> QED
  BY <1>4, <1>5, <1>6, <1>7, <1>8 DEF CreateRequest, UploadRequest

\* patch_knowledge_source.
LEMMA PatchType ==
  ASSUME TypeInv, NEW w \in Worker,
         \/ PatchRequest(w) \/ PatchUpdate(w) \/ PatchChunks(w) \/ PatchClear(w) \/ PatchEdit(w)
  PROVE  TypeInv'
<1> USE DEF Histories
<1>1. {"update", "edit", "chunks", "clear"} \subseteq Stage
  BY DEF Stage
<1>2. ASSUME NEW s \in Source, NEW change \in Changes, NEW p \in Place,
             NEW edit \in BOOLEAN, PatchBegin(w, s, change, p, edit)
      PROVE  TypeInv'
  <2> DEFINE st == IF change = "nothing" THEN "edit" ELSE "update"
  <2>1. st \in Stage /\ "patch" \in Op
    BY <1>1 DEF Op
  <2>2. [Begin("patch", st, s) EXCEPT !.folder = p, !.change = change, !.edit = edit]
          \in KnownHandler
    BY <2>1, BeginType
  <2>3. disturbed' \subseteq Source
    BY <1>2 DEF PatchBegin, Overlaps, TypeInv, TypeOK
  <2> QED
    BY <1>2, <2>2, <2>3 DEF PatchBegin, TypeInv, TypeOK, KnownHandler
<1>3. ASSUME PatchUpdate(w) \/ PatchChunks(w) \/ PatchClear(w) \/ PatchEdit(w)
      PROVE  TypeInv'
  <2>1. ~Nameless(handler[w])
    BY <1>3 DEF PatchUpdate, PatchChunks, PatchClear, PatchEdit, At, Nameless
  <2>2. Src(w) \in Source /\ handler[w] \in Handler /\ handler[w] \in KnownHandler
    BY <2>1, SourceKnown DEF TypeInv, KnownHandler
  <2>3. CASE PatchUpdate(w)
    <3>1. handler' \in [Worker -> KnownHandler]
      BY <1>1, <2>1, <2>3, GotoFrame, FinishFrame DEF PatchUpdate
    <3>2. handler[w].change \in Changes /\ handler[w].folder \in Place
      BY <2>2 DEF Handler
    <3>3. Changed(row[Src(w)], handler[w].change, handler[w].folder)
            \in [status : Status, file : File \cup {None}, folder : Place, referenced : BOOLEAN]
      BY <2>2, <3>2 DEF Changed, Changes, TypeInv, TypeOK, Status
    <3> QED
      BY <2>2, <2>3, <3>1, <3>3 DEF PatchUpdate, TypeInv, TypeOK, KnownHandler
  <2>4. CASE PatchChunks(w)
    <3>1. handler' \in [Worker -> KnownHandler]
      BY <1>1, <2>1, <2>4, GotoFrame DEF PatchChunks
    <3>2. handler[w].folder \in Place
      BY <2>2 DEF Handler
    <3> QED
      BY <2>4, <3>1, <3>2 DEF PatchChunks, TypeInv, TypeOK, KnownHandler
  <2>5. CASE PatchClear(w)
    <3> DEFINE after == IF handler[w].edit THEN [handler[w] EXCEPT !.stage = "edit"] ELSE Idle
    <3>1. after \in KnownHandler
      BY <1>1, <2>2, <2>1, IdleHandler DEF KnownHandler, Handler, Nameless
    <3>2. [handler EXCEPT ![w] = after] \in [Worker -> KnownHandler]
      BY <3>1 DEF TypeInv
    <3>3. handler' = Overtaken([handler EXCEPT ![w] = after])
      BY <2>5 DEF PatchClear, Cleared, TypeInv
    <3>4. handler' \in [Worker -> KnownHandler]
      BY <3>2, <3>3, OvertakenFrame
    <3> QED
      BY <2>5, <3>4 DEF PatchClear, Cleared, TypeInv, TypeOK, KnownHandler
  <2>6. CASE PatchEdit(w)
    <3>1. handler' \in [Worker -> KnownHandler]
      BY <2>6, FinishFrame DEF PatchEdit
    <3>2. row' \in [Source -> [status : Status, file : File \cup {None}, folder : Place,
                               referenced : BOOLEAN]]
      BY <2>6, WriteStatusType DEF PatchEdit, Status, Working
    <3> QED
      BY <2>2, <2>6, <3>1, <3>2 DEF PatchEdit, TypeInv, TypeOK, KnownHandler
  <2> QED
    BY <1>3, <2>3, <2>4, <2>5, <2>6
<1> QED
  BY <1>2, <1>3 DEF PatchRequest

\* A handler that clears the cache as its last step.
LEMMA ClearedFrame ==
  ASSUME TypeInv, NEW w \in Worker, Cleared([handler EXCEPT ![w] = Idle])
  PROVE  /\ handler' \in [Worker -> KnownHandler]
         /\ \A v \in Worker \ {w} : /\ handler'[v].op = handler[v].op
                                    /\ handler'[v].source = handler[v].source
                                    /\ handler'[v].stage = handler[v].stage
         /\ handler'[w].op = "idle"
<1> DEFINE h == [handler EXCEPT ![w] = Idle]
<1>1. h \in [Worker -> KnownHandler] /\ h[w].op = "idle" /\ \A v \in Worker \ {w} : h[v] = handler[v]
  BY IdleHandler DEF TypeInv
<1>2. handler' = Overtaken(h)
  BY DEF Cleared
<1> QED
  BY <1>1, <1>2, OvertakenFrame

\* reindex_knowledge and delete_knowledge.
LEMMA ReindexDeleteType ==
  ASSUME TypeInv, NEW w \in Worker,
         \/ ReindexRequest(w) \/ ReindexMark(w) \/ ReindexLoad(w) \/ ReindexDelete(w)
         \/ ReindexClear(w) \/ DeleteRequest(w) \/ DeleteRow(w) \/ DeleteOriginal(w)
  PROVE  TypeInv'
<1> USE DEF Histories
<1>1. {"mark", "load", "delete", "failed", "chunk", "row", "original"} \subseteq Stage
  BY DEF Stage
<1>2. \A s \in Source : row[s].file \in File \cup {None} /\ row[s].folder \in Place
  BY DEF TypeInv, TypeOK
<1>3. ASSUME NEW s \in Source, ReindexBegin(w, s) PROVE TypeInv'
  <2>1. [Begin("reindex", "mark", s) EXCEPT !.folder = row[s].folder, !.file = row[s].file]
          \in KnownHandler
    BY <1>1, <1>2, BeginType DEF Op, Changes
  <2>2. handler' \in [Worker -> KnownHandler]
    BY <1>3, <2>1, OutdatedFrame DEF ReindexBegin
  <2>3. disturbed' \subseteq Source /\ muddied' \in BOOLEAN
    BY <1>3 DEF ReindexBegin, TypeInv, TypeOK
  <2> QED
    BY <1>3, <2>2, <2>3 DEF ReindexBegin, TypeInv, TypeOK, KnownHandler
<1>4. ASSUME NEW s \in Source, DeleteBegin(w, s) PROVE TypeInv'
  <2>1. [Begin("delete", "row", s) EXCEPT !.file = row[s].file] \in KnownHandler
    BY <1>1, <1>2, BeginType DEF Op, Changes
  <2>2. disturbed' \subseteq Source
    BY <1>4 DEF DeleteBegin, Overlaps, TypeInv, TypeOK
  <2> QED
    BY <1>4, <2>1, <2>2 DEF DeleteBegin, TypeInv, TypeOK, KnownHandler
<1>5. CASE ReindexClear(w)
  BY <1>5, ClearedFrame DEF ReindexClear, Cleared, TypeInv, TypeOK, KnownHandler
<1>6. ASSUME ReindexMark(w) \/ ReindexLoad(w) \/ ReindexDelete(w) \/ DeleteRow(w)
             \/ DeleteOriginal(w)
      PROVE  TypeInv'
  <2>1. ~Nameless(handler[w])
    BY <1>6 DEF ReindexMark, ReindexLoad, ReindexDelete, DeleteRow, DeleteOriginal, At, Nameless
  <2>2. handler' \in [Worker -> KnownHandler]
    BY <1>1, <1>6, <2>1, GotoFrame, FinishFrame
       DEF ReindexMark, ReindexLoad, ReindexDelete, DeleteRow, DeleteOriginal
  <2>3. row' \in [Source -> [status : Status, file : File \cup {None}, folder : Place,
                             referenced : BOOLEAN]]
    <3>1. CASE ReindexMark(w)
      BY <3>1, WriteStatusType DEF ReindexMark, Status, Working
    <3>2. CASE DeleteRow(w)
      BY <3>2 DEF DeleteRow, TypeInv, TypeOK, NoRow, Status, Place
    <3>3. CASE ReindexLoad(w) \/ ReindexDelete(w) \/ DeleteOriginal(w)
      BY <3>3 DEF ReindexLoad, ReindexDelete, DeleteOriginal, TypeInv, TypeOK
    <3> QED
      BY <1>6, <3>1, <3>2, <3>3
  <2>4. batches' \in [Source -> [number : Nat, places : SUBSET Place]]
    BY <1>6 DEF ReindexMark, ReindexLoad, ReindexDelete, DeleteRow, DeleteOriginal,
                TypeInv, TypeOK, NoBatch
  <2> QED
    BY <1>6, <2>2, <2>3, <2>4
       DEF ReindexMark, ReindexLoad, ReindexDelete, DeleteRow, DeleteOriginal,
           TypeInv, TypeOK, KnownHandler
<1> QED
  BY <1>3, <1>4, <1>5, <1>6 DEF ReindexRequest, DeleteRequest

\* knowledge_folders.py and retrieve_knowledge.
LEMMA FolderSearchType ==
  ASSUME TypeInv,
         \/ \E w \in Worker : \/ FolderRequest(w) \/ FolderSwitchClear(w)
                              \/ SearchRequest(w) \/ SearchStore(w)
         \/ FolderStep
         \/ CacheExpires
  PROVE  TypeInv'
<1> USE DEF Histories
<1>1. ASSUME NEW w \in Worker, NEW f \in Folder, NEW to \in {"active", "inactive"},
             FolderSwitch(w, f, to)
      PROVE  TypeInv'
  <2>1. [Idle EXCEPT !.op = "switch", !.stage = "clear"] \in KnownHandler
    BY IdleHandler DEF KnownHandler, Handler, Nameless, Op, Stage
  <2> QED
    BY <1>1, <2>1 DEF FolderSwitch, TypeInv, TypeOK, KnownHandler
<1>2. ASSUME NEW w \in Worker, FolderSwitchClear(w) PROVE TypeInv'
  BY <1>2, ClearedFrame DEF FolderSwitchClear, Cleared, TypeInv, TypeOK, KnownHandler
<1>3. ASSUME NEW w \in Worker, NEW found \in SUBSET Source, Search(w, found) PROVE TypeInv'
  <2>1. [Idle EXCEPT !.op = "search", !.stage = "store", !.found = found] \in KnownHandler
    BY IdleHandler DEF KnownHandler, Handler, Nameless, Op, Stage
  <2> QED
    BY <1>3, <2>1 DEF Search, TypeInv, TypeOK, KnownHandler
<1>4. ASSUME NEW w \in Worker, SearchStore(w) PROVE TypeInv'
  <2>1. handler[w] \in Handler
    BY DEF TypeInv, TypeOK
  <2>2. handler[w].found \subseteq Source /\ handler[w].overtaken \in BOOLEAN
    BY <2>1 DEF Handler
  <2> QED
    BY <1>4, <2>2, FinishFrame DEF SearchStore, TypeInv, TypeOK, KnownHandler
<1>5. ASSUME NEW f \in Folder, FolderCreate(f) PROVE TypeInv'
  BY <1>5 DEF FolderCreate, TypeInv, TypeOK
<1>6. ASSUME NEW f \in Folder, FolderDelete(f) PROVE TypeInv'
  <2>1. row' \in [Source -> [status : Status, file : File \cup {None}, folder : Place,
                             referenced : BOOLEAN]]
    BY <1>6 DEF FolderDelete, TypeInv, TypeOK, Place
  <2>2. batches' \in [Source -> [number : Nat, places : SUBSET Place]]
    BY <1>6 DEF FolderDelete, TypeInv, TypeOK, Place
  <2> QED
    BY <1>6, <2>1, <2>2 DEF FolderDelete, TypeInv, TypeOK
<1>7. CASE CacheExpires
  BY <1>7 DEF CacheExpires, TypeInv, TypeOK
<1> QED
  BY <1>1, <1>2, <1>3, <1>4, <1>5, <1>6, <1>7
     DEF FolderRequest, SearchRequest, FolderStep

\* The handlers after one of them leaves off.
LEMMA LeavesOffFrame ==
  ASSUME TypeInv, NEW w \in Worker, LeavesOff(w)
  PROVE  /\ handler' \in [Worker -> KnownHandler]
         /\ \A v \in Worker \ {w} : /\ handler'[v].op = handler[v].op
                                    /\ handler'[v].source = handler[v].source
                                    /\ handler'[v].stage = handler[v].stage
         /\ handler'[w].op = "idle"
         /\ muddied' \in BOOLEAN
<1> DEFINE h == [handler EXCEPT ![w] = Idle]
<1>1. h \in [Worker -> KnownHandler] /\ h[w].op = "idle" /\ \A v \in Worker \ {w} : h[v] = handler[v]
  BY IdleHandler DEF TypeInv
<1>2. handler' = Overtaken(h) \/ handler' = h
  BY DEF LeavesOff, NotCleared
<1>3. muddied' \in BOOLEAN
  BY DEF LeavesOff, NotCleared, TypeInv, TypeOK
<1> QED
  BY <1>1, <1>2, <1>3, OvertakenFrame

\* The handlers after one of them goes to an except clause.
LEMMA FailedFrame ==
  ASSUME TypeInv, NEW w \in Worker, Indexes(w), AfterFailure(w) # "raised",
         NotCleared(w, [handler EXCEPT ![w].stage = AfterFailure(w)])
  PROVE  /\ handler' \in [Worker -> KnownHandler]
         /\ \A v \in Worker : /\ handler'[v].op = handler[v].op
                              /\ handler'[v].source = handler[v].source
         /\ \A v \in Worker \ {w} : handler'[v].stage = handler[v].stage
         /\ handler'[w].stage = AfterFailure(w)
         /\ AfterFailure(w) \in {"unindexed", "failed"}
         /\ ~Nameless(handler[w])
         /\ muddied' \in BOOLEAN
<1> DEFINE h == [handler EXCEPT ![w].stage = AfterFailure(w)]
<1>1. AfterFailure(w) \in {"unindexed", "failed"} /\ ~Nameless(handler[w])
  BY DEF AfterFailure, Indexes, Nameless
<1>2. handler[w] \in Handler /\ Src(w) \in Source
  BY <1>1, SourceKnown DEF TypeInv, TypeOK
<1>3. /\ [handler[w] EXCEPT !.stage = AfterFailure(w)] \in KnownHandler
      /\ [handler[w] EXCEPT !.stage = AfterFailure(w)].op = handler[w].op
      /\ [handler[w] EXCEPT !.stage = AfterFailure(w)].source = handler[w].source
      /\ [handler[w] EXCEPT !.stage = AfterFailure(w)].stage = AfterFailure(w)
  BY <1>1, <1>2 DEF KnownHandler, Handler, Stage, Src
<1>4. /\ h \in [Worker -> KnownHandler]
      /\ \A v \in Worker : h[v].op = handler[v].op /\ h[v].source = handler[v].source
      /\ \A v \in Worker \ {w} : h[v].stage = handler[v].stage
      /\ h[w].stage = AfterFailure(w)
  BY <1>3 DEF TypeInv
<1>5. handler' = Overtaken(h) \/ handler' = h
  BY DEF NotCleared
<1>6. muddied' \in BOOLEAN
  BY DEF NotCleared, TypeInv, TypeOK
<1> QED
  BY <1>1, <1>4, <1>5, <1>6, OvertakenFrame

LEMMA FailureType ==
  ASSUME TypeInv, NEW w \in Worker, RequestFails(w) \/ Restart(w)
  PROVE  TypeInv'
<1> USE DEF Histories
<1>1. CASE LeavesOff(w)
  <2>1. disturbed' \subseteq Source
    <3>1. handler[w].stage \in {"chunks", "mark", "original"} => Src(w) \in Source
      BY SourceKnown DEF Nameless
    <3> QED
      BY <1>1, <3>1 DEF LeavesOff, TypeInv, TypeOK
  <2>2. abandoned' \subseteq Source
    <3>1. Pending(w) => Src(w) \in Source
      BY SourceKnown DEF Nameless, Pending, Indexes
    <3> QED
      BY <1>1, <3>1 DEF LeavesOff, TypeInv, TypeOK
  <2> QED
    BY <1>1, <2>1, <2>2, LeavesOffFrame
       DEF RequestFails, Restart, TypeInv, TypeOK, KnownHandler
<1>2. CASE ~LeavesOff(w)
  BY <1>2, FailedFrame DEF RequestFails, Restart, TypeInv, TypeOK, KnownHandler
<1> QED
  BY <1>1, <1>2

LEMMA StutterType == TypeInv /\ UNCHANGED vars => TypeInv'
  BY DEF TypeInv, TypeOK, vars

LEMMA StepType == TypeInv /\ [Next]_vars => TypeInv'
  BY IndexType, UploadType, PatchType, ReindexDeleteType, FolderSearchType, FailureType,
     StutterType
     DEF Next, Step, SourceRequest

\* The tables, the cache and the handlers keep their shape, whatever
\* requests interleave, fail or are lost.
THEOREM KnowledgeTypeCorrect == Spec => []TypeOK
<1>1. TypeInv => TypeOK
  BY DEF TypeInv
<1> QED
  BY <1>1, InitType, StepType, PTL DEF Spec

-----------------------------------------------------------------------------
(* A working status has somebody who works on it.                          *)

\* What a step has to do for WorkedOn: who writes a working status goes on
\* to write another one, who stops owing one has written it or is listed,
\* and nobody else's handler is touched.
LEMMA KeepsWorkedOn ==
  ASSUME TypeInv, WorkedOn,
         \A s \in Source : row'[s].status \in Working =>
             row[s].status \in Working \/ s \in abandoned'
             \/ \E v \in Worker : Src(v)' = s /\ Pending(v)',
         \A v \in Worker : Pending(v) =>
             \/ Src(v)' = Src(v) /\ Pending(v)'
             \/ Src(v) \in abandoned'
             \/ row'[Src(v)].status \notin Working,
         \A s \in abandoned : s \in abandoned' \/ \E v \in Worker : Src(v)' = s /\ Pending(v)'
  PROVE  WorkedOn'
  BY DEF WorkedOn

\* The steps of one handler that write or leave a status, and go on or end.
LEMMA IndexWorkedOn ==
  ASSUME TypeInv, WorkedOn, NEW w \in Worker,
         \/ IndexChunk(w) \/ IndexEmbed(w) \/ IndexInsert(w) \/ IndexDone(w)
         \/ IndexFailed(w) \/ MarkFailed(w)
  PROVE  WorkedOn'
<1> USE DEF Histories
<1>1. {"embed", "insert", "done", "unindexed", "failed", "clear"} \subseteq Stage
  BY DEF Stage
<1>2. {"chunking", "embedding", "indexed", "failed"} \subseteq Status
  BY DEF Status, Working
<1>3. ~Nameless(handler[w]) /\ Src(w) \in Source
  BY SourceKnown
     DEF Nameless, Indexes, IndexChunk, IndexEmbed, IndexInsert, IndexDone, IndexFailed, MarkFailed
<1>4. \A v \in Worker \ {w} : Src(v)' = Src(v) /\ (Pending(v) => Pending(v)')
  BY <1>1, <1>3, GotoFrame, FinishFrame
     DEF IndexChunk, IndexEmbed, IndexInsert, IndexDone, IndexFailed, MarkFailed,
         Src, Pending, Indexes
<1>5. CASE IndexChunk(w) \/ IndexEmbed(w)
  <2>1. Src(w)' = Src(w) /\ Pending(w)'
    BY <1>1, <1>3, <1>5, GotoFrame DEF IndexChunk, IndexEmbed, Src, Pending, Indexes
  <2>2. \A s \in Source \ {Src(w)} : row'[s].status = row[s].status
    BY <1>2, <1>5, WriteStatusType DEF IndexChunk, IndexEmbed
  <2> QED
    BY <1>4, <1>5, <2>1, <2>2, KeepsWorkedOn DEF IndexChunk, IndexEmbed
<1>6. CASE IndexInsert(w)
  <2>1. Src(w)' = Src(w) /\ Pending(w)'
    BY <1>1, <1>3, <1>6, GotoFrame DEF IndexInsert, Src, Pending, Indexes
  <2> QED
    BY <1>4, <1>6, <2>1, KeepsWorkedOn DEF IndexInsert
<1>7. CASE IndexDone(w) \/ IndexFailed(w) \/ MarkFailed(w)
  <2>1. \A s \in Source : row'[s].status = IF s = Src(w) /\ Live(s)
                            THEN IF IndexDone(w) THEN "indexed" ELSE "failed"
                            ELSE row[s].status
    BY <1>2, <1>7, WriteStatusType DEF IndexDone, IndexFailed, MarkFailed
  <2>2. row'[Src(w)].status \notin Working
    BY <1>3, <2>1 DEF Live, Working
  <2>3. \A s \in Source : row'[s].status \in Working => row[s].status \in Working
    BY <2>1 DEF Working
  <2>4. abandoned' = abandoned
    BY <1>7 DEF IndexDone, IndexFailed, MarkFailed
  <2> QED
    BY <1>4, <2>2, <2>3, <2>4, KeepsWorkedOn
<1> QED
  BY <1>5, <1>6, <1>7

LEMMA UploadWorkedOn ==
  ASSUME TypeInv, WorkedOn, NEW w \in Worker,
         \/ CreateRequest(w) \/ UploadRequest(w) \/ (\E s \in Source : UploadInsert(w, s))
         \/ UploadStore(w) \/ UploadAccept(w) \/ UploadExtract(w)
  PROVE  WorkedOn'
<1> USE DEF Histories
<1>1. {"chunk", "row", "store", "accept", "extract", "failed"} \subseteq Stage
  BY DEF Stage
<1>2. {"processing", "extracting"} \subseteq Status
  BY DEF Status, Working
<1>3. ASSUME NEW s \in Source, NEW p \in Place, CreateInsert(w, s, p) PROVE WorkedOn'
  <2>1. ~Pending(w)
    BY <1>3, IdleHandler DEF CreateInsert, Pending, Indexes
  <2>2. /\ [Begin("create", "chunk", s) EXCEPT !.folder = p].op = "create"
        /\ [Begin("create", "chunk", s) EXCEPT !.folder = p].stage = "chunk"
        /\ [Begin("create", "chunk", s) EXCEPT !.folder = p].source = s
    BY DEF Begin, Idle
  <2>3. Src(w)' = s /\ Pending(w)'
    BY <1>3, <2>2 DEF CreateInsert, Src, Pending, Indexes, TypeInv, TypeOK
  <2>4. \A v \in Worker \ {w} : Src(v)' = Src(v) /\ (Pending(v) => Pending(v)')
    BY <1>3 DEF CreateInsert, Src, Pending, Indexes, TypeInv, TypeOK
  <2>5. \A t \in Source \ {s} : row'[t] = row[t]
    BY <1>3 DEF CreateInsert, TypeInv, TypeOK
  <2> QED
    BY <1>3, <2>1, <2>3, <2>4, <2>5, KeepsWorkedOn DEF CreateInsert
<1>4. ASSUME NEW d \in File, NEW p \in Place, UploadBegin(w, d, p) PROVE WorkedOn'
  <2>1. ~Pending(w)
    BY <1>4, IdleHandler DEF UploadBegin, Pending, Indexes
  <2>2. \A v \in Worker \ {w} : Src(v)' = Src(v) /\ (Pending(v) => Pending(v)')
    BY <1>4 DEF UploadBegin, Src, Pending, Indexes, TypeInv, TypeOK
  <2> QED
    BY <1>4, <2>1, <2>2, KeepsWorkedOn DEF UploadBegin
<1>5. ASSUME NEW s \in Source, UploadInsert(w, s) PROVE WorkedOn'
  <2>1. handler[w] \in Handler
    BY DEF TypeInv, TypeOK
  <2>2. Src(w)' = s /\ Pending(w)' /\ ~Pending(w)
    BY <1>5, <2>1 DEF UploadInsert, At, Src, Pending, Indexes, TypeInv, TypeOK, Handler
  <2>3. \A v \in Worker \ {w} : Src(v)' = Src(v) /\ (Pending(v) => Pending(v)')
    BY <1>5 DEF UploadInsert, Src, Pending, Indexes, TypeInv, TypeOK
  <2>4. \A t \in Source \ {s} : row'[t] = row[t]
    BY <1>5 DEF UploadInsert, TypeInv, TypeOK
  <2> QED
    BY <1>5, <2>2, <2>3, <2>4, KeepsWorkedOn DEF UploadInsert
<1>6. CASE UploadStore(w) \/ UploadAccept(w) \/ UploadExtract(w)
  <2>1. ~Nameless(handler[w]) /\ Indexes(w)
    BY <1>6 DEF UploadStore, UploadAccept, UploadExtract, At, Nameless, Indexes
  <2>2. Src(w)' = Src(w) /\ Pending(w)'
    BY <1>1, <1>6, <2>1, GotoFrame
       DEF UploadStore, UploadAccept, UploadExtract, Src, Pending, Indexes
  <2>3. \A v \in Worker \ {w} : Src(v)' = Src(v) /\ (Pending(v) => Pending(v)')
    BY <1>1, <1>6, <2>1, GotoFrame
       DEF UploadStore, UploadAccept, UploadExtract, Src, Pending, Indexes
  <2>4. \A s \in Source \ {Src(w)} : row'[s].status = row[s].status
    BY <1>2, <1>6, WriteStatusType DEF UploadStore, UploadAccept, UploadExtract
  <2> QED
    BY <1>6, <2>2, <2>3, <2>4, KeepsWorkedOn DEF UploadStore, UploadAccept, UploadExtract
<1> QED
  BY <1>3, <1>4, <1>5, <1>6 DEF CreateRequest, UploadRequest

LEMMA PatchWorkedOn ==
  ASSUME TypeInv, WorkedOn, NEW w \in Worker,
         \/ PatchRequest(w) \/ PatchUpdate(w) \/ PatchChunks(w) \/ PatchClear(w) \/ PatchEdit(w)
  PROVE  WorkedOn'
<1> USE DEF Histories
<1>1. {"update", "edit", "chunks", "clear"} \subseteq Stage
  BY DEF Stage
<1>2. ASSUME NEW s \in Source, NEW change \in Changes, NEW p \in Place,
             NEW edit \in BOOLEAN, PatchBegin(w, s, change, p, edit)
      PROVE  WorkedOn'
  <2>1. ~Pending(w)
    BY <1>2, IdleHandler DEF PatchBegin, Pending, Indexes
  <2>2. \A v \in Worker \ {w} : Src(v)' = Src(v) /\ (Pending(v) => Pending(v)')
    BY <1>2 DEF PatchBegin, Src, Pending, Indexes, TypeInv, TypeOK
  <2> QED
    BY <1>2, <2>1, <2>2, KeepsWorkedOn DEF PatchBegin
<1>3. ASSUME PatchUpdate(w) \/ PatchChunks(w) \/ PatchClear(w) \/ PatchEdit(w)
      PROVE  WorkedOn'
  <2>1. ~Nameless(handler[w]) /\ ~Pending(w)
    BY <1>3 DEF PatchUpdate, PatchChunks, PatchClear, PatchEdit, At, Nameless, Pending, Indexes
  <2>2. Src(w) \in Source /\ handler[w] \in Handler
    BY <2>1, SourceKnown DEF TypeInv, TypeOK
  <2>3. CASE PatchUpdate(w)
    <3>1. \A v \in Worker \ {w} : Src(v)' = Src(v) /\ (Pending(v) => Pending(v)')
      BY <1>1, <2>1, <2>3, GotoFrame, FinishFrame DEF PatchUpdate, Src, Pending, Indexes
    <3>2. \A s \in Source : row'[s].status = row[s].status \/ row'[s].status = "indexed"
      <4>1. handler[w].change \in Changes
        BY <2>2 DEF Handler
      <4> QED
        BY <2>2, <2>3, <4>1 DEF PatchUpdate, Changed, Changes, TypeInv, TypeOK
    <3> QED
      BY <2>1, <2>3, <3>1, <3>2, KeepsWorkedOn DEF PatchUpdate, Working
  <2>4. CASE PatchChunks(w)
    <3>1. \A v \in Worker \ {w} : Src(v)' = Src(v) /\ (Pending(v) => Pending(v)')
      BY <1>1, <2>1, <2>4, GotoFrame DEF PatchChunks, Src, Pending, Indexes
    <3> QED
      BY <2>1, <2>4, <3>1, KeepsWorkedOn DEF PatchChunks
  <2>5. CASE PatchClear(w)
    <3> DEFINE after == IF handler[w].edit THEN [handler[w] EXCEPT !.stage = "edit"] ELSE Idle
               h == [handler EXCEPT ![w] = after]
    <3>1. after \in KnownHandler
      BY <1>1, <2>2, <2>1, IdleHandler DEF KnownHandler, Handler, Nameless, Src
    <3>2. h \in [Worker -> KnownHandler] /\ \A v \in Worker \ {w} : h[v] = handler[v]
      BY <3>1 DEF TypeInv
    <3>3. handler' = Overtaken(h)
      BY <2>5 DEF PatchClear, Cleared, TypeInv
    <3>4. \A v \in Worker : handler'[v].op = h[v].op /\ handler'[v].source = h[v].source
                            /\ handler'[v].stage = h[v].stage
      BY <3>2, <3>3, OvertakenFrame
    <3>5. \A v \in Worker \ {w} : Src(v)' = Src(v) /\ (Pending(v) => Pending(v)')
      BY <3>2, <3>4 DEF Src, Pending, Indexes
    <3> QED
      BY <2>1, <2>5, <3>5, KeepsWorkedOn DEF PatchClear
  <2>6. CASE PatchEdit(w)
    <3>1. \A v \in Worker \ {w} : Src(v)' = Src(v) /\ (Pending(v) => Pending(v)')
      BY <2>6, FinishFrame DEF PatchEdit, Src, Pending, Indexes
    <3>2. \A s \in Source \ {Src(w)} : row'[s].status = row[s].status
      BY <2>6, WriteStatusType DEF PatchEdit, Status, Working
    <3> QED
      BY <2>1, <2>6, <3>1, <3>2, KeepsWorkedOn DEF PatchEdit
  <2> QED
    BY <1>3, <2>3, <2>4, <2>5, <2>6
<1> QED
  BY <1>2, <1>3 DEF PatchRequest

LEMMA ReindexDeleteWorkedOn ==
  ASSUME TypeInv, WorkedOn, NEW w \in Worker,
         \/ ReindexRequest(w) \/ ReindexMark(w) \/ ReindexLoad(w) \/ ReindexDelete(w)
         \/ ReindexClear(w) \/ DeleteRequest(w) \/ DeleteRow(w) \/ DeleteOriginal(w)
  PROVE  WorkedOn'
<1> USE DEF Histories
<1>1. {"mark", "load", "delete", "failed", "chunk", "row", "original"} \subseteq Stage
  BY DEF Stage
<1>2. ASSUME NEW s \in Source, ReindexBegin(w, s) \/ DeleteBegin(w, s) PROVE WorkedOn'
  <2>1. ~Pending(w)
    BY <1>2, IdleHandler DEF ReindexBegin, DeleteBegin, Pending, Indexes
  <2>2. \A v \in Worker \ {w} : Src(v)' = Src(v) /\ (Pending(v) => Pending(v)')
    <3>1. CASE DeleteBegin(w, s)
      BY <3>1 DEF DeleteBegin, Src, Pending, Indexes, TypeInv, TypeOK
    <3>2. CASE ReindexBegin(w, s)
      <4>1. [Begin("reindex", "mark", s) EXCEPT !.folder = row[s].folder, !.file = row[s].file]
              \in KnownHandler
        BY <1>1, BeginType DEF TypeInv, TypeOK, Op, Changes
      <4> QED
        BY <3>2, <4>1, OutdatedFrame DEF ReindexBegin, SameWork, Src, Pending, Indexes
    <3> QED BY <1>2, <3>1, <3>2
  <2> QED
    BY <1>2, <2>1, <2>2, KeepsWorkedOn DEF ReindexBegin, DeleteBegin
<1>3. CASE ReindexClear(w)
  <2>1. ~Pending(w)
    BY <1>3 DEF ReindexClear, At, Pending
  <2>2. \A v \in Worker \ {w} : Src(v)' = Src(v) /\ (Pending(v) => Pending(v)')
    BY <1>3, ClearedFrame DEF ReindexClear, Src, Pending, Indexes
  <2> QED
    BY <1>3, <2>1, <2>2, KeepsWorkedOn DEF ReindexClear
<1>4. ASSUME ReindexMark(w) \/ ReindexLoad(w) \/ ReindexDelete(w) \/ DeleteRow(w)
             \/ DeleteOriginal(w)
      PROVE  WorkedOn'
  <2>1. ~Nameless(handler[w]) /\ Src(w) \in Source
    BY <1>4, SourceKnown
       DEF ReindexMark, ReindexLoad, ReindexDelete, DeleteRow, DeleteOriginal, At, Nameless
  <2>2. \A v \in Worker \ {w} : Src(v)' = Src(v) /\ (Pending(v) => Pending(v)')
    BY <1>1, <1>4, <2>1, GotoFrame, FinishFrame
       DEF ReindexMark, ReindexLoad, ReindexDelete, DeleteRow, DeleteOriginal,
           Src, Pending, Indexes
  <2>3. CASE ReindexMark(w)
    <3>1. Src(w)' = Src(w) /\ Pending(w)'
      BY <1>1, <2>1, <2>3, GotoFrame DEF ReindexMark, At, Src, Pending, Indexes
    <3>2. \A s \in Source \ {Src(w)} : row'[s].status = row[s].status
      BY <2>3, WriteStatusType DEF ReindexMark, Status, Working
    <3> QED
      BY <2>2, <2>3, <3>1, <3>2, KeepsWorkedOn DEF ReindexMark
  <2>4. CASE ReindexLoad(w) \/ ReindexDelete(w)
    <3>1. Src(w)' = Src(w) /\ Pending(w)'
      BY <1>1, <2>1, <2>4, GotoFrame DEF ReindexLoad, ReindexDelete, At, Src, Pending, Indexes
    <3> QED
      BY <2>2, <2>4, <3>1, KeepsWorkedOn DEF ReindexLoad, ReindexDelete
  <2>5. CASE DeleteRow(w)
    <3>1. ~Pending(w)
      BY <2>5 DEF DeleteRow, At, Pending, Indexes
    <3>2. \A s \in Source : row'[s].status = row[s].status \/ row'[s].status = "deleted"
      BY <2>5 DEF DeleteRow, NoRow, TypeInv, TypeOK
    <3> QED
      BY <2>2, <2>5, <3>1, <3>2, KeepsWorkedOn DEF DeleteRow, Working
  <2>6. CASE DeleteOriginal(w)
    <3>1. ~Pending(w)
      BY <2>6 DEF DeleteOriginal, At, Pending, Indexes
    <3> QED
      BY <2>2, <2>6, <3>1, KeepsWorkedOn DEF DeleteOriginal
  <2> QED
    BY <1>4, <2>3, <2>4, <2>5, <2>6
<1> QED
  BY <1>2, <1>3, <1>4 DEF ReindexRequest, DeleteRequest

LEMMA FolderSearchWorkedOn ==
  ASSUME TypeInv, WorkedOn,
         \/ \E w \in Worker : \/ FolderRequest(w) \/ FolderSwitchClear(w)
                              \/ SearchRequest(w) \/ SearchStore(w)
         \/ FolderStep
         \/ CacheExpires
  PROVE  WorkedOn'
<1> USE DEF Histories
<1>1. ASSUME NEW w \in Worker,
             \/ \E f \in Folder, to \in {"active", "inactive"} : FolderSwitch(w, f, to)
             \/ \E found \in SUBSET Source : Search(w, found)
             \/ FolderSwitchClear(w) \/ SearchStore(w)
      PROVE  WorkedOn'
  <2>1. ~Pending(w)
    BY <1>1, IdleHandler DEF FolderSwitch, Search, FolderSwitchClear, SearchStore, At, Pending,
                             Indexes
  <2>2. \A v \in Worker \ {w} : Src(v)' = Src(v) /\ (Pending(v) => Pending(v)')
    BY <1>1, ClearedFrame, FinishFrame
       DEF FolderSwitch, Search, FolderSwitchClear, SearchStore, Src, Pending, Indexes,
           TypeInv, TypeOK
  <2>3. row' = row /\ abandoned' = abandoned
    BY <1>1 DEF FolderSwitch, Search, FolderSwitchClear, SearchStore
  <2> QED
    BY <2>1, <2>2, <2>3, KeepsWorkedOn
<1>2. CASE FolderStep \/ CacheExpires
  <2>1. handler' = handler /\ abandoned' = abandoned
    BY <1>2 DEF FolderStep, FolderCreate, FolderDelete, CacheExpires
  <2>2. \A s \in Source : row'[s].status = row[s].status
    BY <1>2 DEF FolderStep, FolderCreate, FolderDelete, CacheExpires, TypeInv, TypeOK
  <2>3. \A v \in Worker : Src(v)' = Src(v) /\ (Pending(v) => Pending(v)')
    BY <2>1 DEF Src, Pending, Indexes
  <2> QED
    BY <2>1, <2>2, <2>3, KeepsWorkedOn
<1> QED
  BY <1>1, <1>2 DEF FolderRequest, SearchRequest

LEMMA FailureWorkedOn ==
  ASSUME TypeInv, WorkedOn, NEW w \in Worker, RequestFails(w) \/ Restart(w)
  PROVE  WorkedOn'
<1> USE DEF Histories
<1>1. row' = row
  BY DEF RequestFails, Restart
<1>2. CASE LeavesOff(w)
  <2>1. \A v \in Worker \ {w} : Src(v)' = Src(v) /\ (Pending(v) => Pending(v)')
    BY <1>2, LeavesOffFrame DEF Src, Pending, Indexes
  <2>2. /\ Pending(w) => Src(w) \in abandoned'
        /\ abandoned \subseteq abandoned'
    BY <1>2 DEF LeavesOff
  <2> QED
    BY <1>1, <2>1, <2>2, KeepsWorkedOn
<1>3. CASE ~LeavesOff(w)
  <2>1. /\ Indexes(w) /\ AfterFailure(w) # "raised"
        /\ NotCleared(w, [handler EXCEPT ![w].stage = AfterFailure(w)])
        /\ abandoned' = abandoned
    BY <1>3 DEF RequestFails, Restart
  <2>2. \A v \in Worker : Src(v)' = Src(v) /\ (Pending(v) => Pending(v)')
    BY <2>1, FailedFrame DEF Src, Pending, Indexes
  <2> QED
    BY <1>1, <2>1, <2>2, KeepsWorkedOn
<1> QED
  BY <1>2, <1>3

\* Every status that reads "still working" has a handler that will write
\* another one, unless that handler was lost or raised past its except
\* clauses, however the requests on a source interleave.
THEOREM StatusWorkedOn == Spec => []WorkedOn
<1>1. Init => WorkedOn
  BY DEF Init, WorkedOn, NoRow, Working
<1>2. TypeInv /\ WorkedOn /\ UNCHANGED vars => WorkedOn'
  BY DEF WorkedOn, vars, Src, Pending, Indexes
<1>3. TypeInv /\ WorkedOn /\ [Next]_vars => WorkedOn'
  BY <1>2, IndexWorkedOn, UploadWorkedOn, PatchWorkedOn, ReindexDeleteWorkedOn,
     FolderSearchWorkedOn, FailureWorkedOn
     DEF Next, Step, SourceRequest
<1> QED
  BY <1>1, <1>3, InitType, StepType, PTL DEF Spec

-----------------------------------------------------------------------------
(* What the requests on a source make of its chunks, its original and its   *)
(* row.  The argument is about one source: as long as it is not disturbed   *)
(* at most one handler works on it, and Progress says how far it is.        *)

\* Two handlers of one source disturb it.
Alone ==
    \A v, w \in Worker : v # w /\ Src(v) = Src(w) /\ Src(v) # None => Src(v) \in disturbed

\* A handler's source was inserted, with the file that the handler knows.
Known ==
    /\ \A w \in Worker :
         /\ handler[w].op = "upload" => handler[w].file # None
         /\ At(w, "upload", "row") => Src(w) = None
         /\ Src(w) # None =>
              /\ row[Src(w)].status # "new"
              /\ Live(Src(w)) /\ handler[w].op # "patch" => handler[w].file = row[Src(w)].file
    /\ \A s \in Source : row[s].status = "new" => batches[s] = NoBatch /\ s \notin stored
    /\ \A s \in stored : Live(s) => row[s].file # None

Whole(s) ==
    /\ batches[s] = TextOf(s)
    /\ row[s].file # None => s \in stored

Rested(s) ==
    /\ row[s].status = "indexed" => Whole(s)
    /\ s \in stored => Live(s)

Progress(w) ==
    LET s == Src(w)
        stage == handler[w].stage
        indexed == row[s].status = "indexed"
    IN IF stage = "original" THEN handler[w].op = "delete" /\ ~Live(s)
       ELSE /\ Live(s)
            /\ Indexes(w) \/ stage = "chunks" => row[s].folder = handler[w].folder
            /\ stage = "chunks" /\ indexed =>
                 /\ IF s \in Blank THEN batches[s] = NoBatch
                    ELSE batches[s].number = 1 /\ batches[s].places # {}
                 /\ row[s].file # None => s \in stored
            /\ Indexes(w) =>
                 /\ stage \in {"store", "accept", "extract", "chunk", "embed", "insert"} =>
                      batches[s] = NoBatch
                 /\ stage = "done" => batches[s] = TextOf(s)
                 /\ stage \in {"accept", "extract", "delete", "chunk", "embed", "insert", "done"}
                      => (row[s].file # None => s \in stored)
                 /\ stage \notin {"mark", "clear", "failed"} => ~indexed
            /\ (Indexes(w) => stage \in {"clear", "failed"}) /\ stage # "chunks" /\ indexed
                 => Whole(s)

Good ==
    \A s \in Source \ disturbed :
        /\ \A w \in Worker : Src(w) = s => Progress(w)
        /\ ~Busy(s) => Rested(s)

SourcesInv == TypeInv /\ Alone /\ Known /\ Good

-----------------------------------------------------------------------------
(* What a step leaves alone                                                *)

Stays(v) ==
    /\ handler'[v].op = handler[v].op /\ handler'[v].source = handler[v].source
    /\ handler'[v].folder = handler[v].folder /\ handler'[v].file = handler[v].file

Others(w) ==
    \A v \in Worker \ {w} : Stays(v) /\ handler'[v].stage = handler[v].stage

\* A handler w goes on with its source, or ends.
Moves(w) ==
    /\ Others(w) /\ handler'[w].stage # "row"
    /\ Stays(w) \/ (handler'[w].op = "idle" /\ handler'[w].source = None)

\* Only the row of s is touched, which nobody inserts, and its file stays.
Touches(s) ==
    /\ \A t \in Source \ {s} : /\ row'[t] = row[t] /\ batches'[t] = batches[t]
                               /\ t \in stored' <=> t \in stored
    /\ s \in Source =>
         /\ row[s].status # "new" => row'[s].status # "new"
         /\ Live(s)' => Live(s) /\ row'[s].file = row[s].file

\* No file gets another row, and none another upload that will insert one.
NoMore ==
    \A d \in File : Copies(d)' \subseteq Copies(d) /\ Uploading(d)' \subseteq Uploading(d)

LEMMA GotoStays ==
  ASSUME TypeInv, NEW w \in Worker, NEW st, Goto(w, st)
  PROVE  Others(w) /\ Stays(w) /\ handler'[w].stage = st
<1>1. handler[w] \in Handler
  BY DEF TypeInv, TypeOK
<1>2. handler'[w] = [handler[w] EXCEPT !.stage = st] /\ \A v \in Worker \ {w} : handler'[v] = handler[v]
  BY DEF TypeInv, TypeOK, Goto
<1> QED BY <1>1, <1>2 DEF Others, Stays, Handler

LEMMA FinishOthers ==
  ASSUME TypeInv, NEW w \in Worker, Finish(w)
  PROVE  Others(w) /\ handler'[w] = Idle
BY FinishFrame DEF Others, Stays

LEMMA IdleIs == Idle.op = "idle" /\ Idle.source = None /\ Idle.stage = "idle"
BY DEF Idle

\* With or without a clear of the cache.
LEMMA ClearedOthers ==
  ASSUME TypeInv, NEW w \in Worker, NEW h \in KnownHandler,
         \/ handler' = Overtaken([handler EXCEPT ![w] = h])
         \/ handler' = [handler EXCEPT ![w] = h]
  PROVE  /\ Others(w)
         /\ handler'[w].op = h.op /\ handler'[w].source = h.source
         /\ handler'[w].stage = h.stage /\ handler'[w].folder = h.folder
         /\ handler'[w].file = h.file
<1> DEFINE g == [handler EXCEPT ![w] = h]
<1>1. /\ g[w] = h /\ \A v \in Worker \ {w} : g[v] = handler[v]
      /\ \A v \in Worker : g[v] \in Handler
  BY DEF TypeInv, KnownHandler
<1> HIDE DEF g
<1>2. \A v \in Worker :
        /\ handler'[v].op = g[v].op /\ handler'[v].source = g[v].source
        /\ handler'[v].stage = g[v].stage /\ handler'[v].folder = g[v].folder
        /\ handler'[v].file = g[v].file
  <2>1. CASE handler' = g
    BY <2>1
  <2>2. CASE handler' = Overtaken(g)
    <3> SUFFICES ASSUME NEW v \in Worker
                 PROVE  /\ handler'[v].op = g[v].op /\ handler'[v].source = g[v].source
                        /\ handler'[v].stage = g[v].stage /\ handler'[v].folder = g[v].folder
                        /\ handler'[v].file = g[v].file
      OBVIOUS
    <3>1. handler'[v] = [g[v] EXCEPT !.overtaken = (g[v].op = "search")]
      BY <2>2 DEF Overtaken
    <3> QED BY <3>1, <1>1 DEF Handler
  <2> QED BY <2>1, <2>2 DEF g
<1> QED BY <1>1, <1>2 DEF Others, Stays

LEMMA WriteStatusTouches ==
  ASSUME TypeInv, NEW s \in Source, NEW new \in Status \ {"new", "deleted"}, WriteStatus(s, new)
  PROVE  /\ \A t \in Source \ {s} : row'[t] = row[t]
         /\ row'[s].status = IF Live(s) THEN new ELSE row[s].status
         /\ row'[s].file = row[s].file /\ row'[s].folder = row[s].folder
         /\ Live(s)' <=> Live(s)
<1>1. row[s] \in [status : Status, file : File \cup {None}, folder : Place, referenced : BOOLEAN]
  BY DEF TypeInv, TypeOK
<1>2. /\ row'[s] = [row[s] EXCEPT !.status = IF Live(s) THEN new ELSE row[s].status]
      /\ \A t \in Source \ {s} : row'[t] = row[t]
  BY DEF TypeInv, TypeOK, WriteStatus
<1>3. /\ row'[s].status = IF Live(s) THEN new ELSE row[s].status
      /\ row'[s].file = row[s].file /\ row'[s].folder = row[s].folder
  BY <1>1, <1>2
<1> QED BY <1>2, <1>3 DEF Live

-----------------------------------------------------------------------------
(* The invariant under the steps of a handler at work                      *)

LEMMA AloneMoves ==
  ASSUME TypeInv, Alone, NEW w \in Worker, Moves(w), disturbed \subseteq disturbed'
  PROVE  Alone'
<1>1. \A v \in Worker : Src(v)' # None => Src(v)' = Src(v)
  BY DEF Moves, Others, Stays, Src
<1> QED BY <1>1 DEF Alone

LEMMA KnownMoves ==
  ASSUME TypeInv, Known, NEW w \in Worker, NEW s, s = Src(w), Moves(w), Touches(s),
         stored' \subseteq stored \cup {s},
         s \in stored' \ stored => handler[w].op = "upload" /\ s \in Source
  PROVE  Known'
<1>1. \A v \in Worker : Src(v) # None => Src(v) \in Source
  BY DEF TypeInv, TypeOK, Handler, Src
<1>2. ASSUME NEW t \in Source
      PROVE  /\ row[t].status # "new" => row'[t].status # "new"
             /\ Live(t)' => Live(t) /\ row'[t].file = row[t].file
  <2>1. CASE t = s
    BY <2>1 DEF Touches
  <2>2. CASE t # s
    BY <2>2 DEF Touches, Live
  <2> QED BY <2>1, <2>2
<1>3. ASSUME NEW v \in Worker
      PROVE  /\ handler'[v].op = "upload" => handler'[v].file # None
             /\ At(v, "upload", "row")' => Src(v)' = None
             /\ Src(v)' # None =>
                  /\ row'[Src(v)'].status # "new"
                  /\ Live(Src(v))' /\ handler'[v].op # "patch" =>
                       handler'[v].file = row'[Src(v)'].file
  <2>1. CASE Stays(v)
    BY <2>1, <1>1, <1>2 DEF Known, Stays, Src, Live, At, Moves, Others
  <2>2. CASE ~Stays(v)
    BY <2>2 DEF Moves, Others, Src, At
  <2> QED BY <2>1, <2>2
<1>4. ASSUME NEW t \in Source, row'[t].status = "new"
      PROVE  batches'[t] = NoBatch /\ t \notin stored'
  <2>1. row[t].status = "new" /\ t # s
    BY <1>2, <1>4, NoneAssumption DEF Known
  <2> QED BY <2>1 DEF Known, Touches
<1>5. ASSUME NEW t \in stored', Live(t)' PROVE row'[t].file # None
  <2>1. t \in Source /\ Live(t) /\ row'[t].file = row[t].file
    BY <1>2, <1>5 DEF TypeInv, TypeOK
  <2>2. CASE t \in stored
    BY <2>1, <2>2 DEF Known
  <2>3. CASE t \notin stored
    BY <2>1, <2>3, NoneAssumption DEF Known
  <2> QED BY <2>2, <2>3
<1> QED BY <1>3, <1>4, <1>5 DEF Known

LEMMA GoodMoves ==
  ASSUME TypeInv, Alone, Good, NEW w \in Worker, NEW s, s = Src(w), Moves(w), Touches(s),
         disturbed \subseteq disturbed',
         s \in Source \ disturbed' => IF Stays(w) THEN Progress(w)' ELSE Rested(s)'
  PROVE  Good'
<1> SUFFICES ASSUME NEW t \in Source, t \notin disturbed'
             PROVE  /\ \A v \in Worker : Src(v)' = t => Progress(v)'
                    /\ ~Busy(t)' => Rested(t)'
  BY DEF Good
<1>1. t \notin disturbed /\ t # None
  BY NoneAssumption
<1>2. CASE t = s
  <2>1. ASSUME NEW v \in Worker, Src(v)' = t PROVE v = w /\ Stays(w)
    <3>1. Src(v) = t
      BY <2>1, <1>1 DEF Moves, Others, Stays, Src
    <3>2. v = w
      BY <3>1, <1>1, <1>2 DEF Alone
    <3> QED BY <2>1, <3>2, <1>1 DEF Moves, Src
  <2>2. ~Busy(t)' => ~Stays(w)
    BY <1>2 DEF Busy, Stays, Src
  <2> QED BY <1>2, <2>1, <2>2
<1>3. CASE t # s
  <2>1. /\ row'[t] = row[t] /\ batches'[t] = batches[t] /\ (t \in stored' <=> t \in stored)
    BY <1>3 DEF Touches
  <2>2. \A v \in Worker : Src(v)' = t => v # w /\ Src(v) = t
    BY <1>1, <1>3 DEF Moves, Others, Stays, Src
  <2>3. ASSUME NEW v \in Worker, Src(v)' = t PROVE Progress(v)'
    <3>1. Stays(v) /\ handler'[v].stage = handler[v].stage /\ Src(v) = t /\ Progress(v)
      BY <2>2, <2>3, <1>1 DEF Moves, Others, Good
    <3> QED BY <2>1, <2>3, <3>1 DEF Progress, Stays, Src, Live, Whole, TextOf, Indexes
  <2>4. Busy(t) => Busy(t)'
    BY <1>3 DEF Busy, Moves, Others, Stays, Src
  <2>5. ~Busy(t) => Rested(t)'
    BY <2>1, <1>1 DEF Good, Rested, Whole, TextOf, Live
  <2> QED BY <2>3, <2>4, <2>5
<1> QED BY <1>2, <1>3

LEMMA NoMoreMoves ==
  ASSUME TypeInv, NEW w \in Worker, NEW s, Moves(w), Touches(s)
  PROVE  NoMore
<1> SUFFICES ASSUME NEW d \in File
             PROVE  Copies(d)' \subseteq Copies(d) /\ Uploading(d)' \subseteq Uploading(d)
  BY DEF NoMore
<1>1. ASSUME NEW t \in Source, Live(t)', row'[t].file = d PROVE Live(t) /\ row[t].file = d
  <2>1. CASE t = s
    BY <1>1, <2>1 DEF Touches
  <2>2. CASE t # s
    BY <1>1, <2>2 DEF Touches, Live
  <2> QED BY <2>1, <2>2
<1>2. ASSUME NEW v \in Worker, At(v, "upload", "row")', handler'[v].file = d
      PROVE  At(v, "upload", "row") /\ handler[v].file = d
  BY <1>2 DEF At, Moves, Others, Stays
<1> QED BY <1>1, <1>2 DEF Copies, Uploading

LEMMA KeptByMoves ==
  ASSUME SourcesInv, TypeInv', NEW w \in Worker, NEW s, s = Src(w), Moves(w), Touches(s),
         disturbed \subseteq disturbed', stored' \subseteq stored \cup {s},
         s \in stored' \ stored => handler[w].op = "upload" /\ s \in Source,
         s \in Source \ disturbed' => IF Stays(w) THEN Progress(w)' ELSE Rested(s)'
  PROVE  SourcesInv' /\ NoMore
BY AloneMoves, KnownMoves, GoodMoves, NoMoreMoves DEF SourcesInv

\* The step of a handler of s that goes to stage st and leaves the originals.
LEMMA GoesOn ==
  ASSUME SourcesInv, TypeInv', NEW w \in Worker, NEW s \in Source, s = Src(w),
         NEW st \in Stage \ {"row"}, Goto(w, st), Touches(s), stored' = stored,
         disturbed \subseteq disturbed',
         s \notin disturbed' /\ Progress(w) => Progress(w)'
  PROVE  SourcesInv' /\ NoMore
<1>1. Moves(w) /\ Stays(w)
  BY GotoStays DEF Moves, SourcesInv
<1>2. s \notin disturbed' => Progress(w)'
  BY DEF SourcesInv, Good
<1> QED BY <1>1, <1>2, KeptByMoves

\* The last step of a handler of s.
LEMMA IsOver ==
  ASSUME SourcesInv, TypeInv', NEW w \in Worker, NEW s \in Source, s = Src(w),
         Others(w), handler'[w].op = "idle", handler'[w].source = None,
         handler'[w].stage = "idle", Touches(s), stored' \subseteq stored,
         disturbed \subseteq disturbed',
         s \notin disturbed' /\ Progress(w) => Rested(s)'
  PROVE  SourcesInv' /\ NoMore
<1>1. Moves(w) /\ ~Stays(w)
  BY NoneAssumption DEF Moves, Stays, Src
<1>2. s \notin disturbed' => Rested(s)'
  BY DEF SourcesInv, Good
<1> QED BY <1>1, <1>2, KeptByMoves

LEMMA IndexKeeps ==
  ASSUME SourcesInv, TypeInv', NEW w \in Worker,
         \/ IndexChunk(w) \/ IndexEmbed(w) \/ IndexInsert(w) \/ IndexDone(w)
         \/ IndexFailed(w) \/ MarkFailed(w)
  PROVE  SourcesInv' /\ NoMore
<1> USE DEF Histories
<1>1. PICK s : s = Src(w)
  OBVIOUS
<1>2. s \in Source /\ TypeInv
  BY <1>1, SourceKnown
     DEF SourcesInv, Nameless, Indexes, IndexChunk, IndexEmbed, IndexInsert, IndexDone, IndexFailed,
         MarkFailed
<1>3. {"chunking", "embedding", "indexed", "failed"} \subseteq Status \ {"new", "deleted"}
  BY DEF Status, Working
<1>4. {"embed", "insert", "done", "unindexed", "failed", "clear"} \subseteq Stage \ {"row"}
  BY DEF Stage
<1>5. stored' = stored /\ disturbed' = disturbed
  BY DEF IndexChunk, IndexEmbed, IndexInsert, IndexDone, IndexFailed, MarkFailed
<1>6. ASSUME NEW new \in {"chunking", "embedding", "indexed", "failed"}, WriteStatus(s, new),
             batches' = batches
      PROVE  Touches(s)
  BY <1>2, <1>3, <1>5, <1>6, WriteStatusTouches DEF Touches, Live
<1>7. CASE IndexChunk(w)
  <2>1. Goto(w, "embed") /\ WriteStatus(s, "chunking") /\ batches' = batches
    BY <1>1, <1>7 DEF IndexChunk
  <2>2. Progress(w) => Progress(w)'
    BY <1>1, <1>2, <1>3, <1>5, <1>7, <2>1, WriteStatusTouches, GotoStays
       DEF Progress, IndexChunk, Indexes, Stays, Src, Live
  <2> QED BY <1>1, <1>2, <1>4, <1>5, <1>6, <2>1, <2>2, GoesOn
<1>8. CASE IndexEmbed(w)
  <2>1. Goto(w, "insert") /\ WriteStatus(s, "embedding") /\ batches' = batches
    BY <1>1, <1>8 DEF IndexEmbed
  <2>2. Progress(w) => Progress(w)'
    BY <1>1, <1>2, <1>3, <1>5, <1>8, <2>1, WriteStatusTouches, GotoStays
       DEF Progress, IndexEmbed, Indexes, Stays, Src, Live
  <2> QED BY <1>1, <1>2, <1>4, <1>5, <1>6, <2>1, <2>2, GoesOn
<1>9. CASE IndexInsert(w)
  <2>1. row' = row /\ \A t \in Source \ {s} : batches'[t] = batches[t]
    BY <1>1, <1>2, <1>9 DEF IndexInsert, TypeInv, TypeOK
  <2>2. Touches(s)
    BY <1>2, <1>5, <2>1 DEF Touches, Live
  <2>3. CASE Live(s) /\ s \notin Blank
    <3>1. Goto(w, "done") /\ Indexes(w) /\ handler[w].stage = "insert"
      BY <1>1, <1>9, <2>3 DEF IndexInsert
    <3>2. batches'[s] = [number |-> batches[s].number + 1,
                         places |-> batches[s].places \cup {handler[w].folder}]
      BY <1>1, <1>2, <1>9, <2>3 DEF IndexInsert, TypeInv, TypeOK
    <3>3. batches[s] = NoBatch => batches'[s] = [number |-> 1, places |-> {handler[w].folder}]
      BY <3>2 DEF NoBatch
    <3>4. Progress(w) => Progress(w)'
      BY <1>1, <1>2, <1>5, <2>1, <2>3, <3>1, <3>3, GotoStays DEF Progress, Indexes, Stays, Src, Live,
                                                                  TextOf
    <3> QED BY <1>1, <1>2, <1>4, <1>5, <2>2, <3>1, <3>4, GoesOn
  <2>4. CASE ~Live(s) /\ s \notin Blank
    <3>1. Goto(w, "unindexed") /\ handler[w].stage = "insert"
      BY <1>1, <1>9, <2>4 DEF IndexInsert
    <3>2. ~Progress(w)
      BY <1>1, <2>4, <3>1 DEF Progress
    <3> QED BY <1>1, <1>2, <1>4, <1>5, <2>2, <3>1, <3>2, GoesOn
  <2>5. CASE s \in Blank
    <3>1. /\ Goto(w, "done") /\ Indexes(w) /\ handler[w].stage = "insert"
          /\ batches' = batches
      BY <1>1, <1>9, <2>5 DEF IndexInsert
    <3>2. Progress(w) => Progress(w)'
      BY <1>1, <1>2, <1>5, <2>1, <2>5, <3>1, GotoStays DEF Progress, Indexes, Stays, Src, Live,
                                                            TextOf
    <3> QED BY <1>1, <1>2, <1>4, <1>5, <2>2, <3>1, <3>2, GoesOn
  <2> QED BY <2>3, <2>4, <2>5
<1>10. CASE IndexDone(w)
  <2>1. WriteStatus(s, "indexed") /\ batches' = batches /\ Indexes(w) /\ handler[w].stage = "done"
    BY <1>1, <1>10 DEF IndexDone
  <2>2. Progress(w) => Live(s)' /\ row'[s].folder = handler[w].folder /\ Whole(s)'
    BY <1>1, <1>2, <1>3, <1>5, <2>1, WriteStatusTouches DEF Progress, Whole, TextOf
  <2>3. CASE Goto(w, "clear")
    <3>1. Progress(w) => Progress(w)'
      BY <1>1, <1>2, <2>1, <2>2, <2>3, GotoStays DEF Progress, Indexes, Stays, Src, Whole, TextOf
    <3> QED BY <1>1, <1>2, <1>4, <1>5, <1>6, <2>1, <2>3, <3>1, GoesOn
  <2>4. CASE Finish(w)
    <3>1. Progress(w) => Rested(s)'
      BY <2>2 DEF Rested
    <3> QED BY <1>1, <1>2, <1>5, <1>6, <2>1, <2>4, <3>1, IsOver, FinishOthers, IdleIs
  <2> QED BY <1>10, <2>3, <2>4 DEF IndexDone
<1>11. CASE IndexFailed(w) \/ MarkFailed(w)
  <2>1. /\ WriteStatus(s, "failed") /\ batches' = batches /\ Indexes(w)
        /\ handler[w].stage \in {"unindexed", "failed"}
    BY <1>1, <1>11 DEF IndexFailed, MarkFailed
  <2>2. Progress(w) => Live(s)' /\ row'[s].folder = handler[w].folder /\ row'[s].status = "failed"
    BY <1>1, <1>2, <1>3, <1>5, <2>1, WriteStatusTouches DEF Progress
  <2>3. CASE Goto(w, "failed")
    <3>1. Progress(w) => Progress(w)'
      BY <1>1, <1>2, <2>1, <2>2, <2>3, GotoStays DEF Progress, Indexes, Stays, Src
    <3> QED BY <1>1, <1>2, <1>4, <1>5, <1>6, <2>1, <2>3, <3>1, GoesOn
  <2>4. CASE Finish(w)
    <3>1. Progress(w) => Rested(s)'
      BY <2>2 DEF Rested
    <3> QED BY <1>1, <1>2, <1>5, <1>6, <2>1, <2>4, <3>1, IsOver, FinishOthers, IdleIs
  <2> QED BY <1>11, <2>3, <2>4 DEF IndexFailed, MarkFailed
<1> QED BY <1>7, <1>8, <1>9, <1>10, <1>11

LEMMA UploadKeeps ==
  ASSUME SourcesInv, TypeInv', NEW w \in Worker,
         UploadStore(w) \/ UploadAccept(w) \/ UploadExtract(w)
  PROVE  SourcesInv' /\ NoMore
<1> USE DEF Histories
<1>1. PICK s : s = Src(w)
  OBVIOUS
<1>2. /\ s \in Source /\ TypeInv /\ Indexes(w) /\ disturbed' = disturbed /\ batches' = batches
      /\ handler[w].op = "upload"
  BY <1>1, SourceKnown
     DEF SourcesInv, Nameless, Indexes, At, UploadStore, UploadAccept, UploadExtract
<1>3. {"processing", "extracting"} \subseteq Status \ {"new", "deleted"}
  BY DEF Status, Working
<1>4. {"accept", "extract", "chunk", "failed"} \subseteq Stage \ {"row"}
  BY DEF Stage
<1>5. CASE UploadStore(w)
  <2>1. /\ Goto(w, "accept") /\ row' = row /\ stored' = stored \cup {s}
        /\ handler[w].stage = "store"
    BY <1>1, <1>5 DEF UploadStore, At
  <2>2. Touches(s)
    BY <1>2, <2>1 DEF Touches, Live
  <2>3. Stays(w) /\ Moves(w) /\ handler'[w].stage = "accept"
    BY <1>2, <2>1, GotoStays DEF Moves
  <2>4. Progress(w) => Progress(w)'
    BY <1>1, <1>2, <2>1, <2>3 DEF Progress, Indexes, Stays, Src, Live
  <2>5. s \notin disturbed => Progress(w)'
    BY <1>1, <1>2, <2>4 DEF SourcesInv, Good
  <2> QED BY <1>1, <1>2, <2>1, <2>2, <2>3, <2>5, KeptByMoves
<1>6. CASE UploadAccept(w) \/ UploadExtract(w)
  <2>1. PICK new \in {"processing", "extracting"}, st \in {"extract", "chunk", "failed"} :
          /\ WriteStatus(s, new) /\ Goto(w, st) /\ stored' = stored
          /\ handler[w].stage \in {"accept", "extract"}
    BY <1>1, <1>6 DEF UploadAccept, UploadExtract, At
  <2>2. /\ Touches(s)
        /\ row'[s].status = IF Live(s) THEN new ELSE row[s].status
        /\ row'[s].file = row[s].file /\ row'[s].folder = row[s].folder
        /\ Live(s)' <=> Live(s)
    BY <1>2, <1>3, <2>1, WriteStatusTouches DEF Touches, Live
  <2>3. Stays(w) /\ handler'[w].stage = st
    BY <1>2, <2>1, GotoStays
  <2>4. Progress(w) => Progress(w)'
    BY <1>1, <1>2, <2>1, <2>2, <2>3 DEF Progress, Indexes, Stays, Src, Whole, TextOf
  <2> QED BY <1>1, <1>2, <1>4, <2>1, <2>2, <2>4, GoesOn
<1> QED BY <1>5, <1>6

LEMMA PatchKeeps ==
  ASSUME SourcesInv, TypeInv', NEW w \in Worker,
         PatchUpdate(w) \/ PatchChunks(w) \/ PatchClear(w) \/ PatchEdit(w)
  PROVE  SourcesInv' /\ NoMore
<1> USE DEF Histories
<1>1. PICK s : s = Src(w)
  OBVIOUS
<1>2. /\ s \in Source /\ TypeInv /\ ~Indexes(w) /\ stored' = stored
      /\ handler[w] \in Handler /\ handler[w] \in KnownHandler
  <2>1. handler[w].op = "patch" /\ stored' = stored
    BY DEF At, PatchUpdate, PatchChunks, PatchClear, PatchEdit
  <2>2. TypeInv /\ ~Nameless(handler[w]) /\ ~Indexes(w)
    BY <2>1 DEF SourcesInv, Nameless, Indexes
  <2>3. handler[w] \in Handler /\ handler[w] \in KnownHandler
    BY <2>2 DEF TypeInv, KnownHandler
  <2> QED BY <1>1, <2>1, <2>2, <2>3, SourceKnown
<1>3. {"chunks", "edit", "clear"} \subseteq Stage \ {"row"}
  BY DEF Stage
<1>4. CASE PatchUpdate(w)
  <2>1. batches' = batches /\ disturbed \subseteq disturbed' /\ handler[w].stage = "update"
    BY <1>4 DEF PatchUpdate, At
  <2>2. CASE ~Live(s)
    <3>1. Finish(w) /\ row' = row
      BY <1>1, <1>4, <2>2 DEF PatchUpdate
    <3>2. ~Progress(w)
      BY <1>1, <2>1, <2>2 DEF Progress
    <3>3. Touches(s)
      BY <1>2, <2>1, <3>1 DEF Touches, Live
    <3> QED BY <1>1, <1>2, <2>1, <3>1, <3>2, <3>3, IsOver, FinishOthers, IdleIs
  <2>3. CASE Live(s)
    <3> DEFINE change == handler[w].change
    <3>1. /\ row' = [row EXCEPT ![s] = Changed(row[s], change, handler[w].folder)]
          /\ change = "indexed" => s \in disturbed'
          /\ IF change = "folder" THEN Goto(w, "chunks")
             ELSE IF handler[w].edit THEN Goto(w, "edit") ELSE Finish(w)
      BY <1>1, <1>4, <2>3 DEF PatchUpdate
    <3>2. row[s] \in [status : Status, file : File \cup {None}, folder : Place, referenced : BOOLEAN]
      BY <1>2 DEF TypeInv, TypeOK
    <3>3. change \in Changes
      BY <1>2 DEF Handler
    <3>4. /\ \A t \in Source \ {s} : row'[t] = row[t]
          /\ row'[s].file = row[s].file
          /\ row'[s].status = IF change = "indexed" THEN "indexed" ELSE row[s].status
          /\ row'[s].folder = IF change = "folder" THEN handler[w].folder ELSE row[s].folder
      BY <1>2, <3>1, <3>2, <3>3 DEF Changed, Changes, TypeInv, TypeOK
    <3>5. Touches(s) /\ Live(s)'
      BY <1>2, <2>1, <2>3, <3>4 DEF Touches, Live
    <3>6. CASE change = "folder"
      <4>1. Goto(w, "chunks")
        BY <3>1, <3>6
      <4>2. Progress(w) => Progress(w)'
        BY <1>1, <1>2, <2>1, <3>4, <3>5, <3>6, <4>1, GotoStays
           DEF Progress, Indexes, Stays, Src, Whole, TextOf
      <4> QED BY <1>1, <1>2, <1>3, <2>1, <3>5, <4>1, <4>2, GoesOn
    <3>7. CASE change # "folder" /\ handler[w].edit
      <4>1. Goto(w, "edit")
        BY <3>1, <3>7
      <4>2. s \notin disturbed' => row'[s].status = row[s].status /\ row'[s].folder = row[s].folder
        BY <3>1, <3>4, <3>7
      <4>3. Stays(w) /\ handler'[w].stage = "edit"
        BY <1>2, <4>1, GotoStays
      <4>4. s \notin disturbed' /\ Progress(w) => Progress(w)'
        BY <1>1, <1>2, <2>1, <3>4, <3>5, <4>2, <4>3 DEF Progress, Indexes, Stays, Src, Whole, TextOf
      <4> QED BY <1>1, <1>2, <1>3, <2>1, <3>5, <4>1, <4>4, GoesOn
    <3>8. CASE change # "folder" /\ ~handler[w].edit
      <4>1. Finish(w)
        BY <3>1, <3>8
      <4>2. s \notin disturbed' /\ Progress(w) => Rested(s)'
        BY <1>1, <1>2, <2>1, <3>1, <3>4, <3>5, <3>8 DEF Progress, Rested, Whole, TextOf
      <4> QED BY <1>1, <1>2, <2>1, <3>5, <4>1, <4>2, IsOver, FinishOthers, IdleIs
    <3> QED BY <3>6, <3>7, <3>8
  <2> QED BY <2>2, <2>3
<1>5. CASE PatchChunks(w)
  <2>1. /\ Goto(w, "clear") /\ row' = row /\ disturbed' = disturbed
        /\ handler[w].stage = "chunks"
    BY <1>5 DEF PatchChunks, At
  <2>2. /\ \A t \in Source \ {s} : batches'[t] = batches[t]
        /\ batches[s].number = 1 /\ batches[s].places # {} =>
             batches'[s] = [number |-> 1, places |-> {handler[w].folder}]
    BY <1>1, <1>2, <1>5 DEF PatchChunks, TypeInv, TypeOK
  <2>5. ASSUME batches[s] = NoBatch PROVE batches'[s] = NoBatch
    <3>1. batches'[s] = [batches[s] EXCEPT !.places = {}]
      BY <1>1, <1>2, <1>5, <2>5 DEF PatchChunks, TypeInv, TypeOK, NoBatch
    <3> QED BY <2>5, <3>1 DEF NoBatch
  <2>3. Touches(s)
    BY <1>2, <2>1, <2>2 DEF Touches, Live
  <2>4. Progress(w) => Progress(w)'
    BY <1>1, <1>2, <2>1, <2>2, <2>5, GotoStays
       DEF Progress, Indexes, Stays, Src, Whole, TextOf, Live
  <2> QED BY <1>1, <1>2, <1>3, <2>1, <2>3, <2>4, GoesOn
<1>6. CASE PatchClear(w)
  <2> DEFINE h == IF handler[w].edit THEN [handler[w] EXCEPT !.stage = "edit"] ELSE Idle
  <2>1. /\ handler' = Overtaken([handler EXCEPT ![w] = h])
        /\ row' = row /\ batches' = batches /\ disturbed' = disturbed
        /\ handler[w].stage = "clear"
    BY <1>2, <1>6 DEF PatchClear, Cleared, At, TypeInv
  <2>2. h \in KnownHandler
    BY <1>1, <1>2, <1>3, IdleHandler DEF KnownHandler, Handler, Nameless, Src
  <2>3. /\ handler[w].edit => /\ h.op = handler[w].op /\ h.source = handler[w].source
                              /\ h.folder = handler[w].folder /\ h.file = handler[w].file
                              /\ h.stage = "edit"
        /\ ~handler[w].edit => h.op = "idle" /\ h.source = None /\ h.stage = "idle"
    BY <1>2, IdleIs DEF Handler
  <2> HIDE DEF h
  <2>4. /\ Others(w)
        /\ handler'[w].op = h.op /\ handler'[w].source = h.source
        /\ handler'[w].stage = h.stage /\ handler'[w].folder = h.folder
        /\ handler'[w].file = h.file
    BY <1>2, <2>1, <2>2, ClearedOthers
  <2>5. Touches(s)
    BY <1>2, <2>1 DEF Touches, Live
  <2>6. CASE handler[w].edit
    <3>1. Stays(w) /\ Moves(w) /\ handler'[w].stage = "edit"
      BY <2>3, <2>4, <2>6 DEF Stays, Moves
    <3>2. Progress(w) => Progress(w)'
      BY <1>1, <1>2, <2>1, <3>1 DEF Progress, Indexes, Stays, Src, Whole, TextOf, Live
    <3>3. s \notin disturbed => Progress(w)'
      BY <1>1, <1>2, <3>2 DEF SourcesInv, Good
    <3> QED BY <1>1, <1>2, <2>1, <2>5, <3>1, <3>3, KeptByMoves
  <2>7. CASE ~handler[w].edit
    <3>1. Progress(w) => Rested(s)'
      BY <1>1, <1>2, <2>1 DEF Progress, Rested, Whole, TextOf, Live
    <3> QED BY <1>1, <1>2, <2>1, <2>3, <2>4, <2>5, <2>7, <3>1, IsOver
  <2> QED BY <2>6, <2>7
<1>7. CASE PatchEdit(w)
  <2>1. /\ Finish(w) /\ WriteStatus(s, "indexing") /\ batches' = batches
        /\ disturbed' = disturbed /\ handler[w].stage = "edit"
    BY <1>1, <1>7 DEF PatchEdit, At
  <2>2. /\ Touches(s)
        /\ row'[s].status = IF Live(s) THEN "indexing" ELSE row[s].status
        /\ Live(s)' <=> Live(s)
    BY <1>2, <2>1, WriteStatusTouches DEF Touches, Live, Status, Working
  <2>3. Progress(w) => Rested(s)'
    BY <1>1, <2>1, <2>2 DEF Progress, Rested
  <2> QED BY <1>1, <1>2, <2>1, <2>2, <2>3, IsOver, FinishOthers, IdleIs
<1> QED BY <1>4, <1>5, <1>6, <1>7

LEMMA ReindexKeeps ==
  ASSUME SourcesInv, TypeInv', NEW w \in Worker,
         ReindexMark(w) \/ ReindexLoad(w) \/ ReindexDelete(w) \/ ReindexClear(w)
  PROVE  SourcesInv' /\ NoMore
<1> USE DEF Histories
<1>1. PICK s : s = Src(w)
  OBVIOUS
<1>2. /\ s \in Source /\ TypeInv /\ Indexes(w) /\ stored' = stored /\ disturbed' = disturbed
      /\ handler[w].op = "reindex" /\ handler[w].stage \in {"mark", "load", "delete", "clear"}
  BY <1>1, SourceKnown
     DEF SourcesInv, TypeInv, Nameless, Indexes, At, ReindexMark, ReindexLoad, ReindexDelete,
         ReindexClear
<1>3. {"load", "delete", "failed", "chunk"} \subseteq Stage \ {"row"}
  BY DEF Stage
<1>4. CASE ReindexMark(w)
  <2>1. Goto(w, "load") /\ WriteStatus(s, "indexing") /\ batches' = batches
    BY <1>1, <1>4 DEF ReindexMark
  <2>2. /\ Touches(s)
        /\ row'[s].status = IF Live(s) THEN "indexing" ELSE row[s].status
        /\ row'[s].file = row[s].file /\ row'[s].folder = row[s].folder
        /\ Live(s)' <=> Live(s)
    BY <1>2, <2>1, WriteStatusTouches DEF Touches, Live, Status, Working
  <2>3. Progress(w) => Progress(w)'
    BY <1>1, <1>2, <2>1, <2>2, GotoStays DEF Progress, Indexes, Stays, Src
  <2> QED BY <1>1, <1>2, <1>3, <2>1, <2>2, <2>3, GoesOn
<1>5. CASE ReindexLoad(w)
  <2>1. PICK st \in {"delete", "failed"} :
          Goto(w, st) /\ (st = "delete" => s \in stored)
    BY <1>1, <1>5 DEF ReindexLoad
  <2>2. row' = row /\ batches' = batches /\ handler[w].stage = "load"
    BY <1>5 DEF ReindexLoad, At
  <2>3. Touches(s)
    BY <1>2, <2>2 DEF Touches, Live
  <2>4. Progress(w) => Progress(w)'
    BY <1>1, <1>2, <2>1, <2>2, GotoStays DEF Progress, Indexes, Stays, Src, Live
  <2> QED BY <1>1, <1>2, <1>3, <2>1, <2>3, <2>4, GoesOn
<1>6. CASE ReindexDelete(w)
  <2>1. Goto(w, "chunk") /\ row' = row /\ handler[w].stage = "delete"
    BY <1>6 DEF ReindexDelete, At
  <2>2. batches'[s] = NoBatch /\ \A t \in Source \ {s} : batches'[t] = batches[t]
    BY <1>1, <1>2, <1>6 DEF ReindexDelete, TypeInv, TypeOK
  <2>3. Touches(s)
    BY <1>2, <2>1, <2>2 DEF Touches, Live
  <2>4. Progress(w) => Progress(w)'
    BY <1>1, <1>2, <2>1, <2>2, GotoStays DEF Progress, Indexes, Stays, Src, Live
  <2> QED BY <1>1, <1>2, <1>3, <2>1, <2>3, <2>4, GoesOn
<1>7. CASE ReindexClear(w)
  <2>1. /\ handler' = Overtaken([handler EXCEPT ![w] = Idle])
        /\ row' = row /\ batches' = batches /\ handler[w].stage = "clear"
    BY <1>7 DEF ReindexClear, Cleared, At
  <2>2. Others(w) /\ handler'[w].op = "idle" /\ handler'[w].source = None /\ handler'[w].stage = "idle"
    BY <1>2, <2>1, ClearedOthers, IdleHandler, IdleIs
  <2>3. Touches(s)
    BY <1>2, <2>1 DEF Touches, Live
  <2>4. Progress(w) => Rested(s)'
    BY <1>1, <1>2, <2>1 DEF Progress, Rested, Whole, TextOf, Live
  <2> QED BY <1>1, <1>2, <2>2, <2>3, <2>4, IsOver
<1> QED BY <1>4, <1>5, <1>6, <1>7

LEMMA DeleteKeeps ==
  ASSUME SourcesInv, TypeInv', NEW w \in Worker, DeleteRow(w) \/ DeleteOriginal(w)
  PROVE  SourcesInv' /\ NoMore
<1> USE DEF Histories
<1>1. PICK s : s = Src(w)
  OBVIOUS
<1>2. /\ s \in Source /\ TypeInv /\ disturbed' = disturbed /\ handler[w].op = "delete"
  BY <1>1, SourceKnown DEF SourcesInv, TypeInv, Nameless, At, DeleteRow, DeleteOriginal
<1>3. CASE DeleteRow(w)
  <2>1. /\ stored' = stored /\ handler[w].stage = "row"
        /\ IF Live(s) /\ handler[w].file # None THEN Goto(w, "original") ELSE Finish(w)
    BY <1>1, <1>3 DEF DeleteRow, At
  <2>2. /\ row'[s].status = "deleted"
        /\ \A t \in Source \ {s} : row'[t] = row[t] /\ batches'[t] = batches[t]
    BY <1>1, <1>2, <1>3 DEF DeleteRow, TypeInv, TypeOK, NoRow
  <2>3. Touches(s) /\ ~Live(s)'
    BY <1>2, <2>1, <2>2 DEF Touches, Live
  <2>4. CASE Live(s) /\ handler[w].file # None
    <3>1. Goto(w, "original") /\ "original" \in Stage \ {"row"}
      BY <2>1, <2>4 DEF Stage
    <3>2. Progress(w)'
      BY <1>1, <1>2, <2>3, <3>1, GotoStays DEF Progress, Stays, Src
    <3> QED BY <1>1, <1>2, <2>1, <2>3, <3>1, <3>2, GoesOn
  <2>5. CASE ~(Live(s) /\ handler[w].file # None)
    <3>1. Finish(w)
      BY <2>1, <2>5
    <3>2. Progress(w) => Live(s)
      BY <1>1, <2>1 DEF Progress
    <3>3. Live(s) /\ s \in stored => handler[w].file # None
      BY <1>1, <1>2, NoneAssumption DEF SourcesInv, Known
    <3>4. Progress(w) => Rested(s)'
      BY <2>1, <2>2, <2>5, <3>2, <3>3 DEF Rested
    <3> QED BY <1>1, <1>2, <2>1, <2>3, <3>1, <3>4, IsOver, FinishOthers, IdleIs
  <2> QED BY <2>4, <2>5
<1>4. CASE DeleteOriginal(w)
  <2>1. /\ stored' = stored \ {s} /\ row' = row /\ batches' = batches
        /\ Finish(w) /\ handler[w].stage = "original"
    BY <1>1, <1>4 DEF DeleteOriginal, At
  <2>2. Touches(s)
    BY <1>2, <2>1 DEF Touches, Live
  <2>3. Progress(w) => Rested(s)'
    BY <1>1, <1>2, <2>1 DEF Progress, Rested, Live
  <2> QED BY <1>1, <1>2, <2>1, <2>2, <2>3, IsOver, FinishOthers, IdleIs
<1> QED BY <1>3, <1>4

LEMMA FailureKeeps ==
  ASSUME SourcesInv, TypeInv', NEW w \in Worker, RequestFails(w) \/ Restart(w)
  PROVE  SourcesInv' /\ NoMore
<1>1. PICK s : s = Src(w)
  OBVIOUS
<1>2. TypeInv /\ row' = row /\ batches' = batches /\ stored' = stored /\ Touches(s)
  BY DEF SourcesInv, RequestFails, Restart, Touches, Live
<1>3. CASE LeavesOff(w)
  <2>1. /\ Others(w) /\ handler'[w].op = "idle" /\ handler'[w].source = None
        /\ handler'[w].stage = "idle"
    BY <1>2, <1>3, ClearedOthers, IdleHandler, IdleIs DEF LeavesOff, NotCleared
  <2>2. disturbed' = IF handler[w].stage \in {"chunks", "mark", "original"}
                     THEN disturbed \cup {s} ELSE disturbed
    BY <1>1, <1>3 DEF LeavesOff
  <2>3. ASSUME s \in Source \ disturbed' PROVE Rested(s)'
    <3>1. Progress(w) /\ handler[w].stage \notin {"chunks", "mark", "original"}
      BY <1>1, <2>2, <2>3 DEF SourcesInv, Good
    <3>2. Live(s) /\ (row[s].status = "indexed" => Whole(s))
      BY <1>1, <3>1 DEF Progress
    <3> QED BY <1>2, <3>2 DEF Rested, Whole, TextOf, Live
  <2>4. Moves(w) /\ (s \in Source => ~Stays(w))
    BY <1>1, <2>1, NoneAssumption DEF Moves, Stays, Src
  <2> QED BY <1>1, <1>2, <2>2, <2>3, <2>4, KeptByMoves
<1>4. CASE ~LeavesOff(w)
  <2> DEFINE h == [handler[w] EXCEPT !.stage = AfterFailure(w)]
  <2>1. /\ Indexes(w) /\ AfterFailure(w) # "raised"
        /\ NotCleared(w, [handler EXCEPT ![w].stage = AfterFailure(w)])
        /\ disturbed' = disturbed
    BY <1>4 DEF RequestFails, Restart
  <2>2. /\ AfterFailure(w) \in {"unindexed", "failed"} /\ ~Nameless(handler[w])
        /\ AfterFailure(w) = "unindexed" => handler[w].stage \in {"chunk", "embed", "insert", "done"}
        /\ AfterFailure(w) = "failed" => handler[w].stage \in {"store", "accept", "extract", "load",
                                                         "delete", "clear", "unindexed"}
    BY <2>1 DEF AfterFailure, Indexes, Nameless
  <2>3. handler[w] \in Handler /\ Src(w) \in Source
    BY <1>2, <2>2, SourceKnown DEF TypeInv, TypeOK
  <2>4. /\ h.op = handler[w].op /\ h.source = handler[w].source /\ h.folder = handler[w].folder
        /\ h.file = handler[w].file /\ h.stage = AfterFailure(w) /\ h \in Handler
    BY <2>2, <2>3 DEF Handler, Stage
  <2>5. h \in KnownHandler
    BY <2>3, <2>4 DEF KnownHandler, Src
  <2>6. \/ handler' = Overtaken([handler EXCEPT ![w] = h])
        \/ handler' = [handler EXCEPT ![w] = h]
    BY <2>1 DEF NotCleared
  <2> HIDE DEF h
  <2>7. Others(w) /\ Stays(w) /\ handler'[w].stage = AfterFailure(w)
    BY <1>2, <2>4, <2>5, <2>6, ClearedOthers DEF Stays
  <2>8. Moves(w)
    BY <2>2, <2>7 DEF Moves
  <2>9. Progress(w) => Progress(w)'
    BY <1>1, <1>2, <2>1, <2>2, <2>7 DEF Progress, Indexes, Stays, Src, Whole, TextOf, Live
  <2>10. s \in Source \ disturbed' => Progress(w)'
    BY <1>1, <2>1, <2>9 DEF SourcesInv, Good
  <2> QED BY <1>1, <1>2, <2>1, <2>7, <2>8, <2>10, KeptByMoves
<1> QED BY <1>3, <1>4

-----------------------------------------------------------------------------
(* The invariant under the requests                                        *)

\* A handler without a source before and after the step.
LEMMA SourcelessKeeps ==
  ASSUME SourcesInv, TypeInv', NEW w \in Worker, Others(w), Src(w) = None, Src(w)' = None,
         handler'[w].op = "upload" => handler'[w].file # None,
         UNCHANGED <<row, batches, stored, disturbed>>
  PROVE  SourcesInv' /\ (handler'[w].op # "upload" => NoMore)
<1>1. \A v \in Worker : Src(v)' = Src(v)
  BY DEF Others, Stays, Src
<1>2. \A v \in Worker : Src(v) # None => v # w /\ Stays(v) /\ handler'[v].stage = handler[v].stage
  BY DEF Others
<1>3. Alone'
  BY <1>1 DEF Alone, SourcesInv
<1>4. Known'
  <2>1. ASSUME NEW v \in Worker
        PROVE  /\ handler'[v].op = "upload" => handler'[v].file # None
               /\ At(v, "upload", "row")' => Src(v)' = None
               /\ Src(v)' # None =>
                    /\ row'[Src(v)'].status # "new"
                    /\ Live(Src(v))' /\ handler'[v].op # "patch" =>
                         handler'[v].file = row'[Src(v)'].file
    BY <1>1, <1>2 DEF SourcesInv, Known, Others, Stays, At, Live
  <2> QED BY <2>1 DEF SourcesInv, Known, Live
<1>5. Good'
  <2>1. \A s \in Source : Busy(s)' <=> Busy(s)
    BY <1>1 DEF Busy, Src
  <2>2. \A s \in Source : Rested(s)' <=> Rested(s)
    BY DEF Rested, Whole, TextOf, Live
  <2>3. ASSUME NEW v \in Worker, Src(v) # None, Progress(v) PROVE Progress(v)'
    <3>1. Stays(v) /\ handler'[v].stage = handler[v].stage /\ Src(v)' = Src(v)
      BY <1>1, <1>2, <2>3
    <3> QED BY <2>3, <3>1 DEF Progress, Stays, Src, Live, Whole, TextOf, Indexes
  <2> QED BY <1>1, <2>1, <2>2, <2>3, NoneAssumption DEF SourcesInv, Good
<1>6. handler'[w].op # "upload" => NoMore
  BY DEF NoMore, Copies, Uploading, Live, At, Others, Stays
<1> QED BY <1>3, <1>4, <1>5, <1>6 DEF SourcesInv

LEMMA StillKeeps ==
  ASSUME SourcesInv, TypeInv', UNCHANGED <<row, batches, stored, handler, disturbed>>
  PROVE  SourcesInv' /\ NoMore
<1>1. Alone'
  BY DEF SourcesInv, Alone, Src
<1>2. Known'
  BY DEF SourcesInv, Known, Src, Live, At
<1>3. Good'
  BY DEF SourcesInv, Good, Progress, Rested, Whole, TextOf, Src, Live, Indexes, Busy
<1>4. NoMore
  BY DEF NoMore, Copies, Uploading, Live, At
<1> QED BY <1>1, <1>2, <1>3, <1>4 DEF SourcesInv

\* A request on a live source, which it disturbs when another is under way.
LEMMA BeginsKeep ==
  ASSUME SourcesInv, TypeInv', NEW w \in Worker, NEW s \in Source, Others(w),
         Src(w) = None, Src(w)' = s, Live(s), handler'[w].op \in {"patch", "delete", "reindex"},
         handler'[w].op # "patch" => handler'[w].file = row[s].file,
         UNCHANGED <<row, batches, stored>>,
         disturbed \subseteq disturbed' \cup {s}, Busy(s) => s \in disturbed',
         s \notin disturbed' => Progress(w)'
  PROVE  SourcesInv' /\ NoMore
<1>1. \A v \in Worker \ {w} :
        Src(v)' = Src(v) /\ Stays(v) /\ handler'[v].stage = handler[v].stage
  BY DEF Others, Stays, Src
<1>2. Alone'
  <2> SUFFICES ASSUME NEW v \in Worker, NEW u \in Worker, v # u, Src(v)' = Src(u)', Src(v)' # None
               PROVE  Src(v)' \in disturbed'
    BY DEF Alone
  <2>1. CASE Src(v)' = s
    <3>1. \E x \in Worker : Src(x) = s
      BY <1>1, <2>1
    <3> QED BY <2>1, <3>1 DEF Busy, Src
  <2>2. CASE Src(v)' # s
    BY <1>1, <2>2 DEF SourcesInv, Alone
  <2> QED BY <2>1, <2>2
<1>3. Known'
  <2>1. ASSUME NEW v \in Worker
        PROVE  /\ handler'[v].op = "upload" => handler'[v].file # None
               /\ At(v, "upload", "row")' => Src(v)' = None
               /\ Src(v)' # None =>
                    /\ row'[Src(v)'].status # "new"
                    /\ Live(Src(v))' /\ handler'[v].op # "patch" =>
                         handler'[v].file = row'[Src(v)'].file
    <3>1. CASE v = w
      BY <3>1 DEF At, Live
    <3>2. CASE v # w
      BY <1>1, <3>2 DEF SourcesInv, Known, Stays, At, Live
    <3> QED BY <3>1, <3>2
  <2> QED BY <2>1 DEF SourcesInv, Known, Live
<1>4. Good'
  <2> SUFFICES ASSUME NEW t \in Source, t \notin disturbed'
               PROVE  /\ \A v \in Worker : Src(v)' = t => Progress(v)'
                      /\ ~Busy(t)' => Rested(t)'
    BY DEF Good
  <2>1. CASE t = s
    <3>1. \A v \in Worker : Src(v)' = s => v = w
      BY <1>1, <2>1 DEF Busy, Src
    <3>2. Busy(s)'
      BY DEF Busy, Src
    <3> QED BY <2>1, <3>1, <3>2
  <2>2. CASE t # s
    <3>1. t \notin disturbed
      BY <2>2
    <3>2. ASSUME NEW v \in Worker, Src(v)' = t PROVE Progress(v)'
      <4>1. Progress(v) /\ Stays(v) /\ Src(v) = t /\ handler'[v].stage = handler[v].stage
        BY <1>1, <2>2, <3>1, <3>2 DEF SourcesInv, Good
      <4> QED BY <3>2, <4>1 DEF Progress, Stays, Src, Live, Whole, TextOf, Indexes
    <3>3. Busy(t) => Busy(t)'
      BY <1>1, NoneAssumption DEF Busy, Src
    <3>4. ~Busy(t) => Rested(t)'
      BY <3>1 DEF SourcesInv, Good, Rested, Whole, TextOf, Live
    <3> QED BY <3>2, <3>3, <3>4
  <2> QED BY <2>1, <2>2
<1>5. NoMore
  BY DEF NoMore, Copies, Uploading, Live, At, Others, Stays
<1> QED BY <1>2, <1>3, <1>4, <1>5 DEF SourcesInv

\* The row of a new source, which no handler knows.
LEMMA InsertsKeep ==
  ASSUME SourcesInv, TypeInv', NEW w \in Worker, NEW s \in Source, row[s].status = "new",
         Others(w), Src(w) = None, Src(w)' = s, Live(s)', handler'[w].stage \in {"chunk", "store"},
         handler'[w].op \in {"create", "upload"}, handler'[w].file = row'[s].file,
         handler'[w].op = "upload" => handler'[w].file # None,
         handler'[w].op = "create" => handler'[w].file = None /\ handler'[w].stage = "chunk",
         handler'[w].op = "upload" => handler'[w].stage = "store",
         row'[s].folder = handler'[w].folder, row'[s].status # "indexed",
         \A t \in Source \ {s} : row'[t] = row[t],
         UNCHANGED <<batches, stored, disturbed>>
  PROVE  SourcesInv' /\ (handler'[w].op = "create" => NoMore)
<1>1. \A v \in Worker \ {w} :
        Src(v)' = Src(v) /\ Stays(v) /\ handler'[v].stage = handler[v].stage
  BY DEF Others, Stays, Src
<1>2. /\ batches[s] = NoBatch /\ s \notin stored
      /\ \A v \in Worker : Src(v) # s
      /\ \A v \in Worker : Src(v) \in Source \cup {None}
  BY NoneAssumption DEF SourcesInv, Known, TypeInv, TypeOK, Handler, Src
<1>3. Alone'
  BY <1>1, <1>2 DEF SourcesInv, Alone
<1>4. Known'
  <2>1. ASSUME NEW v \in Worker
        PROVE  /\ handler'[v].op = "upload" => handler'[v].file # None
               /\ At(v, "upload", "row")' => Src(v)' = None
               /\ Src(v)' # None =>
                    /\ row'[Src(v)'].status # "new"
                    /\ Live(Src(v))' /\ handler'[v].op # "patch" =>
                         handler'[v].file = row'[Src(v)'].file
    <3>1. CASE v = w
      BY <3>1 DEF At, Live
    <3>2. CASE v # w
      BY <1>1, <1>2, <3>2 DEF SourcesInv, Known, Stays, At, Live
    <3> QED BY <3>1, <3>2
  <2>2. \A t \in Source : row'[t].status = "new" => batches'[t] = NoBatch /\ t \notin stored'
    BY DEF SourcesInv, Known, Live
  <2>3. \A t \in stored' : Live(t)' => row'[t].file # None
    BY <1>2 DEF SourcesInv, Known, Live, TypeInv, TypeOK
  <2> QED BY <2>1, <2>2, <2>3 DEF Known
<1>5. Good'
  <2> SUFFICES ASSUME NEW t \in Source, t \notin disturbed'
               PROVE  /\ \A v \in Worker : Src(v)' = t => Progress(v)'
                      /\ ~Busy(t)' => Rested(t)'
    BY DEF Good
  <2>1. CASE t = s
    <3>1. \A v \in Worker : Src(v)' = s => v = w
      BY <1>1, <1>2
    <3>2. Busy(s)'
      BY DEF Busy, Src
    <3>3. Progress(w)'
      BY <1>2 DEF Progress, Indexes, Live
    <3> QED BY <2>1, <3>1, <3>2, <3>3
  <2>2. CASE t # s
    <3>1. row'[t] = row[t]
      BY <2>2
    <3>2. ASSUME NEW v \in Worker, Src(v)' = t PROVE Progress(v)'
      <4>1. Progress(v) /\ Stays(v) /\ Src(v) = t /\ handler'[v].stage = handler[v].stage
        BY <1>1, <2>2, <3>2 DEF SourcesInv, Good
      <4> QED BY <3>1, <3>2, <4>1 DEF Progress, Stays, Src, Live, Whole, TextOf, Indexes
    <3>3. Busy(t) => Busy(t)'
      BY <1>1, NoneAssumption DEF Busy, Src
    <3>4. ~Busy(t) => Rested(t)'
      BY <3>1 DEF SourcesInv, Good, Rested, Whole, TextOf, Live
    <3> QED BY <3>2, <3>3, <3>4
  <2> QED BY <2>1, <2>2
<1>6. handler'[w].op = "create" => NoMore
  BY NoneAssumption DEF NoMore, Copies, Uploading, Live, At, Others, Stays
<1> QED BY <1>3, <1>4, <1>5, <1>6 DEF SourcesInv

LEMMA IdleToNew ==
  ASSUME TypeInv, NEW w \in Worker, handler[w] = Idle, NEW h,
         handler' = [handler EXCEPT ![w] = h]
  PROVE  /\ handler'[w] = h /\ Src(w) = None /\ Others(w)
BY DEF TypeInv, TypeOK, Idle, Src, Others, Stays

LEMMA RequestsKeep ==
  ASSUME SourcesInv, TypeInv', NEW w \in Worker,
         SourceRequest(w) \/ FolderRequest(w) \/ SearchRequest(w)
  PROVE  SourcesInv' /\ (UploadRequest(w) \/ NoMore)
<1> USE DEF Histories
<1>1. TypeInv /\ Alone /\ Known /\ Good
  BY DEF SourcesInv
<1>2. ASSUME NEW s \in Source, NEW p \in Place, CreateInsert(w, s, p) PROVE SourcesInv' /\ NoMore
  <2> DEFINE h == [Begin("create", "chunk", s) EXCEPT !.folder = p]
  <2>1. /\ h.op = "create" /\ h.stage = "chunk" /\ h.source = s /\ h.folder = p
        /\ h.file = None
    BY DEF Begin, Idle
  <2>2. handler' = [handler EXCEPT ![w] = h] /\ handler[w] = Idle /\ row[s].status = "new"
    BY <1>2 DEF CreateInsert
  <2> HIDE DEF h
  <2>3. handler'[w] = h /\ Src(w) = None /\ Others(w)
    BY <1>1, <2>2, IdleToNew
  <2>4. /\ row'[s].status = "processing" /\ row'[s].folder = p /\ row'[s].file = None
        /\ \A t \in Source \ {s} : row'[t] = row[t]
    BY <1>1, <1>2 DEF CreateInsert, NoRow, TypeInv, TypeOK
  <2>5. Live(s)' /\ Src(w)' = s
    BY <2>1, <2>3, <2>4 DEF Live, Src
  <2>6. UNCHANGED <<batches, stored, disturbed>>
    BY <1>2 DEF CreateInsert
  <2> QED BY <2>1, <2>2, <2>3, <2>4, <2>5, <2>6, InsertsKeep
<1>3. ASSUME NEW d \in File, NEW p \in Place, UploadBegin(w, d, p) PROVE SourcesInv'
  <2> DEFINE h == [Begin("upload", "row", None) EXCEPT !.folder = p, !.file = d]
  <2>1. h.source = None /\ h.file = d /\ d # None
    BY NoneAssumption DEF Begin, Idle
  <2>2. handler' = [handler EXCEPT ![w] = h] /\ handler[w] = Idle
    BY <1>3 DEF UploadBegin
  <2> HIDE DEF h
  <2>3. handler'[w] = h /\ Src(w) = None /\ Others(w)
    BY <1>1, <2>2, IdleToNew
  <2>4. UNCHANGED <<row, batches, stored, disturbed>>
    BY <1>3 DEF UploadBegin
  <2>5. Src(w)' = None
    BY <2>1, <2>3 DEF Src
  <2> QED BY <2>1, <2>3, <2>4, <2>5, SourcelessKeeps
<1>4. ASSUME NEW s \in Source, NEW change \in Changes, NEW p \in Place, NEW edit \in BOOLEAN,
             PatchBegin(w, s, change, p, edit)
      PROVE  SourcesInv' /\ NoMore
  <2> DEFINE h == [Begin("patch", IF change = "nothing" THEN "edit" ELSE "update", s) EXCEPT
                     !.folder = p, !.change = change, !.edit = edit]
  <2>1. h.op = "patch" /\ h.source = s /\ h.stage \in {"edit", "update"}
    BY DEF Begin, Idle
  <2>2. handler' = [handler EXCEPT ![w] = h] /\ handler[w] = Idle /\ Live(s)
    BY <1>4 DEF PatchBegin
  <2> HIDE DEF h
  <2>3. handler'[w] = h /\ Src(w) = None /\ Others(w)
    BY <1>1, <2>2, IdleToNew
  <2>4. /\ UNCHANGED <<row, batches, stored>>
        /\ disturbed' = IF Busy(s) THEN disturbed \cup {s} ELSE disturbed
    BY <1>4 DEF PatchBegin, Overlaps
  <2>5. Src(w)' = s
    BY <2>1, <2>3 DEF Src
  <2>6. ASSUME s \notin disturbed' PROVE Progress(w)'
    <3>1. Rested(s)
      BY <1>1, <2>4, <2>6 DEF Good
    <3> QED BY <2>1, <2>2, <2>3, <2>4, <2>5, <3>1 DEF Progress, Rested, Whole, TextOf, Indexes, Live
  <2> QED BY <2>1, <2>2, <2>3, <2>4, <2>5, <2>6, BeginsKeep
<1>5. ASSUME NEW s \in Source, ReindexBegin(w, s) PROVE SourcesInv' /\ NoMore
  <2> DEFINE h == [Begin("reindex", "mark", s) EXCEPT !.folder = row[s].folder,
                                                      !.file = row[s].file]
  <2>1. /\ h.op = "reindex" /\ h.source = s /\ h.stage = "mark"
        /\ h.folder = row[s].folder /\ h.file = row[s].file
    BY DEF Begin, Idle
  <2>2. /\ handler' = Outdated([handler EXCEPT ![w] = h], s)
        /\ handler[w] = Idle /\ Live(s)
    BY <1>5 DEF ReindexBegin
  <2>3. h \in KnownHandler
    <3>1. row[s].folder \in Place /\ row[s].file \in File \cup {None}
      BY <1>1 DEF TypeInv, TypeOK
    <3>2. "reindex" \in Op /\ "mark" \in Stage /\ "nothing" \in Changes
      BY DEF Op, Stage, Changes
    <3> QED BY <3>1, <3>2, BeginType
  <2> HIDE DEF h
  <2>4. Others(w) /\ SameWork(handler'[w], h)
    BY <1>1, <2>2, <2>3, OutdatedFrame DEF Others, Stays, SameWork
  <2>5. Src(w) = None
    BY <2>2, IdleIs DEF Src
  <2>6. /\ UNCHANGED <<row, batches, stored>>
        /\ disturbed \subseteq disturbed' \cup {s} /\ (Busy(s) => s \in disturbed')
    BY <1>5 DEF ReindexBegin
  <2>7. /\ handler'[w].op = "reindex" /\ Src(w)' = s /\ handler'[w].stage = "mark"
        /\ handler'[w].folder = row[s].folder /\ handler'[w].file = row[s].file
    BY <2>1, <2>4 DEF SameWork, Src
  <2>8. Progress(w)'
    BY <2>2, <2>6, <2>7 DEF Progress, Indexes, Live
  <2> QED BY <2>2, <2>4, <2>5, <2>6, <2>7, <2>8, BeginsKeep
<1>6. ASSUME NEW s \in Source, DeleteBegin(w, s) PROVE SourcesInv' /\ NoMore
  <2> DEFINE h == [Begin("delete", "row", s) EXCEPT !.file = row[s].file]
  <2>1. h.op = "delete" /\ h.source = s /\ h.stage = "row" /\ h.file = row[s].file
    BY DEF Begin, Idle
  <2>2. handler' = [handler EXCEPT ![w] = h] /\ handler[w] = Idle /\ Live(s)
    BY <1>6 DEF DeleteBegin
  <2> HIDE DEF h
  <2>3. handler'[w] = h /\ Src(w) = None /\ Others(w)
    BY <1>1, <2>2, IdleToNew
  <2>4. /\ UNCHANGED <<row, batches, stored>>
        /\ disturbed' = IF Busy(s) THEN disturbed \cup {s} ELSE disturbed
    BY <1>6 DEF DeleteBegin, Overlaps
  <2>5. Src(w)' = s
    BY <2>1, <2>3 DEF Src
  <2>6. ASSUME s \notin disturbed' PROVE Progress(w)'
    <3>1. Rested(s)
      BY <1>1, <2>4, <2>6 DEF Good
    <3> QED BY <2>1, <2>2, <2>3, <2>4, <2>5, <3>1 DEF Progress, Rested, Whole, TextOf, Indexes, Live
  <2> QED BY <2>1, <2>2, <2>3, <2>4, <2>5, <2>6, BeginsKeep
<1>7. ASSUME NEW h, handler' = [handler EXCEPT ![w] = h], handler[w] = Idle,
             h.op \in {"switch", "search"}, h.source = None,
             UNCHANGED <<row, batches, stored, disturbed>>
      PROVE  SourcesInv' /\ NoMore
  <2>1. handler'[w] = h /\ Src(w) = None /\ Others(w)
    BY <1>1, <1>7, IdleToNew
  <2>2. Src(w)' = None
    BY <1>7, <2>1 DEF Src
  <2> QED BY <1>7, <2>1, <2>2, SourcelessKeeps
<1>8. ASSUME NEW f \in Folder, NEW to \in {"active", "inactive"}, FolderSwitch(w, f, to)
      PROVE  SourcesInv' /\ NoMore
  <2> DEFINE h == [Idle EXCEPT !.op = "switch", !.stage = "clear"]
  <2>1. h.op = "switch" /\ h.source = None
    BY DEF Idle
  <2> QED BY <1>7, <1>8, <2>1 DEF FolderSwitch
<1>9. ASSUME NEW found \in SUBSET Source, Search(w, found) PROVE SourcesInv' /\ NoMore
  <2> DEFINE h == [Idle EXCEPT !.op = "search", !.stage = "store", !.found = found]
  <2>1. h.op = "search" /\ h.source = None
    BY DEF Idle
  <2> QED BY <1>7, <1>9, <2>1 DEF Search
<1> QED
  BY <1>2, <1>3, <1>4, <1>5, <1>6, <1>8, <1>9
     DEF SourceRequest, CreateRequest, UploadRequest, PatchRequest, ReindexRequest,
         DeleteRequest, FolderRequest, SearchRequest

LEMMA UploadInsertKeeps ==
  ASSUME SourcesInv, TypeInv', NEW w \in Worker, NEW s \in Source, UploadInsert(w, s)
  PROVE  SourcesInv'
<1> USE DEF Histories
<1> DEFINE h == [handler[w] EXCEPT !.stage = "store", !.source = s]
<1>1. /\ TypeInv /\ handler[w] \in Handler /\ handler[w].op = "upload" /\ row[s].status = "new"
      /\ handler[w].file # None /\ Src(w) = None
  BY DEF SourcesInv, TypeInv, TypeOK, Known, UploadInsert, At
<1>2. /\ h.op = "upload" /\ h.stage = "store" /\ h.source = s
      /\ h.folder = handler[w].folder /\ h.file = handler[w].file
  BY <1>1 DEF Handler
<1>3. handler'[w] = h /\ \A v \in Worker \ {w} : handler'[v] = handler[v]
  BY <1>1 DEF UploadInsert, TypeInv, TypeOK
<1> HIDE DEF h
<1>4. /\ row'[s].status = "uploading" /\ row'[s].folder = handler[w].folder
      /\ row'[s].file = handler[w].file
      /\ \A t \in Source \ {s} : row'[t] = row[t]
  BY <1>1 DEF UploadInsert, NoRow, TypeInv, TypeOK
<1>5. Others(w) /\ Src(w)' = s /\ Live(s)' /\ UNCHANGED <<batches, stored, disturbed>>
  BY <1>2, <1>3, <1>4 DEF Others, Stays, Src, Live, UploadInsert
<1> QED BY <1>1, <1>2, <1>3, <1>4, <1>5, InsertsKeep

\* The last steps of a switch of a folder and of a search.
LEMMA SwitchSearchKeeps ==
  ASSUME SourcesInv, TypeInv', NEW w \in Worker, FolderSwitchClear(w) \/ SearchStore(w)
  PROVE  SourcesInv' /\ NoMore
<1>1. PICK s : s = Src(w)
  OBVIOUS
<1>2. /\ TypeInv /\ UNCHANGED <<row, batches, stored, disturbed>>
      /\ ~Indexes(w) /\ handler[w].stage \in {"clear", "store"}
  BY DEF SourcesInv, FolderSwitchClear, SearchStore, At, Indexes
<1>3. /\ Others(w) /\ handler'[w].op = "idle" /\ handler'[w].source = None
      /\ handler'[w].stage = "idle"
  BY <1>2, ClearedOthers, FinishOthers, IdleHandler, IdleIs
     DEF FolderSwitchClear, Cleared, SearchStore
<1>4. Touches(s)
  BY <1>2 DEF Touches, Live
<1>5. ASSUME s \in Source \ disturbed' PROVE Rested(s)'
  <2>1. Progress(w)
    BY <1>1, <1>2, <1>5 DEF SourcesInv, Good
  <2> QED BY <1>1, <1>2, <2>1 DEF Progress, Rested, Whole, TextOf, Live
<1>6. Moves(w) /\ (s \in Source => ~Stays(w))
  BY <1>1, <1>3, NoneAssumption DEF Moves, Stays, Src
<1> QED BY <1>1, <1>2, <1>4, <1>5, <1>6, KeptByMoves

\* The deletion of a folder moves its sources and their chunks together; a
\* handler that holds the folder's identity is disturbed.
LEMMA FolderDeleteKeeps ==
  ASSUME SourcesInv, TypeInv', NEW f \in Folder, FolderDelete(f)
  PROVE  SourcesInv' /\ NoMore
<1>1. /\ TypeInv /\ handler' = handler /\ stored' = stored /\ disturbed \subseteq disturbed'
      /\ f # None
  BY NoneAssumption DEF SourcesInv, FolderDelete
<1>2. ASSUME NEW s \in Source
      PROVE  /\ row'[s].status = row[s].status /\ row'[s].file = row[s].file
             /\ row'[s].folder = IF row[s].folder = f THEN None ELSE row[s].folder
             /\ batches'[s].number = batches[s].number
             /\ batches'[s].places = IF f \in batches[s].places
                                     THEN (batches[s].places \ {f}) \cup {None}
                                     ELSE batches[s].places
             /\ batches[s] \in [number : Nat, places : SUBSET Place]
             /\ batches'[s] \in [number : Nat, places : SUBSET Place]
  <2>1. row[s] \in [status : Status, file : File \cup {None}, folder : Place,
                    referenced : BOOLEAN]
    BY <1>1 DEF TypeInv, TypeOK
  <2>2. row'[s] = IF row[s].folder = f THEN [row[s] EXCEPT !.folder = None] ELSE row[s]
    BY DEF FolderDelete
  <2>3. /\ batches[s] \in [number : Nat, places : SUBSET Place]
        /\ batches'[s] \in [number : Nat, places : SUBSET Place]
    BY <1>1 DEF TypeInv, TypeOK
  <2>4. batches'[s] = IF f \in batches[s].places
                      THEN [batches[s] EXCEPT !.places = (@ \ {f}) \cup {None}]
                      ELSE batches[s]
    BY DEF FolderDelete
  <2>5. /\ row'[s].status = row[s].status /\ row'[s].file = row[s].file
        /\ row'[s].folder = IF row[s].folder = f THEN None ELSE row[s].folder
    BY <2>1, <2>2
  <2>6. /\ batches'[s].number = batches[s].number
        /\ batches'[s].places = IF f \in batches[s].places
                                THEN (batches[s].places \ {f}) \cup {None}
                                ELSE batches[s].places
    BY <2>3, <2>4
  <2> QED BY <2>3, <2>5, <2>6
<1>3. \A s \in Source : Live(s)' <=> Live(s)
  BY <1>2 DEF Live
<1>4. ASSUME NEW s \in Source, NEW n, NEW P, batches'[s].number = n, batches'[s].places = P
      PROVE  batches'[s] = [number |-> n, places |-> P]
  <2>1. batches'[s] \in [number : Nat, places : SUBSET Place]
    BY <1>2
  <2>2. batches'[s] = [number |-> batches'[s].number, places |-> batches'[s].places]
    BY <2>1
  <2> QED BY <1>4, <2>2
<1>6. ASSUME NEW s \in Source, batches[s] = NoBatch PROVE batches'[s] = NoBatch
  <2>1. batches[s].number = 0 /\ batches[s].places = {}
    BY <1>6 DEF NoBatch
  <2> QED BY <1>2, <1>4, <2>1 DEF NoBatch
<1>11. ASSUME NEW s \in Source, batches[s] = TextOf(s) PROVE batches'[s] = TextOf(s)'
  <2>1. CASE s \in Blank
    BY <1>6, <1>11, <2>1 DEF TextOf
  <2>2. CASE s \notin Blank
    <3>1. batches[s].number = 1 /\ batches[s].places = {row[s].folder}
      BY <1>11, <2>2 DEF TextOf
    <3>2. batches'[s].number = 1 /\ batches'[s].places = {row'[s].folder}
      BY <1>1, <1>2, <3>1
    <3>3. batches'[s] = [number |-> 1, places |-> {row'[s].folder}]
      BY <1>4, <3>2
    <3> QED BY <2>2, <3>3 DEF TextOf
  <2> QED BY <2>1, <2>2
<1>5. ASSUME NEW s \in Source, Whole(s) PROVE Whole(s)'
  BY <1>1, <1>2, <1>5, <1>11 DEF Whole
<1>7. Alone'
  BY <1>1 DEF SourcesInv, Alone, Src
<1>8. Known'
  <2>1. \A v \in Worker : Src(v) # None => Src(v) \in Source
    BY <1>1 DEF TypeInv, TypeOK, Handler, Src
  <2>2. ASSUME NEW v \in Worker
        PROVE  /\ handler'[v].op = "upload" => handler'[v].file # None
               /\ At(v, "upload", "row")' => Src(v)' = None
               /\ Src(v)' # None =>
                    /\ row'[Src(v)'].status # "new"
                    /\ Live(Src(v))' /\ handler'[v].op # "patch" =>
                         handler'[v].file = row'[Src(v)'].file
    BY <1>1, <1>2, <2>1 DEF SourcesInv, Known, At, Src, Live
  <2>3. \A t \in Source : row'[t].status = "new" => batches'[t] = NoBatch /\ t \notin stored'
    BY <1>1, <1>2, <1>6 DEF SourcesInv, Known
  <2>4. \A t \in stored' : Live(t)' => row'[t].file # None
    BY <1>1, <1>2, <1>3 DEF SourcesInv, Known, TypeInv, TypeOK
  <2> QED BY <2>2, <2>3, <2>4 DEF Known
<1>9. Good'
  <2> SUFFICES ASSUME NEW s \in Source, s \notin disturbed'
               PROVE  /\ \A v \in Worker : Src(v)' = s => Progress(v)'
                      /\ ~Busy(s)' => Rested(s)'
    BY DEF Good
  <2>1. ~Busy(s)' => Rested(s)'
    BY <1>1, <1>2, <1>3, <1>5 DEF SourcesInv, Good, Rested, Busy
  <2>2. ASSUME NEW v \in Worker, Src(v)' = s PROVE Progress(v)'
    <3>1. Src(v) = s /\ Progress(v) /\ handler[v].folder # f
      BY <1>1, <2>2 DEF FolderDelete, Src, SourcesInv, Good
    <3>2. row[s].folder = handler[v].folder => row'[s].folder = handler[v].folder
      BY <1>2, <3>1
    <3>4. ASSUME batches[s].number = 1, batches[s].places # {}
          PROVE  batches'[s].number = 1 /\ batches'[s].places # {}
      BY <1>2, <3>4
    <3>5. (Indexes(v)' <=> Indexes(v)) /\ handler'[v] = handler[v]
      BY <1>1 DEF Indexes
    <3> QED
      BY <1>1, <1>2, <1>3, <1>5, <1>6, <1>11, <2>2, <3>1, <3>2, <3>4, <3>5 DEF Progress
  <2> QED BY <2>1, <2>2
<1>10. NoMore
  BY <1>1, <1>2, <1>3 DEF NoMore, Copies, Uploading, At
<1> QED BY <1>7, <1>8, <1>9, <1>10 DEF SourcesInv

-----------------------------------------------------------------------------
(* The rows of a file *)

RowsInv == RowsPerFile /\ \A d \in File : IsFiniteSet(Copies(d))

LEMMA UploadingFinite ==
  ASSUME NEW d
  PROVE  /\ IsFiniteSet(Uploading(d)) /\ Cardinality(Uploading(d)) \in Nat
         /\ Cardinality(Uploading(d)) <= Cardinality(Worker)
         /\ Cardinality(Worker) \in Nat
<1>1. Uploading(d) \subseteq Worker
  BY DEF Uploading
<1> QED BY <1>1, WorkerAssumption, FS_Subset, FS_CardinalityType

LEMMA NoMoreRows ==
  ASSUME RowsInv, NoMore
  PROVE  RowsInv'
<1> SUFFICES ASSUME NEW d \in File
             PROVE  /\ Cardinality(Copies(d)') + Cardinality(Uploading(d)') <= Cardinality(Worker)
                    /\ IsFiniteSet(Copies(d)')
  BY DEF RowsInv, RowsPerFile
<1>1. Copies(d)' \subseteq Copies(d) /\ Uploading(d)' \subseteq Uploading(d)
  BY DEF NoMore
<1>2. /\ IsFiniteSet(Copies(d)) /\ IsFiniteSet(Uploading(d))
      /\ Cardinality(Copies(d)) + Cardinality(Uploading(d)) <= Cardinality(Worker)
  BY UploadingFinite DEF RowsInv, RowsPerFile
<1>3. /\ IsFiniteSet(Copies(d)') /\ Cardinality(Copies(d)') <= Cardinality(Copies(d))
      /\ IsFiniteSet(Uploading(d)') /\ Cardinality(Uploading(d)') <= Cardinality(Uploading(d))
  BY <1>1, <1>2, FS_Subset
<1>4. /\ Cardinality(Copies(d)) \in Nat /\ Cardinality(Copies(d)') \in Nat
      /\ Cardinality(Uploading(d)) \in Nat /\ Cardinality(Uploading(d)') \in Nat
      /\ Cardinality(Worker) \in Nat
  BY <1>2, <1>3, WorkerAssumption, FS_CardinalityType
<1> QED BY <1>2, <1>3, <1>4

\* An upload begins only when no row has its checksum, ...
LEMMA UploadBeginRows ==
  ASSUME TypeInv, RowsInv, NEW w \in Worker, NEW d \in File, NEW p \in Place, UploadBegin(w, d, p)
  PROVE  RowsInv'
<1>1. row' = row /\ Copies(d) = {}
  BY DEF UploadBegin, Registered, Copies
<1>2. \A e \in File : Copies(e)' = Copies(e)
  BY <1>1 DEF Copies, Live
<1>3. handler'[w].file = d /\ \A v \in Worker \ {w} : handler'[v] = handler[v]
  <2>1. [Begin("upload", "row", None) EXCEPT !.folder = p, !.file = d].file = d
    BY DEF Begin, Idle
  <2> QED BY <2>1 DEF UploadBegin, TypeInv, TypeOK
<1>4. \A e \in File \ {d} : Uploading(e)' \subseteq Uploading(e)
  BY <1>3 DEF Uploading, At
<1>5. ASSUME NEW e \in File
      PROVE  /\ Cardinality(Copies(e)') + Cardinality(Uploading(e)') <= Cardinality(Worker)
             /\ IsFiniteSet(Copies(e)')
  <2>1. IsFiniteSet(Copies(e)')
    BY <1>2 DEF RowsInv
  <2>2. Uploading(e)' \subseteq Worker
    BY DEF Uploading
  <2>3. /\ Cardinality(Uploading(e)') <= Cardinality(Worker)
        /\ Cardinality(Uploading(e)') \in Nat /\ Cardinality(Worker) \in Nat
    BY <2>2, WorkerAssumption, FS_Subset, FS_CardinalityType
  <2>4. CASE e = d
    <3>1. Cardinality(Copies(e)') = 0
      BY <1>1, <1>2, <2>4, FS_EmptySet
    <3> QED BY <2>1, <2>3, <3>1
  <2>5. CASE e # d
    <3>1. Cardinality(Uploading(e)') <= Cardinality(Uploading(e))
      BY <1>4, <2>5, UploadingFinite, FS_Subset
    <3>2. /\ Cardinality(Copies(e)) + Cardinality(Uploading(e)) <= Cardinality(Worker)
          /\ Cardinality(Copies(e)) \in Nat /\ Cardinality(Uploading(e)) \in Nat
      BY UploadingFinite, FS_CardinalityType DEF RowsInv, RowsPerFile
    <3> QED BY <1>2, <2>1, <2>3, <3>1, <3>2
  <2> QED BY <2>4, <2>5
<1> QED BY <1>5 DEF RowsInv, RowsPerFile

\* ... and becomes one row.
LEMMA UploadInsertRows ==
  ASSUME TypeInv, RowsInv, NEW w \in Worker, NEW s \in Source, UploadInsert(w, s)
  PROVE  RowsInv'
<1> DEFINE d == handler[w].file
<1>1. handler'[w].stage = "store" /\ \A v \in Worker \ {w} : handler'[v] = handler[v]
  BY DEF UploadInsert, TypeInv, TypeOK, Handler
<1>2. row'[s].file = d /\ \A t \in Source \ {s} : row'[t] = row[t]
  BY DEF UploadInsert, NoRow, TypeInv, TypeOK
<1>3. w \in Uploading(d) /\ \A e \in File : s \notin Copies(e)
  BY DEF UploadInsert, Uploading, Copies, Live
<1> SUFFICES ASSUME NEW e \in File
             PROVE  /\ Cardinality(Copies(e)') + Cardinality(Uploading(e)') <= Cardinality(Worker)
                    /\ IsFiniteSet(Copies(e)')
  BY DEF RowsInv, RowsPerFile
<1>4. /\ IsFiniteSet(Copies(e)) /\ IsFiniteSet(Uploading(e))
      /\ Cardinality(Copies(e)) + Cardinality(Uploading(e)) <= Cardinality(Worker)
      /\ Cardinality(Copies(e)) \in Nat /\ Cardinality(Uploading(e)) \in Nat
      /\ Cardinality(Worker) \in Nat
  BY UploadingFinite, FS_CardinalityType DEF RowsInv, RowsPerFile
<1>5. Uploading(e)' \subseteq Uploading(e) \ {w}
  BY <1>1 DEF Uploading, At
<1>6. CASE e = d
  <2>1. Copies(e)' \subseteq Copies(e) \cup {s}
    BY <1>2 DEF Copies, Live
  <2>2. /\ IsFiniteSet(Copies(e) \cup {s})
        /\ Cardinality(Copies(e) \cup {s}) = Cardinality(Copies(e)) + 1
    BY <1>3, <1>4, FS_AddElement
  <2>3. /\ IsFiniteSet(Uploading(e) \ {w})
        /\ Cardinality(Uploading(e) \ {w}) = Cardinality(Uploading(e)) - 1
    BY <1>3, <1>4, <1>6, FS_RemoveElement
  <2>4. /\ IsFiniteSet(Copies(e)') /\ Cardinality(Copies(e)') <= Cardinality(Copies(e)) + 1
        /\ IsFiniteSet(Uploading(e)')
        /\ Cardinality(Uploading(e)') <= Cardinality(Uploading(e)) - 1
    BY <1>5, <2>1, <2>2, <2>3, FS_Subset
  <2>5. Cardinality(Copies(e)') \in Nat /\ Cardinality(Uploading(e)') \in Nat
    BY <2>4, FS_CardinalityType
  <2> QED BY <1>4, <2>4, <2>5
<1>7. CASE e # d
  <2>1. Copies(e)' \subseteq Copies(e) /\ Uploading(e)' \subseteq Uploading(e)
    BY <1>2, <1>5, <1>7 DEF Copies, Live
  <2>2. /\ IsFiniteSet(Copies(e)') /\ Cardinality(Copies(e)') <= Cardinality(Copies(e))
        /\ IsFiniteSet(Uploading(e)') /\ Cardinality(Uploading(e)') <= Cardinality(Uploading(e))
    BY <1>4, <2>1, FS_Subset
  <2>3. Cardinality(Copies(e)') \in Nat /\ Cardinality(Uploading(e)') \in Nat
    BY <2>2, FS_CardinalityType
  <2> QED BY <1>4, <2>2, <2>3
<1> QED BY <1>6, <1>7

-----------------------------------------------------------------------------
(* The theorems *)

LEMMA InitSources == Init => SourcesInv /\ RowsInv
<1> SUFFICES ASSUME Init PROVE SourcesInv /\ RowsInv
  OBVIOUS
<1>1. /\ \A s \in Source : row[s].status = "new" /\ batches[s] = NoBatch
      /\ stored = {}
      /\ \A w \in Worker : handler[w].op = "idle" /\ Src(w) = None
  BY DEF Init, NoRow, Idle, Src
<1>2. Alone /\ Known
  BY <1>1 DEF Alone, Known, At, Live
<1>3. Good
  BY <1>1, NoneAssumption DEF Good, Rested
<1>4. RowsInv
  <2>1. \A d \in File : Copies(d) = {} /\ Uploading(d) = {}
    BY <1>1 DEF Copies, Uploading, Live, At
  <2>2. IsFiniteSet({}) /\ Cardinality({}) = 0 /\ Cardinality(Worker) \in Nat
    BY WorkerAssumption, FS_EmptySet, FS_CardinalityType
  <2>3. \A d \in File : /\ Cardinality(Copies(d)) = 0 /\ Cardinality(Uploading(d)) = 0
                        /\ IsFiniteSet(Copies(d))
    BY <2>1, <2>2
  <2> QED BY <2>2, <2>3 DEF RowsInv, RowsPerFile
<1> QED BY <1>2, <1>3, <1>4, InitType DEF SourcesInv

LEMMA StepSources == SourcesInv /\ RowsInv /\ TypeInv' /\ [Next]_vars => SourcesInv' /\ RowsInv'
<1> SUFFICES ASSUME SourcesInv, RowsInv, TypeInv', [Next]_vars PROVE SourcesInv' /\ RowsInv'
  OBVIOUS
<1>1. TypeInv
  BY DEF SourcesInv
<1>2. NoMore => RowsInv'
  BY NoMoreRows
<1>3. ASSUME NEW w \in Worker, SourceRequest(w) \/ FolderRequest(w) \/ SearchRequest(w)
      PROVE  SourcesInv' /\ RowsInv'
  <2>1. UploadRequest(w) => RowsInv'
    BY <1>1, UploadBeginRows DEF UploadRequest
  <2> QED BY <1>2, <1>3, <2>1, RequestsKeep
<1>4. ASSUME NEW w \in Worker, Step(w) PROVE SourcesInv' /\ RowsInv'
  <2>1. ASSUME NEW s \in Source, UploadInsert(w, s) PROVE SourcesInv' /\ RowsInv'
    BY <1>1, <2>1, UploadInsertKeeps, UploadInsertRows
  <2> QED
    BY <1>2, <1>4, <2>1, IndexKeeps, UploadKeeps, PatchKeeps, ReindexKeeps, DeleteKeeps,
       SwitchSearchKeeps
       DEF Step
<1>5. ASSUME NEW w \in Worker, RequestFails(w) \/ Restart(w) PROVE SourcesInv' /\ RowsInv'
  BY <1>2, <1>5, FailureKeeps
<1>6. CASE FolderStep
  <2>1. ASSUME NEW f \in Folder, FolderCreate(f) PROVE SourcesInv' /\ NoMore
    BY <2>1, StillKeeps DEF FolderCreate, Histories
  <2> QED BY <1>2, <1>6, <2>1, FolderDeleteKeeps DEF FolderStep
<1>7. CASE CacheExpires \/ UNCHANGED vars
  BY <1>2, <1>7, StillKeeps DEF CacheExpires, vars
<1> QED BY <1>3, <1>4, <1>5, <1>6, <1>7 DEF Next

\* The invariant itself.
THEOREM SourcesHold == Spec => [](SourcesInv /\ RowsInv)
<1>1. SourcesInv => TypeInv
  BY DEF SourcesInv
<1> QED
  BY <1>1, InitSources, StepSources, InitType, StepType, PTL DEF Spec

\* A source that reads indexed, on which nothing works and which nothing has
\* disturbed, has its text in the chunks exactly once, in the folder it is
\* listed in, and its original in the storage: index_text, the moves between
\* folders, the reindexings and the except clauses after each of their
\* requests leave no other end.
THEOREM IndexedWhole == Spec => []IndexedIsWhole
<1>1. SourcesInv => IndexedIsWhole
  BY DEF SourcesInv, Good, Rested, Whole, TextOf, IndexedIsWhole
<1> QED BY <1>1, SourcesHold, PTL

\* The storage holds no original without a row, unless the handler that
\* deletes it is still at work or was disturbed.
THEOREM OriginalsKept == Spec => []OriginalsOwned
<1>1. ASSUME SourcesInv, NEW s \in stored, s \notin disturbed, ~Live(s)
      PROVE  \E w \in Worker : At(w, "delete", "original") /\ Src(w) = s
  <2>1. s \in Source
    BY <1>1 DEF SourcesInv, TypeInv, TypeOK
  <2>2. PICK w \in Worker : Src(w) = s /\ Progress(w)
    BY <1>1, <2>1 DEF SourcesInv, Good, Rested, Busy, Src
  <2> QED BY <1>1, <2>2 DEF Progress, At
<1>2. SourcesInv => OriginalsOwned
  BY <1>1 DEF OriginalsOwned
<1> QED BY <1>2, SourcesHold, PTL

\* A file has at most as many rows as requests were handled at the same time:
\* only uploads that all looked for its checksum before the first of them
\* inserted it can register it again.
THEOREM RowsBounded == Spec => []RowsPerFile
<1>1. RowsInv => RowsPerFile
  BY DEF RowsInv
<1> QED BY <1>1, SourcesHold, PTL

-----------------------------------------------------------------------------
(* The cached answer.  A handler that changed what readers may be shown     *)
(* owes the cache a clear; when nobody does, the answer is known to be old  *)
(* or may be shown.  A search under way is an answer already.               *)

\* The chunks of a source may be shown, or there are none.
Obeys(s) == batches[s].places = {} \/ \E p \in batches[s].places : Shown(p)

Owes(v) ==
    \/ At(v, "patch", "clear") \/ At(v, "switch", "clear") \/ At(v, "reindex", "clear")
    \/ At(v, "reindex", "done")
Owed == \E v \in Worker : Owes(v)

\* An answer that names the sources in found, and whether it is known to be old.
Stands(found, old) == old \/ Owed \/ \A s \in found \ disturbed : Obeys(s)

InUse(s) == s \in cache \/ \E v \in Worker : s \in handler[v].found

\* Handlers that will give a new source its first chunks.
Founds(v) ==
    /\ handler[v].op \in {"create", "upload"}
    /\ handler[v].stage \in {"store", "accept", "extract", "chunk", "embed", "insert"}

FolderInv ==
    /\ \A v \in Worker : handler[v].op # "search" => handler[v].found = {}
    /\ \A s \in Source : row[s].status = "new" => ~InUse(s)
    /\ \A v \in Worker : Founds(v) /\ Src(v) \notin disturbed => ~InUse(Src(v))
    /\ Stands(cache, muddied)
    /\ \A v \in Worker : Stands(handler[v].found, handler[v].overtaken)

\* A step that answers nothing and forgets no disturbance.
Quiet ==
    /\ cache' = cache /\ (muddied => muddied') /\ disturbed \subseteq disturbed'
    /\ \A s \in Source : row'[s].status = "new" => row[s].status = "new"
    /\ \A v \in Worker :
         \/ SameWork(handler'[v], handler[v])
         \/ /\ handler'[v].found = {}
            /\ Founds(v)' =>
                 \/ Founds(v) /\ handler'[v].source = handler[v].source
                 \/ Src(v)' \in Source /\ row[Src(v)'].status = "new"

\* Every answer is known to be old.
Spoiled == muddied /\ \A v \in Worker : handler[v].overtaken \/ handler[v].found = {}

LEMMA QuietKeeps ==
  ASSUME FolderInv, Quiet,
         Owed => Owed' \/ Spoiled',
         \/ Owed' \/ Spoiled'
         \/ \A s : InUse(s) /\ s \notin disturbed' /\ Obeys(s) => Obeys(s)'
  PROVE  FolderInv'
<1>1. \A v \in Worker : handler'[v].found \subseteq handler[v].found
  BY DEF Quiet, SameWork
<1>2. \A s : InUse(s)' => InUse(s)
  BY <1>1 DEF Quiet, InUse
<1>3. \A v \in Worker : handler'[v].op # "search" => handler'[v].found = {}
  BY DEF Quiet, SameWork, FolderInv
<1>4. \A s \in Source : row'[s].status = "new" => ~InUse(s)'
  BY <1>2 DEF Quiet, FolderInv
<1>5. ASSUME NEW v \in Worker, Founds(v)', Src(v)' \notin disturbed' PROVE ~InUse(Src(v)')
  <2>1. Src(v)' \notin disturbed
    BY <1>5 DEF Quiet
  <2>2. CASE Founds(v) /\ Src(v)' = Src(v)
    BY <2>1, <2>2 DEF FolderInv
  <2>3. CASE Src(v)' \in Source /\ row[Src(v)'].status = "new"
    BY <2>3 DEF FolderInv
  <2> QED BY <1>5, <2>2, <2>3 DEF Quiet, SameWork, Founds, Src
<1>6. ASSUME NEW X, NEW Y, NEW old, NEW new, X \subseteq Y, \A s \in Y : InUse(s),
             old => new \/ X = {}, Stands(Y, old), Spoiled' => new \/ X = {}
      PROVE  new \/ Owed' \/ \A s \in X \ disturbed' : Obeys(s)'
  BY <1>6 DEF Stands, Quiet
<1>7. muddied' \/ Owed' \/ \A s \in cache' \ disturbed' : Obeys(s)'
  <2>1. Stands(cache, muddied) /\ \A s \in cache : InUse(s)
    BY DEF FolderInv, InUse
  <2>2. cache' \subseteq cache /\ (muddied => muddied')
    BY DEF Quiet
  <2> QED BY <1>6, <2>1, <2>2 DEF Spoiled
<1>8. ASSUME NEW v \in Worker
      PROVE  handler'[v].overtaken \/ Owed' \/ \A s \in handler'[v].found \ disturbed' : Obeys(s)'
  <2>1. Stands(handler[v].found, handler[v].overtaken) /\ \A s \in handler[v].found : InUse(s)
    BY DEF FolderInv, InUse
  <2>2. handler[v].overtaken => handler'[v].overtaken \/ handler'[v].found = {}
    BY DEF Quiet, SameWork
  <2>3. Spoiled' => handler'[v].overtaken \/ handler'[v].found = {}
    BY DEF Spoiled
  <2> QED BY <1>1, <1>6, <2>1, <2>2, <2>3
<1>9. \A v \in Worker : Founds(v)' /\ Src(v)' \notin disturbed' => ~InUse(Src(v))'
  BY <1>2, <1>5 DEF InUse
<1> QED BY <1>3, <1>4, <1>7, <1>8, <1>9 DEF FolderInv, Stands

\* The same for the steps of one handler.
Works(w) ==
    /\ handler'[w].found = {}
    /\ \A v \in Worker \ {w} : SameWork(handler'[v], handler[v])

LEMMA WorkKeeps ==
  ASSUME FolderInv, NEW w \in Worker, Works(w),
         cache' = cache, muddied => muddied', disturbed \subseteq disturbed',
         \A s \in Source : row'[s].status = "new" => row[s].status = "new",
         Founds(w)' => \/ Founds(w) /\ Src(w)' = Src(w)
                       \/ Src(w)' \in Source /\ row[Src(w)'].status = "new",
         Owes(w) => Owes(w)',
         Owes(w)' \/ \A s : InUse(s) /\ s \notin disturbed' /\ Obeys(s) => Obeys(s)'
  PROVE  FolderInv'
<1>1. \A v \in Worker : Owes(v) => Owes(v)'
  BY DEF Works, SameWork, Owes, At
<1>2. Quiet
  BY DEF Quiet, Works, Src
<1> QED BY <1>1, <1>2, QuietKeeps DEF Owed

LEMMA GotoWorks ==
  ASSUME TypeInv, FolderInv, NEW w \in Worker, NEW st, Goto(w, st), handler[w].op # "search"
  PROVE  /\ Works(w) /\ Src(w)' = Src(w)
         /\ handler'[w].op = handler[w].op /\ handler'[w].stage = st
<1>1. handler[w] \in Handler /\ handler[w].found = {}
  BY DEF TypeInv, TypeOK, FolderInv
<1>2. handler'[w] = [handler[w] EXCEPT !.stage = st] /\ \A v \in Worker \ {w} : handler'[v] = handler[v]
  BY DEF TypeInv, TypeOK, Goto
<1> QED BY <1>1, <1>2 DEF Works, SameWork, Src, Handler

LEMMA NewWorks ==
  ASSUME TypeInv, NEW w \in Worker, NEW h, handler' = [handler EXCEPT ![w] = h], h.found = {}
  PROVE  Works(w) /\ handler'[w] = h
BY DEF TypeInv, TypeOK, Works, SameWork

LEMMA FinishWorks ==
  ASSUME TypeInv, NEW w \in Worker, Finish(w)
  PROVE  Works(w) /\ ~Founds(w)' /\ ~Owes(w)'
<1>1. Idle.found = {} /\ Idle.op = "idle"
  BY DEF Idle
<1>2. Works(w) /\ handler'[w] = Idle
  BY <1>1, NewWorks DEF Finish
<1> QED BY <1>1, <1>2 DEF Founds, Owes, At

\* Steps that change neither the chunks nor the folders.
LEMMA SameObeys ==
  ASSUME UNCHANGED <<batches, folders>>
  PROVE  \A s : Obeys(s)' <=> Obeys(s)
BY DEF Obeys, Shown

LEMMA StatusKeepsNew ==
  ASSUME TypeInv, NEW s, NEW new \in Status \ {"new"}, WriteStatus(s, new)
  PROVE  \A t \in Source : row'[t].status = "new" => row[t].status = "new"
BY WriteStatusType

LEMMA IndexObeys ==
  ASSUME TypeInv, FolderInv, NEW w \in Worker,
         \/ IndexChunk(w) \/ IndexEmbed(w) \/ IndexInsert(w) \/ IndexDone(w)
         \/ IndexFailed(w) \/ MarkFailed(w)
  PROVE  FolderInv'
<1> USE DEF Histories
<1>1. /\ handler[w].op \in {"create", "upload", "reindex"}
      /\ UNCHANGED <<folders, cache, disturbed, muddied>>
  BY DEF IndexChunk, IndexEmbed, IndexInsert, IndexDone, IndexFailed, MarkFailed, Indexes
<1>2. \A s \in Source : row'[s].status = "new" => row[s].status = "new"
  <2>1. {"chunking", "embedding", "indexed", "failed"} \subseteq Status \ {"new"}
    BY DEF Status, Working
  <2> QED
    BY <2>1, StatusKeepsNew
       DEF IndexChunk, IndexEmbed, IndexInsert, IndexDone, IndexFailed, MarkFailed
<1>3. CASE IndexInsert(w)
  <2>1. handler[w].stage = "insert" /\ ~Owes(w)
    BY <1>3 DEF IndexInsert, Owes, At
  <2>2. CASE Goto(w, "unindexed") /\ UNCHANGED batches
    <3>1. Works(w) /\ ~Founds(w)'
      BY <1>1, <2>2, GotoWorks DEF Founds
    <3> QED BY <1>1, <1>2, <2>1, <2>2, <3>1, SameObeys, WorkKeeps
  <2>3. CASE /\ Goto(w, "done")
             /\ \/ UNCHANGED batches
                \/ batches' = [batches EXCEPT ![Src(w)] =
                     [number |-> @.number + 1, places |-> @.places \cup {handler[w].folder}]]
    <3>1. /\ Works(w) /\ handler'[w].stage = "done" /\ handler'[w].op = handler[w].op
          /\ ~Founds(w)'
      BY <1>1, <2>3, GotoWorks DEF Founds
    <3>2. \A s \in Source \ {Src(w)} : Obeys(s) => Obeys(s)'
      BY <1>1, <2>3 DEF Obeys, Shown, TypeInv, TypeOK
    <3>3. CASE handler[w].op = "reindex"
      BY <1>1, <1>2, <2>1, <3>1, <3>3, WorkKeeps DEF Owes, At
    <3>4. CASE handler[w].op # "reindex"
      <4>1. Src(w) \notin disturbed => ~InUse(Src(w))
        BY <1>1, <2>1, <3>4 DEF FolderInv, Founds
      <4>2. \A s : InUse(s) => s \in Source
        <5>1. \A v \in Worker : handler[v] \in Handler
          BY DEF TypeInv, TypeOK
        <5> QED BY <5>1 DEF InUse, TypeInv, TypeOK, Handler
      <4> QED BY <1>1, <1>2, <2>1, <3>1, <3>2, <4>1, <4>2, WorkKeeps
    <3> QED BY <3>3, <3>4
  <2> QED BY <1>3, <2>2, <2>3 DEF IndexInsert
<1>4. CASE IndexDone(w)
  <2>1. UNCHANGED batches /\ handler[w].stage = "done"
    BY <1>4 DEF IndexDone
  <2>2. CASE handler[w].op = "reindex"
    <3>1. Works(w) /\ At(w, "reindex", "clear")' /\ ~Founds(w)'
      BY <1>1, <1>4, <2>2, GotoWorks DEF IndexDone, At, Founds
    <3> QED BY <1>1, <1>2, <3>1, WorkKeeps DEF Owes
  <2>3. CASE handler[w].op # "reindex"
    <3>1. Works(w) /\ ~Founds(w)' /\ ~Owes(w)
      BY <1>1, <1>4, <2>3, FinishWorks DEF IndexDone, Owes, At
    <3> QED BY <1>1, <1>2, <2>1, <3>1, SameObeys, WorkKeeps
  <2> QED BY <2>2, <2>3
<1>5. CASE IndexChunk(w) \/ IndexEmbed(w)
  <2>1. /\ UNCHANGED batches /\ handler[w].stage \in {"chunk", "embed"}
        /\ Goto(w, "embed") \/ Goto(w, "insert")
    BY <1>5 DEF IndexChunk, IndexEmbed
  <2>2. /\ Works(w) /\ Src(w)' = Src(w) /\ handler'[w].op = handler[w].op
        /\ (Founds(w)' => Founds(w)) /\ ~Owes(w)
    BY <1>1, <2>1, GotoWorks DEF Founds, Owes, At
  <2> QED BY <1>1, <1>2, <2>1, <2>2, SameObeys, WorkKeeps
<1>6. CASE IndexFailed(w) \/ MarkFailed(w)
  <2>1. /\ UNCHANGED batches /\ handler[w].stage \in {"unindexed", "failed"}
        /\ Finish(w) \/ Goto(w, "failed")
    BY <1>6 DEF IndexFailed, MarkFailed
  <2>2. Works(w) /\ ~Founds(w)' /\ ~Owes(w)
    BY <1>1, <2>1, GotoWorks, FinishWorks DEF Founds, Owes, At
  <2> QED BY <1>1, <1>2, <2>1, <2>2, SameObeys, WorkKeeps
<1> QED BY <1>3, <1>4, <1>5, <1>6

\* upload_knowledge and its background task, with or without a new row.
LEMMA UploadObeys ==
  ASSUME TypeInv, FolderInv, NEW w \in Worker,
         \/ \E s \in Source : UploadInsert(w, s)
         \/ UploadStore(w) \/ UploadAccept(w) \/ UploadExtract(w)
  PROVE  FolderInv'
<1> USE DEF Histories
<1>1. /\ handler[w].op = "upload" /\ ~Owes(w)
      /\ UNCHANGED <<batches, folders, cache, disturbed, muddied>>
  BY DEF UploadInsert, UploadStore, UploadAccept, UploadExtract, At, Owes
<1>2. \A s : Obeys(s) => Obeys(s)'
  BY <1>1, SameObeys
<1>3. ASSUME NEW s \in Source, UploadInsert(w, s) PROVE FolderInv'
  <2> DEFINE h == [handler[w] EXCEPT !.stage = "store", !.source = s]
  <2>1. handler[w] \in Handler /\ handler[w].found = {}
    BY <1>1 DEF TypeInv, TypeOK, FolderInv
  <2>2. h.found = {} /\ h.source = s
    BY <2>1 DEF Handler
  <2>3. handler' = [handler EXCEPT ![w] = h] /\ row[s].status = "new"
    BY <1>3 DEF UploadInsert, TypeInv, TypeOK
  <2> HIDE DEF h
  <2>4. Works(w) /\ Src(w)' = s
    BY <2>2, <2>3, NewWorks DEF Src
  <2>5. \A t \in Source : row'[t].status = "new" => row[t].status = "new"
    BY <1>3, <2>3 DEF UploadInsert, TypeInv, TypeOK
  <2> QED BY <1>1, <1>2, <2>3, <2>4, <2>5, WorkKeeps
<1>4. CASE UploadStore(w) \/ UploadAccept(w) \/ UploadExtract(w)
  <2>1. \A s \in Source : row'[s].status = "new" => row[s].status = "new"
    <3>1. {"processing", "extracting"} \subseteq Status \ {"new"}
      BY DEF Status, Working
    <3> QED
      BY <1>4, <3>1, StatusKeepsNew DEF UploadStore, UploadAccept, UploadExtract
  <2>2. /\ handler[w].stage \in {"store", "accept", "extract"}
        /\ \E st \in {"accept", "extract", "chunk", "failed"} : Goto(w, st)
    BY <1>4 DEF UploadStore, UploadAccept, UploadExtract, At
  <2>3. Works(w) /\ Founds(w) /\ Src(w)' = Src(w)
    BY <1>1, <2>2, GotoWorks DEF Founds
  <2> QED BY <1>1, <1>2, <2>1, <2>3, WorkKeeps
<1> QED BY <1>3, <1>4

\* clear_semantic_cache, by a handler that becomes h.
LEMMA ClearedObeys ==
  ASSUME TypeInv, FolderInv, NEW w \in Worker, NEW h \in KnownHandler,
         Cleared([handler EXCEPT ![w] = h]), h.found = {},
         h.op \notin {"create", "upload"},
         UNCHANGED <<row, disturbed>>
  PROVE  FolderInv'
<1> DEFINE g == [handler EXCEPT ![w] = h]
<1>1. /\ g[w] = h /\ \A v \in Worker \ {w} : g[v] = handler[v]
      /\ \A v \in Worker : g[v] \in Handler
  BY DEF TypeInv, KnownHandler
<1>2. handler' = Overtaken(g) /\ cache' = {}
  BY DEF Cleared
<1> HIDE DEF g
<1>3. ASSUME NEW v \in Worker
      PROVE  /\ handler'[v].op = g[v].op /\ handler'[v].stage = g[v].stage
             /\ handler'[v].source = g[v].source /\ handler'[v].found = g[v].found
             /\ handler'[v].overtaken = (g[v].op = "search")
  <2>1. handler'[v] = [g[v] EXCEPT !.overtaken = (g[v].op = "search")]
    BY <1>2 DEF Overtaken
  <2> QED BY <1>1, <2>1 DEF Handler
<1>4. \A v \in Worker : g[v].op # "search" => g[v].found = {}
  BY <1>1 DEF FolderInv
<1>5. \A v \in Worker : handler'[v].op # "search" => handler'[v].found = {}
  BY <1>3, <1>4
<1>6. \A v \in Worker : handler'[v].found \subseteq handler[v].found
  BY <1>1, <1>3
<1>7. \A s : InUse(s)' => InUse(s)
  BY <1>2, <1>6 DEF InUse
<1>8. ASSUME NEW v \in Worker, Founds(v)' PROVE Founds(v) /\ Src(v)' = Src(v)
  BY <1>1, <1>3, <1>8 DEF Founds, Src
<1>9. Stands(cache, muddied)'
  BY <1>2 DEF Stands
<1>10. ASSUME NEW v \in Worker PROVE Stands(handler[v].found, handler[v].overtaken)'
  BY <1>3, <1>4 DEF Stands
<1>11. \A v \in Worker : Founds(v)' /\ Src(v)' \notin disturbed' => ~InUse(Src(v))'
  BY <1>7, <1>8 DEF FolderInv, InUse
<1> QED BY <1>5, <1>7, <1>9, <1>10, <1>11 DEF FolderInv

\* patch_knowledge_source: a move owes the cache a clear from the moment the
\* chunks are in the new folder.
LEMMA PatchObeys ==
  ASSUME TypeInv, FolderInv, NEW w \in Worker,
         PatchUpdate(w) \/ PatchChunks(w) \/ PatchClear(w) \/ PatchEdit(w)
  PROVE  FolderInv'
<1> USE DEF Histories
<1>1. handler[w] \in Handler /\ handler[w].op = "patch" /\ handler[w].found = {}
  BY DEF PatchUpdate, PatchChunks, PatchClear, PatchEdit, At, TypeInv, TypeOK, FolderInv
<1>2. CASE PatchUpdate(w)
  <2>1. /\ UNCHANGED <<batches, folders, cache, muddied>> /\ handler[w].stage = "update"
        /\ Finish(w) \/ (\E st \in {"chunks", "edit"} : Goto(w, st))
        /\ disturbed \subseteq disturbed'
    BY <1>2 DEF PatchUpdate, At
  <2>2. \A s \in Source : row'[s].status = "new" => row[s].status = "new"
    BY <1>1, <1>2 DEF PatchUpdate, Changed, TypeInv, TypeOK, Handler, Changes
  <2>3. Works(w) /\ ~Founds(w)' /\ ~Owes(w)
    BY <1>1, <2>1, GotoWorks, FinishWorks DEF Founds, Owes, At
  <2> QED BY <2>1, <2>2, <2>3, SameObeys, WorkKeeps
<1>3. CASE PatchChunks(w)
  <2>1. Works(w) /\ At(w, "patch", "clear")' /\ ~Founds(w)'
    BY <1>1, <1>3, GotoWorks DEF PatchChunks, At, Founds
  <2> QED BY <1>3, <2>1, WorkKeeps DEF PatchChunks, Owes
<1>4. CASE PatchClear(w)
  <2> DEFINE h == IF handler[w].edit THEN [handler[w] EXCEPT !.stage = "edit"] ELSE Idle
  <2>1. handler[w] \in KnownHandler /\ Src(w) \in Source /\ "edit" \in Stage
    BY <1>1, <1>4, SourceKnown DEF PatchClear, At, Nameless, TypeInv, Stage
  <2>2. h \in KnownHandler /\ h.found = {} /\ h.op \notin {"create", "upload"}
    <3>1. CASE handler[w].edit
      BY <1>1, <2>1, <3>1 DEF KnownHandler, Handler, Src
    <3>2. CASE ~handler[w].edit
      BY <3>2, IdleHandler DEF Idle
    <3> QED BY <3>1, <3>2
  <2>3. Cleared([handler EXCEPT ![w] = h]) /\ UNCHANGED <<row, disturbed>>
    BY <1>4 DEF PatchClear, TypeInv, TypeOK
  <2> HIDE DEF h
  <2> QED BY <2>2, <2>3, ClearedObeys
<1>5. CASE PatchEdit(w)
  <2>1. Works(w) /\ ~Founds(w)' /\ ~Owes(w)
    BY <1>5, FinishWorks DEF PatchEdit, Owes, At
  <2>2. \A s \in Source : row'[s].status = "new" => row[s].status = "new"
    BY <1>5, StatusKeepsNew DEF PatchEdit, Status, Working
  <2> QED BY <1>5, <2>1, <2>2, SameObeys, WorkKeeps DEF PatchEdit
<1> QED BY <1>2, <1>3, <1>4, <1>5

LEMMA IdleClearedObeys ==
  ASSUME TypeInv, FolderInv, NEW w \in Worker, Cleared([handler EXCEPT ![w] = Idle]),
         UNCHANGED <<row, disturbed>>
  PROVE  FolderInv'
<1>1. Idle.found = {} /\ Idle.op \notin {"create", "upload"}
  BY DEF Idle
<1> QED BY <1>1, IdleHandler, ClearedObeys

\* reindex_knowledge and delete_knowledge, once begun: what is deleted may be
\* named by an answer, but is not shown.
LEMMA ReindexDeleteObeys ==
  ASSUME TypeInv, FolderInv, NEW w \in Worker,
         \/ ReindexMark(w) \/ ReindexLoad(w) \/ ReindexDelete(w) \/ ReindexClear(w)
         \/ DeleteRow(w) \/ DeleteOriginal(w)
  PROVE  FolderInv'
<1> USE DEF Histories
<1>1. CASE ReindexClear(w)
  BY <1>1, IdleClearedObeys DEF ReindexClear
<1>2. CASE ReindexMark(w) \/ ReindexLoad(w) \/ DeleteOriginal(w)
  <2>1. /\ UNCHANGED <<batches, folders, cache, disturbed, muddied>>
        /\ handler[w].op \in {"reindex", "delete"}
        /\ handler[w].stage \in {"mark", "load", "original"}
        /\ Finish(w) \/ (\E st \in {"load", "delete", "failed"} : Goto(w, st))
    BY <1>2 DEF ReindexMark, ReindexLoad, DeleteOriginal, At
  <2>2. Works(w) /\ ~Founds(w)' /\ ~Owes(w)
    BY <2>1, GotoWorks, FinishWorks DEF Founds, Owes, At
  <2>3. \A s \in Source : row'[s].status = "new" => row[s].status = "new"
    <3>1. "indexing" \in Status \ {"new"}
      BY DEF Status, Working
    <3> QED BY <1>2, <3>1, StatusKeepsNew DEF ReindexMark, ReindexLoad, DeleteOriginal
  <2> QED BY <2>1, <2>2, <2>3, SameObeys, WorkKeeps
<1>3. CASE ReindexDelete(w) \/ DeleteRow(w)
  <2>1. /\ UNCHANGED <<folders, cache, disturbed, muddied>>
        /\ batches' = [batches EXCEPT ![Src(w)] = NoBatch]
        /\ handler[w].op \in {"reindex", "delete"} /\ handler[w].stage \in {"delete", "row"}
        /\ Finish(w) \/ (\E st \in {"chunk", "original"} : Goto(w, st))
    BY <1>3 DEF ReindexDelete, DeleteRow, At
  <2>2. Works(w) /\ ~Founds(w)' /\ ~Owes(w)
    BY <2>1, GotoWorks, FinishWorks DEF Founds, Owes, At
  <2>3. \A s \in Source : row'[s].status = "new" => row[s].status = "new"
    BY <1>3 DEF ReindexDelete, DeleteRow, NoRow, TypeInv, TypeOK
  <2>4. \A s \in Source : Obeys(s) => Obeys(s)'
    BY <2>1 DEF Obeys, Shown, NoBatch, TypeInv, TypeOK
  <2>5. \A s : InUse(s) => s \in Source
    <3>1. \A v \in Worker : handler[v] \in Handler
      BY DEF TypeInv, TypeOK
    <3> QED BY <3>1 DEF InUse, TypeInv, TypeOK, Handler
  <2> QED BY <2>1, <2>2, <2>3, <2>4, <2>5, WorkKeeps
<1> QED BY <1>1, <1>2, <1>3

\* The requests that do not answer; of these, a reindexing that makes up for
\* earlier disturbances makes the answers that name its source old.
LEMMA RequestsObey ==
  ASSUME TypeInv, FolderInv, NEW w \in Worker, SourceRequest(w) \/ FolderRequest(w)
  PROVE  FolderInv'
<1> USE DEF Histories
<1>1. ASSUME NEW h, handler' = [handler EXCEPT ![w] = h], handler[w] = Idle, h.found = {},
             \/ h.op \notin {"create", "upload"} \/ h.stage = "row"
             \/ h.source \in Source /\ row[h.source].status = "new",
             \A s \in Source : row'[s].status = "new" => row[s].status = "new",
             UNCHANGED <<batches, cache, muddied>>, disturbed \subseteq disturbed',
             folders' = folders \/ (h.op = "switch" /\ h.stage = "clear")
      PROVE  FolderInv'
  <2>1. Works(w) /\ handler'[w] = h
    BY <1>1, NewWorks
  <2>2. ~Owes(w)
    BY <1>1 DEF Owes, At, Idle
  <2>3. Founds(w)' => Src(w)' \in Source /\ row[Src(w)'].status = "new"
    BY <1>1, <2>1 DEF Founds, Src
  <2>4. Owes(w)' \/ \A s : InUse(s) /\ s \notin disturbed' /\ Obeys(s) => Obeys(s)'
    BY <1>1, <2>1, SameObeys DEF Owes, At
  <2> QED BY <1>1, <2>1, <2>2, <2>3, <2>4, WorkKeeps
<1>2. ASSUME NEW s \in Source, NEW p \in Place, CreateInsert(w, s, p) PROVE FolderInv'
  <2> DEFINE h == [Begin("create", "chunk", s) EXCEPT !.folder = p]
  <2>1. h.found = {} /\ h.source = s
    BY DEF Begin, Idle
  <2>2. \A t \in Source : row'[t].status = "new" => row[t].status = "new"
    BY <1>2 DEF CreateInsert, NoRow, TypeInv, TypeOK
  <2> QED BY <1>1, <1>2, <2>1, <2>2 DEF CreateInsert
<1>3. ASSUME NEW d \in File, NEW p \in Place, UploadBegin(w, d, p) PROVE FolderInv'
  <2> DEFINE h == [Begin("upload", "row", None) EXCEPT !.folder = p, !.file = d]
  <2>1. h.found = {} /\ h.stage = "row"
    BY DEF Begin, Idle
  <2> QED BY <1>1, <1>3, <2>1 DEF UploadBegin
<1>4. ASSUME NEW s \in Source, NEW change \in Changes, NEW p \in Place, NEW edit \in BOOLEAN,
             PatchBegin(w, s, change, p, edit)
      PROVE  FolderInv'
  <2> DEFINE h == [Begin("patch", IF change = "nothing" THEN "edit" ELSE "update", s) EXCEPT
                     !.folder = p, !.change = change, !.edit = edit]
  <2>1. h.found = {} /\ h.op = "patch"
    BY DEF Begin, Idle
  <2> QED BY <1>1, <1>4, <2>1 DEF PatchBegin, Overlaps
<1>5. ASSUME NEW s \in Source, DeleteBegin(w, s) PROVE FolderInv'
  <2> DEFINE h == [Begin("delete", "row", s) EXCEPT !.file = row[s].file]
  <2>1. h.found = {} /\ h.op = "delete"
    BY DEF Begin, Idle
  <2> QED BY <1>1, <1>5, <2>1 DEF DeleteBegin, Overlaps
<1>6. ASSUME NEW f \in Folder, NEW to \in {"active", "inactive"}, FolderSwitch(w, f, to)
      PROVE  FolderInv'
  <2> DEFINE h == [Idle EXCEPT !.op = "switch", !.stage = "clear"]
  <2>1. h.found = {} /\ h.op = "switch" /\ h.stage = "clear"
    BY DEF Idle
  <2> QED BY <1>1, <1>6, <2>1 DEF FolderSwitch
<1>7. ASSUME NEW s \in Source, ReindexBegin(w, s) PROVE FolderInv'
  <2> DEFINE h == [Begin("reindex", "mark", s) EXCEPT !.folder = row[s].folder,
                                                      !.file = row[s].file]
  <2>1. h.op = "reindex" /\ h.found = {}
    BY DEF Begin, Idle
  <2>2. handler' = Outdated([handler EXCEPT ![w] = h], s) /\ handler[w] = Idle
    BY <1>7 DEF ReindexBegin
  <2>3. h \in KnownHandler
    <3>1. row[s].folder \in Place /\ row[s].file \in File \cup {None}
      BY DEF TypeInv, TypeOK
    <3>2. "reindex" \in Op /\ "mark" \in Stage /\ "nothing" \in Changes
      BY DEF Op, Stage, Changes
    <3> QED BY <3>1, <3>2, BeginType
  <2>4. ~Owes(w)
    BY <2>2, IdleIs DEF Owes, At
  <2> HIDE DEF h
  <2>5. /\ \A v \in Worker \ {w} : SameWork(handler'[v], handler[v])
        /\ handler'[w].op = "reindex" /\ handler'[w].found = {}
        /\ \A v \in Worker \ {w} :
             s \in disturbed /\ s \in handler[v].found => handler'[v].overtaken
    BY <2>1, <2>2, <2>3, OutdatedFrame DEF SameWork
  <2>6. /\ UNCHANGED <<row, batches, folders, cache>>
        /\ muddied' = (muddied \/ s \in disturbed \cap cache)
        /\ disturbed \subseteq disturbed' \cup {s} /\ (Busy(s) => s \in disturbed')
    BY <1>7 DEF ReindexBegin
  <2>7. \A v \in Worker : Owes(v) => Owes(v)'
    BY <2>4, <2>5 DEF SameWork, Owes, At
  <2>8. /\ Owed => Owed'
        /\ \A t : Obeys(t)' <=> Obeys(t)
        /\ \A t : InUse(t)' => InUse(t)
    BY <2>5, <2>6, <2>7, SameObeys DEF Owed, InUse, SameWork
  <2>9. Stands(cache, muddied)'
    BY <2>6, <2>8 DEF Stands, FolderInv
  <2>10. ASSUME NEW v \in Worker PROVE Stands(handler[v].found, handler[v].overtaken)'
    BY <2>5, <2>6, <2>8 DEF Stands, FolderInv, SameWork
  <2>11. ASSUME NEW v \in Worker, Founds(v)', Src(v)' \notin disturbed' PROVE ~InUse(Src(v))'
    <3>1. v # w /\ Founds(v) /\ Src(v)' = Src(v)
      BY <2>5, <2>11 DEF Founds, Src, SameWork
    <3>2. Src(v) \notin disturbed
      BY <2>6, <2>11, <3>1 DEF Busy, Src
    <3> QED BY <2>8, <3>1, <3>2 DEF FolderInv, InUse
  <2>12. \A v \in Worker : handler'[v].op # "search" => handler'[v].found = {}
    BY <2>5 DEF SameWork, FolderInv
  <2>13. \A t \in Source : row'[t].status = "new" => ~InUse(t)'
    BY <2>6, <2>8 DEF FolderInv
  <2> QED BY <2>9, <2>10, <2>11, <2>12, <2>13 DEF FolderInv
<1> QED
  BY <1>2, <1>3, <1>4, <1>5, <1>6, <1>7
     DEF SourceRequest, CreateRequest, UploadRequest, PatchRequest, ReindexRequest,
         DeleteRequest, FolderRequest

\* retrieve_knowledge: a search answers with what may be shown, and names no
\* source that has still to get its first chunks.
LEMMA SearchObeys ==
  ASSUME SourcesInv, FolderInv, NEW w \in Worker,
         SearchRequest(w) \/ SearchStore(w) \/ FolderSwitchClear(w)
  PROVE  FolderInv'
<1> USE DEF Histories
<1>1. TypeInv /\ Good
  BY DEF SourcesInv
<1>2. CASE FolderSwitchClear(w)
  BY <1>1, <1>2, IdleClearedObeys DEF FolderSwitchClear
<1>3. CASE SearchStore(w)
  <2>1. /\ cache' = handler[w].found /\ muddied' = handler[w].overtaken
        /\ UNCHANGED <<row, batches, folders, disturbed>> /\ ~Owes(w)
    BY <1>3 DEF SearchStore, Owes, At
  <2>2. Works(w) /\ ~Founds(w)'
    BY <1>1, <1>3, FinishWorks DEF SearchStore
  <2>3. \A v \in Worker : SameWork(handler'[v], handler[v]) \/ v = w
    BY <2>2 DEF Works
  <2>4. \A v \in Worker : Owes(v) => Owes(v)'
    BY <2>1, <2>3 DEF SameWork, Owes, At
  <2>5. \A t : (Obeys(t)' <=> Obeys(t)) /\ (InUse(t)' => InUse(t))
    BY <2>1, <2>2, <2>3, SameObeys DEF InUse, SameWork, Works
  <2>6. Owed => Owed'
    BY <2>4 DEF Owed
  <2>7. Stands(cache, muddied)'
    BY <2>1, <2>5, <2>6 DEF Stands, FolderInv
  <2>8. ASSUME NEW v \in Worker
        PROVE  /\ Stands(handler[v].found, handler[v].overtaken)'
               /\ handler'[v].op # "search" => handler'[v].found = {}
    BY <2>1, <2>2, <2>3, <2>5, <2>6 DEF Stands, FolderInv, SameWork, Works
  <2>9. ASSUME NEW v \in Worker, Founds(v)', Src(v)' \notin disturbed' PROVE ~InUse(Src(v))'
    BY <2>1, <2>2, <2>3, <2>5, <2>9 DEF FolderInv, Founds, Src, SameWork, InUse
  <2> QED BY <2>1, <2>5, <2>7, <2>8, <2>9 DEF FolderInv
<1>4. ASSUME NEW found \in SUBSET Source, Search(w, found) PROVE FolderInv'
  <2> DEFINE h == [Idle EXCEPT !.op = "search", !.stage = "store", !.found = found]
  <2>1. h.op = "search" /\ h.stage = "store" /\ h.found = found
    BY DEF Idle
  <2>2. /\ handler' = [handler EXCEPT ![w] = h] /\ handler[w] = Idle
        /\ UNCHANGED <<row, batches, folders, cache, disturbed, muddied>>
        /\ \A s \in found : s \in Searchable
    BY <1>4 DEF Search
  <2> HIDE DEF h
  <2>3. handler'[w] = h /\ \A v \in Worker \ {w} : handler'[v] = handler[v]
    BY <1>1, <2>2 DEF TypeInv, TypeOK
  <2>4. ~Owes(w)
    BY <2>2, IdleIs DEF Owes, At
  <2>5. \A v \in Worker : Owes(v) => Owes(v)'
    BY <2>3, <2>4 DEF Owes, At
  <2>6. /\ Owed => Owed'
        /\ \A t : Obeys(t)' <=> Obeys(t)
        /\ \A t : InUse(t)' => InUse(t) \/ t \in found
    BY <2>1, <2>2, <2>3, <2>5, SameObeys DEF Owed, InUse
  <2>7. \A s \in found : s \in Source /\ row[s].status = "indexed" /\ Obeys(s)
    BY <2>2 DEF Searchable, Obeys
  <2>8. \A v \in Worker : handler'[v].op # "search" => handler'[v].found = {}
    BY <2>1, <2>3 DEF FolderInv
  <2>9. \A s \in Source : row'[s].status = "new" => ~InUse(s)'
    BY <2>2, <2>6, <2>7 DEF FolderInv
  <2>10. ASSUME NEW v \in Worker, Founds(v)', Src(v)' \notin disturbed' PROVE ~InUse(Src(v))'
    <3>1. v # w /\ Founds(v) /\ Src(v)' = Src(v) /\ Src(v) \notin disturbed
      BY <2>1, <2>2, <2>3, <2>10 DEF Founds, Src
    <3>2. ASSUME Src(v) \in found PROVE FALSE
      <4>1. Progress(v) /\ row[Src(v)].status = "indexed"
        BY <1>1, <2>7, <3>1, <3>2 DEF Good
      <4> QED BY <3>1, <4>1 DEF Progress, Founds, Indexes
    <3> QED BY <2>6, <3>1, <3>2 DEF FolderInv, InUse
  <2>11. Stands(cache, muddied)'
    BY <2>2, <2>6 DEF Stands, FolderInv
  <2>12. ASSUME NEW v \in Worker PROVE Stands(handler[v].found, handler[v].overtaken)'
    BY <2>1, <2>2, <2>3, <2>6, <2>7 DEF Stands, FolderInv
  <2> QED BY <2>8, <2>9, <2>10, <2>11, <2>12 DEF FolderInv
<1> QED BY <1>2, <1>3, <1>4 DEF SearchRequest

\* A failed or forgotten clear leaves every answer known to be old.
LEMMA FailureObeys ==
  ASSUME TypeInv, FolderInv, NEW w \in Worker, RequestFails(w) \/ Restart(w)
  PROVE  FolderInv'
<1>1. /\ UNCHANGED <<row, batches, folders, cache>> /\ disturbed \subseteq disturbed'
  BY DEF RequestFails, Restart, LeavesOff
<1>2. ASSUME NEW h \in KnownHandler, h.found = {}, NotCleared(w, [handler EXCEPT ![w] = h]),
             h.op \notin {"create", "upload"} \/ h.stage \in {"unindexed", "failed"}
      PROVE  FolderInv'
  <2> DEFINE g == [handler EXCEPT ![w] = h]
  <2>1. /\ g[w] = h /\ \A v \in Worker \ {w} : g[v] = handler[v]
        /\ \A v \in Worker : g[v] \in Handler
    BY DEF TypeInv, KnownHandler
  <2>2. \/ muddied' = TRUE /\ handler' = Overtaken(g)
        \/ muddied' = muddied /\ handler' = g /\ ~Owes(w)
    BY <1>2 DEF NotCleared, Owes, At
  <2> HIDE DEF g
  <2>3. \A v \in Worker : g[v].op # "search" => g[v].found = {}
    BY <1>2, <2>1 DEF FolderInv
  <2>4. CASE muddied' = TRUE /\ handler' = Overtaken(g)
    <3>1. ASSUME NEW v \in Worker
          PROVE  /\ handler'[v].op = g[v].op /\ handler'[v].stage = g[v].stage
                 /\ handler'[v].source = g[v].source /\ handler'[v].found = g[v].found
                 /\ handler'[v].folder = g[v].folder /\ handler'[v].file = g[v].file
                 /\ handler'[v].overtaken = (g[v].op = "search")
      <4>1. handler'[v] = [g[v] EXCEPT !.overtaken = (g[v].op = "search")]
        BY <2>4 DEF Overtaken
      <4> QED BY <2>1, <4>1 DEF Handler
    <3>2. Spoiled'
      BY <2>3, <2>4, <3>1 DEF Spoiled
    <3>3. ASSUME NEW v \in Worker
          PROVE  \/ SameWork(handler'[v], handler[v])
                 \/ /\ handler'[v].found = {}
                    /\ Founds(v)' => Founds(v) /\ handler'[v].source = handler[v].source
      <4>1. CASE v = w
        BY <1>2, <2>1, <3>1, <4>1 DEF Founds
      <4>2. CASE v # w /\ handler[v].op = "search"
        BY <2>1, <3>1, <4>2 DEF SameWork
      <4>3. CASE v # w /\ handler[v].op # "search"
        BY <2>1, <2>3, <3>1, <4>3 DEF Founds
      <4> QED BY <4>1, <4>2, <4>3
    <3>4. Quiet
      BY <1>1, <2>4, <3>3 DEF Quiet
    <3> QED BY <3>2, <3>4, QuietKeeps
  <2>5. CASE muddied' = muddied /\ handler' = g /\ ~Owes(w)
    <3>1. Works(w) /\ ~Founds(w)'
      BY <1>2, <2>1, <2>5 DEF Works, SameWork, Founds
    <3> QED BY <1>1, <2>5, <3>1, SameObeys, WorkKeeps
  <2> QED BY <2>2, <2>4, <2>5
<1>3. CASE LeavesOff(w)
  <2>1. Idle.found = {} /\ Idle.op \notin {"create", "upload"}
    BY DEF Idle
  <2> QED BY <1>2, <1>3, <2>1, IdleHandler DEF LeavesOff
<1>4. CASE /\ Indexes(w) /\ AfterFailure(w) # "raised"
           /\ NotCleared(w, [handler EXCEPT ![w].stage = AfterFailure(w)])
  <2> DEFINE h == [handler[w] EXCEPT !.stage = AfterFailure(w)]
  <2>1. /\ handler[w] \in Handler /\ handler[w].found = {} /\ Src(w) \in Source
        /\ AfterFailure(w) \in {"unindexed", "failed"}
    BY <1>4, FailedFrame, SourceKnown DEF TypeInv, TypeOK, FolderInv, Indexes
  <2>2. h \in KnownHandler /\ h.found = {} /\ h.stage \in {"unindexed", "failed"}
    BY <2>1 DEF KnownHandler, Handler, Stage, Src
  <2>3. NotCleared(w, [handler EXCEPT ![w] = h])
    BY <1>4 DEF TypeInv, TypeOK
  <2> HIDE DEF h
  <2> QED BY <1>2, <2>2, <2>3
<1> QED BY <1>3, <1>4 DEF RequestFails, Restart

\* The deletion of a folder moves its chunks where everybody sees them.
LEMMA FoldersObey ==
  ASSUME TypeInv, FolderInv, FolderStep \/ CacheExpires \/ UNCHANGED vars
  PROVE  FolderInv'
<1> USE DEF Histories
<1>1. CASE CacheExpires
  <2>1. /\ UNCHANGED <<row, batches, folders, handler, disturbed>> /\ cache' = {}
    BY <1>1 DEF CacheExpires
  <2>2. \A t : (Obeys(t)' <=> Obeys(t)) /\ (InUse(t)' => InUse(t))
    BY <2>1, SameObeys DEF InUse
  <2>3. (Owed' <=> Owed) /\ \A v \in Worker : Founds(v)' <=> Founds(v)
    BY <2>1 DEF Owed, Owes, At, Founds
  <2>4. \A v \in Worker : Src(v)' = Src(v)
    BY <2>1 DEF Src
  <2>5. \A v \in Worker : Founds(v)' /\ Src(v)' \notin disturbed' => ~InUse(Src(v))'
    BY <2>1, <2>2, <2>3, <2>4 DEF FolderInv, InUse
  <2> QED BY <2>1, <2>2, <2>3, <2>5 DEF FolderInv, Stands
<1>2. ASSUME handler' = handler, cache' = cache, muddied' = muddied,
             disturbed \subseteq disturbed',
             \A s \in Source : row'[s].status = "new" => row[s].status = "new",
             \A s : InUse(s) /\ Obeys(s) => Obeys(s)'
      PROVE  FolderInv'
  <2>1. Quiet
    BY <1>2 DEF Quiet, SameWork
  <2>2. Owed => Owed'
    BY <1>2 DEF Owed, Owes, At
  <2> QED BY <1>2, <2>1, <2>2, QuietKeeps
<1>3. \A s : InUse(s) => s \in Source
  <2>1. \A v \in Worker : handler[v] \in Handler
    BY DEF TypeInv, TypeOK
  <2> QED BY <2>1 DEF InUse, TypeInv, TypeOK, Handler
<1>4. ASSUME NEW f \in Folder, FolderCreate(f) PROVE FolderInv'
  <2>1. \A s \in Source : Obeys(s) => Obeys(s)'
    BY <1>4 DEF FolderCreate, Obeys, Shown, TypeInv, TypeOK
  <2> QED BY <1>2, <1>3, <1>4, <2>1 DEF FolderCreate
<1>5. ASSUME NEW f \in Folder, FolderDelete(f) PROVE FolderInv'
  <2>1. \A s \in Source : row'[s].status = row[s].status
    BY <1>5 DEF FolderDelete, TypeInv, TypeOK
  <2>2. ASSUME NEW s \in Source, Obeys(s) PROVE Obeys(s)'
    <3>1. CASE f \in batches[s].places
      <4>1. None \in batches'[s].places
        BY <1>5, <3>1 DEF FolderDelete, TypeInv, TypeOK
      <4> QED BY <4>1 DEF Obeys, Shown
    <3>2. CASE f \notin batches[s].places
      <4>1. batches'[s] = batches[s] /\ \A p \in batches[s].places : Shown(p) => Shown(p)'
        BY <1>5, <3>2 DEF FolderDelete, Shown, TypeInv, TypeOK
      <4> QED BY <2>2, <4>1 DEF Obeys
    <3> QED BY <3>1, <3>2
  <2> QED BY <1>2, <1>3, <1>5, <2>1, <2>2 DEF FolderDelete
<1>6. CASE UNCHANGED vars
  BY <1>2, <1>6, SameObeys DEF vars
<1> QED BY <1>1, <1>4, <1>5, <1>6 DEF FolderStep

LEMMA StepObeys == SourcesInv /\ FolderInv /\ [Next]_vars => FolderInv'
<1> SUFFICES ASSUME SourcesInv, FolderInv, [Next]_vars PROVE FolderInv'
  OBVIOUS
<1>1. TypeInv
  BY DEF SourcesInv
<1>2. ASSUME NEW w \in Worker, Step(w) PROVE FolderInv'
  BY <1>1, <1>2, IndexObeys, UploadObeys, PatchObeys, ReindexDeleteObeys, SearchObeys DEF Step
<1> QED
  BY <1>1, <1>2, RequestsObey, SearchObeys, FailureObeys, FoldersObey DEF Next

LEMMA InitObeys == Init => FolderInv
BY DEF Init, FolderInv, Idle, InUse, Founds, Stands

\* Once a folder was switched off, or a source moved into one that is, no
\* question is answered from the cache with its chunks, unless the answer is
\* known to be older than the clear or a handler has still to clear: however
\* searches, moves, reindexings, switches and deletions of folders interleave,
\* at each of their requests and failures.
THEOREM AnswersObeyFolders == Spec => []CacheObeysFolders
<1>1. SourcesInv /\ FolderInv => CacheObeysFolders
  BY DEF FolderInv, Stands, Owed, Owes, Obeys, Clearing, At, CacheObeysFolders
<1> QED
  BY <1>1, InitObeys, StepObeys, SourcesHold, PTL DEF Spec
=============================================================================
