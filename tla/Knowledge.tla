------------------------------ MODULE Knowledge ------------------------------
(***************************************************************************)
(* Knowledge sources: app/api/knowledge.py with rag/indexer.py, the folders*)
(* of app/api/knowledge_folders.py, and the semantic cache through which   *)
(* rag/retriever.py answers from the chunks.  Every request on a table, on *)
(* the storage or on Redis is a step; a request may fail, and a restart    *)
(* loses the handlers under way.  The chunks that one call of index_text   *)
(* inserts are a batch.  All questions are similar ones, so the cache has  *)
(* one entry; every search is over all folders, as all callers ask.        *)
(***************************************************************************)
EXTENDS Integers, FiniteSets

CONSTANTS
    Worker,         \* requests handled at the same time
    Source,         \* identities of knowledge_sources, never used again
    Blank,          \* those among them that are created by hand without text
    File,           \* contents of uploaded files, told apart by their checksum
    Folder,         \* identities of knowledge_folders, never used again
    None

ASSUME NoneAssumption == None \notin Source \cup File \cup Folder
ASSUME WorkerAssumption == IsFiniteSet(Worker)
ASSUME BlankAssumption == Blank \subseteq Source

VARIABLES
    row,            \* knowledge_sources
    batches,        \* knowledge_chunks: how many batches a source has, and the
                    \* folder_ids among them
    folders,        \* knowledge_folders
    stored,         \* sources whose original is in the storage
    cache,          \* the sources of the cached answer, {} without an entry
    handler,        \* what each worker is doing
    disturbed,      \* history: sources two requests worked on at once, whose
                    \* status was set by hand, or one of whose writes was lost
    abandoned,      \* history: sources whose handler was lost, or raised with
                    \* no except clause, before it wrote a final status
    muddied         \* history: the entry may be older than the last clear, or
                    \* names a source that was disturbed

vars == <<row, batches, folders, stored, cache, handler, disturbed, abandoned, muddied>>
Histories == <<disturbed, abandoned, muddied>>

Working == {"uploading", "extracting", "processing", "chunking", "embedding", "indexing"}
Status == Working \cup {"new", "indexed", "failed", "deleted"}
Place == Folder \cup {None}

NoRow == [status |-> "new", file |-> None, folder |-> None, referenced |-> TRUE]
NoBatch == [number |-> 0, places |-> {}]
Idle == [op |-> "idle", stage |-> "idle", source |-> None, folder |-> None, file |-> None,
         change |-> "nothing", edit |-> FALSE, found |-> {}, overtaken |-> FALSE]

Init ==
    /\ row = [s \in Source |-> NoRow]
    /\ batches = [s \in Source |-> NoBatch]
    /\ folders = [f \in Folder |-> "new"]
    /\ stored = {}
    /\ cache = {}
    /\ handler = [w \in Worker |-> Idle]
    /\ disturbed = {} /\ abandoned = {} /\ muddied = FALSE

Live(s) == row[s].status \notin {"new", "deleted"}
Busy(s) == \E w \in Worker : handler[w].source = s

At(w, op, stage) == handler[w].op = op /\ handler[w].stage = stage
Goto(w, stage) == handler' = [handler EXCEPT ![w].stage = stage]
Finish(w) == handler' = [handler EXCEPT ![w] = Idle]
Src(w) == handler[w].source

Begin(op, stage, s) ==
    [Idle EXCEPT !.op = op, !.stage = stage, !.source = s]

\* update_source_status: a deleted row is not found and nothing is written.
WriteStatus(s, new) == row' = [row EXCEPT ![s].status = IF Live(s) THEN new ELSE @]

-----------------------------------------------------------------------------
(* index_text, from the status it writes to the one it leaves *)

Indexes(w) == handler[w].op \in {"create", "upload", "reindex"}

\* The handler has still to write a final status, after one it wrote.
Pending(w) == Indexes(w) /\ handler[w].stage \notin {"row", "mark", "clear"}

IndexChunk(w) ==
    /\ Indexes(w) /\ handler[w].stage = "chunk"
    /\ WriteStatus(Src(w), "chunking") /\ Goto(w, "embed")
    /\ UNCHANGED <<batches, folders, stored, cache, Histories>>

IndexEmbed(w) ==
    /\ Indexes(w) /\ handler[w].stage = "embed"
    /\ WriteStatus(Src(w), "embedding") /\ Goto(w, "insert")
    /\ UNCHANGED <<batches, folders, stored, cache, Histories>>

\* The foreign key refuses the chunks of a deleted source; a text without any
\* has no rows to insert, and goes on.
IndexInsert(w) ==
    /\ Indexes(w) /\ handler[w].stage = "insert"
    /\ \/ /\ Src(w) \in Blank
          /\ Goto(w, "done")
          /\ UNCHANGED batches
       \/ /\ Src(w) \notin Blank /\ Live(Src(w))
          /\ batches' = [batches EXCEPT ![Src(w)] =
               [number |-> @.number + 1, places |-> @.places \cup {handler[w].folder}]]
          /\ Goto(w, "done")
       \/ /\ Src(w) \notin Blank /\ ~Live(Src(w))
          /\ Goto(w, "unindexed")
          /\ UNCHANGED batches
    /\ UNCHANGED <<row, folders, stored, cache, Histories>>

IndexDone(w) ==
    /\ Indexes(w) /\ handler[w].stage = "done"
    /\ WriteStatus(Src(w), "indexed")
    /\ IF handler[w].op = "reindex" THEN Goto(w, "clear") ELSE Finish(w)
    /\ UNCHANGED <<batches, folders, stored, cache, Histories>>

\* The except clause of index_text, which raises again, ...
IndexFailed(w) ==
    /\ Indexes(w) /\ handler[w].stage = "unindexed"
    /\ WriteStatus(Src(w), "failed")
    /\ IF handler[w].op = "create" THEN Finish(w) ELSE Goto(w, "failed")
    /\ UNCHANGED <<batches, folders, stored, cache, Histories>>

\* Variant: the except clause of reindex_knowledge does not touch the status.
MarkFailedUploads(w) ==
    /\ Indexes(w) /\ handler[w].stage = "failed"
    /\ IF handler[w].op = "upload" THEN WriteStatus(Src(w), "failed") ELSE UNCHANGED row
    /\ Finish(w)
    /\ UNCHANGED <<batches, folders, stored, cache, Histories>>

\* ... and those of upload_knowledge, _background_index and reindex_knowledge.
MarkFailed(w) ==
    /\ Indexes(w) /\ handler[w].stage = "failed"
    /\ WriteStatus(Src(w), "failed") /\ Finish(w)
    /\ UNCHANGED <<batches, folders, stored, cache, Histories>>

-----------------------------------------------------------------------------
(* create_knowledge, which takes any content for a text, a blank one included *)

\* Nobody looks whether the folder of a new source still exists.
Given(p) == p # None => folders[p] # "new"

CreateInsert(w, s, p) ==
    /\ handler[w] = Idle /\ row[s].status = "new" /\ Given(p)
    /\ row' = [row EXCEPT ![s] = [NoRow EXCEPT !.status = "processing", !.folder = p]]
    /\ handler' = [handler EXCEPT ![w] = [Begin("create", "chunk", s) EXCEPT !.folder = p]]
    /\ UNCHANGED <<batches, folders, stored, cache, Histories>>

-----------------------------------------------------------------------------
(* upload_knowledge and its background task *)

Registered(d) == \E s \in Source : Live(s) /\ row[s].file = d

\* Variant: a file whose indexing failed may be uploaded again.
UploadBeginFailedAgain(w, d, p) ==
    /\ handler[w] = Idle
    /\ \A s \in Source : row[s].file = d => row[s].status = "failed"
    /\ handler' = [handler EXCEPT ![w] = [Begin("upload", "row", None) EXCEPT
                                            !.folder = p, !.file = d]]
    /\ UNCHANGED <<row, batches, folders, stored, cache, Histories>>

\* A registered checksum is refused with 409.
UploadBegin(w, d, p) ==
    /\ handler[w] = Idle /\ ~Registered(d) /\ Given(p)
    /\ handler' = [handler EXCEPT ![w] = [Begin("upload", "row", None) EXCEPT
                                            !.folder = p, !.file = d]]
    /\ UNCHANGED <<row, batches, folders, stored, cache, Histories>>

UploadInsert(w, s) ==
    /\ At(w, "upload", "row") /\ row[s].status = "new" /\ s \notin Blank
    /\ row' = [row EXCEPT ![s] = [NoRow EXCEPT !.status = "uploading",
                                    !.file = handler[w].file, !.folder = handler[w].folder]]
    /\ handler' = [handler EXCEPT ![w].stage = "store", ![w].source = s]
    /\ UNCHANGED <<batches, folders, stored, cache, Histories>>

UploadStore(w) ==
    /\ At(w, "upload", "store")
    /\ stored' = stored \cup {Src(w)} /\ Goto(w, "accept")
    /\ UNCHANGED <<row, batches, folders, cache, Histories>>

UploadAccept(w) ==
    /\ At(w, "upload", "accept")
    /\ WriteStatus(Src(w), "processing") /\ Goto(w, "extract")
    /\ UNCHANGED <<batches, folders, stored, cache, Histories>>

\* _background_index; a file without text fails.
UploadExtract(w) ==
    /\ At(w, "upload", "extract")
    /\ WriteStatus(Src(w), "extracting")
    /\ Goto(w, "chunk") \/ Goto(w, "failed")
    /\ UNCHANGED <<batches, folders, stored, cache, Histories>>

-----------------------------------------------------------------------------
(* patch_knowledge_source *)

Changes == {"nothing", "folder", "refer", "ignore", "indexed"}

\* Two requests on one source disturb it.
Overlaps(s) == disturbed' = IF Busy(s) THEN disturbed \cup {s} ELSE disturbed

\* The source and the folder exist when they are looked up.
PatchBegin(w, s, change, p, edit) ==
    /\ handler[w] = Idle /\ Live(s)
    /\ change # "nothing" \/ edit
    /\ p # None => change = "folder" /\ folders[p] \in {"active", "inactive"}
    /\ handler' = [handler EXCEPT ![w] =
         [Begin("patch", IF change = "nothing" THEN "edit" ELSE "update", s) EXCEPT
            !.folder = p, !.change = change, !.edit = edit]]
    /\ Overlaps(s)
    /\ UNCHANGED <<row, batches, folders, stored, cache, abandoned, muddied>>

Changed(r, change, p) ==
    CASE change = "folder"  -> [r EXCEPT !.folder = p]
      [] change = "refer"   -> [r EXCEPT !.referenced = TRUE]
      [] change = "ignore"  -> [r EXCEPT !.referenced = FALSE]
      [] change = "indexed" -> [r EXCEPT !.status = "indexed"]
      [] change = "nothing" -> r

PatchUpdate(w) ==
    /\ At(w, "patch", "update")
    /\ LET h == handler[w] IN
       \/ /\ ~Live(Src(w))
          /\ Finish(w) /\ UNCHANGED <<row, disturbed>>
       \/ /\ Live(Src(w))
          /\ row' = [row EXCEPT ![Src(w)] = Changed(@, h.change, h.folder)]
          /\ disturbed' = IF h.change = "indexed" THEN disturbed \cup {Src(w)} ELSE disturbed
          /\ IF h.change = "folder" THEN Goto(w, "chunks")
             ELSE IF h.edit THEN Goto(w, "edit") ELSE Finish(w)
    /\ UNCHANGED <<batches, folders, stored, cache, abandoned, muddied>>

\* Variant: the chunks stay in the folder they were indexed for.
PatchChunksStay(w) ==
    /\ At(w, "patch", "chunks")
    /\ Goto(w, "clear")
    /\ UNCHANGED <<row, batches, folders, stored, cache, Histories>>

\* update_knowledge_chunks_folder
PatchChunks(w) ==
    /\ At(w, "patch", "chunks")
    /\ batches' = [batches EXCEPT ![Src(w)].places =
                     IF @ = {} THEN {} ELSE {handler[w].folder}]
    /\ Goto(w, "clear")
    /\ UNCHANGED <<row, folders, stored, cache, Histories>>

\* The searches among the handlers h will store a result older than now.
Overtaken(h) == [w \in Worker |-> [h[w] EXCEPT !.overtaken = (h[w].op = "search")]]

\* Variant: clear_semantic_cache misses the entry.
ClearedNothing(h) == UNCHANGED cache /\ muddied' = FALSE /\ handler' = Overtaken(h)

\* clear_semantic_cache, by one of the handlers, which become h.
Cleared(h) == cache' = {} /\ muddied' = FALSE /\ handler' = Overtaken(h)

PatchClear(w) ==
    /\ At(w, "patch", "clear")
    /\ Cleared([handler EXCEPT ![w] = IF @.edit THEN [@ EXCEPT !.stage = "edit"] ELSE Idle])
    /\ UNCHANGED <<row, batches, folders, stored, disturbed, abandoned>>

\* With content: delete_knowledge_chunks is not imported in this handler, so
\* the NameError ends it after the status was written.
PatchEdit(w) ==
    /\ At(w, "patch", "edit")
    /\ WriteStatus(Src(w), "indexing") /\ Finish(w)
    /\ abandoned' = abandoned \cup {Src(w)}
    /\ UNCHANGED <<batches, folders, stored, cache, disturbed, muddied>>

-----------------------------------------------------------------------------
(* reindex_knowledge *)

\* The results of the searches among the handlers h that name s, if it was
\* disturbed, count as older than now.
Outdated(h, s) ==
    [v \in Worker |-> [h[v] EXCEPT !.overtaken = @ \/ s \in disturbed \cap h[v].found]]

\* A reindexing that nothing else overlaps makes up for earlier disturbances.
ReindexBegin(w, s) ==
    /\ handler[w] = Idle /\ Live(s)
    /\ handler' = Outdated([handler EXCEPT ![w] =
         [Begin("reindex", "mark", s) EXCEPT !.folder = row[s].folder, !.file = row[s].file]], s)
    /\ disturbed' = IF Busy(s) THEN disturbed \cup {s} ELSE disturbed \ {s}
    /\ muddied' = (muddied \/ s \in disturbed \cap cache)
    /\ UNCHANGED <<row, batches, folders, stored, cache, abandoned>>

ReindexMark(w) ==
    /\ At(w, "reindex", "mark")
    /\ WriteStatus(Src(w), "indexing") /\ Goto(w, "load")
    /\ abandoned' = abandoned \ {Src(w)}
    /\ UNCHANGED <<batches, folders, stored, cache, disturbed, muddied>>

\* The original is downloaded and extracted; without text it is an error, and
\* so is a source without an original, for which pre_chunked is never bound.
ReindexLoad(w) ==
    /\ At(w, "reindex", "load")
    /\ \/ /\ handler[w].file # None /\ Src(w) \in stored
          /\ Goto(w, "delete") \/ Goto(w, "failed")
       \/ /\ handler[w].file = None \/ Src(w) \notin stored
          /\ Goto(w, "failed")
    /\ UNCHANGED <<row, batches, folders, stored, cache, Histories>>

ReindexDelete(w) ==
    /\ At(w, "reindex", "delete")
    /\ batches' = [batches EXCEPT ![Src(w)] = NoBatch]
    /\ Goto(w, "chunk")
    /\ UNCHANGED <<row, folders, stored, cache, Histories>>

ReindexClear(w) ==
    /\ At(w, "reindex", "clear")
    /\ Cleared([handler EXCEPT ![w] = Idle])
    /\ UNCHANGED <<row, batches, folders, stored, disturbed, abandoned>>

-----------------------------------------------------------------------------
(* delete_knowledge: the row, with its chunks by cascade, then the original *)

DeleteBegin(w, s) ==
    /\ handler[w] = Idle /\ Live(s)
    /\ handler' = [handler EXCEPT ![w] = [Begin("delete", "row", s) EXCEPT
                                            !.file = row[s].file]]
    /\ Overlaps(s)
    /\ UNCHANGED <<row, batches, folders, stored, cache, abandoned, muddied>>

\* Variant: the original is not deleted with the row.
DeleteRowOnly(w) ==
    /\ At(w, "delete", "row")
    /\ row' = [row EXCEPT ![Src(w)] = [NoRow EXCEPT !.status = "deleted"]]
    /\ batches' = [batches EXCEPT ![Src(w)] = NoBatch]
    /\ Finish(w)
    /\ UNCHANGED <<folders, stored, cache, Histories>>

DeleteRow(w) ==
    /\ At(w, "delete", "row")
    /\ row' = [row EXCEPT ![Src(w)] = [NoRow EXCEPT !.status = "deleted"]]
    /\ batches' = [batches EXCEPT ![Src(w)] = NoBatch]
    /\ IF Live(Src(w)) /\ handler[w].file # None THEN Goto(w, "original") ELSE Finish(w)
    /\ UNCHANGED <<folders, stored, cache, Histories>>

DeleteOriginal(w) ==
    /\ At(w, "delete", "original")
    /\ stored' = stored \ {Src(w)} /\ Finish(w)
    /\ UNCHANGED <<row, batches, folders, cache, Histories>>

-----------------------------------------------------------------------------
(* knowledge_folders.py *)

FolderCreate(f) ==
    /\ folders[f] = "new"
    /\ folders' = [folders EXCEPT ![f] = "active"]
    /\ UNCHANGED <<row, batches, stored, cache, handler, Histories>>

Exists(f) == folders[f] \in {"active", "inactive"}

FolderSwitch(w, f, to) ==
    /\ handler[w] = Idle /\ Exists(f)
    /\ folders' = [folders EXCEPT ![f] = to]
    /\ handler' = [handler EXCEPT ![w] = [Idle EXCEPT !.op = "switch", !.stage = "clear"]]
    /\ UNCHANGED <<row, batches, stored, cache, Histories>>

FolderSwitchClear(w) ==
    /\ At(w, "switch", "clear")
    /\ Cleared([handler EXCEPT ![w] = Idle])
    /\ UNCHANGED <<row, batches, folders, stored, disturbed, abandoned>>

\* delete_knowledge_folder_keep_contents: one transaction.  It disturbs the
\* handlers that hold the folder's identity.
FolderDelete(f) ==
    /\ Exists(f)
    /\ folders' = [folders EXCEPT ![f] = "deleted"]
    /\ row' = [s \in Source |-> IF row[s].folder = f THEN [row[s] EXCEPT !.folder = None]
                                ELSE row[s]]
    /\ batches' = [s \in Source |->
                     IF f \in batches[s].places
                     THEN [batches[s] EXCEPT !.places = (@ \ {f}) \cup {None}]
                     ELSE batches[s]]
    /\ disturbed' = disturbed \cup {s \in Source : \E w \in Worker :
                                      handler[w].source = s /\ handler[w].folder = f}
    /\ UNCHANGED <<stored, cache, handler, abandoned, muddied>>

-----------------------------------------------------------------------------
(* retrieve_knowledge *)

Shown(p) == p = None \/ (p # None /\ folders[p] = "active")

\* The where clause of match_knowledge_chunks(_hybrid).
Searchable == {s \in Source : /\ row[s].status = "indexed" /\ row[s].referenced
                              /\ \E p \in batches[s].places : Shown(p)}

\* Without a usable entry the chunks are searched; thresholds and match_count
\* leave any part of the result.
Search(w, found) ==
    /\ handler[w] = Idle
    /\ found \subseteq Searchable /\ found # {}
    /\ handler' = [handler EXCEPT ![w] = [Idle EXCEPT !.op = "search", !.stage = "store",
                                            !.found = found]]
    /\ UNCHANGED <<row, batches, folders, stored, cache, Histories>>

\* _store_semantic_cache_background
SearchStore(w) ==
    /\ At(w, "search", "store")
    /\ cache' = handler[w].found /\ muddied' = handler[w].overtaken
    /\ Finish(w)
    /\ UNCHANGED <<row, batches, folders, stored, disturbed, abandoned>>

CacheExpires ==
    /\ cache # {}
    /\ cache' = {} /\ muddied' = FALSE
    /\ UNCHANGED <<row, batches, folders, stored, handler, disturbed, abandoned>>

-----------------------------------------------------------------------------
(* Failures *)

\* A clear that does not happen: what is cached, or about to be, may be stale.
NotCleared(w, h) ==
    IF handler[w].stage = "clear" \/ At(w, "reindex", "done")
    THEN muddied' = TRUE /\ handler' = Overtaken(h)
    ELSE UNCHANGED muddied /\ handler' = h

\* A handler that goes no further, and the writes it leaves undone.
LeavesOff(w) ==
    /\ disturbed' = IF handler[w].stage \in {"chunks", "mark", "original"}
                    THEN disturbed \cup {Src(w)} ELSE disturbed
    /\ abandoned' = IF Pending(w) THEN abandoned \cup {Src(w)} ELSE abandoned
    /\ NotCleared(w, [handler EXCEPT ![w] = Idle])

\* Where the except clauses of upload, reindex and index_text lead.
AfterFailure(w) ==
    CASE handler[w].stage \in {"chunk", "embed", "insert", "done"} -> "unindexed"
      [] handler[w].stage \in {"store", "accept", "extract", "load", "delete", "clear"} -> "failed"
      [] handler[w].stage = "unindexed" /\ handler[w].op # "create" -> "failed"
      [] OTHER -> "raised"

\* The request a handler is about to make fails.
RequestFails(w) ==
    /\ handler[w] # Idle
    /\ \/ /\ Indexes(w) /\ AfterFailure(w) # "raised"
          /\ NotCleared(w, [handler EXCEPT ![w].stage = AfterFailure(w)])
          /\ UNCHANGED <<disturbed, abandoned>>
       \/ /\ ~Indexes(w) \/ AfterFailure(w) = "raised"
          /\ LeavesOff(w)
    /\ UNCHANGED <<row, batches, folders, stored, cache>>

\* The process stops.
Restart(w) ==
    /\ handler[w] # Idle
    /\ LeavesOff(w)
    /\ UNCHANGED <<row, batches, folders, stored, cache>>

-----------------------------------------------------------------------------
CreateRequest(w) == \E s \in Source, p \in Place : CreateInsert(w, s, p)
UploadRequest(w) == \E d \in File, p \in Place : UploadBegin(w, d, p)
PatchRequest(w) ==
    \E s \in Source, change \in Changes, p \in Place, edit \in BOOLEAN :
        PatchBegin(w, s, change, p, edit)
ReindexRequest(w) == \E s \in Source : ReindexBegin(w, s)
DeleteRequest(w) == \E s \in Source : DeleteBegin(w, s)
FolderRequest(w) ==
    \E f \in Folder, to \in {"active", "inactive"} : FolderSwitch(w, f, to)
SearchRequest(w) == \E found \in SUBSET Source : Search(w, found)

Step(w) ==
    \/ IndexChunk(w) \/ IndexEmbed(w) \/ IndexInsert(w) \/ IndexDone(w)
    \/ IndexFailed(w) \/ MarkFailed(w)
    \/ (\E s \in Source : UploadInsert(w, s))
    \/ UploadStore(w) \/ UploadAccept(w) \/ UploadExtract(w)
    \/ PatchUpdate(w) \/ PatchChunks(w) \/ PatchClear(w) \/ PatchEdit(w)
    \/ ReindexMark(w) \/ ReindexLoad(w) \/ ReindexDelete(w) \/ ReindexClear(w)
    \/ DeleteRow(w) \/ DeleteOriginal(w)
    \/ FolderSwitchClear(w) \/ SearchStore(w)

SourceRequest(w) ==
    \/ CreateRequest(w) \/ UploadRequest(w) \/ PatchRequest(w)
    \/ ReindexRequest(w) \/ DeleteRequest(w)

FolderStep == \E f \in Folder : FolderCreate(f) \/ FolderDelete(f)

Next ==
    \/ \E w \in Worker : \/ SourceRequest(w) \/ FolderRequest(w) \/ SearchRequest(w)
                         \/ Step(w) \/ RequestFails(w) \/ Restart(w)
    \/ FolderStep
    \/ CacheExpires

Spec == Init /\ [][Next]_vars

-----------------------------------------------------------------------------
(* Properties *)

Op == {"idle", "create", "upload", "patch", "reindex", "delete", "switch", "search"}
Stage == {"idle", "chunk", "embed", "insert", "done", "unindexed", "failed", "row", "store",
          "accept", "extract", "update", "chunks", "clear", "edit", "mark", "load", "delete",
          "original"}

Handler == [op : Op, stage : Stage, source : Source \cup {None}, folder : Place,
            file : File \cup {None}, change : Changes, edit : BOOLEAN,
            found : SUBSET Source, overtaken : BOOLEAN]

TypeOK ==
    /\ row \in [Source -> [status : Status, file : File \cup {None}, folder : Place,
                           referenced : BOOLEAN]]
    /\ batches \in [Source -> [number : Nat, places : SUBSET Place]]
    /\ folders \in [Folder -> {"new", "active", "inactive", "deleted"}]
    /\ stored \subseteq Source
    /\ cache \subseteq Source
    /\ handler \in [Worker -> Handler]
    /\ disturbed \subseteq Source /\ abandoned \subseteq Source
    /\ muddied \in BOOLEAN

\* The status of a source reads "still working" only while a handler works on
\* it that will write another one; only a lost handler, and the edit that
\* raises, leave it behind.  However the handlers of one source interleave,
\* the last one to write leaves indexed or failed.  (A PATCH can also write
\* any status by hand; of those the module has only "indexed".)
WorkedOn ==
    \A s \in Source : row[s].status \in Working =>
        s \in abandoned \/ \E w \in Worker : Src(w) = s /\ Pending(w)

\* A source that reads indexed has its text in the chunks exactly once and in
\* the folder it is listed in, and a file has its original, so that what the
\* administrator sees is what is searched.  A source created with a blank
\* content reads indexed too, and has no chunk.  This takes one handler at a
\* time: the ones that overlap delete and insert independently of each other.
TextOf(s) ==
    IF s \in Blank THEN NoBatch ELSE [number |-> 1, places |-> {row[s].folder}]
IndexedIsWhole ==
    \A s \in Source \ disturbed : row[s].status = "indexed" /\ ~Busy(s) =>
        /\ batches[s] = TextOf(s)
        /\ row[s].file # None => s \in stored

\* A file is registered at most once for each upload that looked for its
\* checksum before another inserted it: no index makes the checksum unique.
Copies(d) == {s \in Source : Live(s) /\ row[s].file = d}
Uploading(d) == {w \in Worker : At(w, "upload", "row") /\ handler[w].file = d}
RowsPerFile ==
    \A d \in File : Cardinality(Copies(d)) + Cardinality(Uploading(d)) <= Cardinality(Worker)

\* No original outlives its row, unless the deletion overlapped the upload or
\* did not get so far.
OriginalsOwned ==
    \A s \in stored : Live(s) \/ s \in disturbed \/ \E w \in Worker : At(w, "delete", "original")
                                                                     /\ Src(w) = s

\* Once a folder was switched off, or a source moved into one that is, no
\* question is answered from the cache with its chunks: the clear reached the
\* entry, unless it was lost or a search under way stored an older result.
Clearing(w) == handler[w].op \in {"patch", "reindex", "switch"}
CacheObeysFolders ==
    muddied \/ (\E w \in Worker : Clearing(w))
            \/ \A s \in cache \ disturbed :
                 batches[s].places = {} \/ \E p \in batches[s].places : Shown(p)
=============================================================================
