---------------------------- MODULE VoicePipeline ----------------------------
(***************************************************************************)
(* One turn of a voice call over server-sent events:                       *)
(* stream_pipeline_voice_turn_events of app/services/voice_pipeline.py.    *)
(* The generator that writes the events and the tasks that synthesise the  *)
(* segments of the answer share one event loop: a step is what runs        *)
(* between two awaits (or yields).                                         *)
(***************************************************************************)
EXTENDS Integers, FiniteSets, Sequences, SequencesExt

CONSTANTS
    MaxSegments,        \* bound: segments of an answer
    TtsConcurrency      \* TTS_MAX_CONCURRENCY

ASSUME SegmentAssumption == MaxSegments \in Nat \ {0} /\ TtsConcurrency \in Nat \ {0}

VARIABLES
    sse,            \* where the generator is
    ttsTask,        \* the tasks that were created, one for each segment, in order
    audioQueue,     \* audio_queue: indices of synthesised segments
    pendingAudio,   \* pending_audio_events
    nextAudio,      \* next_audio_index_to_emit, counted from 1 here
    awaited,        \* tasks whose completion the last loop has seen
    buffered,       \* tts_buffer holds text
    answered,       \* answer_chunks holds text
    heardAudio      \* the audio events that were written

pipelineVars == <<sse, ttsTask, audioQueue, pendingAudio, nextAudio, awaited, buffered,
                  answered, heardAudio>>

SseStage == {"transcribe", "graph", "await", "done", "failing", "error", "gone"}
Ended == sse \in {"done", "error", "gone"}
TaskState == {"waiting", "synth", "put", "failed", "cancelled"}
Segment == DOMAIN ttsTask
Busy(i) == ttsTask[i] \in {"waiting", "synth"}

PipelineInit ==
    /\ sse = "transcribe"
    /\ ttsTask = <<>>
    /\ audioQueue = <<>>
    /\ pendingAudio = {}
    /\ nextAudio = 1
    /\ awaited = {}
    /\ buffered = FALSE
    /\ answered = FALSE
    /\ heardAudio = <<>>

-----------------------------------------------------------------------------
(* The tasks *)

\* asyncio.Semaphore wakes its waiters in the order they came.
SynthBegin(i) ==
    /\ ttsTask[i] = "waiting"
    /\ \A j \in 1 .. i - 1 : ttsTask[j] # "waiting"
    /\ Cardinality({j \in Segment : ttsTask[j] = "synth"}) < TtsConcurrency
    /\ ttsTask' = [ttsTask EXCEPT ![i] = "synth"]
    /\ UNCHANGED <<sse, audioQueue, pendingAudio, nextAudio, awaited, buffered, answered, heardAudio>>

SynthDone(i) ==
    /\ ttsTask[i] = "synth"
    /\ ttsTask' = [ttsTask EXCEPT ![i] = "put"]
    /\ audioQueue' = Append(audioQueue, i)
    /\ UNCHANGED <<sse, pendingAudio, nextAudio, awaited, buffered, answered, heardAudio>>

\* Variant: the segment is synthesised again.
SynthFailsRetries(i) ==
    /\ ttsTask[i] = "synth"
    /\ ttsTask' = [ttsTask EXCEPT ![i] = "waiting"]
    /\ UNCHANGED <<sse, audioQueue, pendingAudio, nextAudio, awaited, buffered, answered, heardAudio>>

\* The worker logs it and returns without an event: its index stays a gap.
SynthFails(i) ==
    /\ ttsTask[i] = "synth"
    /\ ttsTask' = [ttsTask EXCEPT ![i] = "failed"]
    /\ UNCHANGED <<sse, audioQueue, pendingAudio, nextAudio, awaited, buffered, answered, heardAudio>>

-----------------------------------------------------------------------------
(* The generator *)

\* schedule_segment, for k segments that are not blank.
Scheduled(k) == ttsTask \o [j \in 1 .. k |-> "waiting"]

\* Variant: what was synthesised is written as it comes.
DrainAsItComes ==
    /\ heardAudio' = heardAudio \o audioQueue
    /\ nextAudio' = nextAudio + Len(audioQueue)
    /\ audioQueue' = <<>>
    /\ UNCHANGED pendingAudio

\* drain_ready_audio: the queue is emptied, and the events are written from the
\* next index on until one is missing.
Drain ==
    LET have == pendingAudio \cup ToSet(audioQueue)
        gap == Min({n \in nextAudio .. Len(ttsTask) + 1 : n \notin have})
    IN /\ heardAudio' = heardAudio \o [j \in 1 .. gap - nextAudio |-> nextAudio + j - 1]
       /\ nextAudio' = gap
       /\ pendingAudio' = have \ (nextAudio .. gap)
       /\ audioQueue' = <<>>

\* Variant: only the tasks that were not begun are cancelled.
CancelledWaiting == [i \in Segment |-> IF ttsTask[i] = "waiting" THEN "cancelled" ELSE ttsTask[i]]

\* finally: the tasks that are not done are cancelled.
Cancelled == [i \in Segment |-> IF Busy(i) THEN "cancelled" ELSE ttsTask[i]]

Transcribed ==
    /\ sse = "transcribe"
    /\ sse' = "graph"
    /\ UNCHANGED <<ttsTask, audioQueue, pendingAudio, nextAudio, awaited, buffered, answered, heardAudio>>

\* An event of the graph is written and the audio that is ready behind it; when
\* the generator goes on, on_delta schedules the k segments a delta completed.
GraphEvent(k, rest) ==
    /\ sse = "graph"
    /\ Len(ttsTask) + k < MaxSegments
    /\ k = 0 /\ buffered => rest
    /\ Drain
    /\ ttsTask' = Scheduled(k)
    /\ buffered' = rest
    /\ answered' = (answered \/ k > 0 \/ rest)
    /\ UNCHANGED <<sse, awaited>>

\* The answer is complete: what is left of it is scheduled, or all of it if
\* nothing was; without an answer the turn is an error.
GraphAnswers(final) ==
    /\ sse = "graph"
    /\ final \/ answered
    /\ sse' = "await"
    /\ ttsTask' = Scheduled(IF buffered \/ ttsTask = <<>> THEN 1 ELSE 0)
    /\ buffered' = FALSE
    /\ UNCHANGED <<audioQueue, pendingAudio, nextAudio, awaited, answered, heardAudio>>

\* The AI is switched off: the notice is spoken instead of what was buffered.
GraphDisabled ==
    /\ sse = "graph"
    /\ sse' = "await"
    /\ ttsTask' = Scheduled(1)
    /\ buffered' = FALSE
    /\ UNCHANGED <<audioQueue, pendingAudio, nextAudio, awaited, answered, heardAudio>>

\* asyncio.as_completed
AwaitTask(i) ==
    /\ sse = "await"
    /\ i \notin awaited /\ ~Busy(i)
    /\ awaited' = awaited \cup {i}
    /\ Drain
    /\ UNCHANGED <<sse, ttsTask, buffered, answered>>

\* A last look at the queue, then audio_end, result and done.
AudioEnd ==
    /\ sse = "await" /\ awaited = Segment
    /\ Drain
    /\ sse' = "done"
    /\ UNCHANGED <<ttsTask, awaited, buffered, answered>>

\* The transcription, the graph, or an answer that is empty.
PipelineFails ==
    /\ sse \in {"transcribe", "graph"}
    /\ sse' = "failing"
    /\ UNCHANGED <<ttsTask, audioQueue, pendingAudio, nextAudio, awaited, buffered, answered, heardAudio>>

\* The error was written and the generator resumed once more.
FailureEnds ==
    /\ sse = "failing"
    /\ sse' = "error"
    /\ ttsTask' = Cancelled
    /\ UNCHANGED <<audioQueue, pendingAudio, nextAudio, awaited, buffered, answered, heardAudio>>

\* The client closes the stream, at any yield or await.
CallerGone ==
    /\ ~Ended
    /\ sse' = "gone"
    /\ ttsTask' = Cancelled
    /\ UNCHANGED <<audioQueue, pendingAudio, nextAudio, awaited, buffered, answered, heardAudio>>

SynthStep == \E i \in Segment : SynthBegin(i) \/ SynthDone(i) \/ SynthFails(i)

GeneratorStep ==
    \/ Transcribed
    \/ \E k \in 0 .. 2, rest \in BOOLEAN : GraphEvent(k, rest)
    \/ \E final \in BOOLEAN : GraphAnswers(final)
    \/ GraphDisabled
    \/ \E i \in Segment : AwaitTask(i)
    \/ AudioEnd \/ PipelineFails \/ FailureEnds

PipelineNext == SynthStep \/ GeneratorStep \/ CallerGone

PipelineSpec == PipelineInit /\ [][PipelineNext]_pipelineVars

\* Synthesis answers or fails (its client has a timeout), and the event loop
\* resumes a generator whose task is done.  The graph may run for ever.
SpeechGoesOn == SynthStep \/ AudioEnd \/ \E i \in Segment : AwaitTask(i)

-----------------------------------------------------------------------------
PipelineTypeOK ==
    /\ sse \in SseStage
    /\ ttsTask \in Seq(TaskState)
    /\ audioQueue \in Seq(Segment)
    /\ pendingAudio \subseteq Segment
    /\ nextAudio \in Nat
    /\ awaited \subseteq Segment
    /\ buffered \in BOOLEAN /\ answered \in BOOLEAN
    /\ heardAudio \in Seq(Nat)

\* Whatever order the syntheses end in, the caller hears the segments in the
\* order of the answer, each once, and none after audio_end.
PipelineStream == INSTANCE SpeechStream WITH heard <- heardAudio, closed <- Ended
PipelineSpeaksInOrder == PipelineStream!StreamSpec

\* The first segment whose synthesis failed, one past the last if none did.
FirstGap == Min({g \in 1 .. Len(ttsTask) + 1 : g = Len(ttsTask) + 1 \/ ttsTask[g] = "failed"})

\* audio_end does not overtake the audio: everything before the first failed
\* segment was heard by then, and (drain_ready_audio) nothing behind it.
HeardUpToGap == sse = "done" => heardAudio = [i \in 1 .. FirstGap - 1 |-> i]

\* No synthesis outlives its turn, however the turn ends.
NoOrphanedSynthesis == Ended => \A i \in Segment : ~Busy(i)

\* Once the answer is complete the turn ends, whatever segments fail.
SpokenTurnEnds == sse = "await" ~> Ended
=============================================================================
