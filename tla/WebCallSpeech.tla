---------------------------- MODULE WebCallSpeech ----------------------------
(***************************************************************************)
(* One turn of a web call: _run_text_turn of app/api/web_call.py and its   *)
(* _SentenceTtsStreamer.  One task sends the text and puts the sentences   *)
(* of the answer in a queue, another takes them out, one by one, and sends *)
(* their audio over the same websocket.                                    *)
(***************************************************************************)
EXTENDS Integers, Sequences, SequencesExt

CONSTANTS
    MaxSentences,       \* bound: what a turn may put in the queue
    MaxChunks           \* bound: chunks of audio of one sentence

ASSUME SentenceAssumption == MaxSentences \in Nat \ {0} /\ MaxChunks \in Nat \ {0}

VARIABLES
    callStage,      \* where _run_text_turn is
    wsOpen,         \* the websocket is connected
    sentences,      \* what was put in the queue so far: parts of the answer, or all of it
    wsBuffer,       \* _buffer holds text
    finished,       \* None was put behind them: wait_until_done
    speaker,        \* the worker: what it is doing, with which sentence
    chunks,         \* _next_index
    heardCall,      \* the sentences of which the caller heard something
    muted           \* sentences whose synthesis failed, or could not be sent

callVars == <<callStage, wsOpen, sentences, wsBuffer, finished, speaker, chunks, heardCall, muted>>

CallInit ==
    /\ callStage = "graph"
    /\ wsOpen = TRUE
    /\ sentences = <<>>
    /\ wsBuffer = FALSE
    /\ finished = FALSE
    /\ speaker = [doing |-> "get", at |-> 0, sent |-> 0]
    /\ chunks = 0
    /\ heardCall = <<>>
    /\ muted = {}

-----------------------------------------------------------------------------
(* The worker, _run *)

SpeakNext ==
    /\ speaker.doing = "get" /\ speaker.at < Len(sentences)
    /\ speaker' = [doing |-> "speak", at |-> speaker.at + 1, sent |-> 0]
    /\ UNCHANGED <<callStage, wsOpen, sentences, wsBuffer, finished, chunks, heardCall, muted>>

SpeakStops ==
    /\ speaker.doing = "get" /\ speaker.at = Len(sentences) /\ finished
    /\ speaker' = [speaker EXCEPT !.doing = "off"]
    /\ UNCHANGED <<callStage, wsOpen, sentences, wsBuffer, finished, chunks, heardCall, muted>>

SpeakChunk ==
    /\ speaker.doing = "speak" /\ wsOpen /\ speaker.sent < MaxChunks
    /\ speaker' = [speaker EXCEPT !.sent = @ + 1]
    /\ chunks' = chunks + 1
    /\ heardCall' = IF speaker.sent = 0 THEN Append(heardCall, speaker.at) ELSE heardCall
    /\ UNCHANGED <<callStage, wsOpen, sentences, wsBuffer, finished, muted>>

SpeakDone ==
    /\ speaker.doing = "speak" /\ speaker.sent > 0
    /\ speaker' = [speaker EXCEPT !.doing = "get"]
    /\ UNCHANGED <<callStage, wsOpen, sentences, wsBuffer, finished, chunks, heardCall, muted>>

\* Variant: the sentence is tried again.
SpeakFailsRetries ==
    /\ speaker.doing = "speak"
    /\ speaker' = [doing |-> "get", at |-> speaker.at - 1, sent |-> 0]
    /\ UNCHANGED <<callStage, wsOpen, sentences, wsBuffer, finished, chunks, heardCall, muted>>

\* The synthesis or the send raises, before or after some chunks: the worker
\* logs it and takes the next sentence.
SpeakFails ==
    /\ speaker.doing = "speak"
    /\ speaker' = [speaker EXCEPT !.doing = "get"]
    /\ muted' = muted \cup {speaker.at}
    /\ UNCHANGED <<callStage, wsOpen, sentences, wsBuffer, finished, chunks, heardCall>>

-----------------------------------------------------------------------------
(* The turn *)

Parts(k) == [j \in 1 .. k |-> "part"]

\* A delta is sent; then feed puts the k sentences that it completes.
CallEvent(k, rest) ==
    /\ callStage = "graph" /\ wsOpen
    /\ Len(sentences) + k < MaxSentences
    /\ k = 0 /\ wsBuffer => rest
    /\ sentences' = sentences \o Parts(k)
    /\ wsBuffer' = rest
    /\ UNCHANGED <<callStage, wsOpen, finished, speaker, chunks, heardCall, muted>>

\* turn_end: flush puts the rest of the answer; when no chunk was sent yet and
\* there is no rest, the whole answer.
TurnEnds ==
    /\ callStage = "graph" /\ wsOpen
    /\ callStage' = "wait"
    /\ sentences' = sentences \o (IF wsBuffer THEN <<"part">>
                                  ELSE IF chunks = 0 THEN <<"all">> ELSE <<>>)
    /\ wsBuffer' = FALSE
    /\ finished' = TRUE
    /\ UNCHANGED <<wsOpen, speaker, chunks, heardCall, muted>>

\* The AI is switched off, but agent_node ran all the same and may have fed its
\* deltas: the worker is cancelled with what it was speaking and what is queued.
\* ai_disabled is sent in the place of audio_end; a closed websocket raises.
TurnDisabled ==
    /\ callStage = "graph"
    /\ callStage' = IF wsOpen THEN "disabled" ELSE "aborted"
    /\ speaker' = [speaker EXCEPT !.doing = "off"]
    /\ UNCHANGED <<wsOpen, sentences, wsBuffer, finished, chunks, heardCall, muted>>

\* Variant: audio_end is sent without waiting for the worker.
WaitDoneAtOnce ==
    /\ callStage = "wait" /\ wsOpen
    /\ callStage' = "ended"
    /\ UNCHANGED <<wsOpen, sentences, wsBuffer, finished, speaker, chunks, heardCall, muted>>

\* wait_until_done, then audio_end.
WaitDone ==
    /\ callStage = "wait" /\ speaker.doing = "off" /\ wsOpen
    /\ callStage' = "ended"
    /\ UNCHANGED <<wsOpen, sentences, wsBuffer, finished, speaker, chunks, heardCall, muted>>

\* The next send to a closed websocket raises, or the graph does: web_call_ws
\* leaves its loop, which closes the websocket.  Nobody cancels the worker.
TurnAborts ==
    /\ \/ callStage = "graph"
       \/ callStage = "wait" /\ speaker.doing = "off" /\ ~wsOpen
    /\ callStage' = "aborted"
    /\ wsOpen' = FALSE
    /\ UNCHANGED <<sentences, wsBuffer, finished, speaker, chunks, heardCall, muted>>

CallDrops ==
    /\ wsOpen /\ callStage \in {"graph", "wait"}
    /\ wsOpen' = FALSE
    /\ UNCHANGED <<callStage, sentences, wsBuffer, finished, speaker, chunks, heardCall, muted>>

SpeakerStep == SpeakNext \/ SpeakStops \/ SpeakChunk \/ SpeakDone \/ SpeakFails

CallNext ==
    \/ SpeakerStep
    \/ \E k \in 0 .. 2, rest \in BOOLEAN : CallEvent(k, rest)
    \/ TurnEnds \/ TurnDisabled \/ WaitDone \/ TurnAborts \/ CallDrops

CallSpec == CallInit /\ [][CallNext]_callVars

\* The synthesis ends or fails, and the event loop resumes who waits.
CallGoesOn ==
    \/ SpeakNext \/ SpeakStops \/ SpeakDone \/ SpeakFails
    \/ WaitDone \/ (callStage = "wait" /\ TurnAborts)

-----------------------------------------------------------------------------
CallTypeOK ==
    /\ callStage \in {"graph", "wait", "ended", "disabled", "aborted"}
    /\ wsOpen \in BOOLEAN /\ wsBuffer \in BOOLEAN /\ finished \in BOOLEAN
    /\ sentences \in Seq({"part", "all"})
    /\ speaker \in [doing : {"get", "speak", "off"}, at : Nat, sent : Nat]
    /\ chunks \in Nat
    /\ heardCall \in Seq(Nat)
    /\ muted \subseteq DOMAIN sentences

\* _SentenceTtsStreamer: whatever fails, the sentences are heard in the order
\* they were queued, none again, and none after audio_end or ai_disabled.
CallStream == INSTANCE SpeechStream WITH heard <- heardCall,
                                         closed <- callStage \in {"ended", "disabled"} \/ ~wsOpen
CallSpeaksInOrder == CallStream!StreamSpec

\* audio_end follows the audio: by then every sentence was heard or failed.  A
\* turn with the AI off sends none, and may leave sentences behind.
HeardOrFailed ==
    callStage = "ended" =>
        \A i \in DOMAIN sentences : i \in muted \/ i \in ToSet(heardCall)

\* A turn that waits for its audio ends, whatever fails.
WaitEnds == callStage = "wait" ~> callStage \in {"ended", "aborted"}

\* web_call.py:55-56: the sentences of the answer are spoken one by one, in the
\* order they appear: the whole answer is not said after a part of it.
AnswerSpokenOnce ==
    \A i, j \in DOMAIN sentences : i < j => sentences[j] # "all"
=============================================================================
