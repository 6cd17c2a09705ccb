-------------------------- MODULE MCConversations --------------------------
(***************************************************************************)
(* Instances of Conversations, VoicePipeline and WebCallSpeech for TLC.    *)
(* The initial states choose a scenario: one turn next to everybody who    *)
(* may end the conversation; two overlapping turns next to the             *)
(* administrator's switch, between two rounds of the sweep, whose limits   *)
(* therefore do not matter; how the answer of one voice turn is spoken;    *)
(* how that of one turn of a web call is.                                  *)
(***************************************************************************)
EXTENDS Conversations, VoicePipeline, WebCallSpeech

CONSTANT Scenarios

VARIABLE scenario

mcVars == <<vars, pipelineVars, callVars, scenario>>

Between == INSTANCE Conversations WITH IdleAfter <- 0, CloseAfter <- 0

MCInit ==
    /\ Init /\ PipelineInit /\ CallInit
    /\ scenario \in Scenarios
    /\ scenario = "overlap" => channel = "web_chat"
    /\ scenario \in {"pipeline", "webcall"} => channel = "web_call"

Alone ==
    /\ scenario = "sweep"
    /\ Next
    /\ \A t \in Turn : t > 1 => turn'[t] = TurnIdle
    /\ \A c \in Conversation : c > 1 => rows'[c] = NoRow

\* In a chat that nobody ends; the first free identity is handed out.
Overlapping ==
    /\ scenario = "overlap"
    /\ Between!BetweenNext
    /\ \A t \in Turn : turn'[t].stage # "end"
    /\ \A c \in Conversation : rows'[c].status # "closed"
    /\ admin' = None
    /\ \A c \in Conversation : Exists(c)' => \A d \in 1 .. c - 1 : rows[d].status # "absent"

Chatting == (Alone \/ Overlapping) /\ UNCHANGED <<pipelineVars, callVars>>

\* The turn is over and stops.
TurnOver ==
    /\ \/ scenario = "pipeline" /\ Ended
       \/ scenario = "webcall" /\ callStage \in {"ended", "disabled", "aborted"}
    /\ UNCHANGED <<vars, pipelineVars, callVars>>

Speaking == scenario = "pipeline" /\ PipelineNext /\ UNCHANGED <<vars, callVars>>
Calling == scenario = "webcall" /\ CallNext /\ UNCHANGED <<vars, pipelineVars>>

MCNext == (Chatting \/ Speaking \/ Calling \/ TurnOver) /\ UNCHANGED scenario

\* Time passes and the sweep runs for ever; what is spoken goes on.
Sweeping(A) == scenario = "sweep" /\ A /\ UNCHANGED <<pipelineVars, callVars, scenario>>
GoesOn ==
    /\ \/ scenario = "pipeline" /\ SpeechGoesOn /\ UNCHANGED callVars
       \/ scenario = "webcall" /\ CallGoesOn /\ UNCHANGED pipelineVars
    /\ UNCHANGED <<vars, scenario>>

MCSpec ==
    /\ MCInit /\ [][MCNext]_mcVars
    /\ WF_mcVars(Sweeping(Tick)) /\ WF_mcVars(Sweeping(SweepStep))
    /\ WF_mcVars(GoesOn)

-----------------------------------------------------------------------------
\* The three modules keep their types.
TypesOK == TypeOK /\ PipelineTypeOK /\ CallTypeOK

\* IdleIsClosed for the only conversation of the sweep's scenario: it is never
\* left open and quiet for ever, unless its channel is "voice", which the sweep
\* does not select.
SweptIdleIsClosed ==
    []<>(scenario = "sweep" /\ channel # "voice" =>
           \A c \in Conversation : rows[c].status = "open" => rows[c].quiet = 0)

\* However an answer is spoken, audio_end follows all the audio that there is.
AudioEndFollows == HeardUpToGap /\ HeardOrFailed

\* However it is spoken, the turn ends.
SpeechEnds == SpokenTurnEnds /\ WaitEnds
=============================================================================
