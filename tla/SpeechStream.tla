---------------------------- MODULE SpeechStream ----------------------------
(***************************************************************************)
(* What a caller may count on while an answer is spoken: its segments are  *)
(* heard in the order of the text, none a second time, and nothing is      *)
(* heard after the stream was closed.  Segments may be missing.            *)
(***************************************************************************)
EXTENDS Integers, Sequences

VARIABLES
    heard,      \* the numbers of the segments that reached the caller
    closed      \* the end was announced, or the caller is gone

streamVars == <<heard, closed>>

Increasing(s) == \A i, j \in DOMAIN s : i < j => s[i] < s[j]

StreamInit == heard = <<>> /\ closed = FALSE

\* Some segments, one after the other.
Say ==
    /\ ~closed
    /\ Len(heard') > Len(heard)
    /\ SubSeq(heard', 1, Len(heard)) = heard
    /\ Increasing(heard')
    /\ UNCHANGED closed

Close == closed' = TRUE /\ UNCHANGED heard

StreamSpec == StreamInit /\ [][Say \/ Close]_streamVars
=============================================================================
