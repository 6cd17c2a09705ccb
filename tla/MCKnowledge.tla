---------------------------- MODULE MCKnowledge ----------------------------
(* Every request on one source, or the uploads and deletions of one file   *)
(* as several sources.                                                     *)
EXTENDS Knowledge, TLC

\* The sources of a behaviour are chosen at its start; one of a single source
\* may be a source without text.
VARIABLE pool

mcVars == <<vars, pool>>

Single == Cardinality(pool) = 1

MCInit == Init /\ pool \in {{s} : s \in Source} \cup {Source \ Blank}

MCNext ==
    /\ UNCHANGED pool
    /\ \/ Single /\ Next /\ \A s \in Source \ pool : row'[s] = row[s]
       \/ /\ ~Single
          /\ \E w \in Worker : \/ UploadRequest(w) \/ DeleteRequest(w)
                               \/ Step(w) \/ RequestFails(w) \/ Restart(w)

MCSpec == MCInit /\ [][MCNext]_mcVars

MCSymmetry == Permutations(Worker) \cup Permutations(Source \ Blank)
=============================================================================
