------------------------- MODULE ExactlyOnceOutput -------------------------
(***************************************************************************)
(* What a checkpointed campaign promises its reader (README, TUTORIAL      *)
(* section 12): the output grows by whole chunks, each at most once,       *)
(* nothing that was put out is taken back or changed, and a campaign that  *)
(* ends has put out every chunk and nothing else.  Crashes, restarts,      *)
(* worker files and the manifest do not appear: to the reader they are     *)
(* stuttering steps.                                                       *)
(***************************************************************************)
EXTENDS Naturals, Bags

CONSTANTS
    Chunk,       \* the chunks of the campaign
    MaxMatched   \* bound: rows of one chunk

VARIABLES
    committed,   \* chunks that are done with
    output,      \* the rows put out, as a bag: a row put out twice counts twice
    finished     \* the campaign was reported complete

vars == <<committed, output, finished>>

RowsOf(c, k) == {[chunk |-> c, row |-> r] : r \in 1..k}

Init ==
    /\ committed = {}
    /\ output = EmptyBag
    /\ finished = FALSE

Commit(c) ==
    /\ ~finished
    /\ c \notin committed
    /\ committed' = committed \cup {c}
    /\ \E k \in 0..MaxMatched : output' = output (+) SetToBag(RowsOf(c, k))
    /\ UNCHANGED finished

Finish ==
    /\ committed = Chunk
    /\ finished' = TRUE
    /\ UNCHANGED <<committed, output>>

\* A finished campaign may be run again: there is nothing left to commit.
Reopen ==
    /\ finished
    /\ finished' = FALSE
    /\ UNCHANGED <<committed, output>>

Next == (\E c \in Chunk : Commit(c)) \/ Finish \/ Reopen

Spec == Init /\ [][Next]_vars
=============================================================================
