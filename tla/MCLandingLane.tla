--------------------------- MODULE MCLandingLane ----------------------------
(* Small instances of LandingLane for TLC. *)
EXTENDS LandingLane

CONSTANTS s, t, pr, merge, other

\* Session s runs `wb pr land` and `wb worktree merge`; session t lands a pull
\* request, or prepares a batch, on the same target.
TwoSessions == [o \in Ops |-> IF o = other THEN t ELSE s]

PrAndMerge == [o \in Ops |-> IF o = merge THEN "land" ELSE "pr"]

PrepareAndMerge ==
    [o \in Ops |-> IF o = merge THEN "land" ELSE IF o = pr THEN "pr" ELSE "prepare"]
=============================================================================
