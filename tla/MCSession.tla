----------------------------- MODULE MCSession -----------------------------
(* Two tabs of one browser; both calls belong to the first, so that two    *)
(* callers can share a refresh, and the second may refresh, log in or sign *)
(* out beside them.                                                        *)
EXTENDS Session

MCOwner == [c \in Call |-> 1]
=============================================================================
