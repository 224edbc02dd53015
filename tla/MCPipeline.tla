----------------------------- MODULE MCPipeline -----------------------------
(***************************************************************************)
(* Small instances of the signal path.                                     *)
(***************************************************************************)
EXTENDS Pipeline, TLC

Kind(attack) == [attack |-> attack, confidence |-> 95, asset |-> "x"]

\* One threat and the class that is never handed on.
MCKinds == {Kind("DDoS"), Kind("BENIGN")}

Symmetry ==
  Permutations(Requests) \union Permutations(MintedIds) \union Permutations(AnomalyIds)
    \union Permutations(Backfills)
=============================================================================
