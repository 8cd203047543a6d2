----------------------------- MODULE MCConsensus -----------------------------
(***************************************************************************)
(* Instances of Consensus for TLC.                                         *)
(***************************************************************************)
EXTENDS Consensus, TLC

\* Modules outside Engine are interchangeable: nothing orders them.
OutsidersAlike == Permutations(Module \ Engine)

\* EKK_THRESHOLD_SIMPLE_MAJORITY and EKK_THRESHOLD_SUPERMAJORITY
SimpleMajority == {32768}
Supermajority == {43908}

AllConfigs == [allow_self_vote : BOOLEAN, require_all_neighbors : BOOLEAN]
\* EKK_CONSENSUS_CONFIG_DEFAULT
DefaultConfig == {[allow_self_vote |-> TRUE, require_all_neighbors |-> FALSE]}
=============================================================================
