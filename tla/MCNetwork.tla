------------------------------- MODULE MCNetwork -------------------------------
(***************************************************************************)
(* Instances of Network for TLC: a miner m and one or two wallet servers.  *)
(***************************************************************************)
EXTENDS Network

CONSTANTS m, w1, w2

\* Outages, or everybody is up and stays up.
VARIABLE calm

MCInit == NetInit /\ calm \in BOOLEAN /\ (calm => up = Node)
MCNext == NetNext /\ (calm => up' = Node) /\ UNCHANGED calm
MCSpec == MCInit /\ [][MCNext]_<<netVars, calm>> /\ NetFairness

\* Without outages a wallet server the miner knows gets every block.
CalmKeepsUp == calm => KeepsUp
===============================================================================
