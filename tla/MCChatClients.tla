---------------------------- MODULE MCChatClients ----------------------------
(***************************************************************************)
(* Instances of ChatClients for TLC.                                       *)
(***************************************************************************)
EXTENDS ChatClients, TLC

Symmetry == Permutations(Sessions) \cup Permutations(Turns) \cup Permutations(Clients)
==============================================================================
