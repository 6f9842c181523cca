---------------------------- MODULE MCEgelRequests ----------------------------
(* The clients of libegel are alike: none is named by EgelRequests. *)
EXTENDS EgelRequests, TLC

AlikeClients == Permutations(Clients)
=============================================================================
