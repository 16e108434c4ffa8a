------------------------------ MODULE MCLogin -------------------------------
(***************************************************************************)
(* Model values for checking LoginFlow.                                    *)
(***************************************************************************)
EXTENDS LoginFlowProperties, TLC

MCCertificates == <<"new">>

Twin == Permutations(Agents) \union Permutations(Users) \union Permutations(RequestIds)
          \union Permutations(Threads)

=============================================================================
