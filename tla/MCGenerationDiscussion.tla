------------------------ MODULE MCGenerationDiscussion ------------------------
(***************************************************************************)
(* Instances of GenerationDiscussion for TLC.                              *)
(***************************************************************************)
EXTENDS GenerationDiscussion, TLC

Symmetric == Permutations(Workers) \union Permutations(Tokens)

=============================================================================
