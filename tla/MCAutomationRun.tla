--------------------------- MODULE MCAutomationRun ---------------------------
(* Instances of AutomationRun for TLC. *)
EXTENDS AutomationRun, TLC

\* A mutation between two reads, and a bare mutation.
ReadMutateRead == <<"READ", "MUTATE", "READ">>
MutateRead     == <<"MUTATE", "READ">>

Symmetric == Permutations(Workers) \union Permutations(Runs) \union Permutations(Tokens)
=============================================================================
