------------------------------ MODULE MCEntities ------------------------------
(* The owner and one other member, one chore and one operation id.             *)
EXTENDS SharedEntities, TLC

CONSTANTS x1
MCMaxVersion == Chore :> 3 @@ x1 :> 2
MCSymmetry == Permutations(Request)
===============================================================================
