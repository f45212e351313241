-------------------------------- MODULE MCLog --------------------------------
(* The owner and one other member, who also reads; two requests at a time.    *)
(* The receipts are ahead of each other in one watermark each.  The owner     *)
(* blocks the other, whose id comes first.                                    *)
EXTENDS ConversationLog, TLC

CONSTANTS o, a, m1, m2, m3
MCSender == [m \in Message |-> IF m = m2 THEN a ELSE o]
MCReported == {[delivered |-> 1, read |-> 1], [delivered |-> 2, read |-> 0]}
MCBlocks == {<<o, a>>}
MCRank == a :> 1 @@ o :> 2
MCSymmetry == {f @@ g : f \in Permutations(Request), g \in Permutations({m1, m3})}
==============================================================================
