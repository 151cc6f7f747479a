----------------------------- MODULE MCCustody -----------------------------
(* Custody on a small instance: at most MaxSeals receipts are asked of the *)
(* durable object, at most MaxUnit receipts are on the unit's chain.       *)
EXTENDS Custody, TLC

CONSTANTS MaxSeals, MaxUnit
ASSUME BoundsAssumption == MaxSeals \in Nat /\ MaxUnit \in Nat

Symmetric == Permutations(Taps) \cup Permutations(Runs) \cup Permutations(Jobs)

\* At most one of the excuses the properties allow happens in a behaviour.
OneExcuse == ~(overlapped /\ torn) /\ ~(overlapped /\ crossed) /\ ~(torn /\ crossed)

MCNext ==
  \/ /\ \/ \E j \in Jobs, b \in Bodies :
             hashes + Len(sealChain) < MaxSeals /\ Enqueue(j, b)
        \/ \E j \in Jobs : SealStep(j)
        \/ SealRestart
     /\ UNCHANGED <<tapVars, headVars, today>>
  \/ /\ \E t \in Taps : (Len(unit) < MaxUnit /\ TapRead(t)) \/ TapSet(t) \/ TapGet(t)
                          \/ TapPut(t) \/ TapDies(t)
     /\ UNCHANGED <<headVars, today, sealVars>>
  \/ (\E h \in Runs : HeadStep(h)) /\ UNCHANGED <<tapVars, today, sealVars>>
  \/ Midnight

MCSpec == CustodyInit /\ [][MCNext /\ OneExcuse']_custodyVars
=============================================================================
