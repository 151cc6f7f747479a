-------------------------------- MODULE Timmy --------------------------------
(***************************************************************************)
(* The Timmy durable object: one actor per project room, with a mind under *)
(* a budget, a memory and its own receipt chain.  A verb asks seal() for a *)
(* receipt and commits the state when it is sealed; a think commits the    *)
(* state it captured before its seal, the others spread the state they     *)
(* find after it.  Each request is one verb, and its seal() is a job of    *)
(* the queue of SealQueue.                                                 *)
(*                                                                         *)
(* Of the state, the spend, the budget, the count of notes and the head    *)
(* are kept; of a profile, its budget.                                     *)
(***************************************************************************)
EXTENDS SealQueue, FiniteSets

CONSTANTS Costs,      \* what one turn may cost
          Budgets,    \* what a profile may set
          Notes,      \* keys of the memory
          FirstCap    \* the cap of the deployment
ASSUME TimmyAssumption ==
  /\ Costs \subseteq Nat /\ Budgets \subseteq Nat /\ FirstCap \in Nat
  /\ IsFiniteSet(Notes)

VARIABLES state,    \* the TimmyState
          req,      \* what each request is at
          memory,   \* the keys in SQL table memory
          lost      \* auxiliary: a commit wrote over another's, or was never made

timmyVars == <<state, req, memory, lost, sealVars>>

\* What a receipt says: its kind, what the turn cost, what budget the profile has.
Body == [kind : {"turn", "profile", "remember"}, usd : Costs \cup {0}, budget : Budgets \cup {0}]
ASSUME BodyAssumption == Bodies = Body

TimmyState == [usd : Nat, cap_usd : Nat, memory_notes : Nat, head : Nat]

None == [at |-> "none"]
\* A verb under way: what it has read, and what it will commit.
Verb == [at : {"mind"}] \cup [at : {"answered"}, usd : Costs, read : TimmyState] \cup
        [at : {"seal"}, body : Body, next : TimmyState, read : TimmyState, notes : Nat]

TypeOK ==
  /\ SealTypeOK
  /\ state \in TimmyState
  /\ req \in [Jobs -> Verb \cup {None}]
  /\ memory \subseteq Notes
  /\ lost \in BOOLEAN
  \* A seal is pending for exactly the verbs that wait for one.
  /\ \A j \in Jobs : req[j].at = "seal" <=> seal[j].at # "idle"

TimmyInit ==
  /\ SealInit
  /\ state = [usd |-> 0, cap_usd |-> FirstCap, memory_notes |-> 0, head |-> 0]
  /\ req = [j \in Jobs |-> None]
  /\ memory = {}
  /\ lost = FALSE

-----------------------------------------------------------------------------
(* The verbs up to their seal *)

\* timmyGate lets the mind of rpcThink start.
Think(j) ==
  /\ req[j] = None
  /\ state.usd < state.cap_usd
  /\ req' = [req EXCEPT ![j] = [at |-> "mind"]]
  /\ UNCHANGED <<state, memory, lost, sealVars>>

\* executeTurn throws, and so does the verb.
MindFails(j) ==
  /\ req[j].at = "mind"
  /\ req' = [req EXCEPT ![j] = None]
  /\ UNCHANGED <<state, memory, lost, sealVars>>

\* The mind has answered: the state of now is captured for applySpend, and the
\* texts of the turn are hashed for its receipt.
MindAnswered(j) ==
  /\ req[j].at = "mind"
  /\ \E usd \in Costs :
       req' = [req EXCEPT ![j] = [at |-> "answered", usd |-> usd, read |-> state]]
  /\ UNCHANGED <<state, memory, lost, sealVars>>

\* A verb asks for the receipt b, to commit next once it is sealed; it has read `read`.
AskSeal(j, b, read, next, notes) ==
  /\ Enqueue(j, b)
  /\ req' = [req EXCEPT ![j] =
       [at |-> "seal", body |-> b, next |-> next, read |-> read, notes |-> notes]]

AskTurn(j) ==
  /\ req[j].at = "answered"
  /\ LET r == req[j] IN
       AskSeal(j, [kind |-> "turn", usd |-> r.usd, budget |-> 0],
               r.read, [r.read EXCEPT !.usd = @ + r.usd], 0)
  /\ UNCHANGED <<state, memory, lost>>

\* (A bug: the budget is set before its receipt is sealed.)
Profile_SetFirst(j) ==
  /\ req[j] = None
  /\ \E budget \in Budgets :
       /\ AskSeal(j, [kind |-> "profile", usd |-> 0, budget |-> budget], state, state, 0)
       /\ state' = [state EXCEPT !.cap_usd = budget]
  /\ UNCHANGED <<memory, lost>>

Profile(j) ==
  /\ req[j] = None
  /\ \E budget \in Budgets :
       AskSeal(j, [kind |-> "profile", usd |-> 0, budget |-> budget], state, state, 0)
  /\ UNCHANGED <<state, memory, lost>>

\* The note is written or forgotten at once, and counted.
Remember(j) ==
  /\ req[j] = None
  /\ \E k \in Notes : memory' \in {memory \cup {k}, memory \ {k}}
  /\ AskSeal(j, [kind |-> "remember", usd |-> 0, budget |-> 0], state, state, Cardinality(memory'))
  /\ UNCHANGED <<state, lost>>

-----------------------------------------------------------------------------
(* The seals and the commits *)

Work(j) ==
  /\ ReadChain(j) \/ InsertReceipt(j)
  /\ UNCHANGED <<state, req, memory, lost>>

\* (A bug: the state captured before the seal is committed with its head.)
Committed_OldHead(r, head) ==
  LET now == [state EXCEPT !.head = head] IN
  CASE r.body.kind = "turn" -> r.next
    [] r.body.kind = "profile" -> [now EXCEPT !.cap_usd = r.body.budget]
    [] OTHER -> [now EXCEPT !.memory_notes = r.notes]

\* The state once the receipt is sealed: seal() sets the head, then the verb commits.
Committed(r, head) ==
  LET now == [state EXCEPT !.head = head] IN
  CASE r.body.kind = "turn" -> [r.next EXCEPT !.head = head]
    [] r.body.kind = "profile" -> [now EXCEPT !.cap_usd = r.body.budget]
    [] OTHER -> [now EXCEPT !.memory_notes = r.notes]

Sealed(j) ==
  /\ Settle(j)
  /\ state' = Committed(req[j], Chain!HeadHash(seal[j].chain))
  /\ req' = [req EXCEPT ![j] = None]
  /\ lost' = (lost \/ (req[j].body.kind = "turn"
                        /\ [req[j].read EXCEPT !.head = 0] # [state EXCEPT !.head = 0]))
  /\ UNCHANGED memory

\* The receipt is sealed but INSERT INTO turns throws: only the head is committed.
TurnLost(j) ==
  /\ Settle(j)
  /\ req[j].body.kind = "turn"
  /\ state' = [state EXCEPT !.head = Chain!HeadHash(seal[j].chain)]
  /\ req' = [req EXCEPT ![j] = None]
  /\ lost' = TRUE
  /\ UNCHANGED memory

\* The seal throws, and so does the verb: nothing is committed.
SealFailed(j) ==
  /\ FailSeal(j)
  /\ req' = [req EXCEPT ![j] = None]
  /\ UNCHANGED <<state, memory, lost>>

\* The object is evicted: what was sealed but not committed never is.
Restart ==
  /\ SealRestart
  /\ req' = [j \in Jobs |-> None]
  /\ lost' = (lost \/ \E j \in Jobs : seal[j].at = "putting")
  /\ UNCHANGED <<state, memory>>

TimmyNext ==
  \/ \E j \in Jobs : Think(j) \/ MindFails(j) \/ MindAnswered(j) \/ AskTurn(j) \/ Profile(j) \/ Remember(j)
                       \/ Work(j) \/ Sealed(j) \/ TurnLost(j) \/ SealFailed(j)
  \/ Restart

TimmySpec == TimmyInit /\ [][TimmyNext]_timmyVars

-----------------------------------------------------------------------------
(* Properties *)

\* What the profile receipts of a chain last set, and what its turns cost.
LastBudget(c) ==
  LET profiles == {i \in 1..Len(c) : c[i].body.kind = "profile"} IN
  IF profiles = {} THEN FirstCap
  ELSE c[CHOOSE i \in profiles : \A k \in profiles : k <= i].body.budget

Billed(c) ==
  LET sum[i \in 0..Len(c)] == IF i = 0 THEN 0 ELSE sum[i - 1] + c[i].body.usd IN sum[Len(c)]

\* Between seals the state says what the chain says: the budget of the last profile
\* on it, the spend of all its turns and its head.  Only a think that commits over
\* what another verb has set since, or an eviction between the receipt and the
\* commit, part them (rpcThink, rpcProfile, seal).
StateFollowsChain ==
  lost \/ (\E j \in Jobs : seal[j].at = "putting")
  \/ /\ state.cap_usd = LastBudget(receipts)
     /\ state.usd = Billed(receipts)
     /\ receipts # << >> => state.head = Chain!HeadHash(receipts)
=============================================================================
