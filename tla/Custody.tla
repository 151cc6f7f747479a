------------------------------- MODULE Custody -------------------------------
(***************************************************************************)
(* What shares the KV store CUSTODY_KV: the taps of a custody unit, which  *)
(* keep the counter of its tag and its chain there; the mirror of a durable*)
(* object's receipt chain, put by its seal queue (SealQueue); and the runs *)
(* that publish the daily head of all chains, one a day by cron and more   *)
(* when POST /head/compute asks.  Each get and put is a step of its own.   *)
(*                                                                         *)
(* One unit with one production tag is modelled; its receipts are told     *)
(* apart by their counters.  A get returns what the last put wrote.        *)
(***************************************************************************)
EXTENDS SealQueue

CONSTANTS Taps,     \* requests to /t under way
          Runs,     \* head runs under way
          Counters, \* what the URL of a tap may say
          LastDay
ASSUME CustodyAssumption == Counters \subseteq Nat \ {0} /\ LastDay \in Nat \ {0}

VARIABLES tap, head,              \* where each tap and each head run is
          last, unit,             \* KV ctr:<uid> and chain:<serial>
          days, latest,           \* KV head:<date> and head:latest
          today,
          overlapped, crossed, torn  \* auxiliary: see the properties

tapVars == <<tap, last, unit, overlapped>>
headVars == <<head, days, latest, crossed, torn>>
custodyVars == <<tapVars, headVars, today, sealVars>>

Away == [at |-> "away"]
NoHead == [date |-> 0]

CustodyInit ==
  /\ SealInit
  /\ tap = [t \in Taps |-> Away] /\ head = [h \in Runs |-> Away]
  /\ last = 0 /\ unit = << >>
  /\ days = [d \in 1..LastDay |-> NoHead] /\ latest = NoHead
  /\ today = 1
  /\ overlapped = FALSE /\ crossed = FALSE /\ torn = FALSE

-----------------------------------------------------------------------------
(* The taps: handleTap *)

\* (A bug: the last counter is accepted again.)
TapRead_Replay(t) ==
  /\ tap[t] = Away
  /\ \E c \in Counters : c >= last /\ tap' = [tap EXCEPT ![t] = [at |-> "fresh", counter |-> c]]
  /\ overlapped' = (overlapped \/ \E u \in Taps : tap[u] # Away)
  /\ UNCHANGED <<last, unit>>

\* The tag is verified and its last counter read; a counter already seen is refused.
TapRead(t) ==
  /\ tap[t] = Away
  /\ \E c \in Counters : c > last /\ tap' = [tap EXCEPT ![t] = [at |-> "fresh", counter |-> c]]
  /\ overlapped' = (overlapped \/ \E u \in Taps : tap[u] # Away)
  /\ UNCHANGED <<last, unit>>

TapSet(t) ==
  /\ tap[t].at = "fresh"
  /\ last' = tap[t].counter
  /\ tap' = [tap EXCEPT ![t].at = "counted"]
  /\ UNCHANGED <<unit, overlapped>>

TapGet(t) ==
  /\ tap[t].at = "counted"
  /\ tap' = [tap EXCEPT ![t] = [at |-> "sealing", chain |-> Append(unit, tap[t].counter)]]
  /\ UNCHANGED <<last, unit, overlapped>>

TapPut(t) ==
  /\ tap[t].at = "sealing"
  /\ unit' = tap[t].chain
  /\ tap' = [tap EXCEPT ![t] = Away]
  /\ UNCHANGED <<last, overlapped>>

\* A get or a put throws, or the isolate is gone.
TapDies(t) ==
  /\ tap[t] # Away
  /\ tap' = [tap EXCEPT ![t] = Away]
  /\ UNCHANGED <<last, unit, overlapped>>

-----------------------------------------------------------------------------
(* The daily head: computeDailyHead and writeDailyHead *)

\* The day is read and the chains are listed; an absent chain has no key.
HeadStart(h) ==
  /\ head[h] = Away
  /\ head' = [head EXCEPT ![h] = [at |-> "listed", date |-> today,
       keys |-> (IF unit = << >> THEN {} ELSE {"unit"})
                  \cup (IF mirror = << >> THEN {} ELSE {"timmy"})]]
  /\ torn' = (torn \/ \E k \in Runs : head[k] # Away)
  /\ UNCHANGED <<days, latest, crossed>>

\* Of a chain c, its length and its last receipt are published.
Entry(c, l) == [count |-> Len(c), last |-> l]

\* The unit's chain is read first: the keys are sorted.  No receipt, no entry.
ReadUnit(h) ==
  /\ head[h].at = "listed"
  /\ LET c == IF "unit" \in head[h].keys THEN unit ELSE << >> IN
       head' = [head EXCEPT ![h] = [at |-> "unit", date |-> @.date, keys |-> @.keys,
                  unit |-> Entry(c, IF c = << >> THEN 0 ELSE c[Len(c)])]]
  /\ UNCHANGED <<days, latest, crossed, torn>>

ReadMirror(h) ==
  /\ head[h].at = "unit"
  /\ LET c == IF "timmy" \in head[h].keys THEN mirror ELSE << >> IN
       head' = [head EXCEPT ![h] = [at |-> "chains", date |-> @.date, unit |-> @.unit,
                  timmy |-> Entry(c, Chain!HeadHash(c))]]
  /\ UNCHANGED <<days, latest, crossed, torn>>

\* (A bug: a second run of a day cites the first.)
Previous_SameDay(date) == latest

\* What a head of this date cites: the head of another day that head:latest holds,
\* or what the head of the same day there cites.  A combined_sha256 stands for the
\* whole head.
Previous(date) ==
  IF latest = NoHead \/ latest.date # date THEN latest ELSE latest.prev

MakeHead(h) ==
  /\ head[h].at = "chains"
  /\ LET r == head[h] IN
       head' = [head EXCEPT ![h] = [at |-> "made", daily |->
         [date |-> r.date, unit |-> r.unit, timmy |-> r.timmy, prev |-> Previous(r.date)]]]
  /\ UNCHANGED <<days, latest, crossed, torn>>

PutDay(h) ==
  /\ head[h].at = "made"
  /\ days' = [days EXCEPT ![head[h].daily.date] = head[h].daily]
  /\ head' = [head EXCEPT ![h].at = "dated"]
  /\ UNCHANGED <<latest, crossed, torn>>

PutLatest(h) ==
  /\ head[h].at = "dated"
  /\ latest' = head[h].daily
  /\ head' = [head EXCEPT ![h] = Away]
  /\ UNCHANGED <<days, crossed, torn>>

\* A get or a put throws, or the isolate is gone: nothing is tried again.
HeadDies(h) ==
  /\ head[h] # Away
  /\ head' = [head EXCEPT ![h] = Away]
  /\ torn' = (torn \/ head[h].at = "dated")
  /\ UNCHANGED <<days, latest, crossed>>

Midnight ==
  /\ today < LastDay
  /\ today' = today + 1
  /\ crossed' = (crossed \/ \E h \in Runs : head[h] # Away)
  /\ UNCHANGED <<head, days, latest, torn, tapVars, sealVars>>

TapStep(t) == TapRead(t) \/ TapSet(t) \/ TapGet(t) \/ TapPut(t) \/ TapDies(t)
HeadStep(h) ==
  \/ HeadStart(h) \/ ReadUnit(h) \/ ReadMirror(h) \/ MakeHead(h)
  \/ PutDay(h) \/ PutLatest(h) \/ HeadDies(h)

CustodyNext ==
  \/ SealNext /\ UNCHANGED <<tapVars, headVars, today>>
  \/ (\E t \in Taps : TapStep(t)) /\ UNCHANGED <<headVars, today, sealVars>>
  \/ (\E h \in Runs : HeadStep(h)) /\ UNCHANGED <<tapVars, today, sealVars>>
  \/ Midnight

CustodySpec == CustodyInit /\ [][CustodyNext]_custodyVars

-----------------------------------------------------------------------------
(* Properties *)

Published == {latest} \cup {days[d] : d \in 1..LastDay}
Heads == Published \ {NoHead}

\* Every head published lists, of each chain, a receipt that is still at that place of
\* it, whatever was sealed, lost or restarted between its reads: the SQL chain of a
\* durable object always, the chain of a unit unless two taps of it overlapped
\* (computeDailyHead over the mirrors; the public head is what an outsider checks).
HeadListsChain ==
  \A b \in Heads :
    /\ b.timmy.count <= Len(receipts)
    /\ b.timmy.count > 0 => receipts[b.timmy.count].hash = b.timmy.last
    /\ overlapped \/ /\ b.unit.count <= Len(unit)
                     /\ b.unit.count > 0 => unit[b.unit.count] = b.unit.last

\* A head cites the head of an earlier day, unless a run crossed midnight; and the
\* head kept for a day cites the one kept for the last day before it that has any,
\* unless runs overlapped or one died between its two puts (prev_combined_sha256,
\* also when a day's head is computed again).
DaysLinked ==
  crossed
  \/ /\ \A b \in Heads : b.prev.date < b.date
     /\ torn \/ \A d \in 1..LastDay : days[d] # NoHead =>
          LET before == {e \in 1..(d - 1) : days[e] # NoHead} IN
          days[d].prev = IF before = {} THEN NoHead
                         ELSE days[CHOOSE e \in before : \A k \in before : k <= e]

\* The counters on a unit's chain strictly increase, so no URL of its tag is sealed
\* twice, whichever taps die between the counter and the chain; unless two taps
\* overlapped (handleTap's replay check).
CountersIncrease ==
  overlapped \/ \A i \in 1..Len(unit) : \A k \in 1..(i - 1) : unit[k] < unit[i]
=============================================================================
