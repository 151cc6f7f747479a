------------------------------- MODULE EventBus -------------------------------
(***************************************************************************)
(* The event bus: one file that every process appends its events to, a     *)
(* line each and without a lock, and a subscriber in a process of its own  *)
(* that reads what is there and then follows the file.                     *)
(*                                                                         *)
(* Sizes are counted in half lines: an append that is cut short leaves the *)
(* first half of its line, and the rest, which ends the line, may come     *)
(* later, after lines of others, or never.  Only a line that consists of   *)
(* the two halves of one event can be parsed.                              *)
(***************************************************************************)
EXTENDS Integers, Sequences, FiniteSets

VARIABLES
  file,       \* runs.jsonl, half line by half line
  published,  \* how many events were published; an event is its number
  halves,     \* the events whose line still lacks its rest
  sub         \* the subscriber

busVars == <<file, published, halves, sub>>

-----------------------------------------------------------------------------
(* Lines *)

First(e) == [event |-> e, half |-> "first"]
Rest(e) == [event |-> e, half |-> "rest"]

\* A line of text that parses starts at place i.
Whole(text, i) ==
  /\ i + 1 <= Len(text)
  /\ text[i] = First(text[i].event) /\ text[i + 1] = Rest(text[i].event)
  /\ i > 1 => text[i - 1].half = "rest"

\* What is at the places P of s, in order.
Picked(s, P) ==
  LET upTo[i \in 0..Len(s)] ==
        IF i = 0 THEN << >>
        ELSE IF i \in P THEN Append(upTo[i - 1], s[i]) ELSE upTo[i - 1]
  IN upTo[Len(s)]

\* The events of a text, in order; a line that does not parse is skipped.
Parse(text) ==
  LET lines == Picked(text, {i \in 1..Len(text) : Whole(text, i)})
  IN [k \in 1..Len(lines) |-> lines[k].event]

\* The place of the last newline.
Cut(text) ==
  LET newlines == {i \in 1..Len(text) : text[i].half = "rest"}
  IN IF newlines = {} THEN 0 ELSE CHOOSE i \in newlines : \A j \in newlines : j <= i

After(text, offset) == SubSeq(text, offset + 1, Len(text))
Before(text, offset) == SubSeq(text, 1, offset)

-----------------------------------------------------------------------------
(* Publishing *)

PublishEvent ==
  /\ published' = published + 1
  /\ file' = file \o <<First(published'), Rest(published')>>
  /\ UNCHANGED <<halves, sub>>

PublishShort ==
  /\ published' = published + 1
  /\ file' = Append(file, First(published'))
  /\ halves' = halves \cup {published'}
  /\ UNCHANGED sub

PublishRest(e) ==
  /\ e \in halves
  /\ file' = Append(file, Rest(e))
  /\ halves' = halves \ {e}
  /\ UNCHANGED <<published, sub>>

-----------------------------------------------------------------------------
(* subscribe *)

\* read and start are auxiliary: the sizes of the file that the backfill read and
\* that the subscriber then took for its offset.
BusInit ==
  /\ file = << >> /\ published = 0 /\ halves = {}
  /\ sub = [pc |-> "out", read |-> 0, start |-> 0, offset |-> 0, buf |-> << >>, got |-> << >>]

Backfill ==
  /\ sub.pc = "out"
  /\ sub' = [sub EXCEPT !.pc = "stat", !.read = Len(file), !.got = Parse(file)]
  /\ UNCHANGED <<file, published, halves>>

TakeOffset ==
  /\ sub.pc = "stat"
  /\ sub' = [sub EXCEPT !.pc = "live", !.start = Len(file), !.offset = Len(file)]
  /\ UNCHANGED <<file, published, halves>>

\* (A bug: what follows the last newline is forgotten.)
Drain_NoBuffer ==
  /\ sub.pc = "live" /\ sub.offset < Len(file)
  /\ LET text == After(file, sub.offset) IN
     sub' = [sub EXCEPT !.offset = Len(file), !.got = @ \o Parse(text)]
  /\ UNCHANGED <<file, published, halves>>

\* A watch or the poll: the new part of the file; an unfinished line waits in buf.
Drain ==
  /\ sub.pc = "live" /\ sub.offset < Len(file)
  /\ LET text == sub.buf \o After(file, sub.offset) IN
     sub' = [sub EXCEPT !.offset = Len(file), !.buf = After(text, Cut(text)),
                        !.got = @ \o Parse(Before(text, Cut(text)))]
  /\ UNCHANGED <<file, published, halves>>

BusNext ==
  \/ PublishEvent
  \/ PublishShort
  \/ \E e \in halves : PublishRest(e)
  \/ Backfill
  \/ TakeOffset
  \/ Drain

-----------------------------------------------------------------------------
(* Properties *)

PlaceOf(e) == CHOOSE i \in 1..Len(file) : file[i] = First(e)

\* A live subscriber was given every event whose line is whole in the file so far,
\* each once and in the order of the file, except those that touch what was appended
\* between its backfill and its offset (subscribe).
MissesOnlyTheGap ==
  sub.pc = "live" =>
    /\ \A i, j \in 1..Len(sub.got) : i < j => PlaceOf(sub.got[i]) < PlaceOf(sub.got[j])
    /\ \A i \in 1..sub.offset :
         Whole(file, i) /\ i + 1 <= sub.offset /\ (i + 1 <= sub.read \/ i > sub.start)
           => \E k \in 1..Len(sub.got) : sub.got[k] = file[i].event
=============================================================================
