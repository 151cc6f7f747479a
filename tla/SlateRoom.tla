------------------------------- MODULE SlateRoom -------------------------------
(***************************************************************************)
(* The way of an event from the bus to a board: a bridge replays the end   *)
(* of the bus to the room, then follows it and posts what is new; the room *)
(* keeps a row for each id and pushes new rows to its sockets; a viewer    *)
(* follows the room by its socket and, after two failures, by a cursor.    *)
(*                                                                         *)
(* Posts overlap and arrive in any order, or are lost; the bridge may die  *)
(* and be started again, with its posts under way.  A socket delivers in   *)
(* order until it closes; what is in it then is lost.                      *)
(***************************************************************************)
EXTENDS EventBus

CONSTANTS Id(_),     \* the id the bridge gives an event: two events may share one
          Refused(_), \* the room skips the event: a long kind, or a ts that is no date
          TAIL,      \* how many rows a tail or a page has
          REPLAY,    \* how many events the bridge replays
          MaxPost    \* how many events of one post the room takes
ASSUME SlateAssumption == TAIL \in Nat \ {0} /\ REPLAY \in Nat /\ MaxPost \in Nat \ {0}

VARIABLES
  bridge,   \* the process that forwards the bus
  posts,    \* its requests under way
  rows,     \* the room's table, in order of seq
  viewer,   \* the page
  sock      \* the messages on its socket, each the seqs it carries

slateVars == <<busVars, bridge, posts, rows, viewer, sock>>

SlateInit ==
  /\ BusInit
  /\ bridge = [pc |-> "off", boot |-> 0, start |-> 0, read |-> 0, offset |-> 0, lost |-> FALSE]
  /\ posts = {}
  /\ rows = << >>
  /\ sock = << >>
  /\ viewer \in [mode : {"off", "poll"}, failures : {0}, next : {0}, shown : {<< >>},
                 hello : {FALSE}, overrun : {FALSE}, unsent : {FALSE}]

LastOf(s, n) == IF Len(s) > n THEN After(s, Len(s) - n) ELSE s

-----------------------------------------------------------------------------
(* The bridge *)

\* The offset is taken before the replay is read: what comes between is sent twice.
BridgeStart ==
  /\ bridge.pc = "off"
  /\ bridge' = [pc |-> "replay", boot |-> bridge.boot + 1, start |-> Len(file), read |-> 0,
                offset |-> Len(file), lost |-> FALSE]
  /\ UNCHANGED <<busVars, posts, rows, viewer, sock>>

Post(events, replay) == [events |-> events, replay |-> replay, boot |-> bridge.boot]

Replay ==
  /\ bridge.pc = "replay"
  /\ LET all == LastOf(Parse(file), REPLAY) IN
     IF all = << >>
       THEN /\ bridge' = [bridge EXCEPT !.pc = "live", !.read = Len(file)]
            /\ UNCHANGED posts
       ELSE /\ bridge' = [bridge EXCEPT !.pc = "posting", !.read = Len(file)]
            /\ posts' = posts \cup {Post(all, TRUE)}
  /\ UNCHANGED <<busVars, rows, viewer, sock>>

\* (A bug: the offset moves to the end of the file.)
WholeLines_All(text) == Len(text)

\* How much of a text the bridge takes: whole lines only.
WholeLines(text) == Cut(text)

\* A tick of the timer, whether or not earlier posts came back.
Tick ==
  /\ bridge.pc = "live"
  /\ LET text == After(file, bridge.offset)
         events == Parse(Before(text, WholeLines(text)))
     IN /\ WholeLines(text) > 0
        /\ bridge' = [bridge EXCEPT !.offset = @ + WholeLines(text)]
        /\ posts' = IF events = << >> THEN posts ELSE posts \cup {Post(events, FALSE)}
  /\ UNCHANGED <<busVars, rows, viewer, sock>>

BridgeDies ==
  /\ bridge.pc # "off"
  /\ bridge' = [bridge EXCEPT !.pc = "off"]
  /\ UNCHANGED <<busVars, posts, rows, viewer, sock>>

\* What the answer to post p makes of the bridge: a failed replay ends it, a failed
\* post of the timer is only logged.
Answered(p, ok) ==
  LET waits == bridge.pc = "posting" /\ p.replay /\ p.boot = bridge.boot IN
  [bridge EXCEPT !.pc = IF ~waits THEN @ ELSE IF ok THEN "live" ELSE "off"]

\* The post does not reach the room.
PostLost(p) ==
  /\ posts' = posts \ {p}
  /\ bridge' = [Answered(p, FALSE) EXCEPT !.lost = @ \/ p.boot = bridge.boot]
  /\ UNCHANGED <<busVars, rows, viewer, sock>>

-----------------------------------------------------------------------------
(* The room *)

Ids(events) == {Id(events[i]) : i \in 1..Len(events)}

\* The places and the ids of the events that normalizeEvent lets through.
Welcome(events) == {i \in 1..Len(events) : ~Refused(events[i])}
WelcomeIds(events) == {Id(events[i]) : i \in Welcome(events)}

\* A row for every event that is not refused and whose id has none.
Stored(events) ==
  LET taken == IF Len(events) > MaxPost THEN Before(events, MaxPost) ELSE events
      new == {i \in Welcome(taken) :
                /\ Id(taken[i]) \notin Ids(rows)
                /\ \A j \in Welcome(taken) : j < i => Id(taken[j]) # Id(taken[i])}
  IN rows \o Picked(taken, new)

\* The last rows, by their seq.
TailRows == LastOf([seq \in 1..Len(rows) |-> seq], TAIL)

\* The post arrives: its rows are stored and pushed one by one; its answer may be lost.
PostArrives(p) ==
  /\ posts' = posts \ {p}
  /\ rows' = Stored(p.events)
  /\ sock' = IF viewer.mode = "open"
               THEN sock \o [k \in 1..(Len(rows') - Len(rows)) |-> <<Len(rows) + k>>]
               ELSE sock
  /\ \E ok \in BOOLEAN :
       bridge' = [Answered(p, ok) EXCEPT !.lost = @ \/ (p.boot = bridge.boot /\ Len(p.events) > MaxPost)]
  /\ UNCHANGED <<busVars, viewer>>

\* The INSERT of an event throws: the events before it keep their rows, but none of
\* them is pushed, and the bridge is told that its post failed.  unsent is auxiliary:
\* an open socket was not sent such a row.
PostFails(p) ==
  /\ posts' = posts \ {p}
  /\ \E n \in 0..(Len(p.events) - 1) : rows' = Stored(Before(p.events, n))
  /\ rows' # rows
  /\ viewer' = [viewer EXCEPT !.unsent = @ \/ viewer.mode = "open"]
  /\ bridge' = [Answered(p, FALSE) EXCEPT !.lost = @ \/ p.boot = bridge.boot]
  /\ UNCHANGED <<busVars, sock>>

-----------------------------------------------------------------------------
(* The viewer *)

\* (A bug: a row is taken as often as it comes.)
Accepted_Twice(seqs) == [viewer EXCEPT
  !.shown = @ \o seqs,
  !.next = IF seqs # << >> /\ seqs[Len(seqs)] > @ THEN seqs[Len(seqs)] ELSE @]

\* The page after it was given rows: it shows those it has not seen.
Accepted(seqs) == [viewer EXCEPT
  !.shown = @ \o Picked(seqs, {i \in 1..Len(seqs) :
                                 \A k \in 1..Len(viewer.shown) : viewer.shown[k] # seqs[i]}),
  !.next = IF seqs # << >> /\ seqs[Len(seqs)] > @ THEN seqs[Len(seqs)] ELSE @]

\* The socket opens and the room sends the tail.  overrun is auxiliary: more rows than
\* a tail were stored since the page saw one.
Open ==
  /\ viewer.mode = "off"
  /\ viewer' = [viewer EXCEPT !.mode = "open", !.hello = FALSE,
                  !.overrun = @ \/ (viewer.next > 0 /\ Len(rows) > viewer.next + TAIL)]
  /\ sock' = <<TailRows>>
  /\ UNCHANGED <<busVars, bridge, posts, rows>>

\* The page's hello arrives at the room, which sends the tail again.
Hello ==
  /\ viewer.mode = "open" /\ ~viewer.hello
  /\ viewer' = [viewer EXCEPT !.hello = TRUE]
  /\ sock' = Append(sock, TailRows)
  /\ UNCHANGED <<busVars, bridge, posts, rows>>

Receive ==
  /\ sock # << >>
  /\ viewer' = Accepted(Head(sock))
  /\ sock' = Tail(sock)
  /\ UNCHANGED <<busVars, bridge, posts, rows>>

\* The socket closes, or does not open: once more, then the cursor.
Close ==
  /\ viewer.mode \in {"off", "open"}
  /\ viewer' = [viewer EXCEPT !.failures = @ + 1,
                              !.mode = IF viewer.failures + 1 >= 2 THEN "poll" ELSE "off"]
  /\ sock' = << >>
  /\ UNCHANGED <<busVars, bridge, posts, rows>>

\* (A bug: a page is the last rows, as the tail is.)
Page_Newest == TailRows

\* What the room answers to the cursor: the first rows after it, or the tail.
Page ==
  IF viewer.next = 0 THEN TailRows
  ELSE [k \in 1..(IF Len(rows) > viewer.next + TAIL THEN TAIL ELSE Len(rows) - viewer.next)
          |-> viewer.next + k]

Poll ==
  /\ viewer.mode = "poll" /\ Page # << >>
  /\ viewer' = Accepted(Page)
  /\ UNCHANGED <<busVars, bridge, posts, rows, sock>>

-----------------------------------------------------------------------------
SlateNext ==
  \/ BusNext /\ UNCHANGED <<bridge, posts, rows, viewer, sock>>
  \/ BridgeStart \/ Replay \/ Tick \/ BridgeDies
  \/ \E p \in posts : PostLost(p) \/ PostArrives(p) \/ PostFails(p)
  \/ Open \/ Hello \/ Receive \/ Close \/ Poll

SlateSpec == SlateInit /\ [][SlateNext]_slateVars

-----------------------------------------------------------------------------
(* Properties *)

\* Of a bridge that is live, none of whose posts failed, every whole line it passed and
\* the last events before it started, but for those the room refuses, are in the room or
\* on their way, whatever was appended while it started (bus-bridge's replay and tail).
BridgeLosesNothing ==
  bridge.pc = "live" /\ ~bridge.lost =>
    LET there == Ids(rows) \cup UNION {WelcomeIds(p.events) : p \in posts}
        replayed == LastOf(Parse(Before(file, bridge.read)), REPLAY)
    IN /\ WelcomeIds(replayed) \subseteq there
       /\ \A i \in (bridge.start + 1)..bridge.offset :
            Whole(file, i) /\ i + 1 <= bridge.offset /\ ~Refused(file[i].event) =>
              Id(file[i].event) \in there

\* The page shows rows of the room, each once, over every change of its source; and in
\* the room's order, unless the room stored a row that it did not send (connectBus).
ViewerInOrder ==
  /\ \A i \in 1..Len(viewer.shown) : viewer.shown[i] \in 1..Len(rows)
  /\ \A i, j \in 1..Len(viewer.shown) :
       i < j => /\ viewer.shown[i] # viewer.shown[j]
                /\ viewer.shown[i] < viewer.shown[j] \/ viewer.unsent

\* From the first row on it shows, the page skips none, unless more rows than a tail
\* were stored while its socket was down, or a row was stored that the room did not
\* send (bus.tail, the cursor).
ViewerSkipsNothing ==
  ~viewer.overrun /\ ~viewer.unsent /\ viewer.shown # << >> =>
    \A seq \in viewer.shown[1]..viewer.next : \E k \in 1..Len(viewer.shown) : viewer.shown[k] = seq
=============================================================================
