---------------------------- MODULE TranscriptTrace ----------------------------
(***************************************************************************)
(* The transcript of a session and the viewer that follows it while it is  *)
(* written: what Session.Run, Loop.Run and the tools append (session.go,   *)
(* loop.go, orchestrator.go of internal/agent), Store of                   *)
(* internal/transcript/store.go, the stream of internal/trace/server.go,   *)
(* ParseSession of parse.go and the page web/flow.html.                    *)
(*                                                                         *)
(* Writer 0 is the loop, writers 1 .. MaxUses are the tools of a batch.    *)
(* Each has a queue of the records it appends before it does anything else *)
(* that shows.  The disk and the network may fail, and the process may     *)
(* stop at any step.                                                       *)
(***************************************************************************)
EXTENDS Naturals, Sequences, FiniteSets, SequencesExt

CONSTANTS
  MaxTurns,
  MaxUses,   \* bound on the calls in one answer
  MaxWire,   \* bound on the lines sent and not yet received
  MaxDrops,  \* bound on the connections the network loses
  MaxSelects \* bound on how often the watcher opens the session

ASSUME TraceAssumption ==
  /\ MaxTurns \in Nat /\ MaxUses \in Nat
  /\ MaxWire \in Nat \ {0} /\ MaxDrops \in Nat /\ MaxSelects \in Nat

Writer == 0 .. MaxUses

Rec(type, turn, use) == [type |-> type, turn |-> turn, use |-> use]

EndRecord == Rec("session_end", 0, 0)

RecordType ==
  {"session_start", "user", "nudge", "notice", "turn_start", "error", "assistant",
   "usage", "reminder", "tool_start", "tool_end", "tool_denied", "results", "done", "session_end"}

Record == [type : RecordType, turn : 0 .. MaxTurns, use : Writer]

VARIABLES
  phase,     \* of the run: "turn", "calling", "answered", "batch", "ending", "closed"
  turn, uses,
  queue,     \* of each writer, what it is about to append
  emitted,   \* how many records were given to Append
  lines,     \* the newline-terminated lines of the file
  tail,      \* what follows them
  writer,    \* who holds the lock of the store, or {}
  broken     \* does the encoder keep an error of the file?

VARIABLES
  page,      \* "idle", "live" (isLive), "ending" (no more, its source open), "closed"
  entries,   \* what it shows
  lastId,    \* how many records the browser has the id of
  selects,
  conn,      \* the connection: "none", "open", "ended" (the server has returned)
  lastEventID, offset, \* of handleStream: what the header said, and the lines consumed
  wire,      \* what the server sent and the page has not got yet
  drops

run == <<phase, turn, uses>>

file == <<lines, tail, writer, broken>>

stream == <<conn, lastEventID, offset, wire>>

watch == <<page, entries, lastId, selects>>

vars == <<run, queue, emitted, file, stream, watch, drops>>

-----------------------------------------------------------------------------
Clean == [state |-> "none", rec |-> EndRecord]

Init ==
  /\ phase = "turn" /\ turn = 0 /\ uses = 0
  /\ queue = [w \in Writer |->
                IF w = 0 THEN <<Rec("session_start", 0, 0), Rec("user", 0, 0)>> ELSE <<>>]
  /\ emitted = 0
  /\ lines = <<>> /\ tail = Clean /\ writer = {} /\ broken = FALSE
  /\ page = "idle" /\ entries = <<>> /\ lastId = 0 /\ selects = 0
  /\ conn = "none" /\ lastEventID = 0 /\ offset = 0 /\ wire = <<>>
  /\ drops = 0

-----------------------------------------------------------------------------
(* The run.  Session.Run appends session_end however Loop.Run ends.        *)
Then(types) == queue' = [queue EXCEPT ![0] = [i \in DOMAIN types |->
                 IF types[i] = "session_end" THEN EndRecord ELSE Rec(types[i], turn', 0)]]

Idle == queue[0] = <<>>

(* The head of the loop: the run was cancelled, or the turns are used up.  *)
StopAtTurn ==
  /\ phase = "turn" /\ Idle
  /\ phase' = "ending"
  /\ UNCHANGED turn
  /\ \/ Then(<<"session_end">>)
     \/ /\ turn = MaxTurns
        /\ Then(<<"notice", "session_end">>) \/ Then(<<"notice", "done", "session_end">>)
  /\ UNCHANGED <<uses, emitted, file, stream, watch, drops>>

(* The nudge, and the notice that maybeCompress did or did not succeed:    *)
(* never in the first turn, whose history is too short for it.             *)
Openings ==
  {<<"turn_start">>, <<"nudge", "notice", "turn_start">>}
    \cup IF turn = 0 THEN {}
        ELSE {<<"notice", "turn_start">>, <<"nudge", "notice", "notice", "turn_start">>}

BeginTurn ==
  /\ phase = "turn" /\ Idle /\ turn < MaxTurns
  /\ phase' = "calling" /\ turn' = turn + 1
  /\ \E types \in Openings : Then(types)
  /\ UNCHANGED <<uses, emitted, file, stream, watch, drops>>

ModelFails ==
  /\ phase = "calling" /\ Idle
  /\ phase' = "ending"
  /\ UNCHANGED turn /\ Then(<<"error", "session_end">>)
  /\ UNCHANGED <<uses, emitted, file, stream, watch, drops>>

ModelAnswers ==
  /\ phase = "calling" /\ Idle
  /\ phase' = "answered"
  /\ uses' \in 0 .. MaxUses
  /\ UNCHANGED turn /\ Then(<<"assistant", "usage">>)
  /\ UNCHANGED <<emitted, file, stream, watch, drops>>

(* An answer without a call: the stop hook reminds, or the loop ends.      *)
NoCall ==
  /\ phase = "answered" /\ uses = 0 /\ Idle
  /\ UNCHANGED turn
  /\ \/ phase' = "turn" /\ Then(<<"notice", "reminder">>)
     \/ phase' = "ending" /\ (Then(<<"session_end">>) \/ Then(<<"done", "session_end">>))
  /\ UNCHANGED <<uses, emitted, file, stream, watch, drops>>

(* RunTools, with the calls of one batch.  A call may be refused, come to  *)
(* an end or panic; one that is unknown or not valid appends nothing and   *)
(* is left out.                                                            *)
StartBatch ==
  /\ phase = "answered" /\ uses > 0 /\ Idle
  /\ phase' = "batch"
  /\ \E kind \in [1 .. uses -> {<<"tool_denied">>, <<"tool_start", "tool_end">>, <<"tool_start">>}] :
       queue' = [w \in Writer |->
                   IF w \in 1 .. uses THEN [i \in DOMAIN kind[w] |-> Rec(kind[w][i], turn, w)] ELSE <<>>]
  /\ UNCHANGED <<turn, uses, emitted, file, stream, watch, drops>>

(* Mutant of BatchEnds: the loop waits for the first call only.            *)
BatchEndsEarly ==
  /\ phase = "batch" /\ queue[1] = <<>>
  /\ phase' = "turn"
  /\ UNCHANGED turn /\ Then(<<"results">>)
  /\ UNCHANGED <<uses, emitted, file, stream, watch, drops>>

(* wg.Wait, and the message with the results.                              *)
BatchEnds ==
  /\ phase = "batch" /\ \A w \in Writer : queue[w] = <<>>
  /\ phase' = "turn"
  /\ UNCHANGED turn /\ Then(<<"results">>)
  /\ UNCHANGED <<uses, emitted, file, stream, watch, drops>>

(* The deferred Close.                                                     *)
Close ==
  /\ phase = "ending" /\ Idle
  /\ phase' = "closed"
  /\ UNCHANGED <<turn, uses, queue, emitted, file, stream, watch, drops>>

-----------------------------------------------------------------------------
(* The store: one record at a time, under its mutex.                       *)
Lock(w) == writer' = writer \cup {w}

(* Mutant of BeginAppend: without the lock.                                *)
BeginAppendUnlocked(w) ==
  /\ ~broken
  /\ w \notin writer /\ queue[w] # <<>>
  /\ Lock(w)
  /\ tail' = [state |-> "part", rec |-> Head(queue[w])]
  /\ emitted' = emitted + 1
  /\ UNCHANGED <<run, queue, lines, broken, stream, watch, drops>>

BeginAppend(w) ==
  /\ ~broken
  /\ writer = {} /\ queue[w] # <<>>
  /\ Lock(w)
  /\ tail' = [state |-> "part", rec |-> Head(queue[w])]
  /\ emitted' = emitted + 1
  /\ UNCHANGED <<run, queue, lines, broken, stream, watch, drops>>

(* All of the line but its newline is in the file.                         *)
LineWhole ==
  /\ writer # {} /\ tail.state = "part"
  /\ tail' = [tail EXCEPT !.state = "whole"]
  /\ UNCHANGED <<run, queue, emitted, lines, writer, broken, stream, watch, drops>>

EndAppend(w) ==
  /\ w \in writer /\ tail.state = "whole"
  /\ lines' = Append(lines, tail.rec) /\ tail' = Clean
  /\ writer' = writer \ {w}
  /\ queue' = [queue EXCEPT ![w] = Tail(@)]
  /\ UNCHANGED <<run, emitted, broken, stream, watch, drops>>

(* Mutant of AppendFails: the encoder forgets the error.                   *)
AppendFailsOnce(w) ==
  /\ w \in writer
  /\ tail' = Clean
  /\ writer' = writer \ {w}
  /\ queue' = [queue EXCEPT ![w] = Tail(@)]
  /\ UNCHANGED <<run, emitted, lines, broken, stream, watch, drops>>

(* The file cannot be written, at any byte of the line.  Append ignores    *)
(* the error and the encoder keeps it.                                     *)
AppendFails(w) ==
  /\ w \in writer
  /\ broken' = TRUE
  /\ tail' \in IF tail.state = "part" THEN {tail, Clean} ELSE {tail}
  /\ writer' = writer \ {w}
  /\ queue' = [queue EXCEPT ![w] = Tail(@)]
  /\ UNCHANGED <<run, emitted, lines, stream, watch, drops>>

(* Once broken, Append writes nothing.                                     *)
AppendNothing(w) ==
  /\ broken
  /\ queue[w] # <<>>
  /\ emitted' = emitted + 1
  /\ queue' = [queue EXCEPT ![w] = Tail(@)]
  /\ UNCHANGED <<run, file, stream, watch, drops>>

-----------------------------------------------------------------------------
(* ParseSession: a last line without its newline counts when it parses.    *)
Log == IF tail.state = "whole" THEN Append(lines, tail.rec) ELSE lines

Running == EndRecord \notin Range(Log)

Done == Rec("stream_done", 0, 0)

Connect(last) ==
  /\ conn' = "open" /\ lastEventID' = last /\ offset' = 0 /\ wire' = <<>>

Disconnect ==
  /\ conn' = "none" /\ lastEventID' = 0 /\ offset' = 0 /\ wire' = <<>>

(* selectSession: a session the list showed as running is followed, any    *)
(* other one loaded.  The list may be old.                                 *)
SelectLive ==
  /\ selects < MaxSelects /\ selects' = selects + 1
  /\ page' = "live" /\ entries' = <<>> /\ lastId' = 0
  /\ Connect(0)
  /\ UNCHANGED <<run, queue, emitted, file, drops>>

SelectEnded ==
  /\ selects < MaxSelects /\ selects' = selects + 1
  /\ ~Running
  /\ page' = "closed" /\ entries' = Log /\ lastId' = 0
  /\ Disconnect
  /\ UNCHANGED <<run, queue, emitted, file, drops>>

(* Mutant of SendLine: Last-Event-ID is not looked at.                     *)
SendLineAgain ==
  /\ conn = "open" /\ offset < Len(lines) /\ Len(wire) < MaxWire
  /\ offset' = offset + 1
  /\ wire' = Append(wire, lines[offset'])
  /\ UNCHANGED <<run, queue, emitted, file, conn, lastEventID, watch, drops>>

(* handleStream sends the next whole line unless the browser has it.       *)
SendLine ==
  /\ conn = "open" /\ offset < Len(lines) /\ Len(wire) < MaxWire
  /\ offset' = offset + 1
  /\ wire' = IF offset' > lastEventID THEN Append(wire, lines[offset']) ELSE wire
  /\ UNCHANGED <<run, queue, emitted, file, conn, lastEventID, watch, drops>>

(* Mutant of SendDone: the stream ends with the lines there are.           *)
SendDoneAtOnce ==
  /\ conn = "open" /\ offset = Len(lines)
  /\ wire' = Append(wire, Done) /\ conn' = "ended"
  /\ UNCHANGED <<run, queue, emitted, file, lastEventID, offset, watch, drops>>

(* Mutant of SendDone: the end counts only when it is sent.                *)
SendDoneIfSent ==
  /\ conn = "open" /\ offset = Len(lines) /\ EndRecord \in Range(lines)
  /\ lastEventID < offset
  /\ wire' = Append(wire, Done) /\ conn' = "ended"
  /\ UNCHANGED <<run, queue, emitted, file, lastEventID, offset, watch, drops>>

SendDone ==
  /\ conn = "open" /\ offset = Len(lines) /\ EndRecord \in Range(lines)
  /\ wire' = Append(wire, Done) /\ conn' = "ended"
  /\ UNCHANGED <<run, queue, emitted, file, lastEventID, offset, watch, drops>>

(* onmessage, and the listener of "done".                                  *)
Deliver ==
  /\ wire # <<>>
  /\ IF Head(wire) = Done
     THEN page' = "closed" /\ UNCHANGED <<entries, lastId>> /\ Disconnect
     ELSE /\ entries' = Append(entries, Head(wire))
          /\ lastId' = lastId + 1
          /\ page' = IF Head(wire) = EndRecord THEN "ending" ELSE page
          /\ wire' = Tail(wire) /\ UNCHANGED <<conn, lastEventID, offset>>
  /\ UNCHANGED <<run, queue, emitted, file, selects, drops>>

(* onerror closes the source of a live page, which then is as the listener *)
(* of "done" leaves it; the browser connects any other anew.               *)
ConnectionLost ==
  /\ conn # "none" /\ drops < MaxDrops /\ drops' = drops + 1
  /\ page' = IF page = "live" THEN "closed" ELSE page
  /\ Disconnect
  /\ UNCHANGED <<run, queue, emitted, file, entries, lastId, selects>>

Reconnect ==
  /\ page = "ending" /\ conn = "none"
  /\ Connect(lastId)
  /\ UNCHANGED <<run, queue, emitted, file, watch, drops>>

(* renderStatus: the label of a session that is selected and not live.     *)
Completed == page \in {"ending", "closed"}

-----------------------------------------------------------------------------
Run ==
  \/ StopAtTurn \/ BeginTurn \/ ModelFails \/ ModelAnswers \/ NoCall
  \/ StartBatch \/ BatchEnds \/ Close

Store ==
  \/ LineWhole
  \/ \E w \in Writer : BeginAppend(w) \/ EndAppend(w) \/ AppendFails(w) \/ AppendNothing(w)

Viewer == SendLine \/ SendDone \/ Deliver \/ Reconnect

Next == Run \/ Store \/ Viewer \/ SelectLive \/ SelectEnded \/ ConnectionLost

(* The server polls every half second and the browser reads what it gets   *)
(* and connects again.  Nothing is assumed of the run, which may die at    *)
(* any step, in the middle of a line too: it then takes no more of them.   *)
Fairness == WF_vars(SendLine) /\ WF_vars(SendDone) /\ WF_vars(Deliver) /\ WF_vars(Reconnect)

FairSpec == Init /\ [][Next]_vars /\ Fairness

-----------------------------------------------------------------------------
(* Every variable stays in its type; the lock of the store is held by one  *)
(* writer at most, and an unfinished line has its writer, unless the disk  *)
(* failed.                                                                 *)
TypeOK ==
  /\ queue \in [Writer -> Seq(Record)]
  /\ lines \in Seq(Record) /\ tail \in [state : {"none", "part", "whole"}, rec : Record]
  /\ entries \in Seq(Record) /\ wire \in Seq(Record \cup {Done})
  /\ offset <= Len(lines) /\ lastEventID <= Len(lines) /\ lastId <= Len(lines)
  /\ Cardinality(writer) <= 1
  /\ tail.state # "none" /\ writer = {} => broken

(* The trace keeps the frame of a turn: what tools report stands behind    *)
(* the answer that called them and before the message with their results,  *)
(* and an end behind its start, whatever order the batch ran in.           *)
TurnFramed ==
  \A i \in DOMAIN Log :
    Log[i].type \in {"tool_start", "tool_end", "tool_denied"} =>
      LET before == SubSeq(Log, 1, i - 1)
      IN  /\ Rec("assistant", Log[i].turn, 0) \in Range(before)
          /\ Rec("results", Log[i].turn, 0) \notin Range(before)
          /\ Log[i].type = "tool_end" =>
               Rec("tool_start", Log[i].turn, Log[i].use) \in Range(before)

(* A trace that shows the end of its session shows all of it: an append    *)
(* that failed is never followed by one that did not.                      *)
NothingMissing == ~Running => Len(Log) = emitted

(* What ParseSession reads is a log that only grows, until its end, and    *)
(* the page shows a beginning of it, each record once and in order,        *)
(* however often the connection is lost or the session opened; the server  *)
(* tells it that the session is done only behind all of it, to a browser   *)
(* that connects again too (server.go, handleStream, Last-Event-ID).       *)
Feed == INSTANCE LogFeed WITH
          log <- Log, shown <- entries, told <- (wire # <<>> /\ Head(wire) = Done)

FollowsLog == Feed!Spec

(* Once the end is in the file, a page that follows does not stay live;    *)
(* once it has shown the end, no loss keeps it from being told, unless the *)
(* watcher opens the session again.                                        *)
WatchEnds ==
  /\ (page = "live" /\ EndRecord \in Range(lines)) ~> page = "closed"
  /\ page = "ending" ~> page \in {"closed", "live"}

(* Only the loss of its connection makes a page call a session completed   *)
(* (flow.html:392) that goes on: what the server and the list tell it of   *)
(* the end is true.                                                        *)
CompletedButForLoss ==
  [][Completed' /\ Running' => Completed \/ ConnectionLost]_vars
=============================================================================
