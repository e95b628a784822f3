------------------------- MODULE TranscriptTrace_proofs -------------------------
(***************************************************************************)
(* Proofs about TranscriptTrace, for any number of turns and calls and any *)
(* bounds on the wire, the lost connections and the watcher's clicks, with *)
(* a disk that may fail and a process that may stop at any step.           *)
(*                                                                         *)
(* The invariant has two halves, after the two sides of the file: what the *)
(* run and the store know of the log, and what the stream and the page     *)
(* have made of it.  Fairness is not used.                                 *)
(***************************************************************************)
EXTENDS TranscriptTrace, SequenceTheorems, FiniteSetTheorems, TLAPS

(* The session's end stands in s.                                          *)
HasEnd(s) == \E i \in 1 .. Len(s) : s[i] = EndRecord

RunTypeInv ==
  /\ phase \in {"turn", "calling", "answered", "batch", "ending", "closed"}
  /\ turn \in 0 .. MaxTurns /\ uses \in 0 .. MaxUses
  /\ queue \in [Writer -> Seq(Record)]
  /\ emitted \in Nat
  /\ lines \in Seq(Record)
  /\ tail \in [state : {"none", "part", "whole"}, rec : Record]
  /\ broken \in BOOLEAN

(* The lock is free, or held by one writer, who is at its next record.     *)
LockInv ==
  /\ \/ writer = {}
     \/ \E w \in Writer :
          /\ writer = {w} /\ ~broken
          /\ queue[w] # <<>> /\ tail.rec = queue[w][1] /\ tail.state # "none"
  /\ writer = {} /\ ~broken => tail.state = "none"

(* Tools append during their batch only, the loop at all other times, and  *)
(* the end of the session is the last the loop appends.                    *)
QueueInv ==
  /\ phase # "batch" => \A w \in Writer \ {0} : queue[w] = <<>>
  /\ phase \in {"batch", "closed"} => queue[0] = <<>>
  /\ \A w \in Writer : \A i \in 1 .. Len(queue[w]) :
       queue[w][i] = EndRecord => w = 0 /\ i = Len(queue[w]) /\ phase = "ending"

(* Nothing follows the end in the log, nor is anything left to append.     *)
EndInv ==
  /\ \A i \in 1 .. (Len(Log) - 1) : Log[i] # EndRecord
  /\ HasEnd(Log) =>
       /\ phase \in {"ending", "closed"}
       /\ \/ queue[0] = <<>>
          \/ Len(queue[0]) = 1 /\ writer = {0} /\ tail.state = "whole"

(* While the disk works, every record given to Append is in the log but    *)
(* for the one being written.                                              *)
CountInv ==
  /\ ~broken => emitted = Len(Log) + (IF tail.state = "part" THEN 1 ELSE 0)
  /\ HasEnd(Log) => emitted = Len(Log)

FileInv == RunTypeInv /\ LockInv /\ QueueInv /\ EndInv /\ CountInv

-----------------------------------------------------------------------------
(* Facts about single records and queues.                                  *)
LEMMA Records ==
  /\ EndRecord \in Record /\ Done \notin Record
  /\ \A type \in RecordType, t \in 0 .. MaxTurns, w \in Writer :
       /\ Rec(type, t, w) \in Record
       /\ type # "session_end" => Rec(type, t, w) # EndRecord
BY TraceAssumption DEF EndRecord, Rec, Record, RecordType, Done, Writer

(* The log is the lines, or the lines and a whole last one.                *)
LEMMA LogIs ==
  ASSUME RunTypeInv
  PROVE  /\ Log \in Seq(Record) /\ Len(Log) \in Nat /\ Len(lines) \in Nat
         /\ tail.state # "whole" => Log = lines
         /\ tail.state = "whole" =>
              /\ Log = Append(lines, tail.rec)
              /\ Len(Log) = Len(lines) + 1 /\ Log[Len(lines) + 1] = tail.rec
         /\ \A i \in 1 .. Len(lines) : Log[i] = lines[i]
         /\ Len(lines) <= Len(Log)
         /\ tail.rec \in Record
<1>1. lines \in Seq(Record) /\ tail.rec \in Record
  BY DEF RunTypeInv
<1>2. CASE tail.state = "whole"
  BY <1>1, <1>2 DEF Log
<1>3. CASE tail.state # "whole"
  BY <1>1, <1>3 DEF Log
<1> QED
  BY <1>1, <1>2, <1>3

(* The records Then puts before the loop.                                  *)
LEMMA ThenQueue ==
  ASSUME RunTypeInv, NEW types \in Seq(RecordType), turn' \in 0 .. MaxTurns, Then(types)
  PROVE  /\ queue' \in [Writer -> Seq(Record)]
         /\ Len(queue'[0]) = Len(types)
         /\ \A i \in 1 .. Len(types) :
              queue'[0][i] = IF types[i] = "session_end" THEN EndRecord ELSE Rec(types[i], turn', 0)
         /\ \A w \in Writer \ {0} : queue'[w] = queue[w]
<1> DEFINE q == [i \in DOMAIN types |->
                   IF types[i] = "session_end" THEN EndRecord ELSE Rec(types[i], turn', 0)]
<1>1. 0 \in Writer
  BY TraceAssumption DEF Writer
<1>2. queue' = [queue EXCEPT ![0] = q]
  BY DEF Then
<1>3. Len(types) \in Nat /\ DOMAIN types = 1 .. Len(types)
  OBVIOUS
<1>4. q \in Seq(Record) /\ Len(q) = Len(types)
  <2>1. ASSUME NEW i \in 1 .. Len(types)
        PROVE  (IF types[i] = "session_end" THEN EndRecord ELSE Rec(types[i], turn', 0)) \in Record
    BY <1>1, <1>3, Records
  <2> QED
    BY <1>3, <2>1
<1> HIDE DEF q
<1>5. queue' \in [Writer -> Seq(Record)] /\ queue'[0] = q
  BY <1>1, <1>2, <1>4 DEF RunTypeInv
<1>6. \A w \in Writer \ {0} : queue'[w] = queue[w]
  BY <1>2 DEF RunTypeInv
<1> QED
  BY <1>3, <1>4, <1>5, <1>6 DEF q

(* What the run appends at a time: records of which none, or only the last,*)
(* is the session's end.                                                   *)
Ending == {<<"session_end">>, <<"notice", "session_end">>, <<"error", "session_end">>,
           <<"done", "session_end">>, <<"notice", "done", "session_end">>}

Opening == {<<"turn_start">>, <<"notice", "turn_start">>, <<"nudge", "notice", "turn_start">>,
            <<"nudge", "notice", "notice", "turn_start">>}

Inside == {<<"assistant", "usage">>, <<"notice", "reminder">>, <<"results">>}

Ordinary ==
  Opening \cup Inside \cup {<<"tool_denied">>, <<"tool_start", "tool_end">>, <<"tool_start">>}

LEMMA EndingTypes ==
  ASSUME NEW types \in Ending
  PROVE  /\ types \in Seq(RecordType)
         /\ \A i \in 1 .. Len(types) : types[i] = "session_end" => i = Len(types)
<1>1. CASE types = <<"session_end">>
  BY <1>1 DEF RecordType
<1>2. CASE types = <<"notice", "session_end">>
  BY <1>2 DEF RecordType
<1>3. CASE types = <<"error", "session_end">>
  BY <1>3 DEF RecordType
<1>4. CASE types = <<"done", "session_end">>
  BY <1>4 DEF RecordType
<1>5. CASE types = <<"notice", "done", "session_end">>
  BY <1>5 DEF RecordType
<1> QED
  BY <1>1, <1>2, <1>3, <1>4, <1>5 DEF Ending

LEMMA OrdinaryTypes ==
  ASSUME NEW types \in Ordinary
  PROVE  /\ types \in Seq(RecordType)
         /\ \A i \in 1 .. Len(types) : types[i] # "session_end"
<1> USE DEF RecordType
<1>1. CASE types = <<"turn_start">>
  BY <1>1
<1>2. CASE types = <<"notice", "turn_start">>
  BY <1>2
<1>3. CASE types = <<"nudge", "notice", "turn_start">>
  BY <1>3
<1>4. CASE types = <<"nudge", "notice", "notice", "turn_start">>
  BY <1>4
<1>5. CASE types = <<"assistant", "usage">>
  BY <1>5
<1>6. CASE types = <<"notice", "reminder">>
  BY <1>6
<1>7. CASE types = <<"results">>
  BY <1>7
<1>8. CASE types = <<"tool_denied">>
  BY <1>8
<1>9. CASE types = <<"tool_start", "tool_end">>
  BY <1>9
<1>10. CASE types = <<"tool_start">>
  BY <1>10
<1> QED
  BY <1>1, <1>2, <1>3, <1>4, <1>5, <1>6, <1>7, <1>8, <1>9, <1>10 DEF Ordinary, Opening, Inside

(* An empty queue is one without length.                                   *)
LEMMA NoneLeft == ASSUME NEW S, NEW s \in Seq(S)  PROVE s = <<>> <=> Len(s) = 0
OBVIOUS

(* A record leaves the head of a queue.                                    *)
LEMMA TailQueue ==
  ASSUME RunTypeInv, NEW w \in Writer, queue[w] # <<>>,
         queue' = [queue EXCEPT ![w] = Tail(@)]
  PROVE  /\ queue' \in [Writer -> Seq(Record)]
         /\ Len(queue'[w]) = Len(queue[w]) - 1 /\ Len(queue[w]) \in Nat \ {0}
         /\ \A i \in 1 .. Len(queue'[w]) : queue'[w][i] = queue[w][i + 1]
         /\ Len(queue[w]) = 1 <=> queue'[w] = <<>>
         /\ \A v \in Writer \ {w} : queue'[v] = queue[v]
<1>1. queue[w] \in Seq(Record)
  BY DEF RunTypeInv
<1>2. queue'[w] = Tail(queue[w])
  BY DEF RunTypeInv
<1>3. /\ Tail(queue[w]) \in Seq(Record)
      /\ Len(Tail(queue[w])) = Len(queue[w]) - 1 /\ Len(queue[w]) \in Nat \ {0}
      /\ \A i \in 1 .. (Len(queue[w]) - 1) : Tail(queue[w])[i] = queue[w][i + 1]
  BY <1>1
<1>4. Len(queue[w]) = 1 <=> Tail(queue[w]) = <<>>
  <2>1. Tail(queue[w]) = <<>> <=> Len(Tail(queue[w])) = 0
    BY <1>3, NoneLeft
  <2> QED
    BY <1>3, <2>1
<1>5. queue' \in [Writer -> Seq(Record)] /\ \A v \in Writer \ {w} : queue'[v] = queue[v]
  BY <1>3 DEF RunTypeInv
<1> QED
  BY <1>2, <1>3, <1>4, <1>5

-----------------------------------------------------------------------------
(* Nothing has been written, and the loop is about to write its head.      *)
LEMMA InitFile == Init => FileInv
<1> SUFFICES ASSUME Init  PROVE FileInv
  OBVIOUS
<1> USE TraceAssumption
<1> DEFINE head == <<Rec("session_start", 0, 0), Rec("user", 0, 0)>>
<1>1. /\ 0 \in Writer /\ 0 \in 0 .. MaxTurns /\ 0 \in 0 .. MaxUses
      /\ Rec("session_start", 0, 0) \in Record \ {EndRecord} /\ Rec("user", 0, 0) \in Record \ {EndRecord}
  BY Records DEF Writer, RecordType
<1>2. /\ head \in Seq(Record) /\ Len(head) = 2
      /\ \A i \in 1 .. 2 : head[i] # EndRecord
  BY <1>1
<1> HIDE DEF head
<1>3. queue = [w \in Writer |-> IF w = 0 THEN head ELSE <<>>]
  BY DEF Init, head
<1>4. queue \in [Writer -> Seq(Record)]
  BY <1>2, <1>3
<1>5. /\ lines = <<>> /\ Log = <<>> /\ tail.state = "none" /\ writer = {} /\ broken = FALSE
      /\ phase = "turn" /\ emitted = 0
  BY DEF Init, Clean, Log
<1>6. RunTypeInv
  <2>1. tail \in [state : {"none", "part", "whole"}, rec : Record]
    BY Records DEF Init, Clean
  <2>2. lines \in Seq(Record)
    BY <1>5
  <2> QED
    BY <1>1, <1>4, <1>5, <2>1, <2>2 DEF RunTypeInv, Init
<1>7. LockInv /\ EndInv /\ CountInv
  BY <1>5 DEF LockInv, EndInv, CountInv, HasEnd
<1>8. QueueInv
  BY <1>1, <1>2, <1>3, <1>5 DEF QueueInv
<1> QED
  BY <1>6, <1>7, <1>8 DEF FileInv

-----------------------------------------------------------------------------
(* The run.  Before each of its steps but Close no record is under way.    *)

(* A step of the run leaves the file alone.                                *)
LEMMA RunKeepsFile ==
  ASSUME FileInv, phase \notin {"ending", "closed"}, writer = {},
         RunTypeInv', QueueInv', UNCHANGED <<emitted, file>>
  PROVE  FileInv'
<1>1. UNCHANGED <<lines, tail, writer, broken>> /\ Log' = Log
  BY DEF file, Log
<1>2. ~HasEnd(Log)
  BY DEF FileInv, EndInv
<1>3. LockInv'
  BY <1>1 DEF FileInv, LockInv
<1>4. EndInv' /\ CountInv'
  BY <1>1, <1>2 DEF FileInv, EndInv, CountInv, HasEnd
<1> QED
  BY <1>3, <1>4 DEF FileInv

(* When the loop has appended all it had, nobody holds the lock, unless a  *)
(* batch runs.                                                             *)
LEMMA IdleMeansFree ==
  ASSUME FileInv, phase # "batch", Idle
  PROVE  writer = {} /\ \A w \in Writer : queue[w] = <<>>
BY DEF FileInv, LockInv, QueueInv, Idle

(* The loop goes on with new records.                                      *)
LEMMA LoopStep ==
  ASSUME FileInv, \A w \in Writer : queue[w] = <<>>,
         phase \notin {"ending", "closed"}, writer = {},
         phase' \in {"turn", "calling", "answered", "ending"},
         turn' \in 0 .. MaxTurns, uses' \in 0 .. MaxUses,
         NEW types \in Seq(RecordType), Then(types),
         \A i \in 1 .. Len(types) :
           types[i] = "session_end" => i = Len(types) /\ phase' = "ending",
         UNCHANGED <<emitted, file>>
  PROVE  FileInv'
<1> USE DEF FileInv
<1>1. /\ queue' \in [Writer -> Seq(Record)]
      /\ Len(queue'[0]) = Len(types)
      /\ \A i \in 1 .. Len(types) :
           queue'[0][i] = IF types[i] = "session_end" THEN EndRecord ELSE Rec(types[i], turn', 0)
      /\ \A w \in Writer \ {0} : queue'[w] = queue[w]
  BY ThenQueue
<1>2. RunTypeInv'
  BY <1>1 DEF RunTypeInv, file
<1>3. QueueInv'
  <2>1. \A w \in Writer \ {0} : queue'[w] = <<>> /\ Len(queue'[w]) = 0
    BY <1>1
  <2>2. 0 \in Writer
    BY TraceAssumption DEF Writer
  <2>3. ASSUME NEW i \in 1 .. Len(queue'[0]), queue'[0][i] = EndRecord
        PROVE  i = Len(queue'[0]) /\ phase' = "ending"
    <3>1. i \in 1 .. Len(types) /\ types[i] \in RecordType
      BY <1>1
    <3>2. types[i] = "session_end"
      BY <1>1, <2>2, <2>3, <3>1, Records
    <3> QED
      BY <1>1, <3>1, <3>2
  <2> QED
    BY <2>1, <2>3 DEF QueueInv
<1> QED
  BY <1>2, <1>3, RunKeepsFile

(* Every step of the run keeps the file's half of the invariant.           *)
LEMMA RunFile == FileInv /\ Run => FileInv'
<1> SUFFICES ASSUME FileInv, Run  PROVE FileInv'
  OBVIOUS
<1> USE TraceAssumption
<1>1. turn \in 0 .. MaxTurns /\ uses \in 0 .. MaxUses
  BY DEF FileInv, RunTypeInv
<1>2. CASE StopAtTurn
  <2>1. /\ phase = "turn" /\ phase' = "ending" /\ Idle
        /\ UNCHANGED <<turn, uses, emitted, file>>
    BY <1>2 DEF StopAtTurn
  <2>2. PICK types \in Ending : Then(types)
    BY <1>2 DEF StopAtTurn, Ending
  <2>3. /\ types \in Seq(RecordType)
        /\ \A i \in 1 .. Len(types) : types[i] = "session_end" => i = Len(types)
    BY EndingTypes
  <2> QED
    BY <1>1, <2>1, <2>2, <2>3, IdleMeansFree, LoopStep
<1>3. CASE BeginTurn
  <2>1. /\ phase = "turn" /\ phase' = "calling" /\ Idle /\ turn' = turn + 1 /\ turn < MaxTurns
        /\ UNCHANGED <<uses, emitted, file>>
    BY <1>3 DEF BeginTurn
  <2>2. PICK types \in Ordinary : Then(types)
    BY <1>3 DEF BeginTurn, Openings, Opening, Ordinary
  <2>3. /\ types \in Seq(RecordType)
        /\ \A i \in 1 .. Len(types) : types[i] # "session_end"
    BY OrdinaryTypes
  <2>4. turn' \in 0 .. MaxTurns
    BY <1>1, <2>1
  <2> QED
    BY <1>1, <2>1, <2>2, <2>3, <2>4, IdleMeansFree, LoopStep
<1>4. CASE ModelFails
  <2>1. /\ phase = "calling" /\ phase' = "ending" /\ Idle /\ UNCHANGED <<turn, uses, emitted, file>>
        /\ Then(<<"error", "session_end">>)
    BY <1>4 DEF ModelFails
  <2> DEFINE types == <<"error", "session_end">>
  <2>2. /\ types \in Seq(RecordType)
        /\ \A i \in 1 .. Len(types) : types[i] = "session_end" => i = Len(types)
    BY DEF RecordType
  <2> HIDE DEF types
  <2> QED
    BY <1>1, <2>1, <2>2, IdleMeansFree, LoopStep DEF types
<1>5. CASE ModelAnswers
  <2>1. /\ phase = "calling" /\ phase' = "answered" /\ Idle /\ uses' \in 0 .. MaxUses
        /\ UNCHANGED <<turn, emitted, file>> /\ Then(<<"assistant", "usage">>)
    BY <1>5 DEF ModelAnswers
  <2> DEFINE types == <<"assistant", "usage">>
  <2>2. /\ types \in Seq(RecordType)
        /\ \A i \in 1 .. Len(types) : types[i] # "session_end"
    BY DEF RecordType
  <2> HIDE DEF types
  <2> QED
    BY <1>1, <2>1, <2>2, IdleMeansFree, LoopStep DEF types
<1>6. CASE NoCall
  <2>1. /\ phase = "answered" /\ Idle /\ UNCHANGED <<turn, uses, emitted, file>>
        /\ phase' \in {"turn", "ending"}
    BY <1>6 DEF NoCall
  <2>2. writer = {} /\ \A w \in Writer : queue[w] = <<>>
    BY <2>1, IdleMeansFree
  <2>3. CASE Then(<<"notice", "reminder">>)
    BY <1>1, <2>1, <2>2, <2>3, OrdinaryTypes, LoopStep DEF Ordinary, Inside
  <2>4. CASE phase' = "ending" /\ ~Then(<<"notice", "reminder">>)
    <3>1. PICK types \in Ending : Then(types)
      BY <1>6, <2>4 DEF NoCall, Ending
    <3>2. /\ types \in Seq(RecordType)
          /\ \A i \in 1 .. Len(types) : types[i] = "session_end" => i = Len(types)
      BY EndingTypes
    <3> QED
      BY <1>1, <2>1, <2>2, <2>4, <3>1, <3>2, LoopStep
  <2> QED
    BY <1>6, <2>3, <2>4 DEF NoCall
<1>7. CASE StartBatch
  <2>1. /\ phase = "answered" /\ phase' = "batch" /\ Idle /\ UNCHANGED <<turn, uses, emitted, file>>
    BY <1>7 DEF StartBatch
  <2>2. PICK kind \in [1 .. uses -> {<<"tool_denied">>, <<"tool_start", "tool_end">>, <<"tool_start">>}] :
          queue' = [w \in Writer |->
                      IF w \in 1 .. uses THEN [i \in DOMAIN kind[w] |-> Rec(kind[w][i], turn, w)] ELSE <<>>]
    BY <1>7 DEF StartBatch
  <2>3. ASSUME NEW w \in 1 .. uses
        PROVE  LET q == [i \in DOMAIN kind[w] |-> Rec(kind[w][i], turn, w)]
               IN  q \in Seq(Record) /\ \A i \in 1 .. Len(q) : q[i] # EndRecord
    <3>1. w \in Writer
      BY <1>1 DEF Writer
    <3>2. kind[w] \in Ordinary
      BY DEF Ordinary
    <3>3. /\ kind[w] \in Seq(RecordType) /\ Len(kind[w]) \in Nat /\ DOMAIN kind[w] = 1 .. Len(kind[w])
          /\ \A i \in 1 .. Len(kind[w]) : kind[w][i] # "session_end"
      BY <3>2, OrdinaryTypes
    <3>4. ASSUME NEW i \in 1 .. Len(kind[w])
          PROVE  Rec(kind[w][i], turn, w) \in Record \ {EndRecord}
      <4>1. kind[w][i] \in RecordType
        BY <3>3
      <4> QED
        BY <1>1, <3>1, <3>3, <4>1, Records
    <3> QED
      BY <3>3, <3>4
  <2>4. /\ queue' \in [Writer -> Seq(Record)]
        /\ \A w \in Writer : \A i \in 1 .. Len(queue'[w]) : queue'[w][i] # EndRecord
    <3>1. ASSUME NEW w \in Writer
          PROVE  queue'[w] \in Seq(Record) /\ \A i \in 1 .. Len(queue'[w]) : queue'[w][i] # EndRecord
      <4>1. CASE w \in 1 .. uses
        <5>1. queue'[w] = [i \in DOMAIN kind[w] |-> Rec(kind[w][i], turn, w)]
          BY <2>2, <4>1
        <5> QED
          BY <2>3, <4>1, <5>1
      <4>2. CASE w \notin 1 .. uses
        <5>1. queue'[w] = <<>>
          BY <2>2, <4>2
        <5> QED
          BY <5>1
      <4> QED
        BY <4>1, <4>2
    <3>2. DOMAIN queue' = Writer /\ queue' = [w \in Writer |-> queue'[w]]
      BY <2>2
    <3> QED
      BY <3>1, <3>2
  <2>5. queue'[0] = <<>>
    BY <1>1, <2>2 DEF Writer
  <2>6. RunTypeInv' /\ QueueInv'
    BY <2>1, <2>4, <2>5 DEF FileInv, RunTypeInv, QueueInv, file
  <2> QED
    BY <2>1, <2>6, IdleMeansFree, RunKeepsFile
<1>8. CASE BatchEnds
  <2>1. /\ phase = "batch" /\ phase' = "turn" /\ UNCHANGED <<turn, uses, emitted, file>>
        /\ Then(<<"results">>) /\ \A w \in Writer : queue[w] = <<>>
    BY <1>8 DEF BatchEnds
  <2> DEFINE types == <<"results">>
  <2>2. /\ types \in Seq(RecordType)
        /\ \A i \in 1 .. Len(types) : types[i] # "session_end"
    BY DEF RecordType
  <2> HIDE DEF types
  <2>3. writer = {}
    BY <2>1 DEF FileInv, LockInv
  <2> QED
    BY <1>1, <2>1, <2>2, <2>3, LoopStep DEF types
<1>9. CASE Close
  <2>1. /\ phase = "ending" /\ phase' = "closed" /\ Idle
        /\ UNCHANGED <<turn, uses, queue, emitted, lines, tail, writer, broken>>
    BY <1>9 DEF Close, file
  <2>2. writer = {} /\ \A w \in Writer : queue[w] = <<>>
    BY <2>1, IdleMeansFree
  <2>3. RunTypeInv' /\ LockInv'
    BY <2>1 DEF FileInv, RunTypeInv, LockInv
  <2>4. QueueInv'
    BY <2>1, <2>2 DEF QueueInv, Idle
  <2>5. EndInv' /\ CountInv'
    BY <2>1 DEF FileInv, EndInv, CountInv, HasEnd, Log
  <2> QED
    BY <2>3, <2>4, <2>5 DEF FileInv
<1> QED
  BY <1>2, <1>3, <1>4, <1>5, <1>6, <1>7, <1>8, <1>9 DEF Run

-----------------------------------------------------------------------------
(* The store.                                                              *)

(* Once the end is in the log, all that is left is to finish its line.     *)
LEMMA AfterTheEnd ==
  ASSUME FileInv, HasEnd(Log), NEW w \in Writer, queue[w] # <<>>
  PROVE  w = 0 /\ Len(queue[0]) = 1 /\ writer = {0} /\ tail.state = "whole"
<1>1. phase \in {"ending", "closed"}
  BY DEF FileInv, EndInv
<1>2. w = 0
  BY <1>1 DEF FileInv, QueueInv
<1> QED
  BY <1>2 DEF FileInv, EndInv

(* The writer who holds the lock, if anyone does.                          *)
LEMMA Holder ==
  ASSUME FileInv, NEW w \in writer
  PROVE  /\ w \in Writer /\ writer = {w} /\ writer \ {w} = {} /\ ~broken
         /\ queue[w] # <<>> /\ tail.rec = queue[w][1] /\ tail.state \in {"part", "whole"}
BY DEF FileInv, LockInv, RunTypeInv

(* Taking its head from a queue keeps what the queues promise.             *)
LEMMA TailKeepsQueues ==
  ASSUME FileInv, NEW w \in Writer, queue[w] # <<>>,
         queue' = [queue EXCEPT ![w] = Tail(@)], UNCHANGED phase
  PROVE  QueueInv'
<1> USE DEF FileInv
<1>1. /\ Len(queue'[w]) = Len(queue[w]) - 1 /\ Len(queue[w]) \in Nat \ {0}
      /\ \A i \in 1 .. Len(queue'[w]) : queue'[w][i] = queue[w][i + 1]
      /\ \A v \in Writer \ {w} : queue'[v] = queue[v]
  BY TailQueue
<1>2. phase # "batch" => \A v \in Writer \ {0} : queue'[v] = <<>>
  BY <1>1 DEF QueueInv
<1>3. phase \in {"batch", "closed"} => queue'[0] = <<>>
  <2>1. 0 \in Writer
    BY TraceAssumption DEF Writer
  <2> QED
    BY <1>1, <2>1 DEF QueueInv
<1>4. ASSUME NEW v \in Writer, NEW i \in 1 .. Len(queue'[v]), queue'[v][i] = EndRecord
      PROVE  v = 0 /\ i = Len(queue'[v]) /\ phase = "ending"
  <2>1. CASE v = w
    <3>1. i + 1 \in 1 .. Len(queue[w]) /\ queue[w][i + 1] = EndRecord
      BY <1>1, <1>4, <2>1
    <3>2. w = 0 /\ i + 1 = Len(queue[w]) /\ phase = "ending"
      BY <3>1 DEF QueueInv
    <3> QED
      BY <1>1, <2>1, <3>2
  <2>2. CASE v # w
    <3>1. queue'[v] = queue[v]
      BY <1>1, <2>2
    <3> QED
      BY <1>4, <3>1 DEF QueueInv
  <2> QED
    BY <2>1, <2>2
<1> QED
  BY <1>2, <1>3, <1>4 DEF QueueInv

(* A record goes to the file.                                              *)
LEMMA BeginAppendFile ==
  ASSUME FileInv, NEW w \in Writer, BeginAppend(w)
  PROVE  FileInv'
<1> USE DEF FileInv
<1>1. /\ ~broken /\ writer = {} /\ queue[w] # <<>> /\ writer' = {w}
      /\ tail' = [state |-> "part", rec |-> Head(queue[w])] /\ emitted' = emitted + 1
      /\ UNCHANGED <<phase, turn, uses, queue, lines, broken>>
  BY DEF BeginAppend, Lock, run
<1>2. tail.state = "none" /\ Log = lines /\ Log' = Log
  BY <1>1 DEF LockInv, Log
<1>3. ~HasEnd(Log)
  BY <1>1, AfterTheEnd
<1>4. Head(queue[w]) = queue[w][1] /\ Head(queue[w]) \in Record
  BY <1>1 DEF RunTypeInv
<1>5. RunTypeInv'
  BY <1>1, <1>4 DEF RunTypeInv
<1>6. LockInv' /\ QueueInv'
  BY <1>1, <1>4 DEF LockInv, QueueInv
<1>7. EndInv' /\ CountInv'
  BY <1>1, <1>2, <1>3, LogIs DEF EndInv, CountInv, HasEnd, RunTypeInv
<1> QED
  BY <1>5, <1>6, <1>7

(* Its line is whole: the log has one more record, which may be the end.   *)
LEMMA LineWholeFile ==
  ASSUME FileInv, LineWhole
  PROVE  /\ FileInv' /\ ~HasEnd(Log)
         /\ Log' = Append(Log, tail.rec) /\ Log = lines /\ lines' = lines /\ tail.rec \in Record
<1> USE DEF FileInv
<1>1. /\ tail.state = "part" /\ tail' = [tail EXCEPT !.state = "whole"]
      /\ UNCHANGED <<phase, turn, uses, queue, emitted, lines, writer, broken>>
  BY DEF LineWhole, run
<1>2. PICK w \in writer : TRUE
  BY DEF LineWhole
<1>3. w \in Writer /\ writer = {w} /\ ~broken /\ queue[w] # <<>> /\ tail.rec = queue[w][1]
  BY Holder
<1>4. /\ tail' \in [state : {"none", "part", "whole"}, rec : Record]
      /\ tail'.state = "whole" /\ tail'.rec = tail.rec
  BY <1>1 DEF RunTypeInv
<1>5. /\ lines \in Seq(Record) /\ tail.rec \in Record /\ Log = lines
      /\ Log' = Append(lines, tail.rec)
  BY <1>1, <1>4 DEF RunTypeInv, Log
<1>6. ~HasEnd(Log)
  BY <1>1, <1>3, AfterTheEnd
<1>7. /\ Len(Log') = Len(lines) + 1 /\ Log'[Len(lines) + 1] = tail.rec
      /\ \A i \in 1 .. Len(lines) : Log'[i] = lines[i]
      /\ Len(lines) \in Nat
  BY <1>5
<1>8. RunTypeInv' /\ LockInv' /\ QueueInv'
  BY <1>1, <1>3, <1>4 DEF RunTypeInv, LockInv, QueueInv
<1>9. EndInv'
  <2>1. \A i \in 1 .. (Len(Log') - 1) : Log'[i] # EndRecord
    BY <1>5, <1>6, <1>7 DEF HasEnd
  <2>2. ASSUME HasEnd(Log')
        PROVE  phase = "ending" /\ w = 0 /\ Len(queue[0]) = 1
    <3>1. tail.rec = EndRecord
      BY <1>5, <1>6, <1>7, <2>2 DEF HasEnd
    <3>2. queue[w] \in Seq(Record)
      BY <1>3 DEF RunTypeInv
    <3>3. Len(queue[w]) \in Nat \ {0}
      BY <1>3, <3>2
    <3>4. 1 \in 1 .. Len(queue[w])
      BY <3>3
    <3> QED
      BY <1>3, <3>1, <3>4 DEF QueueInv
  <2> QED
    BY <1>1, <1>3, <1>4, <2>1, <2>2 DEF EndInv
<1>10. CountInv'
  BY <1>1, <1>3, <1>4, <1>5, <1>7 DEF CountInv
<1> QED
  BY <1>1, <1>5, <1>6, <1>8, <1>9, <1>10

(* The newline: the log does not change.                                   *)
LEMMA EndAppendFile ==
  ASSUME FileInv, NEW w \in Writer, EndAppend(w)
  PROVE  /\ FileInv' /\ Log' = Log /\ lines' = Log
         /\ lines' = Append(lines, tail.rec) /\ tail.rec \in Record /\ ~HasEnd(lines)
<1> USE DEF FileInv
<1>1. /\ w \in writer /\ tail.state = "whole"
      /\ lines' = Append(lines, tail.rec) /\ tail' = Clean /\ writer' = writer \ {w}
      /\ queue' = [queue EXCEPT ![w] = Tail(@)]
      /\ UNCHANGED <<phase, turn, uses, emitted, broken>>
  BY DEF EndAppend, run
<1>2. writer = {w} /\ ~broken /\ queue[w] # <<>> /\ writer' = {}
  BY <1>1, Holder
<1>3. /\ lines \in Seq(Record) /\ tail.rec \in Record /\ Log = Append(lines, tail.rec)
      /\ Log' = lines' /\ tail'.state = "none" /\ tail' \in [state : {"none", "part", "whole"}, rec : Record]
  BY <1>1, Records DEF RunTypeInv, Log, Clean
<1>4. /\ queue' \in [Writer -> Seq(Record)]
      /\ Len(queue[w]) = 1 <=> queue'[w] = <<>>
      /\ \A v \in Writer \ {w} : queue'[v] = queue[v]
  BY <1>1, <1>2, TailQueue
<1>5. RunTypeInv' /\ LockInv'
  BY <1>1, <1>2, <1>3, <1>4 DEF RunTypeInv, LockInv
<1>6. QueueInv'
  BY <1>1, <1>2, TailKeepsQueues
<1>7. ASSUME HasEnd(Log)
      PROVE  queue'[0] = <<>>
  BY <1>2, <1>4, <1>7, AfterTheEnd
<1>8. EndInv' /\ CountInv'
  BY <1>1, <1>2, <1>3, <1>7 DEF EndInv, CountInv
<1>9. ~HasEnd(lines)
  BY <1>3 DEF EndInv, HasEnd
<1> QED
  BY <1>1, <1>3, <1>5, <1>6, <1>8, <1>9

(* The disk fails, before the end was in the log or after it.              *)
LEMMA AppendFailsFile ==
  ASSUME FileInv, NEW w \in Writer, AppendFails(w)
  PROVE  FileInv' /\ Log' = Log
<1> USE DEF FileInv
<1>1. /\ w \in writer /\ broken' = TRUE /\ writer' = writer \ {w}
      /\ tail' \in (IF tail.state = "part" THEN {tail, Clean} ELSE {tail})
      /\ queue' = [queue EXCEPT ![w] = Tail(@)]
      /\ UNCHANGED <<phase, turn, uses, emitted, lines>>
  BY DEF AppendFails, run
<1>2. writer = {w} /\ ~broken /\ queue[w] # <<>> /\ writer' = {}
  BY <1>1, Holder
<1>3. Log' = Log /\ tail' \in [state : {"none", "part", "whole"}, rec : Record]
  <2>1. CASE tail' = tail
    BY <1>1, <2>1 DEF RunTypeInv, Log
  <2>2. CASE tail.state = "part" /\ tail' = Clean
    BY <1>1, <2>2, Records DEF Log, Clean
  <2> QED
    BY <1>1, <2>1, <2>2
<1>4. /\ queue' \in [Writer -> Seq(Record)]
      /\ Len(queue[w]) = 1 <=> queue'[w] = <<>>
      /\ \A v \in Writer \ {w} : queue'[v] = queue[v]
  BY <1>1, <1>2, TailQueue
<1>5. RunTypeInv' /\ LockInv'
  BY <1>1, <1>2, <1>3, <1>4 DEF RunTypeInv, LockInv
<1>6. QueueInv'
  BY <1>1, <1>2, TailKeepsQueues
<1>7. ASSUME HasEnd(Log)
      PROVE  queue'[0] = <<>>
  BY <1>2, <1>4, <1>7, AfterTheEnd
<1>8. EndInv' /\ CountInv'
  BY <1>1, <1>3, <1>7 DEF EndInv, CountInv
<1> QED
  BY <1>3, <1>5, <1>6, <1>8

(* A broken encoder: the record is counted and lost.                       *)
LEMMA AppendNothingFile ==
  ASSUME FileInv, NEW w \in Writer, AppendNothing(w)
  PROVE  FileInv'
<1> USE DEF FileInv
<1>1. /\ broken /\ queue[w] # <<>> /\ emitted' = emitted + 1
      /\ queue' = [queue EXCEPT ![w] = Tail(@)]
      /\ UNCHANGED <<phase, turn, uses, lines, tail, writer, broken>>
  BY DEF AppendNothing, run, file
<1>2. writer = {} /\ Log' = Log
  BY <1>1 DEF LockInv, Log
<1>3. ~HasEnd(Log)
  BY <1>1, <1>2, AfterTheEnd
<1>4. queue' \in [Writer -> Seq(Record)]
  BY <1>1, TailQueue
<1>5. RunTypeInv' /\ LockInv'
  BY <1>1, <1>2, <1>4 DEF RunTypeInv, LockInv
<1>6. QueueInv'
  BY <1>1, TailKeepsQueues
<1>7. EndInv' /\ CountInv'
  BY <1>1, <1>2, <1>3 DEF EndInv, CountInv
<1> QED
  BY <1>5, <1>6, <1>7

(* Every step of the store keeps the file's half of the invariant.         *)
LEMMA StoreFile == FileInv /\ Store => FileInv'
BY BeginAppendFile, LineWholeFile, EndAppendFile, AppendFailsFile, AppendNothingFile DEF Store

-----------------------------------------------------------------------------
(* The stream and the page.                                                *)

ViewTypeInv ==
  /\ page \in {"idle", "live", "ending", "closed"}
  /\ entries \in Seq(Record) /\ lastId \in Nat
  /\ conn \in {"none", "open", "ended"} /\ lastEventID \in Nat /\ offset \in Nat
  /\ wire \in Seq(Record \cup {Done})

(* The page shows a beginning of the log; while it follows the session the *)
(* browser has the id of just what it shows.                               *)
PageInv ==
  /\ Len(entries) <= Len(Log)
  /\ \A i \in 1 .. Len(entries) : entries[i] = Log[i]
  /\ page \in {"live", "ending"} => lastId = Len(entries)
  /\ lastId <= Len(lines)
  /\ conn # "none" => page \in {"live", "ending"}

(* What is on the wire follows what is shown, up to where the server is,   *)
(* or to the end and the word that it is the end.                          *)
StreamInv ==
  /\ offset <= Len(lines) /\ lastEventID <= Len(lines)
  /\ conn = "none" => wire = <<>>
  /\ conn = "open" =>
       /\ Len(entries) + Len(wire) = IF offset > lastEventID THEN offset ELSE lastEventID
       /\ \A i \in 1 .. Len(wire) : wire[i] = lines[Len(entries) + i]
  /\ conn = "ended" =>
       /\ HasEnd(lines)
       /\ Len(entries) + Len(wire) = Len(lines) + 1
       /\ wire # <<>> /\ wire[Len(wire)] = Done
       /\ \A i \in 1 .. (Len(wire) - 1) : wire[i] = lines[Len(entries) + i]

ViewInv == ViewTypeInv /\ PageInv /\ StreamInv

IndInv == FileInv /\ ViewInv

(* s becomes t: it stays, or gets one more record before it had its end.   *)
Grows(s, t) == t = s \/ (~HasEnd(s) /\ \E r \in Record : t = Append(s, r))

(* What the run and the store do is, for the viewer, a file that grows.    *)
LEMMA WritersGrow ==
  ASSUME FileInv, Run \/ Store
  PROVE  /\ Grows(Log, Log') /\ Grows(lines, lines')
         /\ UNCHANGED <<page, entries, lastId, selects, conn, lastEventID, offset, wire>>
<1>1. CASE Run
  BY <1>1 DEF Run, StopAtTurn, BeginTurn, ModelFails, ModelAnswers, NoCall, StartBatch,
              BatchEnds, Close, file, stream, watch, Log, Grows
<1>2. CASE LineWhole
  <2>1. /\ ~HasEnd(Log) /\ Log' = Append(Log, tail.rec) /\ lines' = lines /\ tail.rec \in Record
    BY <1>2, LineWholeFile
  <2> QED
    BY <1>2, <2>1 DEF LineWhole, stream, watch, Grows
<1>3. CASE \E w \in Writer : BeginAppend(w)
  <2>1. PICK w \in Writer : BeginAppend(w)
    BY <1>3
  <2>2. /\ ~broken /\ writer = {} /\ UNCHANGED lines
        /\ tail' = [state |-> "part", rec |-> Head(queue[w])]
    BY <2>1 DEF BeginAppend
  <2>3. Log' = Log
    BY <2>2 DEF FileInv, LockInv, Log
  <2> QED
    BY <2>1, <2>2, <2>3 DEF BeginAppend, stream, watch, Grows
<1>4. CASE \E w \in Writer : EndAppend(w)
  <2>1. PICK w \in Writer : EndAppend(w)
    BY <1>4
  <2>2. Log' = Log /\ lines' = Append(lines, tail.rec) /\ tail.rec \in Record /\ ~HasEnd(lines)
    BY <2>1, EndAppendFile
  <2> QED
    BY <2>1, <2>2 DEF EndAppend, stream, watch, Grows
<1>5. CASE \E w \in Writer : AppendFails(w)
  <2>1. PICK w \in Writer : AppendFails(w)
    BY <1>5
  <2>2. Log' = Log
    BY <2>1, AppendFailsFile
  <2> QED
    BY <2>1, <2>2 DEF AppendFails, stream, watch, Grows
<1>6. CASE \E w \in Writer : AppendNothing(w)
  BY <1>6 DEF AppendNothing, file, stream, watch, Log, Grows
<1> QED
  BY <1>1, <1>2, <1>3, <1>4, <1>5, <1>6 DEF Store

(* A grown sequence has all that was in it.                                *)
LEMMA GrownHas ==
  ASSUME NEW s \in Seq(Record), NEW t, Grows(s, t)
  PROVE  /\ Len(s) \in Nat /\ Len(t) \in Nat /\ Len(s) <= Len(t)
         /\ \A i \in 1 .. Len(s) : t[i] = s[i]
         /\ HasEnd(s) => t = s
BY DEF Grows

LEMMA WritersView ==
  ASSUME IndInv, Run \/ Store
  PROVE  ViewInv'
<1> USE DEF IndInv, ViewInv
<1>1. /\ Grows(Log, Log') /\ Grows(lines, lines')
      /\ UNCHANGED <<page, entries, lastId, conn, lastEventID, offset, wire>>
  BY WritersGrow
<1>2. Log \in Seq(Record) /\ lines \in Seq(Record)
  BY LogIs DEF FileInv, RunTypeInv
<1>3. /\ Len(Log) \in Nat /\ Len(Log') \in Nat /\ Len(Log) <= Len(Log')
      /\ \A i \in 1 .. Len(Log) : Log'[i] = Log[i]
  BY <1>1, <1>2, GrownHas
<1>4. /\ Len(lines) \in Nat /\ Len(lines') \in Nat /\ Len(lines) <= Len(lines')
      /\ \A i \in 1 .. Len(lines) : lines'[i] = lines[i]
      /\ HasEnd(lines) => lines' = lines
  BY <1>1, <1>2, GrownHas
<1>5. Len(entries) \in Nat /\ Len(wire) \in Nat
  BY DEF ViewTypeInv
<1>6. ViewTypeInv'
  BY <1>1 DEF ViewTypeInv
<1>7. PageInv'
  <2>1. Len(entries') <= Len(Log') /\ lastId' <= Len(lines')
    BY <1>1, <1>3, <1>4, <1>5 DEF PageInv, ViewTypeInv
  <2>2. \A i \in 1 .. Len(entries') : entries'[i] = Log'[i]
    BY <1>1, <1>3, <1>5 DEF PageInv
  <2> QED
    BY <1>1, <2>1, <2>2 DEF PageInv
<1>8. StreamInv'
  <2>1. offset' <= Len(lines') /\ lastEventID' <= Len(lines')
    BY <1>1, <1>4 DEF StreamInv, ViewTypeInv
  <2>2. ASSUME conn = "open", NEW i \in 1 .. Len(wire)
        PROVE  wire[i] = lines'[Len(entries) + i]
    <3>1. Len(entries) + i \in 1 .. Len(lines)
      BY <1>4, <1>5, <2>2 DEF StreamInv, ViewTypeInv
    <3> QED
      BY <1>4, <2>2, <3>1 DEF StreamInv
  <2>3. conn = "ended" => lines' = lines
    BY <1>4 DEF StreamInv
  <2> QED
    BY <1>1, <2>1, <2>2, <2>3 DEF StreamInv, HasEnd
<1> QED
  BY <1>6, <1>7, <1>8

(* The viewer's steps leave the file alone.                                *)
Watching == Viewer \/ SelectLive \/ SelectEnded \/ ConnectionLost

LEMMA WatchingKeepsFile ==
  ASSUME FileInv, Watching
  PROVE  FileInv' /\ Log' = Log /\ lines' = lines
<1>1. UNCHANGED <<phase, turn, uses, queue, emitted, lines, tail, writer, broken>>
  BY DEF Watching, Viewer, SelectLive, SelectEnded, ConnectionLost, SendLine, SendDone, Deliver,
         Reconnect, run, file
<1>2. Log' = Log
  BY <1>1 DEF Log
<1>3. RunTypeInv' /\ LockInv' /\ QueueInv'
  BY <1>1 DEF FileInv, RunTypeInv, LockInv, QueueInv
<1>4. EndInv' /\ CountInv'
  BY <1>1, <1>2 DEF FileInv, EndInv, CountInv, HasEnd
<1> QED
  BY <1>1, <1>2, <1>3, <1>4 DEF FileInv

LEMMA EndInRange ==
  ASSUME NEW s \in Seq(Record)
  PROVE  EndRecord \in Range(s) <=> HasEnd(s)
BY DEF Range, HasEnd

(* The end is the last of the log, and once its line is written the log is *)
(* the lines.                                                              *)
LEMMA EndIsLast ==
  ASSUME FileInv
  PROVE  /\ HasEnd(Log) => Len(Log) > 0 /\ Log[Len(Log)] = EndRecord
         /\ HasEnd(lines) => Log = lines
<1>1. /\ Log \in Seq(Record) /\ Len(Log) \in Nat /\ Len(lines) \in Nat
      /\ tail.state # "whole" => Log = lines
      /\ tail.state = "whole" => Len(Log) = Len(lines) + 1
      /\ \A i \in 1 .. Len(lines) : Log[i] = lines[i]
  BY LogIs DEF FileInv
<1>2. HasEnd(Log) => Len(Log) > 0 /\ Log[Len(Log)] = EndRecord
  BY <1>1 DEF HasEnd, FileInv, EndInv
<1>3. ASSUME HasEnd(lines)  PROVE tail.state # "whole"
  BY <1>1, <1>3 DEF HasEnd, FileInv, EndInv
<1> QED
  BY <1>1, <1>2, <1>3

(* What is next on the wire is the next of the log, or the word that there *)
(* is no more.                                                             *)
LEMMA NextOnWire ==
  ASSUME IndInv, wire # <<>>
  PROVE  /\ Len(wire) \in Nat \ {0} /\ Head(wire) = wire[1] /\ Len(entries) \in Nat
         /\ page \in {"live", "ending"}
         /\ Head(wire) # Done =>
              /\ Head(wire) \in Record /\ Len(entries) + 1 <= Len(lines)
              /\ Head(wire) = lines[Len(entries) + 1]
              /\ conn = "ended" => Len(wire) > 1
         /\ Head(wire) = Done =>
              /\ Len(wire) = 1 /\ HasEnd(lines) /\ Len(entries) = Len(lines)
<1> USE DEF IndInv, ViewInv
<1>1. Len(wire) \in Nat \ {0} /\ Head(wire) = wire[1] /\ Len(entries) \in Nat /\ Len(lines) \in Nat
  BY DEF ViewTypeInv, FileInv, RunTypeInv
<1>2. conn \in {"open", "ended"} /\ page \in {"live", "ending"}
  BY DEF StreamInv, PageInv, ViewTypeInv
<1>3. CASE conn = "open"
  <2>1. wire[1] = lines[Len(entries) + 1] /\ Len(entries) + 1 \in 1 .. Len(lines)
    BY <1>1, <1>3 DEF StreamInv, ViewTypeInv
  <2>2. lines[Len(entries) + 1] \in Record
    BY <2>1 DEF FileInv, RunTypeInv
  <2>3. Head(wire) # Done
    BY <1>1, <2>1, <2>2, Records
  <2> QED
    BY <1>1, <1>2, <1>3, <2>1, <2>2, <2>3
<1>4. CASE conn = "ended" /\ Len(wire) > 1
  <2>1. wire[1] = lines[Len(entries) + 1] /\ Len(entries) + 1 \in 1 .. Len(lines)
    BY <1>1, <1>4 DEF StreamInv
  <2>2. lines[Len(entries) + 1] \in Record
    BY <2>1 DEF FileInv, RunTypeInv
  <2>3. Head(wire) # Done
    BY <1>1, <2>1, <2>2, Records
  <2> QED
    BY <1>1, <1>2, <1>4, <2>1, <2>2, <2>3
<1>5. CASE conn = "ended" /\ Len(wire) = 1
  <2>1. HasEnd(lines) /\ Len(entries) + 1 = Len(lines) + 1 /\ wire[1] = Done
    BY <1>5 DEF StreamInv
  <2>2. Len(entries) = Len(lines)
    BY <1>1, <2>1
  <2> QED
    BY <1>1, <1>2, <1>5, <2>1, <2>2
<1>6. Len(wire) > 1 \/ Len(wire) = 1
  <2>1. \A n \in Nat \ {0} : n > 1 \/ n = 1
    OBVIOUS
  <2> QED
    BY <1>1, <2>1, Zenon
<1> QED
  BY <1>2, <1>3, <1>4, <1>5, <1>6

(* Every step of the viewer keeps its half of the invariant.               *)
LEMMA SendLineView == ASSUME IndInv, SendLine  PROVE ViewInv'
<1> USE DEF IndInv, ViewInv
<1>1. /\ conn = "open" /\ offset < Len(lines) /\ offset' = offset + 1
      /\ wire' = IF offset' > lastEventID THEN Append(wire, lines[offset']) ELSE wire
      /\ UNCHANGED <<page, entries, lastId, conn, lastEventID>>
  BY DEF SendLine, watch
<1>2. Log' = Log /\ lines' = lines
  BY WatchingKeepsFile DEF Watching, Viewer
<1>3. Len(entries) \in Nat /\ Len(lines) \in Nat /\ offset \in Nat /\ lastEventID \in Nat
  BY DEF ViewTypeInv, FileInv, RunTypeInv
<1>4. lines[offset + 1] \in Record
  BY <1>1, <1>3 DEF FileInv, RunTypeInv
<1>5. wire \in Seq(Record \cup {Done}) /\ Len(wire) \in Nat
  BY DEF ViewTypeInv
<1>6. CASE offset' > lastEventID
  <2>1. wire' = Append(wire, lines[offset + 1])
    BY <1>1, <1>6
  <2>2. /\ wire' \in Seq(Record \cup {Done}) /\ Len(wire') = Len(wire) + 1
        /\ wire'[Len(wire) + 1] = lines[offset + 1]
        /\ \A i \in 1 .. Len(wire) : wire'[i] = wire[i]
    BY <1>4, <1>5, <2>1
  <2>3. Len(entries) + Len(wire) = offset
    BY <1>1, <1>3, <1>6 DEF StreamInv
  <2>4. ASSUME NEW i \in 1 .. Len(wire')
        PROVE  wire'[i] = lines[Len(entries) + i]
    <3>1. CASE i = Len(wire) + 1
      BY <1>3, <1>5, <2>2, <2>3, <3>1
    <3>2. CASE i # Len(wire) + 1
      <4>1. i \in 1 .. Len(wire)
        BY <1>5, <2>2, <3>2
      <4> QED
        BY <1>1, <2>2, <4>1 DEF StreamInv
    <3> QED
      BY <3>1, <3>2
  <2> QED
    BY <1>1, <1>2, <1>3, <1>5, <1>6, <2>2, <2>3, <2>4 DEF ViewTypeInv, PageInv, StreamInv
<1>7. CASE ~(offset' > lastEventID)
  BY <1>1, <1>2, <1>3, <1>5, <1>7 DEF ViewTypeInv, PageInv, StreamInv
<1> QED
  BY <1>6, <1>7

LEMMA SendDoneView == ASSUME IndInv, SendDone  PROVE ViewInv'
<1> USE DEF IndInv, ViewInv
<1>1. /\ conn = "open" /\ offset = Len(lines) /\ EndRecord \in Range(lines)
      /\ wire' = Append(wire, Done) /\ conn' = "ended"
      /\ UNCHANGED <<page, entries, lastId, lastEventID, offset>>
  BY DEF SendDone, watch
<1>2. Log' = Log /\ lines' = lines
  BY WatchingKeepsFile DEF Watching, Viewer
<1>3. Len(entries) \in Nat /\ Len(lines) \in Nat /\ lastEventID \in Nat /\ lines \in Seq(Record)
  BY DEF ViewTypeInv, FileInv, RunTypeInv
<1>4. wire \in Seq(Record \cup {Done}) /\ Len(wire) \in Nat
  BY DEF ViewTypeInv
<1>5. HasEnd(lines) /\ HasEnd(lines')
  BY <1>1, <1>2, <1>3, EndInRange
<1>6. /\ wire' \in Seq(Record \cup {Done}) /\ Len(wire') = Len(wire) + 1 /\ wire' # <<>>
      /\ wire'[Len(wire')] = Done
      /\ \A i \in 1 .. Len(wire) : wire'[i] = wire[i]
  BY <1>1, <1>4
<1>7. Len(entries) + Len(wire) = Len(lines)
  BY <1>1, <1>3 DEF StreamInv
<1>8. \A i \in 1 .. (Len(wire') - 1) : wire'[i] = lines[Len(entries) + i]
  BY <1>1, <1>4, <1>6 DEF StreamInv
<1>9. ViewTypeInv' /\ PageInv'
  BY <1>1, <1>2, <1>6 DEF ViewTypeInv, PageInv
<1>10. StreamInv'
  BY <1>1, <1>2, <1>3, <1>4, <1>5, <1>6, <1>7, <1>8 DEF StreamInv
<1> QED
  BY <1>9, <1>10

LEMMA DeliverView == ASSUME IndInv, Deliver  PROVE ViewInv'
<1> USE DEF IndInv, ViewInv
<1>1. wire # <<>>
  BY DEF Deliver
<1>2. Log' = Log /\ lines' = lines
  BY WatchingKeepsFile DEF Watching, Viewer
<1>3. Len(wire) \in Nat \ {0} /\ Head(wire) = wire[1] /\ Len(entries) \in Nat /\ page \in {"live", "ending"}
  BY <1>1, NextOnWire
<1>4. /\ lines \in Seq(Record) /\ Len(lines) \in Nat /\ entries \in Seq(Record)
      /\ wire \in Seq(Record \cup {Done})
  BY DEF ViewTypeInv, FileInv, RunTypeInv
<1>5. CASE Head(wire) = Done
  <2>1. /\ page' = "closed" /\ conn' = "none" /\ lastEventID' = 0 /\ offset' = 0 /\ wire' = <<>>
        /\ UNCHANGED <<entries, lastId>>
    BY <1>5 DEF Deliver, Disconnect
  <2> QED
    BY <1>2, <1>4, <2>1 DEF ViewTypeInv, PageInv, StreamInv
<1>6. CASE Head(wire) # Done
  <2>1. /\ entries' = Append(entries, Head(wire)) /\ lastId' = lastId + 1
        /\ page' \in {"live", "ending"}
        /\ wire' = Tail(wire) /\ UNCHANGED <<conn, lastEventID, offset>>
    BY <1>3, <1>6 DEF Deliver
  <2>2. /\ Head(wire) \in Record /\ Len(entries) + 1 <= Len(lines)
        /\ Head(wire) = lines[Len(entries) + 1]
        /\ conn = "ended" => Len(wire) > 1
    BY <1>1, <1>6, NextOnWire
  <2>3. /\ entries' \in Seq(Record) /\ Len(entries') = Len(entries) + 1
        /\ entries'[Len(entries) + 1] = Head(wire)
        /\ \A i \in 1 .. Len(entries) : entries'[i] = entries[i]
    BY <1>4, <2>1, <2>2
  <2>4. /\ wire' \in Seq(Record \cup {Done}) /\ Len(wire') = Len(wire) - 1
        /\ \A i \in 1 .. Len(wire') : wire'[i] = wire[i + 1]
    BY <1>1, <1>4, <2>1
  <2>5. ViewTypeInv'
    BY <2>1, <2>3, <2>4 DEF ViewTypeInv
  <2>6. PageInv'
    <3>1. Len(lines) <= Len(Log) /\ Log[Len(entries) + 1] = lines[Len(entries) + 1] /\ Len(Log) \in Nat
      BY <1>3, <1>4, <2>2, LogIs DEF FileInv
    <3>2. \A i \in 1 .. Len(entries') : entries'[i] = Log[i]
      BY <1>3, <2>2, <2>3, <3>1 DEF PageInv
    <3>3. Len(entries') <= Len(Log) /\ lastId' = Len(entries') /\ lastId' <= Len(lines)
      BY <1>3, <1>4, <2>1, <2>2, <2>3, <3>1 DEF PageInv
    <3> QED
      BY <1>2, <2>1, <3>2, <3>3 DEF PageInv
  <2>7. StreamInv'
    <3>1. CASE conn = "none"
      BY <1>1, <3>1 DEF StreamInv
    <3>2. CASE conn = "open"
      <4>1. Len(entries') + Len(wire') = Len(entries) + Len(wire)
        BY <1>3, <2>3, <2>4
      <4>2. \A i \in 1 .. Len(wire') : wire'[i] = lines[Len(entries') + i]
        BY <1>3, <2>3, <2>4, <3>2 DEF StreamInv
      <4> QED
        BY <1>2, <2>1, <3>2, <4>1, <4>2 DEF StreamInv
    <3>3. CASE conn = "ended"
      <4>1. Len(entries') + Len(wire') = Len(lines) + 1
        <5>1. Len(entries) + Len(wire) = Len(lines) + 1
          BY <3>3 DEF StreamInv
        <5>2. ASSUME NEW m \in Nat, NEW n \in Nat, NEW k \in Nat, m + n = k + 1
              PROVE  (m + 1) + (n - 1) = k + 1
          BY <5>2
        <5>3. Len(entries) \in Nat /\ Len(wire) \in Nat /\ Len(lines) \in Nat
          BY <1>3, <1>4
        <5>4. (Len(entries) + 1) + (Len(wire) - 1) = Len(lines) + 1
          BY <5>1, <5>2, <5>3, Zenon
        <5> QED
          BY <2>3, <2>4, <5>4, Zenon
      <4>2. ASSUME NEW i \in 1 .. (Len(wire') - 1)
            PROVE  wire'[i] = lines[Len(entries') + i]
        <5>1. i + 1 \in 1 .. (Len(wire) - 1) /\ i \in 1 .. Len(wire')
          BY <1>3, <2>4
        <5>2. wire[i + 1] = lines[Len(entries) + (i + 1)]
          BY <3>3, <5>1 DEF StreamInv
        <5>3. Len(entries') + i = Len(entries) + (i + 1)
          BY <1>3, <2>3
        <5> QED
          BY <2>4, <5>1, <5>2, <5>3
      <4>3. wire' # <<>> /\ wire'[Len(wire')] = Done
        BY <1>3, <2>2, <2>4, <3>3 DEF StreamInv
      <4>4. HasEnd(lines') /\ offset' <= Len(lines') /\ lastEventID' <= Len(lines')
        BY <1>2, <2>1, <3>3 DEF StreamInv
      <4> QED
        BY <1>2, <2>1, <3>3, <4>1, <4>2, <4>3, <4>4 DEF StreamInv
    <3> QED
      BY <3>1, <3>2, <3>3 DEF ViewTypeInv
  <2> QED
    BY <2>5, <2>6, <2>7
<1> QED
  BY <1>5, <1>6

LEMMA WatchingView == ASSUME IndInv, Watching  PROVE ViewInv'
<1> USE DEF IndInv, ViewInv
<1>1. Log' = Log /\ lines' = lines
  BY WatchingKeepsFile
<1>2. /\ Log \in Seq(Record) /\ Len(Log) \in Nat /\ Len(lines) \in Nat
      /\ Len(entries) \in Nat
  BY LogIs DEF FileInv, ViewTypeInv
<1>3. CASE Reconnect
  BY <1>1, <1>2, <1>3 DEF Reconnect, Connect, watch, ViewTypeInv, PageInv, StreamInv
<1>4. CASE SelectLive
  BY <1>1, <1>2, <1>4 DEF SelectLive, Connect, ViewTypeInv, PageInv, StreamInv
<1>5. CASE SelectEnded
  BY <1>1, <1>2, <1>5 DEF SelectEnded, Disconnect, ViewTypeInv, PageInv, StreamInv
<1>6. CASE ConnectionLost
  BY <1>1, <1>2, <1>6 DEF ConnectionLost, Disconnect, ViewTypeInv, PageInv, StreamInv
<1> QED
  BY <1>3, <1>4, <1>5, <1>6, SendLineView, SendDoneView, DeliverView DEF Watching, Viewer

-----------------------------------------------------------------------------
(* The invariant is inductive.                                             *)
LEMMA InitInv == Init => IndInv
<1> SUFFICES ASSUME Init  PROVE IndInv
  OBVIOUS
<1>1. FileInv
  BY InitFile
<1>2. ViewInv
  <2>1. Log \in Seq(Record) /\ Len(Log) \in Nat /\ Len(lines) \in Nat
    BY <1>1, LogIs DEF FileInv
  <2> QED
    BY <2>1 DEF Init, ViewInv, ViewTypeInv, PageInv, StreamInv
<1> QED
  BY <1>1, <1>2 DEF IndInv

LEMMA NextInv == IndInv /\ [Next]_vars => IndInv'
<1> SUFFICES ASSUME IndInv, [Next]_vars  PROVE IndInv'
  OBVIOUS
<1>1. CASE Run \/ Store
  BY <1>1, RunFile, StoreFile, WritersView DEF IndInv
<1>2. CASE Watching
  BY <1>2, WatchingKeepsFile, WatchingView DEF IndInv
<1>3. CASE UNCHANGED vars
  <2>1. /\ UNCHANGED <<phase, turn, uses, queue, emitted, lines, tail, writer, broken>>
        /\ UNCHANGED <<page, entries, lastId, conn, lastEventID, offset, wire>>
    BY <1>3 DEF vars, run, file, stream, watch
  <2>2. Log' = Log
    BY <2>1 DEF Log
  <2>3. FileInv'
    <3>1. RunTypeInv' /\ LockInv' /\ QueueInv'
      BY <2>1 DEF IndInv, FileInv, RunTypeInv, LockInv, QueueInv
    <3>2. EndInv' /\ CountInv'
      BY <2>1, <2>2 DEF IndInv, FileInv, EndInv, CountInv, HasEnd
    <3> QED
      BY <3>1, <3>2 DEF FileInv
  <2>4. ViewInv'
    BY <2>1, <2>2 DEF IndInv, ViewInv, ViewTypeInv, PageInv, StreamInv, HasEnd
  <2> QED
    BY <2>3, <2>4 DEF IndInv
<1> QED
  BY <1>1, <1>2, <1>3 DEF Next, Watching

THEOREM Invariant == FairSpec => []IndInv
BY InitInv, NextInv, PTL DEF FairSpec

-----------------------------------------------------------------------------
(* Every variable keeps its type, the mutex of Store keeps all writers but *)
(* one out of the file, what the stream and the browser counted is in the  *)
(* file, and a line is left unfinished only by a disk that failed          *)
(* (store.go, Append).                                                     *)
THEOREM TraceTypeCorrect == FairSpec => []TypeOK
<1>1. IndInv => TypeOK
  <2> SUFFICES ASSUME IndInv  PROVE TypeOK
    OBVIOUS
  <2>1. Cardinality(writer) <= 1
    <3>1. CASE writer = {}
      BY <3>1, FS_EmptySet
    <3>2. CASE writer # {}
      <4>1. PICK w \in Writer : writer = {w}
        BY <3>2 DEF IndInv, FileInv, LockInv
      <4>2. Cardinality({w}) = 1
        BY FS_Singleton, Zenon
      <4> QED
        BY <4>1, <4>2
    <3> QED
      BY <3>1, <3>2
  <2>2. tail.state # "none" /\ writer = {} => broken
    BY DEF IndInv, FileInv, LockInv
  <2> QED
    BY <2>1, <2>2 DEF TypeOK, IndInv, FileInv, RunTypeInv, ViewInv, ViewTypeInv, PageInv, StreamInv
<1> QED
  BY <1>1, Invariant, PTL

(* A trace that shows the end of its session shows every record the run    *)
(* gave to Append, wherever the disk failed: the encoder keeps its error,  *)
(* so nothing, and not the end either, follows a record that was lost.     *)
THEOREM TraceNothingMissing == FairSpec => []NothingMissing
<1>1. IndInv => NothingMissing
  BY LogIs, EndInRange DEF IndInv, FileInv, CountInv, NothingMissing, Running
<1> QED
  BY <1>1, Invariant, PTL

(* What is shown of a log are its first records.                           *)
LEMMA ShownPrefix ==
  ASSUME NEW s \in Seq(Record), NEW t \in Seq(Record), Len(s) <= Len(t),
         \A i \in 1 .. Len(s) : s[i] = t[i]
  PROVE  s = SubSeq(t, 1, Len(s)) /\ Len(s) \in Nat /\ Len(t) \in Nat
<1>1. Len(s) \in Nat /\ Len(t) \in Nat
  OBVIOUS
<1>2. /\ SubSeq(t, 1, Len(s)) \in Seq(Record)
      /\ Len(SubSeq(t, 1, Len(s))) = Len(s)
      /\ \A i \in 1 .. Len(s) : SubSeq(t, 1, Len(s))[i] = t[i]
  BY <1>1
<1>3. SubSeq(t, 1, Len(s)) = s
  BY <1>1, <1>2, SeqEqual
<1> QED
  BY <1>1, <1>3

(* Is the word that there is no more the next thing on the wire?           *)
Told == wire # <<>> /\ Head(wire) = Done

Whole == Feed!Ended /\ Len(entries) = Len(Log)

(* The page that is told so shows all of a log at its end.                 *)
LEMMA ToldWhole == IndInv /\ Told => Whole
<1> SUFFICES ASSUME IndInv, Told  PROVE Whole
  OBVIOUS
<1> USE DEF IndInv
<1>1. HasEnd(lines) /\ Len(entries) = Len(lines)
  BY NextOnWire DEF Told
<1>2. Log = lines
  BY <1>1, EndIsLast
<1>3. Log \in Seq(Record) /\ Len(Log) > 0 /\ Log[Len(Log)] = EndRecord
  BY <1>1, <1>2, EndIsLast, LogIs DEF FileInv
<1>4. Feed!Ended
  BY <1>3 DEF Feed!Ended
<1> QED
  BY <1>1, <1>2, <1>4 DEF Whole

(* The trace follows the session: the transcript, the stream with its      *)
(* Last-Event-ID, and the page that connects again implement the feed.     *)
(* The log only grows until its end is written, what the page shows is a   *)
(* beginning of it, and the server says done only behind all of it.        *)
THEOREM TraceFollowsLog == FairSpec => FollowsLog
<1>1. Init => Feed!Init
  BY DEF Init, Clean, Log, Feed!Init
<1>2. (IndInv /\ Told => Whole)'
  BY ToldWhole, PTL
<1>3. IndInv /\ [Next]_vars => [Feed!Next]_Feed!feed
  <2> SUFFICES ASSUME IndInv, [Next]_vars  PROVE [Feed!Next]_Feed!feed
    OBVIOUS
  <2> USE DEF IndInv
  <2>1. /\ Log \in Seq(Record) /\ Len(Log) \in Nat /\ Len(lines) \in Nat
        /\ entries \in Seq(Record) /\ Len(entries) \in Nat /\ lines \in Seq(Record)
        /\ Len(entries) <= Len(Log) /\ entries = SubSeq(Log, 1, Len(entries))
    BY LogIs, ShownPrefix DEF FileInv, RunTypeInv, ViewInv, ViewTypeInv, PageInv
  <2>2. Told' => Whole'
    BY <1>2, NextInv
  <2>3. ASSUME NEW n \in Len(entries) .. Len(Log), entries' = SubSeq(Log, 1, n), Log' = Log
        PROVE  Feed!ShowMore
    <3>1. Len(entries') = n
      BY <2>1, <2>3
    <3>2. Told' => n = Len(Log) /\ Feed!Ended
      BY <2>2, <2>3, <3>1 DEF Whole, Feed!Ended
    <3>3. Told' \in {FALSE, n = Len(Log) /\ Feed!Ended}
      BY <3>2, Zenon DEF Told
    <3> QED
      BY <2>3, <3>3, Zenon DEF Feed!ShowMore, Told
  <2>4. CASE Run \/ Store
    <3>1. UNCHANGED <<entries, wire>> /\ Grows(Log, Log')
      BY <2>4, WritersGrow
    <3>2. CASE Log' = Log
      BY <3>1, <3>2 DEF Feed!feed
    <3>3. CASE ~HasEnd(Log) /\ \E r \in Record : Log' = Append(Log, r)
      <4>1. ~Feed!Ended
        BY <2>1, <3>3 DEF Feed!Ended, HasEnd
      <4> QED
        BY <3>1, <3>3, <4>1 DEF Feed!Next, Feed!Write
    <3> QED
      BY <3>1, <3>2, <3>3 DEF Grows
  <2>5. CASE SendLine \/ SendDone \/ Reconnect \/ ConnectionLost
    <3>1. entries' = entries /\ Log' = Log
      BY <2>5, WatchingKeepsFile
      DEF Watching, Viewer, SendLine, SendDone, Reconnect, ConnectionLost, watch
    <3>2. Len(entries) \in Len(entries) .. Len(Log) /\ entries' = SubSeq(Log, 1, Len(entries))
      BY <2>1, <3>1
    <3> QED
      BY <2>3, <3>1, <3>2, Zenon DEF Feed!Next
  <2>6. CASE Deliver
    <3>1. Log' = Log
      BY <2>6, WatchingKeepsFile DEF Watching, Viewer
    <3>2. wire # <<>>
      BY <2>6 DEF Deliver
    <3>3. CASE Head(wire) = Done
      <4>1. entries' = entries
        BY <2>6, <3>3 DEF Deliver
      <4>2. Len(entries) \in Len(entries) .. Len(Log) /\ entries' = SubSeq(Log, 1, Len(entries))
        BY <2>1, <4>1
      <4> QED
        BY <2>3, <3>1, <4>2, Zenon DEF Feed!Next
    <3>4. CASE Head(wire) # Done
      <4>1. entries' = Append(entries, Head(wire))
        BY <2>6, <3>4 DEF Deliver
      <4>2. /\ Head(wire) \in Record /\ Len(entries) + 1 <= Len(lines)
            /\ Head(wire) = lines[Len(entries) + 1]
        BY <3>2, <3>4, NextOnWire
      <4>3. Len(lines) <= Len(Log) /\ Log[Len(entries) + 1] = Head(wire)
        BY <2>1, <4>2, LogIs DEF FileInv
      <4> DEFINE n == Len(entries) + 1
      <4>4. n \in Len(entries) .. Len(Log)
        BY <2>1, <4>2, <4>3
      <4>5. entries' = SubSeq(Log, 1, n)
        <5>1. entries' \in Seq(Record) /\ Len(entries') = n
          BY <2>1, <4>1, <4>2
        <5>2. \A i \in 1 .. Len(entries') : entries'[i] = Log[i]
          BY <2>1, <4>1, <4>2, <4>3 DEF ViewInv, PageInv
        <5> QED
          BY <2>1, <4>4, <5>1, <5>2, ShownPrefix
      <4> HIDE DEF n
      <4> QED
        BY <2>3, <3>1, <4>4, <4>5, Zenon DEF Feed!Next
    <3> QED
      BY <3>3, <3>4
  <2>7. CASE SelectLive
    <3>1. Log' = Log /\ entries' = <<>> /\ wire' = <<>>
      BY <2>7, WatchingKeepsFile DEF Watching, SelectLive, Connect
    <3>2. Told' = FALSE
      BY <3>1, Zenon DEF Told
    <3> QED
      BY <3>1, <3>2, Zenon DEF Feed!Next, Feed!ShowAnew, Told
  <2>8. CASE SelectEnded
    <3>1. Log' = Log /\ entries' = Log
      BY <2>8, WatchingKeepsFile DEF Watching, SelectEnded
    <3>2. Len(Log) \in Len(entries) .. Len(Log) /\ entries' = SubSeq(Log, 1, Len(Log))
      BY <2>1, <3>1, ShownPrefix
    <3> QED
      BY <2>3, <3>1, <3>2, Zenon DEF Feed!Next
  <2>9. CASE UNCHANGED vars
    BY <2>9 DEF vars, file, watch, stream, Log, Feed!feed
  <2> QED
    BY <2>4, <2>5, <2>6, <2>7, <2>8, <2>9 DEF Next, Viewer
<1> QED
  BY <1>1, <1>3, Invariant, PTL DEF FairSpec, FollowsLog, Feed!Spec

(* The page learns of the end from the server or the list, and both have   *)
(* it from the file; only onerror, which asks nobody, can call a session   *)
(* completed that goes on.                                                 *)
THEOREM TraceCompletedButForLoss == FairSpec => CompletedButForLoss
<1>1. ASSUME IndInv, Next, ~Completed, ~ConnectionLost, Completed'
      PROVE  ~Running'
  <2> USE DEF Completed
  <2>1. page' # page /\ page' # "live"
    BY <1>1
  <2>2. ~(Run \/ Store)
    BY <1>1, <2>1, WritersGrow DEF IndInv
  <2>3. Watching
    BY <1>1, <2>2 DEF Next, Watching
  <2>4. Log' = Log /\ Log \in Seq(Record)
    BY <1>1, <2>3, WatchingKeepsFile, LogIs DEF IndInv, FileInv
  <2>5. CASE SelectEnded
    BY <2>4, <2>5 DEF SelectEnded, Running
  <2>6. CASE Deliver
    <3>1. wire # <<>>
      BY <2>6 DEF Deliver
    <3>2. CASE Head(wire) = Done
      <4>1. HasEnd(lines)
        BY <1>1, <3>1, <3>2, NextOnWire
      <4>2. HasEnd(Log)
        BY <1>1, <4>1, EndIsLast DEF IndInv
      <4> QED
        BY <2>4, <4>2, EndInRange DEF Running
    <3>3. CASE Head(wire) # Done
      <4>1. Head(wire) = EndRecord
        BY <2>1, <2>6, <3>3 DEF Deliver
      <4>2. Len(entries) + 1 <= Len(lines) /\ lines[Len(entries) + 1] = EndRecord /\ Len(entries) \in Nat
        BY <1>1, <3>1, <3>3, <4>1, NextOnWire
      <4>3. Len(lines) \in Nat
        BY <1>1, LogIs DEF IndInv, FileInv
      <4>4. HasEnd(lines)
        BY <4>2, <4>3 DEF HasEnd
      <4>5. HasEnd(Log)
        BY <1>1, <4>4, EndIsLast DEF IndInv
      <4> QED
        BY <2>4, <4>5, EndInRange DEF Running
    <3> QED
      BY <3>2, <3>3
  <2>7. ~(SendLine \/ SendDone \/ Reconnect \/ SelectLive)
    BY <2>1 DEF SendLine, SendDone, Reconnect, SelectLive, watch
  <2> QED
    BY <1>1, <2>3, <2>5, <2>6, <2>7 DEF Watching, Viewer
<1>2. IndInv /\ [Next]_vars => [Completed' /\ Running' => Completed \/ ConnectionLost]_vars
  BY <1>1
<1> QED
  BY <1>2, Invariant, PTL DEF FairSpec, CompletedButForLoss

-----------------------------------------------------------------------------
(* The frame of a turn.                                                    *)
ToolReport == {"tool_start", "tool_end", "tool_denied"}

InTurn == {"calling", "answered", "batch"}

Logged(r) == \E j \in 1 .. Len(Log) : Log[j] = r

(* What a tool reported in record i stands within the frame of its turn.   *)
FramedAt(i) ==
  /\ \E j \in 1 .. (i - 1) : Log[j] = Rec("assistant", Log[i].turn, 0)
  /\ \A j \in 1 .. (i - 1) : Log[j] # Rec("results", Log[i].turn, 0)
  /\ Log[i].type = "tool_end" =>
       \E j \in 1 .. (i - 1) : Log[j] = Rec("tool_start", Log[i].turn, Log[i].use)

LogFramed == \A i \in 1 .. Len(Log) : Log[i].type \in ToolReport => FramedAt(i)

(* The results of a turn come when the turn is over.                       *)
ResultsInv ==
  \A i \in 1 .. Len(Log) :
    Log[i].type = "results" => Log[i].turn <= turn /\ (phase \in InTurn => Log[i].turn # turn)

(* The answer is in the log before its batch, and on its way there when    *)
(* the loop has it.                                                        *)
AnswerInv ==
  phase \in {"answered", "batch"} =>
    \/ Logged(Rec("assistant", turn, 0))
    \/ \E k \in 1 .. Len(queue[0]) : queue[0][k] = Rec("assistant", turn, 0)

(* The loop reports for no tool, and each tool for itself: its end behind  *)
(* its start.                                                              *)
ReportInv ==
  /\ \A k \in 1 .. Len(queue[0]) :
       /\ queue[0][k].type \notin ToolReport
       /\ queue[0][k].type = "results" => phase = "turn" /\ queue[0][k].turn = turn
  /\ \A w \in Writer \ {0} : \A k \in 1 .. Len(queue[w]) :
       /\ queue[w][k].type \in ToolReport
       /\ queue[w][k].turn = turn /\ queue[w][k].use = w
       /\ queue[w][k].type = "tool_end" =>
            \/ Logged(Rec("tool_start", turn, w))
            \/ \E j \in 1 .. (k - 1) : queue[w][j] = Rec("tool_start", turn, w)

(* A disk that failed gets no more records, so nothing need be known of    *)
(* what is left to append.                                                 *)
FrameInv == LogFramed /\ (~broken => ResultsInv /\ AnswerInv /\ ReportInv)

(* What the loop appends at a time.                                        *)
LEMMA LoopTypes ==
  ASSUME NEW types \in Opening \cup Inside \cup Ending
  PROVE  /\ types \in Seq(RecordType)
         /\ \A i \in 1 .. Len(types) : types[i] \notin ToolReport /\ (types[i] = "results" => types = <<"results">>)
         /\ types = <<"assistant", "usage">> => 1 \in 1 .. Len(types) /\ types[1] = "assistant"
<1> USE DEF ToolReport, RecordType
<1>1. CASE types = <<"turn_start">>
  BY <1>1
<1>2. CASE types = <<"notice", "turn_start">>
  BY <1>2
<1>3. CASE types = <<"nudge", "notice", "turn_start">>
  BY <1>3
<1>4. CASE types = <<"nudge", "notice", "notice", "turn_start">>
  BY <1>4
<1>5. CASE types = <<"assistant", "usage">>
  BY <1>5
<1>6. CASE types = <<"notice", "reminder">>
  BY <1>6
<1>7. CASE types = <<"results">>
  BY <1>7
<1>8. CASE types = <<"session_end">>
  BY <1>8
<1>9. CASE types = <<"notice", "session_end">>
  BY <1>9
<1>10. CASE types = <<"error", "session_end">>
  BY <1>10
<1>11. CASE types = <<"done", "session_end">>
  BY <1>11
<1>12. CASE types = <<"notice", "done", "session_end">>
  BY <1>12
<1> QED
  BY <1>1, <1>2, <1>3, <1>4, <1>5, <1>6, <1>7, <1>8, <1>9, <1>10, <1>11, <1>12
  DEF Opening, Inside, Ending

(* A step of the loop with new records keeps the frame.                    *)
LEMMA LoopFrame ==
  ASSUME FileInv, FrameInv, \A w \in Writer : queue[w] = <<>>,
         UNCHANGED <<lines, tail, broken>>,
         turn' \in 0 .. MaxTurns, phase' # "batch",
         turn' = turn + 1 \/ (turn' = turn /\ (phase' \in InTurn => phase \in InTurn)),
         NEW types \in Opening \cup Inside \cup Ending,
         Then(types),
         types = <<"results">> => phase' = "turn",
         phase' = "answered" => types = <<"assistant", "usage">>
  PROVE  FrameInv'
<1> USE DEF FileInv
<1>1. /\ types \in Seq(RecordType)
      /\ \A i \in 1 .. Len(types) : types[i] \notin ToolReport /\ (types[i] = "results" => types = <<"results">>)
      /\ types = <<"assistant", "usage">> => 1 \in 1 .. Len(types) /\ types[1] = "assistant"
  BY LoopTypes
<1>2. /\ Len(queue'[0]) = Len(types)
      /\ \A i \in 1 .. Len(types) :
           queue'[0][i] = IF types[i] = "session_end" THEN EndRecord ELSE Rec(types[i], turn', 0)
      /\ \A w \in Writer \ {0} : queue'[w] = queue[w]
  BY <1>1, ThenQueue
<1>3. Log' = Log /\ Log \in Seq(Record) /\ Len(Log) \in Nat /\ turn \in 0 .. MaxTurns
  BY LogIs DEF Log, RunTypeInv
<1>4. LogFramed'
  BY <1>3 DEF FrameInv, LogFramed, FramedAt
<1>5. ASSUME ~broken  PROVE ResultsInv'
  <2>1. ASSUME NEW i \in 1 .. Len(Log), Log[i].type = "results"
        PROVE  Log[i].turn <= turn' /\ (phase' \in InTurn => Log[i].turn # turn')
    <3>1. Log[i].turn \in Nat /\ turn \in Nat
      <4>1. Log[i] \in Record
        BY <1>3
      <4>2. Log[i].turn \in 0 .. MaxTurns
        BY <4>1 DEF Record
      <4> QED
        BY <1>3, <4>2, TraceAssumption
    <3>2. Log[i].turn <= turn /\ (phase \in InTurn => Log[i].turn # turn)
      BY <1>5, <2>1 DEF FrameInv, ResultsInv
    <3> QED
      BY <3>1, <3>2
  <2> QED
    BY <1>3, <2>1 DEF ResultsInv
<1>6. AnswerInv'
  <2>1. ASSUME phase' = "answered"
        PROVE  1 \in 1 .. Len(queue'[0]) /\ queue'[0][1] = Rec("assistant", turn', 0)
    BY <1>1, <1>2, <2>1
  <2> QED
    BY <2>1 DEF AnswerInv
<1>7. ReportInv'
  <2>1. ASSUME NEW k \in 1 .. Len(queue'[0])
        PROVE  /\ queue'[0][k].type = types[k] /\ types[k] \notin ToolReport
               /\ types[k] = "results" => phase' = "turn" /\ queue'[0][k].turn = turn'
    <3>1. k \in 1 .. Len(types)
      BY <1>2
    <3>2. queue'[0][k] = IF types[k] = "session_end" THEN EndRecord ELSE Rec(types[k], turn', 0)
      BY <1>2, <3>1
    <3>3. types[k] \notin ToolReport /\ (types[k] = "results" => phase' = "turn")
      BY <1>1, <3>1
    <3> QED
      BY <3>2, <3>3 DEF EndRecord, Rec
  <2>2. \A w \in Writer \ {0} : Len(queue'[w]) = 0
    BY <1>2
  <2> QED
    BY <2>1, <2>2 DEF ReportInv
<1> QED
  BY <1>4, <1>5, <1>6, <1>7 DEF FrameInv

(* What a tool appends.                                                    *)
LEMMA ToolTypes ==
  ASSUME NEW types \in {<<"tool_denied">>, <<"tool_start", "tool_end">>, <<"tool_start">>}
  PROVE  /\ types \in Seq(RecordType) /\ DOMAIN types = 1 .. Len(types) /\ Len(types) \in Nat
         /\ \A k \in 1 .. Len(types) :
              /\ types[k] \in ToolReport
              /\ types[k] = "tool_end" => \E j \in 1 .. (k - 1) : types[j] = "tool_start"
<1> USE DEF ToolReport, RecordType
<1>1. CASE types = <<"tool_denied">>
  BY <1>1
<1>2. CASE types = <<"tool_start", "tool_end">>
  BY <1>2
<1>3. CASE types = <<"tool_start">>
  BY <1>3
<1> QED
  BY <1>1, <1>2, <1>3

LEMMA StartBatchFrame ==
  ASSUME FileInv, FrameInv, StartBatch
  PROVE  FrameInv'
<1> USE TraceAssumption DEF FileInv
<1>1. /\ phase = "answered" /\ phase' = "batch" /\ queue[0] = <<>>
      /\ UNCHANGED <<turn, uses, lines, tail, broken>>
  BY DEF StartBatch, Idle, file
<1>2. PICK kind \in [1 .. uses -> {<<"tool_denied">>, <<"tool_start", "tool_end">>, <<"tool_start">>}] :
        queue' = [w \in Writer |->
                    IF w \in 1 .. uses THEN [i \in DOMAIN kind[w] |-> Rec(kind[w][i], turn, w)] ELSE <<>>]
  BY DEF StartBatch
<1>3. Log' = Log
  BY <1>1 DEF Log
<1>4. LogFramed'
  BY <1>3 DEF FrameInv, LogFramed, FramedAt
<1>5. ~broken => ResultsInv'
  BY <1>1, <1>3 DEF FrameInv, ResultsInv, InTurn
<1>6. ~broken => AnswerInv'
  BY <1>1, <1>3 DEF FrameInv, AnswerInv, Logged
<1>7. ReportInv'
  <2>1. queue'[0] = <<>>
    BY <1>2 DEF Writer, RunTypeInv
  <2>2. ASSUME NEW w \in Writer \ {0}, NEW k \in 1 .. Len(queue'[w])
        PROVE  /\ queue'[w][k].type \in ToolReport
               /\ queue'[w][k].turn = turn /\ queue'[w][k].use = w
               /\ queue'[w][k].type = "tool_end" =>
                    \E j \in 1 .. (k - 1) : queue'[w][j] = Rec("tool_start", turn, w)
    <3>1. CASE w \in 1 .. uses
      <4> DEFINE types == kind[w]
      <4>1. types \in {<<"tool_denied">>, <<"tool_start", "tool_end">>, <<"tool_start">>}
        BY <3>1
      <4>2. queue'[w] = [i \in DOMAIN types |-> Rec(types[i], turn, w)]
        BY <1>2, <3>1
      <4> HIDE DEF types
      <4>3. /\ DOMAIN types = 1 .. Len(types) /\ Len(types) \in Nat
            /\ \A i \in 1 .. Len(types) :
                 /\ types[i] \in ToolReport
                 /\ types[i] = "tool_end" => \E j \in 1 .. (i - 1) : types[j] = "tool_start"
        BY <4>1, ToolTypes
      <4>4. Len(queue'[w]) = Len(types) /\ \A i \in 1 .. Len(types) : queue'[w][i] = Rec(types[i], turn, w)
        BY <4>2, <4>3
      <4>5. k \in 1 .. Len(types) /\ queue'[w][k] = Rec(types[k], turn, w)
        BY <4>4
      <4>6. /\ queue'[w][k].type = types[k] /\ queue'[w][k].turn = turn /\ queue'[w][k].use = w
        BY <4>5 DEF Rec
      <4>7. ASSUME types[k] = "tool_end"
            PROVE  \E j \in 1 .. (k - 1) : queue'[w][j] = Rec("tool_start", turn, w)
        <5>1. PICK j \in 1 .. (k - 1) : types[j] = "tool_start"
          BY <4>3, <4>5, <4>7
        <5>2. j \in 1 .. Len(types)
          BY <4>3, <4>5
        <5> QED
          BY <4>4, <5>1, <5>2
      <4> QED
        BY <4>3, <4>5, <4>6, <4>7
    <3>2. CASE w \notin 1 .. uses
      <4>1. queue'[w] = <<>>
        BY <1>2, <3>2
      <4> QED
        BY <4>1
    <3> QED
      BY <3>1, <3>2
  <2> QED
    BY <1>1, <2>1, <2>2 DEF ReportInv
<1> QED
  BY <1>1, <1>4, <1>5, <1>6, <1>7 DEF FrameInv

(* Every step of the run keeps the frame.                                  *)
LEMMA RunFrame ==
  ASSUME FileInv, FrameInv, Run
  PROVE  FrameInv'
<1> USE TraceAssumption
<1>1. turn \in 0 .. MaxTurns
  BY DEF FileInv, RunTypeInv
<1>2. CASE StopAtTurn
  <2>1. /\ phase = "turn" /\ phase' = "ending" /\ Idle /\ UNCHANGED <<turn, lines, tail, broken>>
    BY <1>2 DEF StopAtTurn, file
  <2>2. PICK types \in Ending : Then(types)
    BY <1>2 DEF StopAtTurn, Ending
  <2>3. types # <<"results">>
    <3>1. Len(<<"results">>) = 1 /\ <<"results">>[1] # "session_end"
      OBVIOUS
    <3> QED
      BY <3>1 DEF Ending
  <2>4. \A w \in Writer : queue[w] = <<>>
    BY <2>1, IdleMeansFree
  <2>5. /\ turn' \in 0 .. MaxTurns /\ phase' # "batch" /\ phase' # "answered"
        /\ phase' \notin InTurn
    BY <1>1, <2>1 DEF InTurn
  <2>6. types \in Opening \cup Inside \cup Ending
    BY <2>2
  <2> QED
    BY <2>1, <2>2, <2>3, <2>4, <2>5, <2>6, LoopFrame, Zenon
<1>3. CASE BeginTurn
  <2>1. /\ phase = "turn" /\ phase' = "calling" /\ Idle /\ turn' = turn + 1 /\ turn < MaxTurns
        /\ UNCHANGED <<lines, tail, broken>>
    BY <1>3 DEF BeginTurn, file
  <2>2. turn' \in 0 .. MaxTurns
    BY <1>1, <2>1
  <2>3. PICK types \in Opening : Then(types)
    BY <1>3 DEF BeginTurn, Openings, Opening
  <2>4. types # <<"results">>
    <3>1. Len(<<"results">>) = 1 /\ <<"results">>[1] # "turn_start"
      OBVIOUS
    <3> QED
      BY <3>1 DEF Opening
  <2> QED
    BY <1>1, <2>1, <2>2, <2>3, <2>4, IdleMeansFree, LoopFrame
<1>4. CASE ModelFails
  <2>1. /\ phase = "calling" /\ phase' = "ending" /\ Idle /\ UNCHANGED <<turn, lines, tail, broken>>
        /\ Then(<<"error", "session_end">>)
    BY <1>4 DEF ModelFails, file
  <2>2. <<"error", "session_end">> \in Ending /\ <<"error", "session_end">> # <<"results">>
    BY DEF Ending
  <2> QED
    BY <1>1, <2>1, <2>2, IdleMeansFree, LoopFrame DEF InTurn
<1>5. CASE ModelAnswers
  <2>1. /\ phase = "calling" /\ phase' = "answered" /\ Idle /\ UNCHANGED <<turn, lines, tail, broken>>
        /\ Then(<<"assistant", "usage">>)
    BY <1>5 DEF ModelAnswers, file
  <2>2. <<"assistant", "usage">> # <<"results">> /\ <<"assistant", "usage">> \in Inside
    BY DEF Inside
  <2> QED
    BY <1>1, <2>1, <2>2, IdleMeansFree, LoopFrame DEF InTurn
<1>6. CASE NoCall
  <2>1. /\ phase = "answered" /\ Idle /\ UNCHANGED <<turn, lines, tail, broken>>
        /\ phase' \in {"turn", "ending"}
    BY <1>6 DEF NoCall, file
  <2>2. CASE Then(<<"notice", "reminder">>)
    <3>1. <<"notice", "reminder">> # <<"results">> /\ <<"notice", "reminder">> \in Inside
      BY DEF Inside
    <3> QED
      BY <1>1, <2>1, <2>2, <3>1, IdleMeansFree, LoopFrame DEF InTurn
  <2>3. CASE Then(<<"session_end">>) \/ Then(<<"done", "session_end">>)
    <3>1. PICK types \in {<<"session_end">>, <<"done", "session_end">>} : Then(types)
      BY <2>3
    <3>2. types \in Ending /\ types # <<"results">>
      BY <3>1 DEF Ending
    <3> QED
      BY <1>1, <2>1, <3>1, <3>2, IdleMeansFree, LoopFrame DEF InTurn
  <2> QED
    BY <1>6, <2>2, <2>3 DEF NoCall
<1>7. CASE StartBatch
  BY <1>7, StartBatchFrame
<1>8. CASE BatchEnds
  <2>1. /\ phase = "batch" /\ phase' = "turn" /\ UNCHANGED <<turn, lines, tail, broken>>
        /\ Then(<<"results">>) /\ \A w \in Writer : queue[w] = <<>>
    BY <1>8 DEF BatchEnds, file
  <2>2. <<"results">> \in Inside
    BY DEF Inside
  <2> QED
    BY <1>1, <2>1, <2>2, LoopFrame DEF InTurn
<1>9. CASE Close
  <2>1. /\ phase = "ending" /\ phase' = "closed" /\ Idle
        /\ UNCHANGED <<turn, queue, lines, tail, broken>>
    BY <1>9 DEF Close, file
  <2>2. Log' = Log /\ \A w \in Writer : queue[w] = <<>>
    BY <2>1, IdleMeansFree DEF Log
  <2>3. LogFramed'
    BY <2>2 DEF FrameInv, LogFramed, FramedAt
  <2>4. ~broken => ResultsInv' /\ AnswerInv'
    BY <2>1, <2>2 DEF FrameInv, ResultsInv, AnswerInv, InTurn
  <2>5. ReportInv'
    <3>1. 0 \in Writer
      BY DEF Writer
    <3> QED
      BY <2>1, <2>2, <3>1 DEF ReportInv
  <2> QED
    BY <2>1, <2>3, <2>4, <2>5 DEF FrameInv
<1> QED
  BY <1>2, <1>3, <1>4, <1>5, <1>6, <1>7, <1>8, <1>9 DEF Run

(* The store keeps the frame.                                              *)
LEMMA LineWholeFrame ==
  ASSUME FileInv, FrameInv, LineWhole
  PROVE  FrameInv'
<1> USE TraceAssumption DEF FileInv
<1>1. UNCHANGED <<phase, turn, queue, broken>>
  BY DEF LineWhole, run
<1>2. PICK w \in writer : TRUE
  BY DEF LineWhole
<1>3. w \in Writer /\ ~broken /\ queue[w] # <<>> /\ tail.rec = queue[w][1]
  BY Holder
<1>4. 1 \in 1 .. Len(queue[w])
  <2>1. queue[w] \in Seq(Record)
    BY <1>3 DEF RunTypeInv
  <2> QED
    BY <1>3, <2>1
<1> DEFINE n == Len(Log) + 1
           rec == tail.rec
<1>5. Log \in Seq(Record) /\ Log' = Append(Log, rec) /\ rec \in Record /\ Len(Log) \in Nat
  BY LineWholeFile, LogIs
<1>6. /\ Len(Log') = n /\ n \in Nat /\ Log'[n] = rec
      /\ \A i \in 1 .. Len(Log) : Log'[i] = Log[i]
  BY <1>5
<1>7. \A i \in 1 .. Len(Log') : i = n \/ i \in 1 .. Len(Log)
  BY <1>5, <1>6
<1>8. ResultsInv /\ AnswerInv /\ ReportInv
  BY <1>3 DEF FrameInv
<1>9. \A r : Logged(r) => Logged(r)'
  BY <1>5, <1>6 DEF Logged
<1> HIDE DEF n, rec
<1>10. ASSUME rec.type \in ToolReport
       PROVE  /\ \E j \in 1 .. (n - 1) : Log'[j] = Rec("assistant", rec.turn, 0)
              /\ \A j \in 1 .. (n - 1) : Log'[j] # Rec("results", rec.turn, 0)
              /\ rec.type = "tool_end" =>
                   \E j \in 1 .. (n - 1) : Log'[j] = Rec("tool_start", rec.turn, rec.use)
  <2>1. w # 0
    BY <1>3, <1>4, <1>8, <1>10 DEF ReportInv, rec
  <2>2. phase = "batch" /\ queue[0] = <<>>
    BY <1>3, <2>1 DEF QueueInv
  <2>3. rec.turn = turn /\ rec.use = w
    BY <1>3, <1>4, <1>8, <2>1 DEF ReportInv, rec
  <2>4. n - 1 = Len(Log)
    BY <1>5 DEF n
  <2>5. \E j \in 1 .. Len(Log) : Log[j] = Rec("assistant", turn, 0)
    BY <1>8, <2>2 DEF AnswerInv, Logged
  <2>6. ASSUME NEW j \in 1 .. Len(Log)
        PROVE  Log[j] # Rec("results", turn, 0)
    <3>1. Log[j].type = "results" => Log[j].turn # turn
      BY <1>8, <2>2 DEF ResultsInv, InTurn
    <3> QED
      BY <3>1 DEF Rec
  <2>7. rec.type = "tool_end" => \E j \in 1 .. Len(Log) : Log[j] = Rec("tool_start", turn, w)
    BY <1>3, <1>4, <1>8, <2>1 DEF ReportInv, Logged, rec
  <2> QED
    BY <1>6, <2>3, <2>4, <2>5, <2>6, <2>7
<1>11. LogFramed'
  <2>1. ASSUME NEW i \in 1 .. Len(Log'), Log'[i].type \in ToolReport
        PROVE  FramedAt(i)'
    <3>1. CASE i = n
      BY <1>6, <1>10, <2>1, <3>1 DEF FramedAt
    <3>2. CASE i \in 1 .. Len(Log)
      <4>1. FramedAt(i) /\ Log'[i] = Log[i]
        BY <1>6, <2>1, <3>2 DEF FrameInv, LogFramed
      <4>2. \A j \in 1 .. (i - 1) : Log'[j] = Log[j]
        BY <1>5, <1>6, <3>2
      <4> QED
        BY <4>1, <4>2 DEF FramedAt
    <3> QED
      BY <1>7, <3>1, <3>2
  <2> QED
    BY <2>1 DEF LogFramed
<1>12. ResultsInv'
  <2>1. ASSUME rec.type = "results"
        PROVE  rec.turn = turn /\ phase = "turn"
    <3>1. w = 0
      BY <1>3, <1>4, <1>8, <2>1 DEF ReportInv, ToolReport, rec
    <3> QED
      BY <1>3, <1>4, <1>8, <2>1, <3>1 DEF ReportInv, rec
  <2>2. turn \in Nat
    BY DEF RunTypeInv
  <2> QED
    BY <1>1, <1>6, <1>7, <1>8, <2>1, <2>2 DEF ResultsInv, InTurn
<1>13. AnswerInv' /\ ReportInv'
  BY <1>1, <1>8, <1>9 DEF AnswerInv, ReportInv
<1> QED
  BY <1>11, <1>12, <1>13 DEF FrameInv

(* A head that leaves its queue is in the log.                             *)
LEMMA EndAppendFrame ==
  ASSUME FileInv, FrameInv, NEW w \in Writer, EndAppend(w)
  PROVE  FrameInv'
<1> USE TraceAssumption DEF FileInv
<1>1. /\ w \in writer /\ tail.state = "whole"
      /\ queue' = [queue EXCEPT ![w] = Tail(@)]
      /\ UNCHANGED <<phase, turn, broken>>
  BY DEF EndAppend, run
<1>2. ~broken /\ queue[w] # <<>> /\ tail.rec = queue[w][1]
  BY <1>1, Holder
<1>3. Log' = Log
  BY EndAppendFile
<1>4. Logged(queue[w][1])
  BY <1>1, <1>2, LogIs DEF Logged
<1>5. ResultsInv /\ AnswerInv /\ ReportInv
  BY <1>2 DEF FrameInv
<1>6. /\ Len(queue'[w]) = Len(queue[w]) - 1 /\ Len(queue[w]) \in Nat \ {0}
      /\ \A i \in 1 .. Len(queue'[w]) : queue'[w][i] = queue[w][i + 1]
      /\ \A v \in Writer \ {w} : queue'[v] = queue[v]
  BY <1>1, <1>2, TailQueue
<1>7. \A k \in 1 .. Len(queue'[w]) : k + 1 \in 1 .. Len(queue[w])
  BY <1>6
<1>8. ASSUME NEW r, NEW k \in 1 .. Len(queue[w]), queue[w][k] = r
      PROVE  Logged(r) \/ (k - 1 \in 1 .. Len(queue'[w]) /\ queue'[w][k - 1] = r)
  <2>1. CASE k = 1
    BY <1>4, <1>8, <2>1
  <2>2. CASE k # 1
    <3>1. k - 1 \in 1 .. Len(queue'[w]) /\ (k - 1) + 1 = k
      BY <1>6, <2>2
    <3> QED
      BY <1>6, <1>8, <3>1
  <2> QED
    BY <2>1, <2>2
<1>9. LogFramed' /\ ResultsInv'
  BY <1>1, <1>3, <1>5 DEF FrameInv, LogFramed, FramedAt, ResultsInv
<1>10. \A r : Logged(r)' <=> Logged(r)
  BY <1>3 DEF Logged
<1>11. 0 \in Writer
  BY DEF Writer
<1>12. AnswerInv'
  <2>1. CASE w = 0
    <3>1. CASE phase \in {"answered", "batch"} /\ ~Logged(Rec("assistant", turn, 0))
      <4>1. PICK k \in 1 .. Len(queue[0]) : queue[0][k] = Rec("assistant", turn, 0)
        BY <1>5, <3>1 DEF AnswerInv
      <4>2. k - 1 \in 1 .. Len(queue'[0]) /\ queue'[0][k - 1] = Rec("assistant", turn, 0)
        BY <1>8, <2>1, <3>1, <4>1
      <4> QED
        BY <1>1, <4>2 DEF AnswerInv
    <3>2. CASE phase \notin {"answered", "batch"} \/ Logged(Rec("assistant", turn, 0))
      BY <1>1, <1>3, <3>2 DEF AnswerInv, Logged
    <3> QED
      BY <3>1, <3>2
  <2>2. CASE w # 0
    BY <1>1, <1>5, <1>6, <1>10, <1>11, <2>2 DEF AnswerInv
  <2> QED
    BY <2>1, <2>2
<1>13. ReportInv'
  <2>1. ASSUME NEW k \in 1 .. Len(queue'[0])
        PROVE  /\ queue'[0][k].type \notin ToolReport
               /\ queue'[0][k].type = "results" => phase = "turn" /\ queue'[0][k].turn = turn
    <3>1. CASE w = 0
      <4>1. k + 1 \in 1 .. Len(queue[0]) /\ queue'[0][k] = queue[0][k + 1]
        BY <1>6, <1>7, <2>1, <3>1
      <4>2. /\ queue[0][k + 1].type \notin ToolReport
            /\ queue[0][k + 1].type = "results" => phase = "turn" /\ queue[0][k + 1].turn = turn
        BY <1>5, <4>1 DEF ReportInv
      <4>3. UNCHANGED <<phase, turn>>
        BY <1>1
      <4> QED
        BY <4>1, <4>2, <4>3
    <3>2. CASE w # 0
      BY <1>5, <1>6, <1>11, <2>1, <3>2 DEF ReportInv
    <3> QED
      BY <3>1, <3>2
  <2>2. ASSUME NEW v \in Writer \ {0}, NEW k \in 1 .. Len(queue'[v])
        PROVE  /\ queue'[v][k].type \in ToolReport
               /\ queue'[v][k].turn = turn /\ queue'[v][k].use = v
               /\ queue'[v][k].type = "tool_end" =>
                    \/ Logged(Rec("tool_start", turn, v))
                    \/ \E j \in 1 .. (k - 1) : queue'[v][j] = Rec("tool_start", turn, v)
    <3>1. CASE v = w
      <4>1. k + 1 \in 1 .. Len(queue[w]) /\ queue'[w][k] = queue[w][k + 1]
        BY <1>6, <1>7, <3>1
      <4>2. /\ queue[w][k + 1].type \in ToolReport
            /\ queue[w][k + 1].turn = turn /\ queue[w][k + 1].use = w
            /\ queue[w][k + 1].type = "tool_end" =>
                 \/ Logged(Rec("tool_start", turn, w))
                 \/ \E j \in 1 .. ((k + 1) - 1) : queue[w][j] = Rec("tool_start", turn, w)
        BY <1>5, <3>1, <4>1 DEF ReportInv
      <4>3. ASSUME NEW j \in 1 .. ((k + 1) - 1), queue[w][j] = Rec("tool_start", turn, w)
            PROVE  Logged(Rec("tool_start", turn, w))
                   \/ \E i \in 1 .. (k - 1) : queue'[w][i] = Rec("tool_start", turn, w)
        <5>1. j \in 1 .. Len(queue[w])
          BY <1>6, <4>1
        <5>2. CASE Logged(Rec("tool_start", turn, w))
          BY <5>2
        <5>3. CASE j - 1 \in 1 .. Len(queue'[w]) /\ queue'[w][j - 1] = Rec("tool_start", turn, w)
          <6>1. j - 1 \in 1 .. (k - 1)
            BY <1>6, <4>1, <5>3
          <6> QED
            BY <5>3, <6>1
        <5> QED
          BY <1>8, <4>3, <5>1, <5>2, <5>3
      <4> QED
        BY <3>1, <4>1, <4>2, <4>3
    <3>2. CASE v # w
      <4>1. queue'[v] = queue[v]
        BY <1>6, <3>2
      <4> QED
        BY <1>5, <2>2, <4>1 DEF ReportInv
    <3> QED
      BY <3>1, <3>2
  <2> QED
    <3>1. turn' = turn
      BY <1>1
    <3>2. ASSUME NEW v \in Writer \ {0}, NEW k \in 1 .. Len(queue'[v])
          PROVE  /\ queue'[v][k].type \in ToolReport
                 /\ queue'[v][k].turn = turn' /\ queue'[v][k].use = v
                 /\ queue'[v][k].type = "tool_end" =>
                      \/ Logged(Rec("tool_start", turn, v))'
                      \/ \E j \in 1 .. (k - 1) : queue'[v][j] = Rec("tool_start", turn', v)
      <4>1. Logged(Rec("tool_start", turn, v)) => Logged(Rec("tool_start", turn, v))'
        BY <1>3, <3>1 DEF Logged
      <4>2. Rec("tool_start", turn', v) = Rec("tool_start", turn, v)
        BY <3>1
      <4> QED
        BY <2>2, <3>1, <4>1, <4>2
    <3> QED
      BY <1>1, <2>1, <3>2 DEF ReportInv
<1> QED
  BY <1>9, <1>12, <1>13 DEF FrameInv

LEMMA StoreFrame ==
  ASSUME FileInv, FrameInv, Store
  PROVE  FrameInv'
<1>1. CASE \E w \in Writer : BeginAppend(w)
  <2>1. PICK w \in Writer : BeginAppend(w)
    BY <1>1
  <2>2. /\ ~broken /\ writer = {} /\ UNCHANGED <<phase, turn, queue, lines, broken>>
        /\ tail' = [state |-> "part", rec |-> Head(queue[w])]
    BY <2>1 DEF BeginAppend, run
  <2>3. Log' = Log
    BY <2>2 DEF FileInv, LockInv, Log
  <2> QED
    BY <2>2, <2>3 DEF FrameInv, LogFramed, FramedAt, ResultsInv, AnswerInv, ReportInv, Logged
<1>2. CASE \E w \in Writer : AppendFails(w)
  <2>1. PICK w \in Writer : AppendFails(w)
    BY <1>2
  <2>2. Log' = Log /\ broken'
    BY <2>1, AppendFailsFile DEF AppendFails
  <2> QED
    BY <2>2 DEF FrameInv, LogFramed, FramedAt
<1>3. CASE \E w \in Writer : AppendNothing(w)
  <2>1. Log' = Log /\ broken'
    BY <1>3 DEF AppendNothing, file, Log
  <2> QED
    BY <2>1 DEF FrameInv, LogFramed, FramedAt
<1> QED
  BY <1>1, <1>2, <1>3, LineWholeFrame, EndAppendFrame DEF Store

(* What a tool reports stands behind the answer that called it and before  *)
(* the message with the results, and its end behind its start, in whatever *)
(* order the goroutines of runConcurrent reach the store, and wherever the *)
(* disk fails or the process stops.                                        *)
THEOREM TraceTurnFramed == FairSpec => []TurnFramed
<1>1. Init => FrameInv
  <2> SUFFICES ASSUME Init  PROVE FrameInv
    OBVIOUS
  <2>1. Log = <<>> /\ phase = "turn" /\ turn = 0 /\ Len(Log) = 0
    BY DEF Init, Clean, Log
  <2>2. LogFramed /\ ResultsInv /\ AnswerInv
    BY <2>1 DEF LogFramed, ResultsInv, AnswerInv
  <2>3. ReportInv
    <3>1. 0 \in Writer
      BY TraceAssumption DEF Writer
    <3>2. queue[0] = <<Rec("session_start", 0, 0), Rec("user", 0, 0)>>
      BY <3>1 DEF Init
    <3>3. \A k \in 1 .. Len(queue[0]) : queue[0][k].type \in {"session_start", "user"}
      BY <3>2 DEF Rec
    <3>4. \A w \in Writer \ {0} : queue[w] = <<>> /\ Len(queue[w]) = 0
      BY DEF Init
    <3> QED
      BY <3>3, <3>4 DEF ReportInv, ToolReport
  <2> QED
    BY <2>2, <2>3 DEF FrameInv
<1>2. IndInv /\ FrameInv /\ [Next]_vars => FrameInv'
  <2> SUFFICES ASSUME IndInv, FrameInv, [Next]_vars  PROVE FrameInv'
    OBVIOUS
  <2>1. CASE Run
    BY <2>1, RunFrame DEF IndInv
  <2>2. CASE Store
    BY <2>2, StoreFrame DEF IndInv
  <2>3. CASE Watching \/ UNCHANGED vars
    <3>1. UNCHANGED <<phase, turn, queue, lines, tail, broken>>
      BY <2>3 DEF Watching, Viewer, SelectLive, SelectEnded, ConnectionLost, SendLine, SendDone,
                  Deliver, Reconnect, run, file, vars
    <3>2. Log' = Log
      BY <3>1 DEF Log
    <3> QED
      BY <3>1, <3>2 DEF FrameInv, LogFramed, FramedAt, ResultsInv, AnswerInv, ReportInv, Logged
  <2> QED
    BY <2>1, <2>2, <2>3 DEF Next, Watching
<1>3. IndInv /\ FrameInv => TurnFramed
  <2> SUFFICES ASSUME IndInv, LogFramed, NEW i \in DOMAIN Log, Log[i].type \in ToolReport
               PROVE  LET before == SubSeq(Log, 1, i - 1)
                      IN  /\ Rec("assistant", Log[i].turn, 0) \in Range(before)
                          /\ Rec("results", Log[i].turn, 0) \notin Range(before)
                          /\ Log[i].type = "tool_end" =>
                               Rec("tool_start", Log[i].turn, Log[i].use) \in Range(before)
    BY DEF FrameInv, TurnFramed, ToolReport
  <2> DEFINE before == SubSeq(Log, 1, i - 1)
  <2>1. Log \in Seq(Record) /\ Len(Log) \in Nat /\ i \in 1 .. Len(Log)
    BY LogIs DEF IndInv, FileInv
  <2>2. FramedAt(i)
    BY <2>1 DEF LogFramed
  <2>3. /\ DOMAIN before = 1 .. (i - 1)
        /\ \A j \in 1 .. (i - 1) : before[j] = Log[j]
    BY <2>1
  <2> HIDE DEF before
  <2>4. \A r : r \in Range(before) <=> \E j \in 1 .. (i - 1) : Log[j] = r
    BY <2>3 DEF Range
  <2> QED
    BY <2>2, <2>4 DEF FramedAt, before
<1> QED
  BY <1>1, <1>2, <1>3, Invariant, PTL DEF FairSpec

=============================================================================
