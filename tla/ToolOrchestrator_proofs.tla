----------------------- MODULE ToolOrchestrator_proofs -----------------------
(***************************************************************************)
(* Proofs about ToolOrchestrator, for turns of every length, in both modes *)
(* and under every approval policy.                                        *)
(*                                                                         *)
(* The inductive invariant says where the turn stands: the slots before    *)
(* next are done, those after last untouched, and a batch of more than one *)
(* slot holds concurrency-safe calls only.                                 *)
(***************************************************************************)
EXTENDS ToolOrchestrator, SequenceTheorems, TLAPS

(* The main goroutine's window: done before it, untouched after it.        *)
WindowInv ==
  /\ next <= last + 1
  /\ \A k \in Slot : k < next => pc[k] = "done"
  /\ \A k \in Slot : pc[k] = "idle" <=> k > last

(* A batch is one call, or concurrency-safe calls only.                    *)
BatchInv ==
  next < last => \A k \in next .. last : ConcurrencySafe(use[k])

(* A result is filled in exactly when runOne returns, under its own id.    *)
ResultInv ==
  \A k \in Slot : /\ pc[k] = "done" <=> results[k] # <<>>
                  /\ results[k] # <<>> => results[k][1] = k

(* The events of a call that has not finished.                             *)
EventInv ==
  \A k \in Slot : /\ pc[k] \notin {"calling", "done"} => events[k] = <<>>
                  /\ pc[k] = "calling" => events[k] = <<"start">>

(* Only a command that is not read-only is ever put to the user.           *)
AskInv ==
  \A k \in Slot : pc[k] = "asking" => ~ConcurrencySafe(use[k])

IndInv ==
  /\ TypeOK
  /\ WindowInv
  /\ BatchInv
  /\ ResultInv
  /\ EventInv
  /\ AskInv
  /\ SerialOrder

-----------------------------------------------------------------------------
(* What a second event makes of an event log.                              *)
LEMMA AppendSecond ==
  ASSUME NEW x, NEW y
  PROVE  Append(<<x>>, y) = <<x, y>>
<1> DEFINE s == Append(<<x>>, y)
           t == <<x, y>>
           E == {x, y}
<1>1. <<x>> \in Seq(E) /\ t \in Seq(E)
  OBVIOUS
<1>2. s \in Seq(E) /\ Len(s) = 2 /\ Len(t) = 2
  BY <1>1
<1>3. s[1] = x /\ s[2] = y
  BY <1>1
<1>4. \A i \in 1 .. Len(s) : s[i] = t[i]
  BY <1>2, <1>3
<1> HIDE DEF s, t, E
<1>5. s = t
  BY <1>1, <1>2, <1>4, SeqEqual
<1>6. QED
  BY <1>5 DEF s, t

(* Whether a call has run can be read off its event log.                   *)
LEMMA RanMeansStarted ==
  ASSUME TypeOK, NEW k \in Slot
  PROVE  Ran(k) <=> events[k] \in {<<"start">>, <<"start", "end">>}
<1>1. events[k] \in EventLogs
  BY DEF TypeOK
<1>2. CASE events[k] = <<>>
  BY <1>2 DEF Ran
<1>3. CASE events[k] = <<"denied">>
  BY <1>3 DEF Ran
<1>4. CASE events[k] = <<"start">>
  BY <1>4 DEF Ran
<1>5. CASE events[k] = <<"start", "end">>
  BY <1>5 DEF Ran
<1>6. QED
  BY <1>1, <1>2, <1>3, <1>4, <1>5 DEF EventLogs

(* The invariant holds before the first batch.                             *)
LEMMA InitInd == Init => IndInv
<1> SUFFICES ASSUME Init PROVE IndInv
  OBVIOUS
<1> USE OrchestratorAssumption DEF Init, Slot
<1>1. TypeOK
  BY DEF TypeOK, PcValues, EventLogs
<1>2. WindowInv /\ BatchInv
  BY DEF WindowInv, BatchInv
<1>3. ResultInv /\ EventInv /\ AskInv
  BY DEF ResultInv, EventInv, AskInv
<1>4. SerialOrder
  BY DEF SerialOrder, Ran
<1>5. QED
  BY <1>1, <1>2, <1>3, <1>4 DEF IndInv

-----------------------------------------------------------------------------
(* Only the main goroutine moves the window; it launches and joins.        *)
LEMMA LaunchInd ==
  ASSUME IndInv, NEW j \in next .. N, Idle, Launch(j),
         j = next \/ \A k \in next .. j : ConcurrencySafe(use[k])
  PROVE  IndInv'
<1> USE OrchestratorAssumption DEF IndInv, Idle, Launch, Slot
<1>1. next = last + 1 /\ j \in Slot
  BY DEF WindowInv, TypeOK
<1>2. TypeOK'
  BY <1>1 DEF TypeOK, PcValues
<1>3. WindowInv'
  BY <1>1 DEF WindowInv, TypeOK
<1>4. BatchInv'
  BY <1>1 DEF BatchInv, TypeOK
<1>5. ASSUME NEW k \in next .. j PROVE pc[k] = "idle"
  BY <1>1 DEF WindowInv, TypeOK
<1>6. ResultInv'
  BY <1>5 DEF ResultInv, TypeOK
<1>7. EventInv' /\ AskInv'
  BY <1>5 DEF EventInv, AskInv, TypeOK
<1>8. SerialOrder'
  BY DEF SerialOrder, Ran
<1>9. QED
  BY <1>2, <1>3, <1>4, <1>6, <1>7, <1>8

(* Waiting for the batch and moving on keeps the invariant.                *)
LEMMA JoinInd ==
  ASSUME IndInv, Join
  PROVE  IndInv'
<1> USE OrchestratorAssumption DEF IndInv, Idle, Join, Slot
<1>1. TypeOK'
  BY DEF TypeOK
<1>2. WindowInv' /\ BatchInv'
  BY DEF WindowInv, BatchInv, TypeOK
<1>3. ResultInv' /\ EventInv' /\ AskInv'
  BY DEF ResultInv, EventInv, AskInv
<1>4. SerialOrder'
  BY DEF SerialOrder, Ran
<1>5. QED
  BY <1>1, <1>2, <1>3, <1>4

(* A call in flight lies in the window.                                    *)
LEMMA InFlightInWindow ==
  ASSUME IndInv, NEW k \in Slot, InFlight(k)
  PROVE  k \in next .. last
BY OrchestratorAssumption DEF IndInv, WindowInv, InFlight, TypeOK, Slot

(* runOne returning, with or without a last event, keeps the invariant.    *)
LEMMA ReturnInd ==
  ASSUME IndInv, NEW k \in Slot, NEW outcome \in Outcome,
         InFlight(k), Return(k, outcome),
         UNCHANGED <<session, use, next, last, saw>>,
         events'[k] \in EventLogs,
         events' = [events EXCEPT ![k] = events'[k]],
         Ran(k)' <=> Ran(k)
  PROVE  IndInv'
<1> USE OrchestratorAssumption DEF IndInv, Return, InFlight
<1>1. TypeOK'
  BY DEF TypeOK, PcValues
<1>2. WindowInv' /\ BatchInv'
  BY InFlightInWindow DEF WindowInv, BatchInv, TypeOK, Slot
<1>3. ResultInv'
  BY DEF ResultInv, TypeOK
<1>4. EventInv' /\ AskInv'
  BY DEF EventInv, AskInv, TypeOK
<1>5. SerialOrder'
  <2>1. ASSUME NEW m \in Slot PROVE Ran(m)' <=> Ran(m)
    BY DEF Ran, TypeOK
  <2>2. QED
    BY <2>1 DEF SerialOrder, Slot
<1>6. QED
  BY <1>1, <1>2, <1>3, <1>4, <1>5

(* Moving a call that is not done and emits nothing keeps the invariant.   *)
LEMMA AdvanceInd ==
  ASSUME IndInv, NEW k \in Slot, NEW q \in {"asking", "allowed", "refused"},
         InFlight(k), pc[k] # "calling", pc' = [pc EXCEPT ![k] = q],
         q = "asking" => ~ConcurrencySafe(use[k]),
         UNCHANGED <<session, use, next, last, results, events, saw>>
  PROVE  IndInv'
<1> USE OrchestratorAssumption DEF IndInv, InFlight
<1>1. TypeOK'
  BY DEF TypeOK, PcValues
<1>2. WindowInv' /\ BatchInv'
  BY InFlightInWindow DEF WindowInv, BatchInv, TypeOK, Slot
<1>3. ResultInv' /\ EventInv' /\ AskInv'
  BY DEF ResultInv, EventInv, AskInv, TypeOK
<1>4. SerialOrder'
  BY DEF SerialOrder, Ran
<1>5. QED
  BY <1>1, <1>2, <1>3, <1>4

(* The step on which SerialOrder rests: when a tool body is entered, every *)
(* exclusive call that has run was written before it, and no call already  *)
(* running was written after a call that is not concurrency-safe.          *)
LEMMA StartInd ==
  ASSUME IndInv, NEW k \in Slot, StartCall(k)
  PROVE  IndInv'
<1> USE OrchestratorAssumption DEF IndInv, StartCall, Emit
<1>1. InFlight(k) /\ events[k] = <<>> /\ ~Ran(k)
  BY RanMeansStarted DEF InFlight, EventInv
<1>2. events' = [events EXCEPT ![k] = <<"start">>]
  BY <1>1 DEF TypeOK
<1>3. TypeOK'
  BY <1>2 DEF TypeOK, PcValues, EventLogs
<1>4. WindowInv' /\ BatchInv'
  BY InFlightInWindow, <1>1 DEF WindowInv, BatchInv, TypeOK, Slot, InFlight
<1>5. ResultInv'
  BY DEF ResultInv, TypeOK
<1>6. EventInv' /\ AskInv'
  BY <1>2 DEF EventInv, AskInv, TypeOK
<1>7. Ran(k)' /\ \A m \in Slot : m # k => (Ran(m)' <=> Ran(m))
  BY <1>2 DEF Ran, TypeOK
<1>8. ASSUME NEW m \in Slot, Ran(m) PROVE m <= last
  <2>1. events[m] # <<>>
    BY <1>8 DEF Ran
  <2>2. pc[m] # "idle"
    BY <2>1 DEF EventInv
  <2>3. QED
    BY <2>2 DEF WindowInv, TypeOK, Slot
<1>9. k \in next .. last
  BY <1>1, InFlightInWindow
<1>10. ASSUME NEW m \in Slot, Ran(m), m > k PROVE ConcurrencySafe(use[m]) /\ ConcurrencySafe(use[k])
  BY <1>8, <1>9, <1>10 DEF BatchInv, TypeOK, Slot
<1>11. saw'[k] = {m \in 1 .. (k - 1) : Ran(m)' /\ ~ConcurrencySafe(use[m])}
  <2>1. saw'[k] = {m \in Slot : Ran(m) /\ ~ConcurrencySafe(use[m])}
    BY DEF TypeOK
  <2>2. ASSUME NEW m \in Slot, Ran(m), ~ConcurrencySafe(use[m]) PROVE m \in 1 .. (k - 1)
    BY <2>2, <1>1, <1>10 DEF Slot
  <2>3. QED
    BY <2>1, <2>2, <1>7 DEF Slot
<1>12. ASSUME NEW i \in Slot, i # k, Ran(i)'
       PROVE  saw'[i] = {m \in 1 .. (i - 1) : Ran(m)' /\ ~ConcurrencySafe(use[m])}
  <2>1. Ran(i) /\ saw'[i] = saw[i]
    BY <1>7, <1>12 DEF TypeOK
  <2>2. saw[i] = {m \in 1 .. (i - 1) : Ran(m) /\ ~ConcurrencySafe(use[m])}
    BY <2>1 DEF SerialOrder
  <2>3. k \in 1 .. (i - 1) => ConcurrencySafe(use[k])
    BY <2>1, <1>10 DEF Slot
  <2>4. QED
    BY <2>1, <2>2, <2>3, <1>7 DEF Slot
<1>13. SerialOrder'
  BY <1>11, <1>12 DEF SerialOrder
<1>14. QED
  BY <1>3, <1>4, <1>5, <1>6, <1>13

-----------------------------------------------------------------------------
(* Every step of the main goroutine and of runOne keeps the invariant.     *)
LEMMA NextInd == IndInv /\ [Next]_vars => IndInv'
<1> SUFFICES ASSUME IndInv, [Next]_vars PROVE IndInv'
  OBVIOUS
<1> USE OrchestratorAssumption
<1>1. CASE RunParallel
  BY <1>1, LaunchInd DEF RunParallel
<1>2. CASE RunSerial
  <2>1. next \in next .. N
    BY <1>2 DEF RunSerial, Slot
  <2>2. QED
    BY <1>2, <2>1, LaunchInd DEF RunSerial
<1>3. CASE Join
  BY <1>3, JoinInd
<1>4. ASSUME NEW k \in Slot, RunOne(k) PROVE IndInv'
  <2> USE DEF InFlight, Outcome
  <2>1. events[k] \in EventLogs /\ events = [events EXCEPT ![k] = events[k]]
    BY DEF IndInv, TypeOK
  <2>2. CASE RejectUnknown(k)
    BY <2>1, <2>2, ReturnInd DEF RejectUnknown, Ran
  <2>3. CASE RejectInvalid(k)
    BY <2>1, <2>3, ReturnInd DEF RejectInvalid, Ran
  <2>4. CASE Check(k)
    BY <2>4, AdvanceInd DEF Check, Asks, ConcurrencySafe
  <2>5. CASE UserAnswers(k)
    BY <2>5, AdvanceInd DEF UserAnswers
  <2>6. CASE ReportDenied(k)
    <3>1. events[k] = <<>> /\ events'[k] = <<"denied">>
      <4>1. events[k] = <<>>
        BY <2>6 DEF ReportDenied, IndInv, EventInv
      <4>2. events'[k] = Append(events[k], "denied")
        BY <2>6 DEF ReportDenied, Emit, IndInv, TypeOK
      <4>3. QED
        BY <4>1, <4>2
    <3>2. Ran(k)' <=> Ran(k)
      BY <3>1 DEF Ran
    <3>3. QED
      BY <2>6, <3>1, <3>2, ReturnInd DEF ReportDenied, Emit, EventLogs
  <2>7. CASE StartCall(k)
    BY <2>7, StartInd
  <2>8. CASE EndCall(k)
    <3>1. events[k] = <<"start">> /\ events'[k] = <<"start", "end">>
      <4>1. events[k] = <<"start">>
        BY <2>8 DEF EndCall, IndInv, EventInv
      <4>2. events'[k] = Append(events[k], "end")
        BY <2>8 DEF EndCall, Emit, IndInv, TypeOK
      <4>3. QED
        BY <4>1, <4>2, AppendSecond
    <3>2. Ran(k)' /\ Ran(k)
      BY <3>1 DEF Ran
    <3>3. QED
      BY <2>8, <3>1, <3>2, ReturnInd DEF EndCall, Emit, EventLogs
  <2>9. CASE Panic(k)
    BY <2>1, <2>9, ReturnInd DEF Panic, Ran
  <2>10. QED
    BY <1>4, <2>2, <2>3, <2>4, <2>5, <2>6, <2>7, <2>8, <2>9 DEF RunOne
<1>5. CASE UNCHANGED vars
  BY <1>5 DEF vars, IndInv, TypeOK, WindowInv, BatchInv, ResultInv, EventInv,
             AskInv, SerialOrder, Ran
<1>6. QED
  BY <1>1, <1>2, <1>3, <1>4, <1>5 DEF Next, Terminated

(* The invariant holds throughout every behaviour.                         *)
LEMMA Inductive == Spec => []IndInv
BY InitInd, NextInd, PTL DEF Spec

-----------------------------------------------------------------------------
(* The variables of the orchestrator keep their types.                     *)
THEOREM TypeCorrect == Spec => []TypeOK
BY Inductive, PTL DEF IndInv

(* RunTools answers every tool_use exactly once, in order, under its id.   *)
THEOREM Pairing == Spec => []PairedInOrder
<1>1. IndInv => PairedInOrder
  BY OrchestratorAssumption
     DEF IndInv, PairedInOrder, Returned, WindowInv, ResultInv, TypeOK, Slot
<1>2. QED
  BY Inductive, <1>1, PTL

(* The batches of RunTools are serializable in the order of the message.   *)
THEOREM Serializable == Spec => []SerialOrder
BY Inductive, PTL DEF IndInv

(* A call that is not concurrency-safe has the turn to itself.             *)
THEOREM Exclusion == Spec => []ExclusiveCalls
<1>1. IndInv => ExclusiveCalls
  <2> SUFFICES ASSUME IndInv, NEW k \in Slot, NEW m \in Slot,
                      k # m, InFlight(k), InFlight(m)
               PROVE  ConcurrencySafe(use[k]) /\ ConcurrencySafe(use[m])
    BY DEF ExclusiveCalls
  <2>1. k \in next .. last /\ m \in next .. last
    BY InFlightInWindow
  <2>2. next < last
    BY <2>1 DEF IndInv, TypeOK, Slot
  <2>3. QED
    BY <2>1, <2>2 DEF IndInv, BatchInv
<1>2. QED
  BY Inductive, <1>1, PTL

-----------------------------------------------------------------------------
(* What a session lets run.                                                *)
Permitted(kind) ==
  /\ kind # "destroy"
  /\ session.mode = "review" => kind \notin {"write", "mutate"}

(* A call gets past the check, or has run, only if it is permitted.        *)
PermitInv ==
  \A k \in Slot :
    pc[k] \in {"asking", "allowed", "calling"} \/ Ran(k) => Permitted(use[k])

(* Only a permitted call gets past the check, and nothing changes its kind *)
(* or the session afterwards.                                              *)
LEMMA PermitStep == IndInv /\ PermitInv /\ [Next]_vars => PermitInv'
<1> SUFFICES ASSUME IndInv, PermitInv, [Next]_vars, NEW k \in Slot,
                    (pc[k] \in {"asking", "allowed", "calling"} \/ Ran(k))'
             PROVE  Permitted(use[k])'
  BY DEF PermitInv
<1>1. UNCHANGED <<session, use>>
  BY DEF Next, RunParallel, RunSerial, Launch, Join, Terminated, vars, RunOne,
         RejectUnknown, RejectInvalid, Check, UserAnswers, ReportDenied,
         StartCall, EndCall, Panic
<1>2. Permitted(use[k])' <=> Permitted(use[k])
  BY <1>1 DEF Permitted
<1>3. CASE pc[k] \in {"asking", "allowed", "calling"} \/ Ran(k)
  BY <1>2, <1>3 DEF PermitInv
<1>4. ASSUME NEW m \in Slot, RunOne(m),
             pc[k] \notin {"asking", "allowed", "calling"}, ~Ran(k)
      PROVE  Permitted(use[k])
  <2>1. CASE m = k /\ Check(m)
    BY <2>1, <1>4 DEF Check, Allows, Asks, Permitted, Ran, IndInv, TypeOK, Slot
  <2>2. CASE m = k /\ ReportDenied(m)
    <3>1. events[k] = <<>> /\ events' = [events EXCEPT ![k] = Append(<<>>, "denied")]
      BY <2>2 DEF ReportDenied, Emit, IndInv, EventInv
    <3>2. events'[k] = <<"denied">>
      BY <3>1 DEF IndInv, TypeOK
    <3>3. ~Ran(k)' /\ pc'[k] = "done"
      BY <2>2, <3>2 DEF Ran, ReportDenied, Return, IndInv, TypeOK
    <3>4. QED
      BY <3>3
  <2>3. CASE m = k /\ ~Check(m) /\ ~ReportDenied(m)
    BY <2>3, <1>4
       DEF RunOne, RejectUnknown, RejectInvalid, UserAnswers, StartCall, EndCall,
           Panic, Return, Ran, IndInv, TypeOK
  <2>4. CASE m # k
    <3>1. pc'[k] = pc[k] /\ events'[k] = events[k]
      BY <2>4, <1>4
         DEF RunOne, RejectUnknown, RejectInvalid, Check, UserAnswers, ReportDenied,
             StartCall, EndCall, Panic, Return, Emit, IndInv, TypeOK
    <3>2. QED
      BY <3>1, <1>4 DEF Ran
  <2>5. QED
    BY <2>1, <2>2, <2>3, <2>4
<1>5. CASE RunParallel \/ RunSerial \/ Join \/ Terminated \/ UNCHANGED vars
  BY <1>2, <1>3, <1>5
     DEF RunParallel, RunSerial, Launch, Join, Terminated, vars, Ran, IndInv, TypeOK
<1>6. QED
  BY <1>2, <1>3, <1>4, <1>5 DEF Next

(* Nothing that could change the tree starts in Review Mode, and nothing   *)
(* destructive in either mode.                                             *)
THEOREM ReadOnlyReview == Spec => []NoForbiddenCall
<1>1. Init => PermitInv
  BY DEF Init, PermitInv, Ran
<1>2. PermitInv => NoForbiddenCall
  BY DEF PermitInv, NoForbiddenCall, Permitted
<1>3. QED
  BY <1>1, <1>2, Inductive, PermitStep, PTL DEF Spec

(* No event reaches the terminal while a person is being asked.            *)
THEOREM PromptsUndisturbed == Spec => PromptUndisturbed
<1>1. IndInv /\ [Next]_vars =>
        [(\E k \in Slot : pc[k] = "asking") => events' = events]_vars
  <2> SUFFICES ASSUME IndInv, [Next]_vars, NEW k \in Slot, pc[k] = "asking"
               PROVE  events' = events
    OBVIOUS
  <2>1. InFlight(k) /\ ~ConcurrencySafe(use[k])
    BY DEF InFlight, IndInv, AskInv
  <2>2. ASSUME NEW m \in Slot, RunOne(m) PROVE events' = events
    <3>1. CASE m = k
      BY <2>2, <3>1
         DEF RunOne, RejectUnknown, RejectInvalid, Check, UserAnswers,
             ReportDenied, StartCall, EndCall, Panic
    <3>2. CASE m # k
      <4>1. ~InFlight(m)
        <5>1. SUFFICES ASSUME InFlight(m) PROVE FALSE
          OBVIOUS
        <5>2. k \in next .. last /\ m \in next .. last
          BY <2>1, <5>1, InFlightInWindow
        <5>3. next < last
          BY <3>2, <5>2 DEF IndInv, TypeOK, Slot
        <5>4. QED
          BY <2>1, <5>2, <5>3 DEF IndInv, BatchInv
      <4>2. QED
        BY <2>2, <4>1
           DEF InFlight, RunOne, RejectUnknown, RejectInvalid, Check,
               UserAnswers, ReportDenied, StartCall, EndCall, Panic
    <3>3. QED
      BY <3>1, <3>2
  <2>3. QED
    BY <2>2 DEF Next, RunParallel, RunSerial, Launch, Join, Terminated, vars
<1>2. QED
  BY Inductive, <1>1, PTL DEF Spec, PromptUndisturbed

-----------------------------------------------------------------------------
(* What the events of a call say of the outcome it reports.                *)
Shows(log, outcome) ==
  \/ log = <<"denied">> /\ outcome = "denied"
  \/ log = <<"start", "end">> /\ outcome \in {"ok", "error"}
  \/ log = <<"start">> /\ outcome = "panicked"
  \/ log = <<>> /\ outcome \in {"unknown", "invalid", "panicked"}

(* Whichever way runOne returns, its last event and its outcome agree.     *)
LEMMA ReturnShown ==
  ASSUME IndInv, NEW k \in Slot, RunOne(k), pc'[k] = "done"
  PROVE  Shows(events'[k], results'[k][2])
<1> USE DEF IndInv
<1>1. /\ pc[k] \notin {"calling", "done"} => events[k] = <<>>
      /\ pc[k] = "calling" => events[k] = <<"start">>
  BY DEF EventInv
<1>2. \A outcome : Return(k, outcome) => results'[k][2] = outcome
  BY DEF Return, TypeOK
<1>3. \A kind : Emit(k, kind) => events'[k] = Append(events[k], kind)
  BY DEF Emit, TypeOK
<1>4. CASE RejectUnknown(k) \/ RejectInvalid(k)
  BY <1>1, <1>2, <1>4 DEF RejectUnknown, RejectInvalid, Shows
<1>5. CASE ReportDenied(k)
  <2>1. events'[k] = Append(<<>>, "denied") /\ results'[k][2] = "denied"
    BY <1>1, <1>2, <1>3, <1>5 DEF ReportDenied
  <2>2. events'[k] = <<"denied">>
    BY <2>1
  <2> QED
    BY <2>1, <2>2 DEF Shows
<1>6. CASE EndCall(k)
  <2>1. events'[k] = Append(<<"start">>, "end") /\ results'[k][2] \in {"ok", "error"}
    BY <1>1, <1>2, <1>3, <1>6 DEF EndCall
  <2>2. events'[k] = <<"start", "end">>
    BY <2>1, AppendSecond
  <2> QED
    BY <2>1, <2>2 DEF Shows
<1>7. CASE Panic(k)
  BY <1>1, <1>2, <1>7 DEF Panic, Shows
<1>8. CASE Check(k) \/ UserAnswers(k) \/ StartCall(k)
  BY <1>8 DEF Check, UserAnswers, StartCall, TypeOK
<1> QED
  BY <1>4, <1>5, <1>6, <1>7, <1>8 DEF RunOne

(* The trace of a turn tells for every call what its tool_result says: a   *)
(* denial, a completed call, a panic, or nothing for a call not begun.     *)
THEOREM TraceFaithful == Spec => []TraceMatchesResults
<1> DEFINE Inv == \A k \in Slot : pc[k] = "done" => Shows(events[k], results[k][2])
<1>1. Init => Inv
  BY DEF Init
<1>2. IndInv /\ Inv /\ [Next]_vars => Inv'
  <2> SUFFICES ASSUME IndInv, Inv, [Next]_vars, NEW k \in Slot, pc'[k] = "done"
               PROVE  Shows(events'[k], results'[k][2])
    BY DEF Slot
  <2>1. CASE RunOne(k)
    BY <2>1, ReturnShown
  <2>2. ASSUME NEW m \in Slot, m # k, RunOne(m)
        PROVE  UNCHANGED <<pc[k], events[k], results[k]>>
    BY <2>2 DEF RunOne, RejectUnknown, RejectInvalid, Check, UserAnswers, ReportDenied,
                StartCall, EndCall, Panic, Return, Emit, IndInv, TypeOK
  <2>3. CASE RunParallel \/ RunSerial \/ Join \/ Terminated \/ UNCHANGED vars
    BY <2>3 DEF RunParallel, RunSerial, Launch, Join, Terminated, vars, IndInv, TypeOK
  <2> QED
    BY <2>1, <2>2, <2>3 DEF Next
<1>3. Inv => TraceMatchesResults
  BY DEF TraceMatchesResults, Shows
<1> QED
  BY <1>1, <1>2, <1>3, Inductive, PTL DEF Spec

-----------------------------------------------------------------------------
(* Every step of the orchestrator is a step of ToolTurn, or none.          *)
LEMMA StepRefines ==
  IndInv /\ IndInv' /\ [Next]_vars => [Turn!TurnNext]_Turn!turnVars
<1> SUFFICES ASSUME IndInv, IndInv', [Next]_vars
             PROVE  [Turn!TurnNext]_Turn!turnVars
  OBVIOUS
<1> USE OrchestratorAssumption DEF Turn!Slot, Slot
<1>1. ASSUME NEW j \in next .. N, Idle, Launch(j),
             j = next \/ \A k \in next .. j : ConcurrencySafe(use[k])
      PROVE  Turn!TurnNext
  <2> DEFINE S == next .. j
  <2>1. next = last + 1 /\ S \subseteq Slot /\ S # {}
    <3>1. next \in S
      BY <1>1 DEF IndInv, TypeOK
    <3>2. next = last + 1
      BY <1>1 DEF Idle, IndInv, WindowInv, TypeOK
    <3>3. S \subseteq Slot
      BY DEF IndInv, TypeOK
    <3>4. QED
      BY <3>1, <3>2, <3>3
  <2>2. \A k \in S : pc[k] = "idle" /\ pc'[k] = "resolve"
    BY <1>1, <2>1 DEF Launch, IndInv, WindowInv, TypeOK
  <2>3. \A k \in Slot \ S : pc'[k] = pc[k]
    BY <1>1 DEF Launch
  <2>4. \A m \in Slot : m < next => pc[m] = "done"
    BY DEF IndInv, WindowInv
  <2>5. \A k \in S : \A m \in 1 .. (k - 1) :
          \/ ConcurrencySafe(use[k]) /\ ConcurrencySafe(use[m])
          \/ pc[m] = "done"
    BY <1>1, <2>1, <2>4 DEF IndInv, TypeOK
  <2>6. Turn!Begin(S)
    <3>1. S \cap ({k \in Slot : InFlight(k)} \cup {k \in Slot : pc[k] = "done"}) = {}
      BY <2>2 DEF InFlight
    <3>2. \A k \in S : \A m \in 1 .. (k - 1) :
            \/ Turn!Commute(k, m)
            \/ m \in {i \in Slot : pc[i] = "done"}
      BY <2>1, <2>5 DEF Turn!Commute, IndInv, TypeOK
    <3>3. {k \in Slot : InFlight(k)}' = {k \in Slot : InFlight(k)} \cup S
      BY <2>1, <2>2, <2>3 DEF InFlight
    <3>4. UNCHANGED <<{k \in Slot : ConcurrencySafe(use[k])}, {k \in Slot : pc[k] = "done"}>>
      BY <1>1, <2>1, <2>2, <2>3 DEF Launch
    <3> HIDE DEF S
    <3>5. QED
      BY <2>1, <3>1, <3>2, <3>3, <3>4 DEF Turn!Begin
  <2>7. QED
    BY <2>1, <2>6 DEF Turn!TurnNext
<1>2. ASSUME NEW k \in Slot, NEW outcome \in Outcome, InFlight(k),
             Return(k, outcome), UNCHANGED use
      PROVE  Turn!TurnNext
  <2>1. Turn!Answer(k)
    BY <1>2 DEF Turn!Answer, Return, InFlight, IndInv, TypeOK
  <2>2. QED
    BY <2>1 DEF Turn!TurnNext
<1>3. ASSUME NEW k \in Slot, NEW q \in PcValues \ {"idle", "done"}, InFlight(k),
             pc' = [pc EXCEPT ![k] = q], UNCHANGED use
      PROVE  UNCHANGED Turn!turnVars
  BY <1>3 DEF Turn!turnVars, InFlight, IndInv, TypeOK
<1>4. CASE RunParallel
  BY <1>1, <1>4 DEF RunParallel
<1>5. CASE RunSerial
  BY <1>1, <1>5 DEF RunSerial
<1>6. CASE Join \/ UNCHANGED vars
  BY <1>6 DEF Join, vars, Turn!turnVars, InFlight
<1>7. ASSUME NEW k \in Slot, RunOne(k)
      PROVE  Turn!TurnNext \/ UNCHANGED Turn!turnVars
  <2>1. CASE RejectUnknown(k) \/ RejectInvalid(k) \/ ReportDenied(k) \/ EndCall(k) \/ Panic(k)
    BY <1>2, <2>1
       DEF RejectUnknown, RejectInvalid, ReportDenied, EndCall, Panic, InFlight, Outcome
  <2>2. CASE Check(k) \/ UserAnswers(k) \/ StartCall(k)
    BY <1>3, <2>2 DEF Check, UserAnswers, StartCall, InFlight, PcValues
  <2>3. QED
    BY <1>7, <2>1, <2>2 DEF RunOne
<1>8. QED
  BY <1>4, <1>5, <1>6, <1>7 DEF Next, Terminated

(* The orchestrator implements the promise of ToolTurn.                    *)
THEOREM Refinement == Spec => ImplementsTurn
<1>1. Init => Turn!TurnInit
  BY DEF Init, Turn!TurnInit, InFlight, Turn!Slot, Slot
<1>2. QED
  BY Inductive, <1>1, StepRefines, PTL DEF Spec, ImplementsTurn, Turn!TurnSpec
=============================================================================
