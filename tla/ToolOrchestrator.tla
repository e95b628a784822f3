-------------------------- MODULE ToolOrchestrator --------------------------
(***************************************************************************)
(* The orchestrator of internal/agent/orchestrator.go: it executes the     *)
(* tool_use blocks of one assistant turn, grouping consecutive             *)
(* concurrency-safe calls into a parallel batch and running every other    *)
(* call alone, and it returns one tool_result per tool_use in order.       *)
(*                                                                         *)
(* Slot k is the k-th tool_use of the turn.  The main goroutine owns next  *)
(* and last; each runOne owns pc[k], results[k] and events[k].             *)
(***************************************************************************)
EXTENDS Naturals, Sequences

CONSTANT N  \* number of tool_use blocks in the assistant message

ASSUME OrchestratorAssumption == N \in Nat

(* How the run was started: its mode, the --yes flag, and whether there is *)
(* a terminal to ask, which interactiveAsker does not look for with --yes. *)
Session ==
  {s \in [mode : {"review", "fix"}, autoApprove : BOOLEAN, hasAsker : BOOLEAN] :
     ~(s.autoApprove /\ s.hasAsker)}

Slot == 1 .. N

(* What a tool_use block asks for, as far as scheduling and permissions    *)
(* can tell: read_file, grep, glob and get_file_diff are "read";           *)
(* run_command is "verify", "mutate" or "destroy" by the class of its      *)
(* command; edit_file and write_file are "write"; the finalizers "report"; *)
(* "unknown" is a name that no mode registers.                             *)
Kind == {"read", "verify", "mutate", "destroy", "write", "report", "unknown"}

Outcome == {"unknown", "invalid", "denied", "panicked", "error", "ok"}

VARIABLES
  session,  \* how the run was started
  use,      \* the assistant's tool_use blocks: [Slot -> Kind]
  next,     \* first slot not yet answered by the main goroutine (i in RunTools)
  last,     \* last slot of the batch in flight (j - 1); next - 1 when none is
  pc,       \* where runOne stands for each slot
  results,  \* the tool_result blocks: <<>> until filled, then <<id, outcome>>
  events,   \* the runtime events emitted for each slot
  saw       \* history: the exclusive calls that had run when slot k's call began

vars == <<session, use, next, last, pc, results, events, saw>>

-----------------------------------------------------------------------------
(* Facts about a tool_use that the code computes from the tool and input.  *)

(* VisibleTools hides the writers in Review Mode, so they are unknown.     *)
Registered(kind) ==
  /\ kind # "unknown"
  /\ kind = "write" => session.mode = "fix"

ConcurrencySafe(kind) == kind \in {"read", "verify"}

(* Engine.Check, as the decisions it can reach for some input of the kind: *)
(* the path of a reader or a writer may lie outside the working directory. *)
Allows(kind) ==
  \/ kind \in {"read", "verify", "report"}
  \/ kind = "write" /\ session.mode = "fix"
  \/ kind = "mutate" /\ session.mode = "fix" /\ session.autoApprove

(* Mutant of Asks: a mutating command is put to the user in Review Mode    *)
(* too.                                                                    *)
AsksInReview(kind) == kind = "mutate" /\ ~session.autoApprove /\ session.hasAsker

Asks(kind) ==
  kind = "mutate" /\ session.mode = "fix" /\ ~session.autoApprove /\ session.hasAsker

Denies(kind) ==
  \/ kind \in {"read", "write", "destroy"}
  \/ kind = "mutate" /\ (session.mode = "review" \/ ~(session.autoApprove \/ session.hasAsker))

-----------------------------------------------------------------------------
Init ==
  /\ session \in Session
  /\ use \in [Slot -> Kind]
  /\ next = 1
  /\ last = 0
  /\ pc = [k \in Slot |-> "idle"]
  /\ results = [k \in Slot |-> <<>>]
  /\ events = [k \in Slot |-> <<>>]
  /\ saw = [k \in Slot |-> {}]

(* The slots whose tool body has been entered, and may have had effects.   *)
Ran(k) == "start" \in {events[k][e] : e \in DOMAIN events[k]}

InFlight(k) == pc[k] \notin {"idle", "done"}

(* Mutant of Return: the tool_result takes its id from a loop variable     *)
(* that has moved on.                                                      *)
ReturnLoopVariable(k, outcome) ==
  /\ pc' = [pc EXCEPT ![k] = "done"]
  /\ results' = [results EXCEPT ![k] = <<last, outcome>>]

(* runOne returns: its tool_result carries the id of its own tool_use.     *)
Return(k, outcome) ==
  /\ pc' = [pc EXCEPT ![k] = "done"]
  /\ results' = [results EXCEPT ![k] = <<k, outcome>>]

Emit(k, kind) == events' = [events EXCEPT ![k] = Append(@, kind)]

-----------------------------------------------------------------------------
(* Main goroutine: RunTools.                                               *)

Idle == last < next

(* Start runOne on the slots next..j, in goroutines of their own or, for a *)
(* single unsafe call, in the main goroutine.                              *)
Launch(j) ==
  /\ last' = j
  /\ pc' = [k \in Slot |-> IF k \in next .. j THEN "resolve" ELSE pc[k]]
  /\ UNCHANGED <<session, use, next, results, events, saw>>

(* Mutant of RunParallel: the batch takes in the call that ends it.        *)
RunParallelOneTooMany ==
  /\ Idle
  /\ next \in Slot /\ ConcurrencySafe(use[next])
  /\ \E j \in next .. N :
       /\ \A k \in next .. (j - 1) : ConcurrencySafe(use[k])
       /\ j < N => ~ConcurrencySafe(use[j])
       /\ Launch(j)

(* The longest run of concurrency-safe calls starting at next.             *)
RunParallel ==
  /\ Idle
  /\ \E j \in next .. N :
       /\ \A k \in next .. j : ConcurrencySafe(use[k])
       /\ j < N => ~ConcurrencySafe(use[j + 1])
       /\ Launch(j)

RunSerial ==
  /\ Idle
  /\ next \in Slot
  /\ ~ConcurrencySafe(use[next])
  /\ Launch(next)

(* Mutant of Join: the main goroutine does not wait for the batch.         *)
JoinNoWait ==
  /\ ~Idle
  /\ next' = last + 1
  /\ UNCHANGED <<session, use, last, pc, results, events, saw>>

(* Mutant of Join: the scan resumes at the last call of the batch.         *)
JoinOffByOne ==
  /\ ~Idle
  /\ \A k \in next .. last : pc[k] = "done"
  /\ next' = last
  /\ UNCHANGED <<session, use, last, pc, results, events, saw>>

(* wg.Wait returns, or the serial runOne does, and the scan moves on.      *)
Join ==
  /\ ~Idle
  /\ \A k \in next .. last : pc[k] = "done"
  /\ next' = last + 1
  /\ UNCHANGED <<session, use, last, pc, results, events, saw>>

-----------------------------------------------------------------------------
(* runOne for slot k.                                                      *)

RejectUnknown(k) ==
  /\ pc[k] = "resolve"
  /\ ~Registered(use[k])
  /\ Return(k, "unknown")
  /\ UNCHANGED <<session, use, next, last, events, saw>>

RejectInvalid(k) ==
  /\ pc[k] = "resolve"
  /\ Registered(use[k])
  /\ Return(k, "invalid")
  /\ UNCHANGED <<session, use, next, last, events, saw>>

(* Validate accepts the input and Engine.Check decides, or has to ask.     *)
Check(k) ==
  /\ pc[k] = "resolve"
  /\ Registered(use[k])
  /\ \/ Allows(use[k]) /\ pc' = [pc EXCEPT ![k] = "allowed"]
     \/ Asks(use[k])   /\ pc' = [pc EXCEPT ![k] = "asking"]
     \/ Denies(use[k]) /\ pc' = [pc EXCEPT ![k] = "refused"]
  /\ UNCHANGED <<session, use, next, last, results, events, saw>>

(* The person at the terminal answers the prompt of the Asker.             *)
UserAnswers(k) ==
  /\ pc[k] = "asking"
  /\ \E answer \in {"allowed", "refused"} : pc' = [pc EXCEPT ![k] = answer]
  /\ UNCHANGED <<session, use, next, last, results, events, saw>>

(* Mutant of ReportDenied: a denial is traced as the end of a call.        *)
ReportDeniedAsEnd(k) ==
  /\ pc[k] = "refused"
  /\ Emit(k, "end")
  /\ Return(k, "denied")
  /\ UNCHANGED <<session, use, next, last, saw>>

ReportDenied(k) ==
  /\ pc[k] = "refused"
  /\ Emit(k, "denied")
  /\ Return(k, "denied")
  /\ UNCHANGED <<session, use, next, last, saw>>

(* EvToolStart is emitted and the tool body is entered.                    *)
StartCall(k) ==
  /\ pc[k] = "allowed"
  /\ Emit(k, "start")
  /\ pc' = [pc EXCEPT ![k] = "calling"]
  /\ saw' = [saw EXCEPT ![k] = {m \in Slot : Ran(m) /\ ~ConcurrencySafe(use[m])}]
  /\ UNCHANGED <<session, use, next, last, results>>

(* Mutant of EndCall: a call that fails emits no EvToolEnd.                *)
EndCallQuietOnError(k) ==
  /\ pc[k] = "calling"
  /\ \/ Emit(k, "end") /\ Return(k, "ok")
     \/ Return(k, "error") /\ UNCHANGED events
  /\ UNCHANGED <<session, use, next, last, saw>>

(* t.Call returns a result or an error; EvToolEnd is emitted.              *)
EndCall(k) ==
  /\ pc[k] = "calling"
  /\ Emit(k, "end")
  /\ \E outcome \in {"ok", "error"} : Return(k, outcome)
  /\ UNCHANGED <<session, use, next, last, saw>>

(* Validate, Check or Call panics: the deferred recover answers in its     *)
(* place, and no EvToolEnd is emitted.                                     *)
Panic(k) ==
  /\ pc[k] = "calling" \/ (pc[k] = "resolve" /\ Registered(use[k]))
  /\ Return(k, "panicked")
  /\ UNCHANGED <<session, use, next, last, events, saw>>

-----------------------------------------------------------------------------
RunOne(k) ==
  \/ RejectUnknown(k) \/ RejectInvalid(k) \/ Check(k) \/ UserAnswers(k)
  \/ ReportDenied(k) \/ StartCall(k) \/ EndCall(k) \/ Panic(k)

Returned == next = N + 1 /\ Idle

Terminated == Returned /\ UNCHANGED vars

Next ==
  \/ RunParallel \/ RunSerial \/ Join
  \/ \E k \in Slot : RunOne(k)
  \/ Terminated

(* Go schedules every runnable goroutine; a tool call returns because      *)
(* file tools are finite and run_command carries a timeout; a prompt is    *)
(* answered (end of input counts as no).                                   *)
Fairness ==
  /\ WF_vars(RunParallel \/ RunSerial \/ Join)
  /\ \A k \in Slot : WF_vars(RunOne(k))

Spec == Init /\ [][Next]_vars

FairSpec == Spec /\ Fairness

-----------------------------------------------------------------------------
PcValues == {"idle", "resolve", "asking", "allowed", "refused", "calling", "done"}

EventLogs == {<<>>, <<"denied">>, <<"start">>, <<"start", "end">>}

(* Every variable stays in its type.                                       *)
TypeOK ==
  /\ session \in Session
  /\ use \in [Slot -> Kind]
  /\ next \in 1 .. (N + 1)
  /\ last \in 0 .. N
  /\ pc \in [Slot -> PcValues]
  /\ results \in [Slot -> {<<>>} \cup (Slot \X Outcome)]
  /\ events \in [Slot -> EventLogs]
  /\ saw \in [Slot -> SUBSET Slot]

(* RunTools returns exactly one tool_result per tool_use, in the original  *)
(* order and under its own id, whatever each call did ("every tool_use     *)
(* gets exactly one paired tool_result, even on unknown tool, validation   *)
(* failure, permission denial, tool error, or panic").                     *)
PairedInOrder ==
  Returned => \A k \in Slot : results[k] # <<>> /\ results[k][1] = k

(* The turn has the effect of running its calls one after another in the   *)
(* order the model wrote them: when a tool body is entered, the mutating   *)
(* and reporting calls that have run are exactly those written before it.  *)
SerialOrder ==
  \A k \in Slot :
    Ran(k) => saw[k] = {m \in 1 .. (k - 1) : Ran(m) /\ ~ConcurrencySafe(use[m])}

(* While a call that is not concurrency-safe is being handled, no other    *)
(* call of the turn is: in particular a prompt on the terminal is the only *)
(* one, and no parallel call reads a file that is being edited.            *)
ExclusiveCalls ==
  \A k, m \in Slot :
    k # m /\ InFlight(k) /\ InFlight(m) =>
      ConcurrencySafe(use[k]) /\ ConcurrencySafe(use[m])

(* No runtime event reaches the terminal while a person is being asked to  *)
(* approve a command: the answer typed belongs to the prompt shown last.   *)
PromptUndisturbed ==
  [][(\E k \in Slot : pc[k] = "asking") => events' = events]_vars

(* The trace shows for every call what its tool_result says: a denial, a   *)
(* completed call, or nothing for a call that never started; a start with  *)
(* no end is left only by a tool that panicked.                            *)
TraceMatchesResults ==
  \A k \in Slot :
    LET outcome == results[k][2]
    IN  pc[k] = "done" =>
          \/ events[k] = <<"denied">> /\ outcome = "denied"
          \/ events[k] = <<"start", "end">> /\ outcome \in {"ok", "error"}
          \/ events[k] = <<"start">> /\ outcome = "panicked"
          \/ events[k] = <<>> /\ outcome \in {"unknown", "invalid", "panicked"}

(* In Review Mode no call that could change the tree starts, and in either *)
(* mode no destructive command does.                                       *)
NoForbiddenCall ==
  \A k \in Slot :
    Ran(k) => /\ use[k] # "destroy"
              /\ session.mode = "review" => use[k] \notin {"write", "mutate"}

(* Every turn is answered: the batches never wait for one another.         *)
TurnCompletes == <>Returned

-----------------------------------------------------------------------------
Turn == INSTANCE ToolTurn WITH
          safe <- {k \in Slot : ConcurrencySafe(use[k])},
          active <- {k \in Slot : InFlight(k)},
          answered <- {k \in Slot : pc[k] = "done"}

(* The batching of RunTools implements the promise of ToolTurn.            *)
ImplementsTurn == Turn!TurnSpec
=============================================================================
